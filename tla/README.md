# A TLA+ model of karpenter-provider-hetzner

This directory models the Hetzner Cloud provider for Karpenter: what its
nodeclass controller publishes, how its instance type catalogue is cached, how a
NodeClaim becomes a server, how servers and placement groups live and die in a
shared Hetzner project, and when a node is replaced. TLC checks the models on
small instances; TLAPS proves every safety property that a passing run checks, of
all the models, for every instance.

Source paths below are relative to `pkg/` of the repository.

## The system

| Part | Code | State | Operations |
|---|---|---|---|
| NodeClass controller | `controllers/nodeclass`, `apis/v1` | status of the HCloudNodeClass: conditions, resolved images | `Reconcile` (validate, resolve images, merge, update, requeue) |
| Image family provider | `providers/imagefamily` | none | `Resolve`: an image, a permanent error or a transient one |
| Instance type provider | `providers/instancetype` | cached catalogue with expiry, refresh lock, capacity marks | `List`, `MarkUnavailable` |
| Cloud provider | `cloudprovider` | none of its own | `GetInstanceTypes`, `Create`, `Delete`, `Get`, `List`, `IsDrifted`, `RepairPolicies` |
| Instance provider | `providers/instance` | none of its own; servers and placement groups in hcloud | `Create`, `Delete`, `Get`, `List` |
| Operator | `operator`, `cmd/controller` | configuration | wiring, HTTP timeouts |

They interact through three shared things. The *status of the NodeClass* is
written by the controller and read, through an informer cache that may lag, by
`Create` and `GetInstanceTypes`. The *catalogue and the marks* of the instance
type provider are read by every `List` and written by refreshes and by refused
creates. The *Hetzner project* is shared with operators and with other clusters.
Karpenter core calls all of it: its scheduler reads `GetInstanceTypes` and makes
NodeClaims, its lifecycle controller calls `Create` until a provider ID comes
back and `Delete` until it hears `NodeClaimNotFound`, its drift controller calls
`IsDrifted` again and again and disruption replaces what has drifted, its node
repair (behind the NodeRepair feature gate) follows `RepairPolicies`, and its
garbage collection deletes NodeClaims whose server `List` does not return.

What is hard here: status computed from an old copy of the object; one of two
image lookups failing; status that answers a spec since edited; a burst of cache
misses, a hung or failing fetch; a choice made on prices, marks and images that
change while it is being made; retries of hcloud calls whose answer was lost;
asynchronous deletion; two clusters in one project; drift decided on an old copy
of the NodeClass, or for a difference no replacement mends. `PROJECT.json` lists these
hazards at their lines with the properties that would catch them.

## Modules

| Module | Models | Checked by | Proofs |
|---|---|---|---|
| `NodeClass` | `Reconcile`, the conditions, `CurrentResolvedImages`, the image side of `Create` | `MCNodeClass` | `NodeClassProofs` |
| `InstanceTypeCache` | `Provider.List` with its two locks and TTLs, the unavailable cache | `MCInstanceTypeCache` | `InstanceTypeCacheProofs` |
| `Launch` | `GetInstanceTypes`, `CloudProvider.Create`, what `List` computes, price and location handling | `MCLaunch` | `LaunchProofs`, `LaunchRefinementProofs` |
| `Choice` | abstract: what `Create` promises core; `Launch` implements it | `MCLaunch` | `LaunchRefinementProofs` |
| `Instance` | `Provider.Create/Delete/List` of the instance provider, placement groups, labels | `MCInstance` | `InstanceProofs` |
| `ImageFamily` | `imagefamily.Provider.Resolve`, and a reference definition of a right answer | `MCDrift` | `ImageFamilyProofs` |
| `Drift` | `IsDrifted`, `RepairPolicies`, what `Create` gives the server and records of it | `MCDrift` | `DriftProofs` |

In every module the definitions whose comment starts with "Fault:" are plausible
mistakes in the definition after them. No specification uses them; they show, by
taking that definition's place, that each property can fail.

### NodeClass

`obj` is the object in the API server, `cache` the informer's copy, `nc` and
`stored` the two copies a pass works on. A pass is six or seven steps: three
validations (`ValidateNetwork`, `ValidateResources`, `ValidateUserData`), one
lookup per architecture (`ResolveArch`), and the merge with the status update
(`UpdateStatus`, `NothingToUpdate`, `UpdateConflict`, `UpdateFails`). Between any
two of them the spec may be edited (`EditSpec`, a new generation), somebody may
write metadata (`TouchMetadata`, a new resourceVersion only), the catalogue and
the references may change, hcloud may become unreadable or readable again, and
the process may restart. `ncFresh` says nobody wrote the object since the version
the pass copied, which is what the API server's optimistic concurrency tests.

The condition library is external but its behaviour matters and is kept:
`StatusConditions` initialises an absent dependent to Unknown and stamps it with
the current generation, `SetCondition` stamps and recomputes `Ready`. Of the
stamps only that of ImagesReady is ever read back, so it is the only one kept.

A lookup's outcome is an image of the selector and architecture asked for, a
definitive miss (nothing matches, an unsupported family, or hcloud's filter gave
an image of the other architecture, which both callers turn into an error that is
not transient) or a transient one. Which of several matching images comes back is
left open, so everything shown holds for any choice, the first system image and
the newest snapshot included.

`Create` appears with its image gate and `resolveImage`; both work on the one copy
`resolveNodeClass` returned.

Abstractions: condition reasons, messages and transition times are dropped, so a
write that changes only a message is missing. `Status().Update` changing nothing
tracked would be no different from `TouchMetadata`. An outage hits all hcloud and
Secret reads of a validation together.

### InstanceTypeCache

Each critical section is one action; the hcloud call is two, so others move while
it is under way. The catalogue is a version number that grows when hcloud changes
it. `cached`, `cachedAt`, `expiry`, `refreshMu` are the fields of `Provider`,
`items` the map of `unavailableCache`. `applyAvailability` takes one action per
offering, because each `isUnavailable` takes and releases its own lock and reads
the clock. `ListReturn` is the deferred unlock.

### Launch

`Schedule` is core's scheduler: it makes a claim only where `GetInstanceTypes`
shows an available offering for it. `Create` is then followed step by step:
`ResolveNodeClass`, `ListTypes`, the min-scan as a loop over positions
(`SkipIncompatible`, `SkipImageless`, `SkipUnavailable`, `Rank`), the two errors
of an empty scan (`NothingSelected`), `ResolveImage` (with the user data),
and `Launched`, `Refused` or `CreateFails`. `Refused` is the moment of the mark:
the refusal before it changes nothing others can see, so a claim made between the
two is one made before this step, which may ask for the pair again.
`NoDoomedRetry` therefore speaks of claims made after the mark.

`ResolveImage` may end in `imageLost`, the NodeClassNotReady error of a live lookup
that finds no image. `NoFutileClaims` says when a claim whose catalogue, marks and
NodeClass have not changed since it was scheduled is turned down for its NodeClass:
only there, and only if the NodeClass had published no image at all, so that
neither `GetInstanceTypes` nor the gate of `Create` could tell.

Slices are functions on sets of positions, so filters keep the order. Prices are
integers in 1/730 of the hourly unit: `monthly/730` is then exact, where the code
uses `float64`; two prices that differ by a rounding error only are therefore
equal here and may not be in the code. `List` is one step, since
InstanceTypeCache shows what a call of it sees; a restart that forgets the marks
is not modelled here.

`call[w].steady` and `call[w].barred` are history variables: whether anything has
changed since the claim was scheduled, and which pairs were marked before that.

### Choice

What core may rely on, without loops, filters or rankings: a request reads the
NodeClass and the catalogue, is answered in one step with a best offer or with
the reason there is none, and a refusal marks the offer chosen and nothing else.
Offers are defined on hcloud's catalogue directly. `Launch!Abstract` maps a call
to a request: the scan is the phase "choose", what it has collected is hidden,
and its last step is the choice. `ImplementsChoice` says every behaviour of
`Launch` is one of `Choice`.

### Instance

Every hcloud call of `create` and `delete` is an action. A failed call
(`CallFails`), an answer that was lost after the effect (`GroupAnswerLost`,
`CreateAnswerLost`) and a restart send the NodeClaim back to core, which calls
again. Names are sequences of words, so that joining with hyphens forgets where
one name ends. A server keeps its name until it is gone. The provider ID is the
server's ID: formatting and parsing are inverse on the integers hcloud hands out.
NodeClaim names are taken to be unique in the project.

A NodeClaim deleted while `Create` runs is seen by core after `Create` returns,
so `DeleteClaim` waits for that.

A server whose create answer was lost, or whose wait failed, has no NodeClaim
with its provider ID, and the retry is refused for its name until core gives the
NodeClaim up. Nothing deletes that server then: `Delete` is called for NodeClaims
with a provider ID, and core's garbage collection deletes NodeClaims without a
server, not servers without a NodeClaim. The runs show that this is the only way
to such a server (`NoStrays`), that there is at most one per NodeClaim
(`OneServerPerClaim`) and that the listing still shows it to its own cluster
(`ListedByOwnCluster`).

### ImageFamily and Drift

`ImageFamily` computes `Resolve` on a listing: hcloud's filters, the tests of the
description, the first system image (`First`), the newest snapshot (`Scan`, the
loop as a function of how many images it has seen). What hcloud's filters let
through is a set of positions, so the listing's order is kept. `RightAnswer` says
without a scan what an answer of this code must be (of Talos the newest, of Ubuntu
the first listed), and `LookupsRight` compares the two for every selector and
listing a run reaches. That the first Ubuntu listed need not be the newest, which
the docs promise, is run `drift_newest`. `NoServer` is a server of no type.

`Drift` follows the NodeClaims of one NodeClass. `ReadNodeClass` and
`CreateServer` are the two ends of a `Create` call, `CheckStart` and `CheckEnd`
those of an `IsDrifted` call: the spec may be edited in between. hcloud's answer to
the create call may show the server's image or none; with none nothing is recorded
and the image is never compared. `Drifts` is the
six comparisons, `Answer` the first that applies. A drifted node, one that
`RepairPolicies` covers, and one whose server `List` no longer returns are
replaced; the replacement takes the place (`Claims`) of its predecessor. Servers
are changed with the console (`Damage`, `Adorn`), nodes stop reporting, images
are published, withdrawn or listed in another order.

`cause` (what happened to a NodeClaim since its Create read the NodeClass) and
`replaced` are history variables. Which type and location are chosen is left open
among those the copy allows, and the image is looked up live: which entry of the
status is used is NodeClass's subject. A toleration is a number the model carries
and does not time: a status that lasts is repaired in the end.

## Runs

| Run | Shows | Bounds |
|---|---|---|
| `nodeclass_status` | published entries answer the current spec (`StatusAnswersSpec`), Ready stands for four True conditions and an image (`ReadyMeansLaunchable`), nothing is cleared without evidence (`NoBlipClears`), no pass over a superseded spec is written (`NoStaleStatus`), the image launched answers the spec the call read (`LaunchAnswersSpec`), gate and launch use one source (`GateAndLaunchAgree`) | two selectors, three images, a network and a firewall, one Create call repeated, one edit, one change or fault |
| `nodeclass_converge` | `StatusConverges` | two selectors, one of an unsupported family, one edit, two changes or faults, any order |
| `nodeclass_blip` | violation of `NotReadyIsEvidence` (below) | one selector, one fault |
| `cache_refresh` | one fetch at a time (`NoRedundantFetch`), no catalogue older than one already returned (`NoRegression`), hits within the TTL (`HitsAreFresh`), live availability (`AvailabilityIsLive`), and under fairness every call returns, whatever fails (`ListReturns`) | two callers, one offering, two catalogue versions, three instants, a cache TTL of one tick and a mark of two |
| `launch_choice` | `CheapestLaunch`, `BlameIsFair`, what the scheduler was shown is turned down only for want of a first image (`NoFutileClaims`), a type that can still be run stays listed (`RunningNodesListed`), the refinement `ImplementsChoice` | one call repeated, two price lists, six NodeClasses, three claims, one refusal at a time |
| `launch_race` | `Reproducible`, `NoDoomedRetry` | two calls, one price list in two orders, two refusals |
| `instance_lifecycle` | `FinalizedMeansGone`, `OneServerPerClaim`, `NoStrays`, `ListedByOwnCluster`, `PoolSharesGroup`, `SamePoolApart`, and `ClaimsFinalized` under fairness | three NodeClaims of two clusters, three servers, two faults |
| `instance_groups` | violation of `GroupsScopedToCluster` (below) | two NodeClaims, no fault |
| `drift` | no drift without a cause (`NoCauselessDrift`), one replacement per cause (`ReplacementsBounded`), right lookups (`LookupsRight`), and `Settles` under fairness | one NodeClaim and its replacements, four specs that differ in every compared field, three listings of seven images, two edits, one change by hand or node failure, one failed call or change of images |
| `drift_labels` | violation of `ManagementLabelsPermitted` (below) | one spec, nothing else changes |
| `drift_image` | violation of `ImagesFollowSelector` (below) | two specs that differ in the version of the image selector, one edit |
| `drift_newest` | violation of `NewestByDefault` (below) | one spec, one listing, nothing changes |

Why the bounds are enough to be interesting: one edit, and a fault or two, make a
lagging copy, a conflict, a blip in one of two lookups and a restart meet in one
pass; two callers make every order of miss, wait, fetch and store, and ticks end
the catalogue's lease and a mark between any two steps (one offering is enough,
since each is overlaid by itself; the theorems hold for any number of callers and
offerings and any TTLs); two refusals let each of two calls
mark what the other chose; two faults make a lost answer, its retry and a console
deletion meet; two edits let a spec be changed and changed back under one Create
or IsDrifted call, with a change to the server in between (NodeClaims of a
NodeClass do not affect each other's drift, so one is enough). Create calls are interchangeable, so
`launch_race`, which has two of them and no liveness property, uses symmetry. `instance_*` switch the deadlock check
off: when every NodeClaim is finalized and the faults are spent, nothing is left
to do.

### Fairness

- `NodeClass!FairSpec`: the work queue keeps running passes (the five-minute
  `RequeueAfter`, watches and retries of errors), their requests end (the
  HTTP client has a timeout), the watch delivers, and outages end. Edits, changes
  and faults are bounded, so "once they stop" is every behaviour's end.
- `InstanceTypeCache!FairSpec`: goroutines are scheduled, an hcloud call ends with
  an answer or an error (`newHTTPClient` sets `Timeout`), and a waiter gets
  `refreshMu` in the end (Go's mutex hands over to a starving waiter, hence strong
  fairness).
- `Instance!FairSpec`: core requeues a deleted NodeClaim until it is finalized,
  and hcloud finishes deletions. Nothing is assumed of `Create`.
- `Drift!FairSpec`: core calls `Create` until it returns a server, checks each
  NodeClaim for drift again and again, disrupts, repairs and collects, and a node
  without a server stops reporting. Repair needs core's NodeRepair feature gate,
  which is off by default: without it `Settles` holds only where no node fails
  for good. Edits, changes and faults are bounded. `Settles` further assumes, in
  its statement, that every server type has an image from some point on.

## What the runs found

1. **A lookup that could not be read counts as a missing image, if it is the
   first.** In the first pass over a spec, one lookup may succeed and the other
   fail transiently. `Reconcile` has no previous entry to carry, publishes the
   one image with ImagesReady=True, and `hasResolvedImage` reads the other
   architecture's absence as "no image". `Create` then answers
   `NodeClassNotReady` and core deletes the claim, which is what the comment on
   the merge says must not follow from an unreadable catalogue. The next resync
   mends it.
2. **Placement group names of different clusters can collide.** The name joins
   cluster and pool with a hyphen, which both may contain: `prod` with pool
   `eu-spot` and `prod-eu` with pool `spot` share `karpenter-prod-eu-spot`. For
   equal pool names, the case the comment names, they do not (`SamePoolApart`).
3. **A label with one of karpenter's own keys makes every node drift.** `create`
   overwrites `spec.labels` with the management labels, `IsDrifted` demands the
   value of `spec.labels`. A NodeClass label with the key of a management label
   makes each server drifted from the start, and its replacement too. The comment
   there says management labels "do not count as drift". For all other labels
   `NoCauselessDrift` and `ReplacementsBounded` hold.
4. **Editing the image selector replaces nothing.** The README says image drift
   triggers node replacement; `IsDrifted` compares the server's image with the ID
   recorded at its own launch, so it sees a rebuilt server and never a changed
   selector or a newer image. In the run a node is launched from an unpinned
   selector with Talos 1.1, the newest snapshot, the selector is pinned to 1.10,
   and the node keeps 1.1 for good.
5. **Ubuntu without a version is not the newest Ubuntu.** The README gives "newest"
   as the default of `imageSelector.version`, and the example NodeClasses say "omit
   to always get the newest". `resolveTalos` compares creation times;
   `resolveUbuntu` takes the first image hcloud lists, and asks for no order. With
   22.04 listed before 24.04, 22.04 is launched.

Seen while modelling, without a run: the comment on `List` says a burst of
concurrent misses makes one API call rather than one per caller. That is so when
the call succeeds (`NoRedundantFetch`); a failed refresh leaves nothing for those
who wait, so each of them asks hcloud again in its turn, and the last waits a
client timeout for each of the others.

Also seen while modelling, without a run: the carry-forward gate of `Reconcile` reads
the ImagesReady condition after `StatusConditions()` has initialised it, so it
never sees the absent condition that `ResolvedImagesGeneration` is written to
treat as zero. The controller always writes condition and entries together, so
only an object written by something else could be affected.

## Proofs

The proof modules follow one pattern: an inductive invariant `IInv`, a
lemma that `Init` establishes it, one lemma per action (or family of actions)
that it is kept, `NextKeeps`, the theorem `Invariance`, and each property as a
consequence. The only assumptions are the named `ConstantsAssumption` of each
module: types of the constants, sentinels that are not values, in Launch
that hcloud's server type names are unique, and in Drift that a listing is a
sequence of images with creation times. The bounds are arbitrary naturals. Two
theorems have a hypothesis of their own, `OwnKeysOnly`, explained below.

- **NodeClassProofs** proves `TypeOK`, `StatusAnswersSpec`, `LaunchAnswersSpec`,
  `GateAndLaunchAgree`, `ReadyMeansLaunchable`, and the action properties
  `NoStaleStatus` and `NoBlipClears`. `StatusAnswersSpec` speaks of the stored object only, and is not
  inductive: a pass works on copies. The invariant says of *every* copy that it
  is `Sound` (entries stamped with its generation answer its selector, and an
  absent ImagesReady goes with no entries at all, which is what makes the
  initialisation by `StatusConditions` harmless), that the answers of the pass in
  flight are for the selector of its copy (`PassInv`), and that an unconflicted
  copy agrees with the object on generation, selector and entries (`FreshInv`).
  `ReadyMeansLaunchable` is inductive beside it: only a pass's write and a spec
  edit touch the object, and the merge recomputes Ready last.
- **InstanceTypeCacheProofs** proves `TypeOK`, `NoRedundantFetch`,
  `NoRegression`, `HitsAreFresh` and `AvailabilityIsLive` for any number of
  callers. The heart of `CallInv` is that whoever is between the second look and
  the store holds `refreshMu`, so the cache stays expired while it asks and what
  it is about to store lies between the cached version and the one upstream.
- **LaunchProofs** proves `TypeOK`, `CheapestLaunch`, `Reproducible`,
  `NoDoomedRetry`, `NoFutileClaims` and `BlameIsFair`. `ScanInv` is the loop
  invariant of the min-scan: what is selected is a candidate among the types
  seen and no worse than any of them, and nothing selected means nothing seen was
  launchable. `ListMeaning` and `RankedMeaning` relate what the scan ranks to
  hcloud's own catalogue, and `Placeable` carries what the scheduler saw to the
  end of the scan as long as nothing changes; that what is selected had a published
  image, if any was published, carries `NoFutileClaims` through the image lookup.
- **InstanceProofs** proves `TypeOK`, `FinalizedMeansGone`, `OneServerPerClaim`,
  `NoStrays`, `ListedByOwnCluster`, `PoolSharesGroup` and `SamePoolApart`. The
  steps are of four kinds (one NodeClaim changes, a group is made, a server is
  made, a server moves on), each with its lemma. `OneServerPerClaim` needs that a
  server bears its claim's name (`ServerOK`), so that hcloud's unique names are
  unique servers; the group properties need that every group a call or a server
  refers to bears the name of its pool and that group names are unique;
  `SamePoolApart` is then cancellation of the pool's name; `NoStrays` needs that a
  call holds a server exactly while it waits for it (`ClaimOK`).
- **LaunchRefinementProofs** proves that `Launch` implements `Choice`
  (`ImplementsChoice`) and `RunningNodesListed`. The refinement mapping turns the
  whole scan into the one step `Choice` takes when it ends, so the lemmas go
  action by action: a step inside the scan is a stutter, the step that ends it
  is a choice or one of the two failures, a create call's answer is the abstract
  answer. `ScanInv` says what the scan may conclude from what it collected; the
  abstract failures also need the converse, that an architecture was collected as
  missing only because a compatible type lacked an image, and `blocked` is set
  only by a type that fits. `RInv` adds that (`Reasons`) to `IInv`.
  `RunningNodesListed` holds in every state: nothing that `List` computes, and
  neither marks nor the image gate, removes an offering.
- **ImageFamilyProofs** proves `ResolveIsRight`: on any listing, for any selector
  and architecture, `Resolve` gives a right answer: the first listed of Ubuntu, the
  newest of Talos, none only if there is none. The induction over the
  listing is done with sets: a non-empty set of naturals has a least element
  (`LeastNat`, from the well-foundedness of `<`), and the set of positions where
  the claim fails has none. It is used twice, for the scan being defined on
  listings of every length (`ScanExists`) and for its `n`-th value being the
  newest hit among the first `n` images (`ScanFindsBest`).
- **DriftProofs** proves `TypeOK` and `LookupsRight`, and, where no NodeClass label
  uses one of karpenter's management keys (`OwnKeysOnly`), `NoCauselessDrift` and
  `ReplacementsBounded`. The hypothesis is needed: run `drift_labels` shows what
  happens without it. Neither property is inductive. `AsLaunched` says that
  without an edit or a change by hand a server still is what its NodeClass asks
  for and every check under way holds that very spec, so no comparison can find a
  difference; `CopyFresh` says the same of the copy a Create call holds.
  `Accounts` pays for a replacement before it happens: a claim with a cause is
  owed one, and made and owed replacements together never exceed edits and
  touches, since an edit, which gives every slot a cause, also adds one for each.

Only model-checked: `StatusConverges`, `ListReturns`, `ClaimsFinalized` and `Settles`: liveness under fairness is beyond the prover.
Every other property of a passing run is a theorem.

## Not modelled

The capacity and overhead arithmetic of instance types and of
`serverToNodeClaim`, metrics, events and logs, configuration parsing, the
NodeOverlay decorator (core's, off by default: with it core ranks on other prices
than `Create`), generated code, charts and docs. SSH keys, user data and public
IP settings reach the server unchanged and nothing reads them back; `IsDrifted`
leaves them out on purpose. Metrics are counters the program never reads; the
configuration is straight-line checking of environment variables.

## Plan

Done: the component modules, the abstract specification of `Create` with its
refinement, their runs, and a theorem for every safety property of a passing run.
What is left is one composition: NodeClass status, launch and instance lifecycle
together, for the end-to-end statement that a NodeClaim's server runs an image of
its NodeClass, with its proof from the invariants of the parts.
