-------------------------------- MODULE Launch --------------------------------
(***************************************************************************)
(* CloudProvider.Create (pkg/cloudprovider/cloudprovider.go): from a       *)
(* NodeClaim that karpenter core's scheduler made, through the catalogue   *)
(* of the instance type provider, the scan for the cheapest launchable     *)
(* type and the image gate, to the hcloud create call and the mark its     *)
(* refusal leaves behind.                                                  *)
(*                                                                         *)
(* Several Create calls run at once.  Between any two steps of one, others *)
(* run, the NodeClass is edited, the catalogue is refreshed and marks end. *)
(* A List call is one step here: InstanceTypeCache opens it up.            *)
(*                                                                         *)
(* A Go slice is a function whose domain is a set of positions, so that    *)
(* filtering one restricts the domain and keeps the order.  Prices are     *)
(* counted in 1/730 of the hourly unit, which makes monthly/730 exact.     *)
(*                                                                         *)
(* A definition marked "Fault:" is a plausible mistake in the operator that *)
(* follows it.  No specification uses one; putting it in the operator's    *)
(* place shows that a property can fail.                                   *)
(***************************************************************************)
EXTENDS Integers, FiniteSets

CONSTANTS
    Callers,        \* concurrent Create calls
    Zones,          \* hcloud locations
    NoZone,         \* a pricing entry that names no location
    NoFigure,       \* a price that is no number, or not a finite one
    Catalogues,     \* the catalogues hcloud may publish
    NodeClasses,    \* [images, locations]: what CurrentResolvedImages and spec.locations may be
    Claims,         \* [fits, zones]: the types and the locations a NodeClaim's requirements allow
    MaxRefused      \* bound: pairs refused and not yet forgotten

Archs == {"x86", "arm"}
Figures == Int \cup {NoFigure}
Pricings == [zone: Zones \cup {NoZone}, hourly: Figures, monthly: Figures]

ASSUME ConstantsAssumption ==
    /\ NoZone \notin Zones /\ NoFigure \notin Int
    /\ \A cat \in Catalogues : DOMAIN cat \subseteq Nat
    /\ \A cat \in Catalogues : \A i \in DOMAIN cat :
          /\ cat[i].name \in Nat /\ cat[i].arch \in Archs
          /\ DOMAIN cat[i].pricings \subseteq Nat
          /\ \A j \in DOMAIN cat[i].pricings : cat[i].pricings[j] \in Pricings
    \* hcloud's server type names are unique
    /\ \A cat \in Catalogues : \A i, k \in DOMAIN cat : cat[i].name = cat[k].name => i = k
    /\ NodeClasses \subseteq [images: SUBSET Archs, locations: SUBSET Zones]
    /\ Claims \subseteq [fits: SUBSET Nat, zones: SUBSET Zones]
    /\ MaxRefused \in Nat

VARIABLES
    catalogue,  \* the server types the provider's cache holds
    nodeClass,  \* the HCloudNodeClass, as the informer cache shows it
    marks,      \* the unavailable cache: (type, location) pairs marked
    refused,    \* history: pairs hcloud refused whose mark's TTL is not over
    call        \* the Create calls

vars == <<catalogue, nodeClass, marks, refused, call>>

NoTypes == << >>
NoClaim == [fits |-> {}, zones |-> {}]
NoNodeClass == [images |-> {}, locations |-> {}]
Unselected == [name |-> 0, arch |-> "x86", zone |-> NoZone, price |-> 0]

\* One Create call: its claim, the NodeClass it read, the catalogue and marks
\* List read, the positions still to scan, archsMissingImages, capacityBlocked,
\* selected with its offering, and how the call ended.  steady and barred are
\* history: nothing has changed since core scheduled the claim, and the pairs
\* refused before that whose marks have not ended.
IdleCall == [pc |-> "idle", claim |-> NoClaim, nc |-> NoNodeClass, cat |-> NoTypes, marked |-> {},
             todo |-> {}, missing |-> {}, blocked |-> FALSE, selected |-> Unselected,
             result |-> "none", steady |-> FALSE, barred |-> {}]

-----------------------------------------------------------------------------
(* The catalogue, as List returns it.                                      *)

Usable(f) == f # NoFigure /\ f > 0

\* Fault: an unusable hourly figure is not replaced by the monthly one, and is not noticed.
HourlyOnly(p) == [price |-> IF p.hourly = NoFigure THEN 0 ELSE 730 * p.hourly, ok |-> TRUE]

\* hourlyNetPrice: the hourly figure, or a 730th of the monthly one.
HourlyNetPrice(p) ==
    IF Usable(p.hourly) THEN [price |-> 730 * p.hourly, ok |-> TRUE]
    ELSE IF Usable(p.monthly) THEN [price |-> p.monthly, ok |-> TRUE]
    ELSE [price |-> 0, ok |-> FALSE]

\* toInstanceType: one offering per located price, available when priced.
ToInstanceType(st) ==
    [name |-> st.name, arch |-> st.arch,
     offerings |-> [j \in {k \in DOMAIN st.pricings : st.pricings[k].zone # NoZone} |->
                      [zone |-> st.pricings[j].zone,
                       price |-> HourlyNetPrice(st.pricings[j]).price,
                       available |-> HourlyNetPrice(st.pricings[j]).ok]]]

\* The catalogue cached: toInstanceType of every server type.
ToInstanceTypes(cat) == [i \in DOMAIN cat |-> ToInstanceType(cat[i])]

InLocations(offerings, locations) ==
    [j \in {k \in DOMAIN offerings : locations = {} \/ offerings[k].zone \in locations} |->
        offerings[j]]

\* filterByLocations: a type with no offering left is dropped.
FilterByLocations(types, locations) ==
    [i \in {k \in DOMAIN types :
              locations = {} \/ DOMAIN InLocations(types[k].offerings, locations) # {}} |->
        [types[i] EXCEPT !.offerings = InLocations(types[i].offerings, locations)]]

\* Fault: the mark overwrites what the catalogue says.
OverwriteAvailability(types, marked) ==
    [i \in DOMAIN types |->
        [types[i] EXCEPT !.offerings =
            [j \in DOMAIN types[i].offerings |->
                [types[i].offerings[j] EXCEPT
                    !.available = <<types[i].name, types[i].offerings[j].zone>> \notin marked]]]]

\* applyAvailability: catalogue facts and capacity marks.
ApplyAvailability(types, marked) ==
    [i \in DOMAIN types |->
        [types[i] EXCEPT !.offerings =
            [j \in DOMAIN types[i].offerings |->
                [types[i].offerings[j] EXCEPT
                    !.available = @ /\ <<types[i].name, types[i].offerings[j].zone>> \notin marked]]]]

\* List, for the NodeClass nc.
List(cat, marked, nc) ==
    ApplyAvailability(FilterByLocations(ToInstanceTypes(cat), nc.locations), marked)

\* What List returned to the call c.
Listed(c) == List(c.cat, c.marked, c.nc)

-----------------------------------------------------------------------------
(* GetInstanceTypes, and the scheduler that reads it.                      *)

\* hasResolvedImage: no entry at all means the controller has not reported.
HasResolvedImage(nc, arch) == nc.images = {} \/ arch \in nc.images

\* Fault: every architecture is advertised.
AdvertiseAll(types, nc) == types

\* Fault: the types without an image are not listed at all.
DropImageless(types, nc) ==
    [i \in {k \in DOMAIN types : HasResolvedImage(nc, types[k].arch)} |-> types[i]]

\* markImagelessArchesUnavailable
MarkImagelessArchesUnavailable(types, nc) ==
    [i \in DOMAIN types |->
        IF HasResolvedImage(nc, types[i].arch) THEN types[i]
        ELSE [types[i] EXCEPT !.offerings =
                [j \in DOMAIN types[i].offerings |->
                    [types[i].offerings[j] EXCEPT !.available = FALSE]]]]

GetInstanceTypes == MarkImagelessArchesUnavailable(List(catalogue, marks, nodeClass), nodeClass)

\* Offerings.Available().Compatible(reqs), for a type the claim is compatible with.
Launchable(it, claim) ==
    {j \in DOMAIN it.offerings : it.offerings[j].available /\ it.offerings[j].zone \in claim.zones}

\* Core's scheduler makes a claim only where it sees an offering for it.
Schedule(w, claim) ==
    /\ call[w].pc = "idle"
    /\ \E i \in DOMAIN GetInstanceTypes :
          /\ GetInstanceTypes[i].name \in claim.fits
          /\ Launchable(GetInstanceTypes[i], claim) # {}
    /\ call' = [call EXCEPT ![w] = [IdleCall EXCEPT !.pc = "fetch", !.claim = claim,
                                                    !.steady = TRUE, !.barred = refused]]
    /\ UNCHANGED <<catalogue, nodeClass, marks, refused>>

-----------------------------------------------------------------------------
(* Create.                                                                 *)

CreateReturns(w, how) == call' = [call EXCEPT ![w].pc = "done", ![w].result = how]

\* resolveNodeClass
ResolveNodeClass(w) ==
    /\ call[w].pc = "fetch"
    /\ \/ call' = [call EXCEPT ![w].pc = "list", ![w].nc = nodeClass]
       \/ CreateReturns(w, "error")
    /\ UNCHANGED <<catalogue, nodeClass, marks, refused>>

ListTypes(w) ==
    /\ call[w].pc = "list"
    /\ \/ call' = [call EXCEPT ![w].pc = "scan", ![w].cat = catalogue, ![w].marked = marks,
                               ![w].todo = DOMAIN List(catalogue, marks, call[w].nc)]
       \/ CreateReturns(w, "error")
    /\ UNCHANGED <<catalogue, nodeClass, marks, refused>>

\* The loop's next instance type.
NextType(c, i) == c.pc = "scan" /\ i \in c.todo /\ \A k \in c.todo : i <= k

Compatible(c, i) == Listed(c)[i].name \in c.claim.fits

SkipIncompatible(w) ==
    /\ \E i \in call[w].todo :
          /\ NextType(call[w], i) /\ ~Compatible(call[w], i)
          /\ call' = [call EXCEPT ![w].todo = @ \ {i}]
    /\ UNCHANGED <<catalogue, nodeClass, marks, refused>>

SkipImageless(w) ==
    /\ \E i \in call[w].todo :
          /\ NextType(call[w], i) /\ Compatible(call[w], i)
          /\ ~HasResolvedImage(call[w].nc, Listed(call[w])[i].arch)
          /\ call' = [call EXCEPT ![w].todo = @ \ {i},
                                  ![w].missing = @ \cup {Listed(call[w])[i].arch}]
    /\ UNCHANGED <<catalogue, nodeClass, marks, refused>>

SkipUnavailable(w) ==
    /\ \E i \in call[w].todo :
          /\ NextType(call[w], i) /\ Compatible(call[w], i)
          /\ HasResolvedImage(call[w].nc, Listed(call[w])[i].arch)
          /\ Launchable(Listed(call[w])[i], call[w].claim) = {}
          /\ call' = [call EXCEPT ![w].todo = @ \ {i}, ![w].blocked = TRUE]
    /\ UNCHANGED <<catalogue, nodeClass, marks, refused>>

\* Cheapest: the first offering of the lowest price.
Cheapest(it, claim, j) ==
    /\ j \in Launchable(it, claim)
    /\ \A k \in Launchable(it, claim) :
          \/ it.offerings[j].price < it.offerings[k].price
          \/ it.offerings[j].price = it.offerings[k].price /\ j <= k

Candidate(it, j) == [name |-> it.name, arch |-> it.arch,
                     zone |-> it.offerings[j].zone, price |-> it.offerings[j].price]

\* Fault: a tie goes to whichever type comes first.
BetterUntied(new, old) == old = Unselected \/ new.price < old.price

\* The scan's comparison: the lower price, then the lower name.
Better(new, old) ==
    \/ old = Unselected
    \/ new.price < old.price
    \/ new.price = old.price /\ new.name < old.name

Rank(w) ==
    /\ \E i \in call[w].todo : \E j \in DOMAIN Listed(call[w])[i].offerings :
          LET it == Listed(call[w])[i]
          IN  /\ NextType(call[w], i) /\ Compatible(call[w], i)
              /\ HasResolvedImage(call[w].nc, it.arch)
              /\ Cheapest(it, call[w].claim, j)
              /\ call' = [call EXCEPT
                    ![w].todo = @ \ {i},
                    ![w].selected = IF Better(Candidate(it, j), @) THEN Candidate(it, j) ELSE @]
    /\ UNCHANGED <<catalogue, nodeClass, marks, refused>>

\* Fault: any missing image is blamed, whatever else was in the way.
BlameImage(w) ==
    /\ call[w].pc = "scan" /\ call[w].todo = {} /\ call[w].selected = Unselected
    /\ CreateReturns(w, IF call[w].missing # {} THEN "noImage" ELSE "noCapacity")
    /\ UNCHANGED <<catalogue, nodeClass, marks, refused>>

\* Nothing was selected: NodeClassNotReady or InsufficientCapacity.
NothingSelected(w) ==
    /\ call[w].pc = "scan" /\ call[w].todo = {} /\ call[w].selected = Unselected
    /\ CreateReturns(w, IF call[w].missing # {} /\ ~call[w].blocked THEN "noImage" ELSE "noCapacity")
    /\ UNCHANGED <<catalogue, nodeClass, marks, refused>>

\* resolveImage and resolveUserData: the published image, or a live lookup that
\* may find none or not be readable; a Secret that may not be readable either.
ResolveImage(w) ==
    /\ call[w].pc = "scan" /\ call[w].todo = {} /\ call[w].selected # Unselected
    /\ \/ call' = [call EXCEPT ![w].pc = "create"]
       \/ CreateReturns(w, "error")
       \/ call[w].selected.arch \notin call[w].nc.images /\ CreateReturns(w, "imageLost")
    /\ UNCHANGED <<catalogue, nodeClass, marks, refused>>

\* hcloud accepts the create call.
Launched(w) ==
    /\ call[w].pc = "create"
    /\ CreateReturns(w, "launched")
    /\ UNCHANGED <<catalogue, nodeClass, marks, refused>>

\* Fault: the type is marked in every location but the one that refused it.
MarkElsewhere(name, zone) == marks \cup {<<name, z>> : z \in Zones \ {zone}}

\* MarkUnavailable
MarkUnavailable(name, zone) == marks \cup {<<name, zone>>}

\* The claims of the other calls were scheduled before this change.
Unsettle(cs) ==
    [w \in Callers |-> IF cs[w].pc \in {"fetch", "list"} THEN [cs[w] EXCEPT !.steady = FALSE] ELSE cs[w]]

\* hcloud has no capacity for the pair: MapCreateError, then MarkUnavailable.  The
\* step is that of the mark; the refusal itself changes nothing others can see.
Refused(w) ==
    LET s == call[w].selected
    IN  /\ call[w].pc = "create"
        /\ Cardinality(refused \cup {<<s.name, s.zone>>}) <= MaxRefused
        /\ marks' = MarkUnavailable(s.name, s.zone)
        /\ refused' = refused \cup {<<s.name, s.zone>>}
        /\ call' = Unsettle([call EXCEPT ![w].pc = "done", ![w].result = "refused"])
        /\ UNCHANGED <<catalogue, nodeClass>>

\* Any other create error: nothing is marked.
CreateFails(w) ==
    /\ call[w].pc = "create"
    /\ CreateReturns(w, "error")
    /\ UNCHANGED <<catalogue, nodeClass, marks, refused>>

\* Core takes the answer.
Return(w) ==
    /\ call[w].pc = "done"
    /\ call' = [call EXCEPT ![w] = IdleCall]
    /\ UNCHANGED <<catalogue, nodeClass, marks, refused>>

-----------------------------------------------------------------------------
(* The surroundings.                                                       *)

\* A mark's TTL is over.
MarkEnds(o) ==
    /\ o \in refused
    /\ marks' = marks \ {o} /\ refused' = refused \ {o}
    /\ call' = [w \in Callers |-> [Unsettle(call)[w] EXCEPT !.barred = @ \ {o}]]
    /\ UNCHANGED <<catalogue, nodeClass>>

\* A spec edit, or a status update of the nodeclass controller.
NodeClassChanges ==
    /\ nodeClass' \in NodeClasses \ {nodeClass}
    /\ call' = Unsettle(call)
    /\ UNCHANGED <<catalogue, marks, refused>>

CatalogueChanges ==
    /\ catalogue' \in Catalogues \ {catalogue}
    /\ call' = Unsettle(call)
    /\ UNCHANGED <<nodeClass, marks, refused>>

Init ==
    /\ catalogue \in Catalogues
    /\ nodeClass \in NodeClasses
    /\ marks = {} /\ refused = {}
    /\ call = [w \in Callers |-> IdleCall]

Create(w) ==
    \/ ResolveNodeClass(w) \/ ListTypes(w)
    \/ SkipIncompatible(w) \/ SkipImageless(w) \/ SkipUnavailable(w) \/ Rank(w)
    \/ NothingSelected(w) \/ ResolveImage(w)
    \/ Launched(w) \/ Refused(w) \/ CreateFails(w) \/ Return(w)

Next ==
    \/ \E w \in Callers : Create(w) \/ \E claim \in Claims : Schedule(w, claim)
    \/ \E o \in refused : MarkEnds(o)
    \/ NodeClassChanges \/ CatalogueChanges

Spec == Init /\ [][Next]_vars

-----------------------------------------------------------------------------
(* Properties.                                                             *)

Results == {"none", "noImage", "noCapacity", "imageLost", "error", "launched", "refused"}

Selections == [name: Nat, arch: Archs, zone: Zones, price: Nat \ {0}]

Calls ==
    [pc: {"idle", "fetch", "list", "scan", "create", "done"},
     claim: Claims \cup {NoClaim}, nc: NodeClasses \cup {NoNodeClass},
     cat: Catalogues \cup {NoTypes}, marked: SUBSET (Nat \X Zones),
     todo: SUBSET Nat, missing: SUBSET Archs, blocked: BOOLEAN,
     selected: Selections \cup {Unselected}, result: Results,
     steady: BOOLEAN, barred: SUBSET (Nat \X Zones)]

\* Every variable keeps its type; in particular, what is selected has a price.
TypeOK ==
    /\ catalogue \in Catalogues /\ nodeClass \in NodeClasses
    /\ marks \subseteq Nat \X Zones /\ refused \subseteq Nat \X Zones
    /\ call \in [Callers -> Calls]

\* The call c could have launched the i-th server type at its j-th price, read
\* off hcloud's own catalogue: within the requirements and locations, with an
\* image, unmarked and with a usable price.
Eligible(c, i, j) ==
    LET st == c.cat[i]
        p == st.pricings[j]
    IN  /\ st.name \in c.claim.fits
        /\ c.nc.images = {} \/ st.arch \in c.nc.images
        /\ p.zone \in c.claim.zones
        /\ c.nc.locations = {} \/ p.zone \in c.nc.locations
        /\ <<st.name, p.zone>> \notin c.marked
        /\ Usable(p.hourly) \/ Usable(p.monthly)

\* The price hcloud asks, in 1/730 of the hourly unit.
NetPrice(p) == IF Usable(p.hourly) THEN 730 * p.hourly ELSE p.monthly

\* The create call names a server type and location that could be launched, and
\* nothing that could be is cheaper there or anywhere, nor as cheap with a lower
\* name: an unpriced offering never wins, and the price a type was chosen on is
\* the price of the location it is launched into (Create, the min-scan).
CheapestLaunch ==
    \A w \in Callers :
        LET c == call[w]
            s == c.selected
        IN  c.pc = "create" =>
              /\ \E i \in DOMAIN c.cat : \E j \in DOMAIN c.cat[i].pricings :
                    /\ Eligible(c, i, j)
                    /\ s.name = c.cat[i].name /\ s.zone = c.cat[i].pricings[j].zone
                    /\ s.price = NetPrice(c.cat[i].pricings[j])
              /\ \A i \in DOMAIN c.cat : \A j \in DOMAIN c.cat[i].pricings :
                    Eligible(c, i, j) =>
                        \/ s.price < NetPrice(c.cat[i].pricings[j])
                        \/ s.price = NetPrice(c.cat[i].pricings[j]) /\ s.name <= c.cat[i].name

\* Two calls that saw the same server types, in whatever order, the same marks
\* and the same NodeClass choose the same type for the same claim: "two
\* NodeClaims from one NodePool could land on different shapes" otherwise.
Reproducible ==
    \A w, v \in Callers :
        LET c == call[w]
            d == call[v]
            Listing(k) == {k.cat[i] : i \in DOMAIN k.cat}
        IN  c.pc = "create" /\ d.pc = "create" /\ Listing(c) = Listing(d)
              /\ c.claim = d.claim /\ c.nc = d.nc /\ c.marked = d.marked
            => c.selected.name = d.selected.name

\* A (type, location) pair hcloud refused is not asked for again by a call whose
\* claim was made after the pair was marked, until its mark has ended: the scheduler routes around
\* it "instead of retrying the same doomed combination" (MapCreateError).
NoDoomedRetry ==
    \A w \in Callers :
        call[w].pc = "create" => <<call[w].selected.name, call[w].selected.zone>> \notin call[w].barred

\* A claim the scheduler made from the same catalogue, marks and NodeClass is turned
\* down for its NodeClass only where that has published no image at all, so that
\* nothing could be hidden from the scheduler and the live lookup is the first to
\* find none; otherwise Create finds an offering and its image in status.  Core
\* deletes a claim turned down and makes it again, with no backoff
\* (markImagelessArchesUnavailable, hasResolvedImage, resolveImage).
NoFutileClaims ==
    \A w \in Callers :
        /\ call[w].result \in {"noImage", "noCapacity"} => ~call[w].steady
        /\ call[w].result = "imageLost" => call[w].nc.images = {}

\* The image is blamed only when it is the whole story: nothing that fits the
\* claim and has an image was there to lack an offering (Create's two errors).
BlameIsFair ==
    \A w \in Callers :
        call[w].result = "noImage" =>
            /\ call[w].nc.images # {}
            /\ \A i \in DOMAIN Listed(call[w]) :
                  Compatible(call[w], i) => Listed(call[w])[i].arch \notin call[w].nc.images

\* A server type hcloud still prices in a location of the NodeClass stays
\* listed there, though it be unpriced, marked or without an image: core takes a
\* node whose offering has disappeared for drifted and replaces it
\* (toInstanceType, markImagelessArchesUnavailable).
RunningNodesListed ==
    \A w \in Callers :
        LET s == call[w].selected
            Offers(it) == {it.offerings[j].zone : j \in DOMAIN it.offerings}
        IN  /\ call[w].result = "launched"
            /\ nodeClass.locations = {} \/ s.zone \in nodeClass.locations
            /\ \E i \in DOMAIN catalogue : \E j \in DOMAIN catalogue[i].pricings :
                  catalogue[i].name = s.name /\ catalogue[i].pricings[j].zone = s.zone
            => \E i \in DOMAIN GetInstanceTypes :
                  GetInstanceTypes[i].name = s.name /\ s.zone \in Offers(GetInstanceTypes[i])

-----------------------------------------------------------------------------
(* Launch implements Choice: the scan is one step, taken when it ends.     *)

\* A Create call as a request: what the scan has collected is hidden, and the
\* offer chosen shows once it is asked for.
RequestOf(c) ==
    [phase |-> IF c.pc = "scan" THEN "choose" ELSE c.pc, claim |-> c.claim, nc |-> c.nc,
     cat |-> c.cat, marked |-> c.marked, result |-> c.result,
     chosen |-> IF c.pc = "create" \/ c.result \in {"launched", "refused"}
                THEN [name |-> c.selected.name, zone |-> c.selected.zone]
                ELSE [name |-> 0, zone |-> NoZone]]

Abstract == INSTANCE Choice WITH request <- [w \in Callers |-> RequestOf(call[w])]

\* Every Create call ends as Choice promises: with the best offer of the
\* catalogue it saw, or the reason there is none, and a refusal marks what was
\* chosen, whatever else runs between its steps (Create).
ImplementsChoice == Abstract!Spec

=============================================================================
