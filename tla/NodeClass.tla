------------------------------ MODULE NodeClass ------------------------------
(***************************************************************************)
(* One HCloudNodeClass object, the controller that keeps its status        *)
(* (pkg/controllers/nodeclass/controller.go) and the readers of that       *)
(* status: Create's image gate and image resolution                        *)
(* (pkg/cloudprovider/cloudprovider.go).                                   *)
(*                                                                         *)
(* Four parties interleave: operators who edit the spec, the hcloud image  *)
(* catalogue and the resources a NodeClass refers to, the reconciler (one  *)
(* worker, one pass at a time), and any number of Create calls.  The       *)
(* controller and Create read the object from an informer cache that may   *)
(* lag behind the API server; a status update is rejected when the copy it *)
(* was computed from is no longer the stored one.                          *)
(*                                                                         *)
(* A definition marked "Fault:" is a plausible mistake in the operator that *)
(* follows it.  No specification uses one; putting it in the operator's    *)
(* place shows that a property can fail.                                   *)
(***************************************************************************)
EXTENDS Integers, FiniteSets

CONSTANTS
    Selectors,      \* values of spec.imageSelector
    Unsupported,    \* those that name a family Resolve does not know
    Images,         \* hcloud images that may ever exist
    NoImage,        \* no entry in status.resolvedImages
    ArchOf,         \* ArchOf[i]: the architecture of image i
    SelectorOf,     \* SelectorOf[i]: the selector whose images i is one of
    Network,        \* the network spec.networkID names
    Resources,      \* the firewalls and SSH keys spec refers to
    UserDataSecrets,\* the Secret of spec.userDataSecretRef: none or one
    Launchers,      \* concurrent Create calls
    MaxGeneration,  \* bound: spec edits
    MaxChurn        \* bound: changes and faults of the outside world

Archs == {"x86", "arm"}
References == {Network} \cup Resources \cup UserDataSecrets

ASSUME ConstantsAssumption ==
    /\ NoImage \notin Images
    /\ ArchOf \in [Images -> Archs]
    /\ SelectorOf \in [Images -> Selectors]
    /\ Selectors # {} /\ Unsupported \subseteq Selectors
    /\ Images \cap {"pending", "transient", "definitive"} = {}
    /\ MaxGeneration \in Nat
    /\ MaxChurn \in Nat

Dependents == {"ImagesReady", "NetworkReady", "ResourcesReady", "UserDataReady"}
Statuses == {"Absent", "Unknown", "False", "True"}
Entries == [Archs -> Images \cup {NoImage}]

\* spec.imageSelector at metadata.generation, and the status subresource.  Of
\* the observedGeneration stamps only ImagesReady's is ever read back.
NodeClassObjects ==
    [gen: Nat, sel: Selectors, images: Entries, imagesGen: Nat,
     conds: [Dependents -> Statuses], ready: Statuses]

Outcomes == Images \cup {"pending", "transient", "definitive"}

VARIABLES
    obj,        \* the HCloudNodeClass in the API server
    cache,      \* the informer's copy of it
    cacheFresh, \* the informer has seen the last write
    published,  \* images in the hcloud catalogue
    absent,     \* references that do not exist
    apiUp,      \* hcloud and Secret reads succeed
    churn,      \* changes and faults so far
    rpc,        \* the reconciler's next step
    nc,         \* the copy Reconcile works on
    stored,     \* the copy it compares with at the end
    ncFresh,    \* nobody wrote obj since the version nc was copied from
    looked,     \* this pass's answer per architecture
    denied,     \* history: the <<selector, arch>> the catalogue answered "no such image"
    launch      \* the Create calls

world == <<published, absent, apiUp, churn>>
reconciler == <<rpc, nc, stored, ncFresh, looked>>
vars == <<obj, cache, cacheFresh, world, reconciler, denied, launch>>

-----------------------------------------------------------------------------
(* Status conditions: pkg/apis/v1, and operatorpkg's ConditionSet.         *)

NoEntries == [a \in Archs |-> NoImage]

\* No copy at hand.
Blank == [gen |-> 0, sel |-> CHOOSE s \in Selectors : TRUE, images |-> NoEntries, imagesGen |-> 0,
          conds |-> [d \in Dependents |-> "Absent"], ready |-> "Absent"]

NothingLooked == [a \in Archs |-> "pending"]

\* Fault: an Unknown dependent does not keep Ready from True.
ReadyUnlessFalse(conds) == IF \E d \in Dependents : conds[d] = "False" THEN "False" ELSE "True"

\* The root of NewReadyConditions.
Ready(conds) ==
    IF \A d \in Dependents : conds[d] = "True" THEN "True"
    ELSE IF \E d \in Dependents : conds[d] = "False" THEN "False"
    ELSE "Unknown"

\* StatusConditions(): an absent dependent becomes Unknown, stamped with the
\* current generation.
StatusConditions(n) ==
    [n EXCEPT !.conds = [d \in Dependents |-> IF n.conds[d] = "Absent" THEN "Unknown"
                                              ELSE n.conds[d]],
              !.imagesGen = IF n.conds["ImagesReady"] = "Absent" THEN n.gen ELSE @,
              !.ready = IF @ = "Absent" THEN "Unknown" ELSE @]

\* SetTrue, SetFalse, SetUnknownWithReason: stamp the generation, recompute Ready.
SetCondition(n, d, v) ==
    LET m == StatusConditions(n)
        conds == [m.conds EXCEPT ![d] = v]
    IN  [m EXCEPT !.conds = conds,
                  !.imagesGen = IF d = "ImagesReady" THEN n.gen ELSE @,
                  !.ready = Ready(conds)]

\* An absent ImagesReady has imagesGen 0.
ResolvedImagesGeneration(n) == n.imagesGen

\* Fault: the reader trusts entries of any generation.
AnyResolvedImages(n) == n.images

CurrentResolvedImages(n) ==
    IF ResolvedImagesGeneration(n) # n.gen THEN NoEntries ELSE n.images

-----------------------------------------------------------------------------
(* The image catalogue, as Provider.Resolve answers it.                    *)

Answers(i, s, a) == SelectorOf[i] = s /\ ArchOf[i] = a

Matching(s, a) == {i \in published : Answers(i, s, a)}

\* hcloud filters by architecture; a fault of that filter hands out an image
\* of the other architecture.
Misfiltered(s, a) == {i \in published : SelectorOf[i] = s /\ ArchOf[i] # a}

\* What one Resolve call can report, the architecture check of resolveImages
\* and resolveImage included: the wrong architecture is a definitive miss.
LookupOutcomes(s, a) ==
    IF s \in Unsupported THEN {"definitive"}
    ELSE IF ~apiUp THEN {"transient"}
    ELSE (IF Matching(s, a) = {} THEN {"definitive"} ELSE Matching(s, a))
         \cup (IF Misfiltered(s, a) # {} /\ churn < MaxChurn THEN {"definitive"} ELSE {})

\* The definitive answer of a misfiltered image spends a fault.
FaultSpent(s, a, o) ==
    IF s \notin Unsupported /\ o = "definitive" /\ Matching(s, a) # {} THEN 1 ELSE 0

-----------------------------------------------------------------------------
(* Reconcile.                                                              *)

\* Fault: no periodic requeue, a reconciled generation is never looked at again.
ReconcileOnEdit ==
    /\ rpc = "idle"
    /\ cache.imagesGen # cache.gen
    /\ rpc' = "network"
    /\ nc' = cache /\ stored' = cache /\ ncFresh' = cacheFresh
    /\ looked' = NothingLooked
    /\ UNCHANGED <<obj, cache, cacheFresh, world, denied, launch>>

ReconcileStart ==
    /\ rpc = "idle"
    /\ rpc' = "network"
    /\ nc' = cache /\ stored' = cache /\ ncFresh' = cacheFresh
    /\ looked' = NothingLooked
    /\ UNCHANGED <<obj, cache, cacheFresh, world, denied, launch>>

\* Every reference exists, some does not, or one could not be read.
CheckOutcome(refs) ==
    IF refs = {} THEN "True"
    ELSE IF ~apiUp THEN "Unknown"
    ELSE IF refs \cap absent # {} THEN "False" ELSE "True"

Validate(step, d, refs, next) ==
    /\ rpc = step
    /\ rpc' = next
    /\ nc' = SetCondition(nc, d, CheckOutcome(refs))
    /\ UNCHANGED <<obj, cache, cacheFresh, world, stored, ncFresh, looked, denied, launch>>

ValidateNetwork == Validate("network", "NetworkReady", {Network}, "resources")
ValidateResources == Validate("resources", "ResourcesReady", Resources, "userdata")
ValidateUserData == Validate("userdata", "UserDataReady", UserDataSecrets, "x86")

\* One Resolve call of resolveImages.
ResolveArch(a, next) ==
    /\ rpc = a
    /\ rpc' = next
    /\ \E o \in LookupOutcomes(nc.sel, a) :
          /\ looked' = [looked EXCEPT ![a] = o]
          /\ denied' = IF o = "definitive" THEN denied \cup {<<nc.sel, a>>} ELSE denied
          /\ churn' = churn + FaultSpent(nc.sel, a, o)
    /\ UNCHANGED <<obj, cache, cacheFresh, published, absent, apiUp, nc, stored, ncFresh, launch>>

\* Fault: carry forward whatever status holds.
CarriedRegardless(n) == n.images

\* The carry-forward gate: entries of another generation are dropped.
Carried(n) == IF ResolvedImagesGeneration(n) # n.gen THEN NoEntries ELSE n.images

\* Fault: an unreadable catalogue counts as "no such image".
MergedEntryBlip(prev, o, a) == IF o[a] \in {"transient", "definitive"} THEN NoImage ELSE o[a]

\* Fault: a definitive miss is recorded like an answer.
MergedEntryMiss(prev, o, a) == IF o[a] = "transient" THEN prev[a] ELSE o[a]

\* This pass's answer, the previous entry where the catalogue was unreadable.
MergedEntry(prev, o, a) ==
    IF o[a] = "transient" THEN prev[a]
    ELSE IF o[a] = "definitive" THEN NoImage ELSE o[a]

MergeImages(n, o) ==
    LET prev == Carried(n)
        resolved == [a \in Archs |-> MergedEntry(prev, o, a)]
        m == [n EXCEPT !.images = resolved]
    IN  IF resolved # NoEntries THEN SetCondition(m, "ImagesReady", "True")
        ELSE IF \E a \in Archs : o[a] = "transient"
             THEN SetCondition(m, "ImagesReady", "Unknown")
             ELSE SetCondition(m, "ImagesReady", "False")

\* Status().Update writes the status subresource only.
WithStatus(o, n) ==
    [o EXCEPT !.images = n.images, !.imagesGen = n.imagesGen,
              !.conds = n.conds, !.ready = n.ready]

\* Fault: the update is a blind overwrite.
NeverConflicts == TRUE

\* Optimistic concurrency: the API server rejects an update computed from an
\* older resourceVersion.
NoConflict == ncFresh

\* The working copy is dropped when Reconcile returns.
EndPass ==
    /\ rpc' = "idle"
    /\ nc' = Blank /\ stored' = Blank /\ ncFresh' = FALSE /\ looked' = NothingLooked

UpdateStatus ==
    /\ rpc = "update"
    /\ MergeImages(nc, looked) # stored
    /\ NoConflict
    /\ obj' = WithStatus(obj, MergeImages(nc, looked))
    /\ cacheFresh' = FALSE
    /\ EndPass
    /\ UNCHANGED <<cache, world, denied, launch>>

NothingToUpdate ==
    /\ rpc = "update"
    /\ MergeImages(nc, looked) = stored
    /\ EndPass
    /\ UNCHANGED <<obj, cache, cacheFresh, world, denied, launch>>

\* The error sends the object back to the queue; nothing of the pass survives.
UpdateConflict ==
    /\ rpc = "update"
    /\ MergeImages(nc, looked) # stored
    /\ ~NoConflict
    /\ EndPass
    /\ UNCHANGED <<obj, cache, cacheFresh, world, denied, launch>>

UpdateFails ==
    /\ rpc = "update"
    /\ MergeImages(nc, looked) # stored
    /\ churn < MaxChurn /\ churn' = churn + 1
    /\ EndPass
    /\ UNCHANGED <<obj, cache, cacheFresh, published, absent, apiUp, denied, launch>>

-----------------------------------------------------------------------------
(* Create, as far as images are concerned: the gate of its selection loop  *)
(* and resolveImage.  Both work on the one copy resolveNodeClass returned. *)

IdleCall == [pc |-> "idle", sel |-> Blank.sel, cur |-> NoEntries, arch |-> "x86",
             image |-> NoImage, live |-> FALSE, result |-> "none"]

\* Fault: the gate admits every architecture.
AdmitAll(cur, a) == TRUE

HasResolvedImage(cur, a) == cur = NoEntries \/ cur[a] # NoImage

\* A NodeClaim permits some architectures; among those the gate admits, the
\* selection settles on one (see Selection).  With none left the call fails
\* with NodeClassNotReady.
CreateSelect(l) ==
    /\ launch[l].pc = "idle"
    /\ \E permitted \in (SUBSET Archs) \ {{}} :
         LET cur == CurrentResolvedImages(cache)
             admitted == {a \in permitted : HasResolvedImage(cur, a)}
         IN  \/ \E a \in admitted :
                  launch' = [launch EXCEPT ![l] =
                      [@ EXCEPT !.pc = "resolve", !.sel = cache.sel, !.cur = cur, !.arch = a]]
             \/ /\ admitted = {}
                /\ \E a \in permitted :
                  launch' = [launch EXCEPT ![l] =
                      [@ EXCEPT !.pc = "done", !.sel = cache.sel, !.cur = cur, !.arch = a,
                                !.result = "nodeClassNotReady"]]
    /\ UNCHANGED <<obj, cache, cacheFresh, world, reconciler, denied>>

\* resolveImage: the published entry.
ResolveFromStatus(l) ==
    /\ launch[l].pc = "resolve"
    /\ launch[l].cur[launch[l].arch] # NoImage
    /\ launch' = [launch EXCEPT ![l] =
           [@ EXCEPT !.pc = "done", !.result = "image", !.image = launch[l].cur[launch[l].arch]]]
    /\ UNCHANGED <<obj, cache, cacheFresh, world, reconciler, denied>>

\* resolveImage: the live lookup.
ResolveLive(l) ==
    /\ launch[l].pc = "resolve"
    /\ launch[l].cur[launch[l].arch] = NoImage
    /\ LET s == launch[l].sel
           a == launch[l].arch
       IN  \E o \in LookupOutcomes(s, a) :
             /\ launch' = [launch EXCEPT ![l] =
                   [@ EXCEPT !.pc = "done", !.live = TRUE,
                             !.image = IF o \in Images THEN o ELSE NoImage,
                             !.result = IF o \in Images THEN "image"
                                        ELSE IF o = "definitive" THEN "nodeClassNotReady"
                                        ELSE "error"]]
             /\ denied' = IF o = "definitive" THEN denied \cup {<<s, a>>} ELSE denied
             /\ churn' = churn + FaultSpent(s, a, o)
    /\ UNCHANGED <<obj, cache, cacheFresh, published, absent, apiUp, reconciler>>

CreateReturn(l) ==
    /\ launch[l].pc = "done"
    /\ launch' = [launch EXCEPT ![l] = IdleCall]
    /\ UNCHANGED <<obj, cache, cacheFresh, world, reconciler, denied>>

-----------------------------------------------------------------------------
(* Everything outside the process.                                         *)

\* An edit of the spec, the selector or anything else in it: the API server
\* bumps metadata.generation and keeps the status.
EditSpec(s) ==
    /\ obj.gen < MaxGeneration
    /\ obj' = [obj EXCEPT !.gen = @ + 1, !.sel = s]
    /\ cacheFresh' = FALSE /\ ncFresh' = FALSE
    /\ UNCHANGED <<cache, world, rpc, nc, stored, looked, denied, launch>>

\* Another client writes metadata: a new resourceVersion, the same generation.
TouchMetadata ==
    /\ churn < MaxChurn /\ churn' = churn + 1
    /\ cacheFresh' = FALSE /\ ncFresh' = FALSE
    /\ UNCHANGED <<obj, cache, published, absent, apiUp, rpc, nc, stored, looked, denied, launch>>

\* The watch delivers the last write.
SyncCache ==
    /\ ~cacheFresh
    /\ cache' = obj /\ cacheFresh' = TRUE
    /\ UNCHANGED <<obj, world, reconciler, denied, launch>>

WorldChanges ==
    /\ churn < MaxChurn /\ churn' = churn + 1
    /\ \/ \E i \in Images : /\ published' = IF i \in published THEN published \ {i}
                                           ELSE published \cup {i}
                            /\ UNCHANGED <<absent, apiUp>>
       \/ \E x \in References : /\ absent' = IF x \in absent THEN absent \ {x}
                                             ELSE absent \cup {x}
                                /\ UNCHANGED <<published, apiUp>>
       \/ apiUp /\ apiUp' = FALSE /\ UNCHANGED <<published, absent>>
    /\ UNCHANGED <<obj, cache, cacheFresh, reconciler, denied, launch>>

ApiRecovers ==
    /\ ~apiUp /\ apiUp' = TRUE
    /\ UNCHANGED <<obj, cache, cacheFresh, published, absent, churn, reconciler, denied, launch>>

\* The controller process restarts: passes and calls in flight are lost, the
\* informer lists the object anew.
Restart ==
    /\ churn < MaxChurn /\ churn' = churn + 1
    /\ EndPass
    /\ launch' = [l \in Launchers |-> IdleCall]
    /\ cache' = obj /\ cacheFresh' = TRUE
    /\ UNCHANGED <<obj, published, absent, apiUp, denied>>

-----------------------------------------------------------------------------
\* A NodeClass nobody has reconciled yet.
NewNodeClass(s) ==
    [gen |-> 1, sel |-> s, images |-> NoEntries, imagesGen |-> 0,
     conds |-> [d \in Dependents |-> "Absent"], ready |-> "Absent"]

Init ==
    /\ obj \in {NewNodeClass(s) : s \in Selectors}
    /\ cache = obj /\ cacheFresh = TRUE
    /\ published \in SUBSET Images /\ absent = {} /\ apiUp = TRUE /\ churn = 0
    /\ rpc = "idle" /\ nc = Blank /\ stored = Blank /\ ncFresh = FALSE
    /\ looked = NothingLooked /\ denied = {}
    /\ launch = [l \in Launchers |-> IdleCall]

Reconcile ==
    \/ ReconcileStart \/ ValidateNetwork \/ ValidateResources \/ ValidateUserData
    \/ ResolveArch("x86", "arm") \/ ResolveArch("arm", "update")
    \/ UpdateStatus \/ NothingToUpdate \/ UpdateConflict

Create(l) == CreateSelect(l) \/ ResolveFromStatus(l) \/ ResolveLive(l) \/ CreateReturn(l)

Next ==
    \/ Reconcile \/ UpdateFails
    \/ \E l \in Launchers : Create(l)
    \/ \E s \in Selectors : EditSpec(s)
    \/ TouchMetadata \/ SyncCache \/ WorldChanges \/ ApiRecovers \/ Restart

Spec == Init /\ [][Next]_vars

\* The work queue runs a pass again and again (resync, watch, retry), each
\* step of it ends (the HTTP client bounds every request), the watch delivers,
\* an outage ends.
FairSpec ==
    /\ Spec
    /\ WF_vars(Reconcile)
    /\ WF_vars(SyncCache)
    /\ WF_vars(ApiRecovers)

-----------------------------------------------------------------------------
(* Properties.                                                             *)

Calls ==
    [pc: {"idle", "resolve", "done"}, sel: Selectors, cur: Entries, arch: Archs,
     image: Images \cup {NoImage}, live: BOOLEAN,
     result: {"none", "image", "nodeClassNotReady", "error"}]

\* Every variable keeps its type.
TypeOK ==
    /\ obj \in NodeClassObjects /\ cache \in NodeClassObjects /\ cacheFresh \in BOOLEAN
    /\ published \subseteq Images /\ absent \subseteq References
    /\ apiUp \in BOOLEAN /\ churn \in Nat
    /\ rpc \in {"idle", "network", "resources", "userdata", "x86", "arm", "update"}
    /\ nc \in NodeClassObjects /\ stored \in NodeClassObjects /\ ncFresh \in BOOLEAN
    /\ looked \in [Archs -> Outcomes]
    /\ denied \subseteq Selectors \X Archs
    /\ launch \in [Launchers -> Calls]

EntriesAnswer(entries, s) == \A a \in Archs : entries[a] # NoImage => Answers(entries[a], s, a)

\* An entry whose recorded generation is the spec's is an image the catalogue
\* gave for the selector the spec holds now and for the architecture it is
\* filed under, whatever edits, lags, conflicts, blips and restarts happened:
\* "an operator who repins imageSelector must never keep launching the
\* previous image" (controller.go, the carry-forward gate).
StatusAnswersSpec == EntriesAnswer(CurrentResolvedImages(obj), obj.sel)

\* The image a Create call launches answers the selector of the spec that call
\* read and has the architecture the NodeClaim was given, whether it came from
\* status or from the live lookup (resolveImage).
LaunchAnswersSpec ==
    \A l \in Launchers :
        launch[l].result = "image" => Answers(launch[l].image, launch[l].sel, launch[l].arch)

\* A call asks the catalogue itself only when status holds nothing for the
\* current spec: an architecture admitted on a published entry is launched
\* from that entry ("keeps gate and launch on one source", Create).
GateAndLaunchAgree == \A l \in Launchers : launch[l].live => launch[l].cur = NoEntries

\* Ready=True stands for four True dependents and at least one image on record.
ReadyMeansLaunchable ==
    obj.ready = "True" => /\ \A d \in Dependents : obj.conds[d] = "True"
                          /\ obj.images # NoEntries

\* A status write drops the current entry of an architecture only on evidence:
\* this pass was told definitively that the image is gone.  An unreadable
\* catalogue, a lagging copy or a lost race never does (Reconcile's merge).
NoBlipClears ==
    [][\A a \in Archs :
          /\ CurrentResolvedImages(obj)[a] # NoImage
          /\ obj'.gen = obj.gen
          /\ obj'.images[a] = NoImage
          => looked[a] = "definitive"]_vars

\* A status write was computed from the spec it is stored beside: a pass over a
\* copy that a spec edit has overtaken writes neither its images nor its
\* conditions (Status().Update).
NoStaleStatus ==
    [][obj' # obj /\ obj'.gen = obj.gen => obj'.imagesGen = obj.gen]_vars

\* The status describes the world: every architecture's entry is an image the
\* catalogue gives now, and Ready is what the four checks would find now.
Reflects ==
    /\ obj.imagesGen = obj.gen
    /\ \A a \in Archs : IF obj.sel \in Unsupported \/ Matching(obj.sel, a) = {}
                        THEN obj.images[a] = NoImage
                        ELSE obj.images[a] \in Matching(obj.sel, a)
    /\ obj.ready = IF absent = {} /\ obj.images # NoEntries THEN "True" ELSE "False"

\* Once edits, changes and faults stop, the status comes to describe the world
\* and stays so (Reconcile's periodic requeue).
StatusConverges == <>[]Reflects

\* Create reports "no image for this architecture" only when the catalogue was
\* read and said so: "a catalogue that says 'no such image' is evidence, a
\* catalogue that could not be read is not" (controller.go, Reconcile).
NotReadyIsEvidence ==
    \A l \in Launchers :
        launch[l].result = "nodeClassNotReady" => <<launch[l].sel, launch[l].arch>> \in denied

=============================================================================
