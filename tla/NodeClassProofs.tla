--------------------------- MODULE NodeClassProofs ---------------------------
(***************************************************************************)
(* Proofs about NodeClass, for every set of selectors, images, references  *)
(* and Create calls and every number of edits and faults.                  *)
(***************************************************************************)
EXTENDS NodeClass, TLAPS

\* What every copy of the object satisfies: entries are recorded together with
\* an ImagesReady condition, that condition is never stamped with a generation
\* to come, and entries stamped with the current one answer the spec.
Sound(n) ==
    /\ n.imagesGen <= n.gen
    /\ n.conds["ImagesReady"] = "Absent" => n.images = NoEntries /\ n.imagesGen = 0
    /\ EntriesAnswer(CurrentResolvedImages(n), n.sel)

\* The pass in flight: what the catalogue answered it, and where it stands.
PassInv ==
    /\ \A a \in Archs : looked[a] \in Images => Answers(looked[a], nc.sel, a)
    /\ rpc \in {"arm", "update"} => looked["x86"] # "pending"
    /\ rpc = "update" => looked["arm"] # "pending"

\* What an unconflicted copy has in common with the stored object.
FreshInv ==
    /\ cacheFresh => cache = obj
    /\ ncFresh => /\ nc.gen = obj.gen /\ nc.sel = obj.sel /\ nc.images = obj.images
                  /\ nc.imagesGen \in {obj.imagesGen, obj.gen}

LaunchInv ==
    \A l \in Launchers :
        /\ EntriesAnswer(launch[l].cur, launch[l].sel)
        /\ launch[l].result = "image" => Answers(launch[l].image, launch[l].sel, launch[l].arch)
        /\ launch[l].pc = "resolve" => HasResolvedImage(launch[l].cur, launch[l].arch)
        /\ launch[l].pc # "done" => ~launch[l].live /\ launch[l].result = "none"
        /\ launch[l].live => launch[l].cur = NoEntries

IInv ==
    /\ TypeOK
    /\ Sound(obj) /\ Sound(cache) /\ Sound(nc)
    /\ PassInv /\ FreshInv /\ LaunchInv

-----------------------------------------------------------------------------
(* Lemmas about the operators on a copy of the object.                     *)

\* The empty working copy is a sound object.
LEMMA BlankIsSound == Blank \in NodeClassObjects /\ Sound(Blank)
<1>1. Blank \in NodeClassObjects
  BY ConstantsAssumption DEF Blank, NodeClassObjects, NoEntries, Entries, Statuses
<1>2. Sound(Blank)
  BY DEF Blank, Sound, EntriesAnswer, CurrentResolvedImages, ResolvedImagesGeneration, NoEntries,
         Dependents
<1> QED BY <1>1, <1>2

\* Reading the conditions touches no entry; it can stamp ImagesReady with the
\* current generation only where that condition was absent.
LEMMA StatusConditionsFrame ==
    ASSUME NEW n \in NodeClassObjects
    PROVE  /\ StatusConditions(n) \in NodeClassObjects
           /\ StatusConditions(n).gen = n.gen
           /\ StatusConditions(n).sel = n.sel
           /\ StatusConditions(n).images = n.images
           /\ StatusConditions(n).imagesGen =
                  IF n.conds["ImagesReady"] = "Absent" THEN n.gen ELSE n.imagesGen
           /\ \A d \in Dependents : StatusConditions(n).conds[d] # "Absent"
BY DEF StatusConditions, NodeClassObjects, Dependents, Statuses

\* Setting one condition keeps the entries and the spec.
LEMMA SetConditionFrame ==
    ASSUME NEW n \in NodeClassObjects, NEW d \in Dependents,
           NEW v \in Statuses \ {"Absent"}
    PROVE  /\ SetCondition(n, d, v) \in NodeClassObjects
           /\ SetCondition(n, d, v).gen = n.gen
           /\ SetCondition(n, d, v).sel = n.sel
           /\ SetCondition(n, d, v).images = n.images
           /\ SetCondition(n, d, v).imagesGen =
                  IF d = "ImagesReady" \/ n.conds["ImagesReady"] = "Absent"
                  THEN n.gen ELSE n.imagesGen
           /\ SetCondition(n, d, v).conds["ImagesReady"] # "Absent"
<1> DEFINE m == StatusConditions(n)
           c == [m.conds EXCEPT ![d] = v]
<1>1. /\ m \in NodeClassObjects
      /\ m.gen = n.gen /\ m.sel = n.sel /\ m.images = n.images
      /\ m.imagesGen = IF n.conds["ImagesReady"] = "Absent" THEN n.gen ELSE n.imagesGen
      /\ \A e \in Dependents : m.conds[e] # "Absent"
  BY StatusConditionsFrame
<1>2. c \in [Dependents -> Statuses] /\ c["ImagesReady"] # "Absent"
  BY <1>1 DEF NodeClassObjects, Dependents
<1>3. Ready(c) \in Statuses
  BY DEF Ready, Statuses
<1>4. SetCondition(n, d, v) =
        [m EXCEPT !.conds = c, !.imagesGen = IF d = "ImagesReady" THEN n.gen ELSE @,
                  !.ready = Ready(c)]
  BY DEF SetCondition
<1> HIDE DEF m, c
<1> QED BY <1>1, <1>2, <1>3, <1>4 DEF NodeClassObjects

\* A check's outcome is a condition status.
LEMMA CheckOutcomeType == \A refs : CheckOutcome(refs) \in Statuses \ {"Absent"}
BY DEF CheckOutcome, Statuses

\* Setting a condition other than ImagesReady keeps an object sound.
LEMMA SetConditionSound ==
    ASSUME NEW n \in NodeClassObjects, Sound(n), NEW d \in Dependents \ {"ImagesReady"},
           NEW v \in Statuses \ {"Absent"}
    PROVE  Sound(SetCondition(n, d, v))
<1> DEFINE m == SetCondition(n, d, v)
<1>1. /\ m.gen = n.gen /\ m.sel = n.sel /\ m.images = n.images
      /\ m.imagesGen = IF n.conds["ImagesReady"] = "Absent" THEN n.gen ELSE n.imagesGen
      /\ m.conds["ImagesReady"] # "Absent"
  BY SetConditionFrame
<1>2. n.gen \in Nat /\ n.imagesGen \in Nat
  BY DEF NodeClassObjects
<1> SUFFICES Sound(m)
  OBVIOUS
<1> HIDE DEF m
<1>3. CASE n.conds["ImagesReady"] = "Absent"
  <2>1. m.images = NoEntries
    BY <1>1, <1>3 DEF Sound
  <2> QED BY <1>1, <1>2, <1>3, <2>1
          DEF Sound, EntriesAnswer, CurrentResolvedImages, ResolvedImagesGeneration, NoEntries
<1>4. CASE n.conds["ImagesReady"] # "Absent"
  BY <1>1, <1>2, <1>4 DEF Sound, CurrentResolvedImages, ResolvedImagesGeneration
<1> QED BY <1>3, <1>4

\* What the merge of a finished pass writes.
LEMMA MergeImagesFrame ==
    ASSUME NEW n \in NodeClassObjects, NEW o \in [Archs -> Outcomes],
           \A a \in Archs : o[a] # "pending"
    PROVE  /\ MergeImages(n, o) \in NodeClassObjects
           /\ MergeImages(n, o).gen = n.gen
           /\ MergeImages(n, o).sel = n.sel
           /\ MergeImages(n, o).imagesGen = n.gen
           /\ MergeImages(n, o).images = [a \in Archs |-> MergedEntry(Carried(n), o, a)]
           /\ MergeImages(n, o).conds["ImagesReady"] # "Absent"
<1> DEFINE r == [a \in Archs |-> MergedEntry(Carried(n), o, a)]
           m == [n EXCEPT !.images = r]
<1>1. Carried(n) \in Entries
  BY DEF Carried, NodeClassObjects, NoEntries, Entries
<1>2. \A a \in Archs : MergedEntry(Carried(n), o, a) \in Images \cup {NoImage}
  BY <1>1 DEF MergedEntry, Outcomes, Entries
<1>3. r \in Entries
  BY <1>2 DEF Entries
<1>4. m \in NodeClassObjects /\ m.gen = n.gen /\ m.sel = n.sel /\ m.images = r
  BY <1>3 DEF NodeClassObjects
<1>5. \E v \in Statuses \ {"Absent"} : MergeImages(n, o) = SetCondition(m, "ImagesReady", v)
  BY DEF MergeImages, Statuses
<1> HIDE DEF m, r
<1>6. PICK v \in Statuses \ {"Absent"} : MergeImages(n, o) = SetCondition(m, "ImagesReady", v)
  BY <1>5
<1>7. "ImagesReady" \in Dependents
  BY DEF Dependents
<1> QED BY <1>4, <1>6, <1>7, SetConditionFrame DEF r

\* The merge of a sound copy with answers to its own spec is sound.
LEMMA MergeImagesSound ==
    ASSUME NEW n \in NodeClassObjects, Sound(n), NEW o \in [Archs -> Outcomes],
           \A a \in Archs : o[a] # "pending",
           \A a \in Archs : o[a] \in Images => Answers(o[a], n.sel, a)
    PROVE  Sound(MergeImages(n, o))
<1> DEFINE m == MergeImages(n, o)
<1>1. /\ m.gen = n.gen /\ m.sel = n.sel /\ m.imagesGen = n.gen
      /\ m.images = [a \in Archs |-> MergedEntry(Carried(n), o, a)]
      /\ m.conds["ImagesReady"] # "Absent"
  BY MergeImagesFrame
<1>2. EntriesAnswer(Carried(n), n.sel)
  BY DEF Sound, Carried, CurrentResolvedImages
<1>3. EntriesAnswer(m.images, m.sel)
  <2> SUFFICES ASSUME NEW a \in Archs, MergedEntry(Carried(n), o, a) # NoImage
               PROVE  Answers(MergedEntry(Carried(n), o, a), n.sel, a)
    BY <1>1 DEF EntriesAnswer
  <2>1. CASE o[a] = "transient"
    BY <1>2, <2>1 DEF EntriesAnswer, MergedEntry
  <2>2. CASE o[a] # "transient"
    BY <2>2 DEF MergedEntry, Outcomes
  <2> QED BY <2>1, <2>2
<1>4. n.gen \in Nat
  BY DEF NodeClassObjects
<1> SUFFICES Sound(m)
  OBVIOUS
<1> HIDE DEF m
<1> QED BY <1>1, <1>3, <1>4 DEF Sound, CurrentResolvedImages, ResolvedImagesGeneration

\* What a lookup can return.
LEMMA LookupType ==
    ASSUME TypeOK, NEW s, NEW a, NEW o \in LookupOutcomes(s, a)
    PROVE  /\ o \in Outcomes /\ o # "pending"
           /\ o \in Images => Answers(o, s, a)
           /\ FaultSpent(s, a, o) \in Nat
BY ConstantsAssumption
   DEF LookupOutcomes, Matching, Misfiltered, Outcomes, TypeOK, FaultSpent

-----------------------------------------------------------------------------
(* The inductive invariant.                                                *)

\* A new NodeClass, before its first pass, satisfies the inductive invariant.
LEMMA InitEstablishes == Init => IInv
<1> SUFFICES ASSUME Init PROVE IInv
  OBVIOUS
<1>1. PICK s \in Selectors : obj = NewNodeClass(s)
  BY DEF Init
<1>2. obj \in NodeClassObjects /\ Sound(obj)
  BY <1>1 DEF NewNodeClass, NodeClassObjects, NoEntries, Entries, Statuses, Dependents,
              Sound, EntriesAnswer, CurrentResolvedImages, ResolvedImagesGeneration
<1>3. IdleCall \in Calls
  BY BlankIsSound DEF IdleCall, Calls, NoEntries, Entries, NodeClassObjects, Archs
<1>4. TypeOK
  BY <1>2, <1>3, BlankIsSound, ConstantsAssumption
     DEF Init, TypeOK, NothingLooked, Outcomes, References
<1>5. PassInv
  BY ConstantsAssumption DEF Init, PassInv, NothingLooked, Archs
<1>6. FreshInv
  BY DEF Init, FreshInv
<1>7. LaunchInv
  BY DEF Init, LaunchInv, IdleCall, EntriesAnswer, NoEntries
<1> QED BY <1>2, <1>4, <1>5, <1>6, <1>7, BlankIsSound DEF IInv, Init

\* Dropping the working copy keeps what concerns it.
LEMMA EndPassKeeps ==
    ASSUME IInv, EndPass
    PROVE  /\ nc' \in NodeClassObjects /\ stored' \in NodeClassObjects /\ ncFresh' \in BOOLEAN
           /\ looked' \in [Archs -> Outcomes] /\ rpc' = "idle"
           /\ Sound(nc') /\ PassInv' /\ ncFresh' = FALSE
<1>1. looked' = NothingLooked /\ rpc' = "idle" /\ ncFresh' = FALSE
  BY DEF EndPass
<1>2. nc' = Blank /\ stored' = Blank
  BY DEF EndPass
<1>3. PassInv'
  BY <1>1, ConstantsAssumption DEF PassInv, NothingLooked, Archs
<1> QED BY <1>1, <1>2, <1>3, BlankIsSound DEF NothingLooked, Outcomes

\* A pass's checks of the network, the resources and the Secret.
LEMMA ValidateKeeps ==
    ASSUME IInv, NEW step, NEW d \in Dependents \ {"ImagesReady"}, NEW refs,
           NEW next \in {"resources", "userdata", "x86"}, Validate(step, d, refs, next)
    PROVE  IInv'
<1> DEFINE m == SetCondition(nc, d, CheckOutcome(refs))
<1>1. CheckOutcome(refs) \in Statuses \ {"Absent"}
  BY CheckOutcomeType
<1>2. nc \in NodeClassObjects /\ Sound(nc)
  BY DEF IInv, TypeOK
<1>3. /\ m \in NodeClassObjects /\ m.gen = nc.gen /\ m.sel = nc.sel /\ m.images = nc.images
      /\ m.imagesGen \in {nc.gen, nc.imagesGen}
  BY <1>1, <1>2, SetConditionFrame
<1>4. Sound(m)
  BY <1>1, <1>2, SetConditionSound
<1>5. nc' = m /\ rpc' = next
      /\ UNCHANGED <<obj, cache, cacheFresh, world, stored, ncFresh, looked, denied, launch>>
  BY DEF Validate
<1> HIDE DEF m
<1>6. TypeOK'
  BY <1>3, <1>5 DEF IInv, TypeOK, world
<1>7. PassInv'
  BY <1>3, <1>5 DEF IInv, PassInv
<1>8. FreshInv'
  BY <1>3, <1>5 DEF IInv, FreshInv
<1>9. LaunchInv'
  BY <1>5 DEF IInv, LaunchInv
<1>10. Sound(nc') /\ Sound(obj') /\ Sound(cache')
  BY <1>4, <1>5 DEF IInv
<1> QED BY <1>6, <1>7, <1>8, <1>9, <1>10 DEF IInv

\* One catalogue lookup of a pass.
LEMMA ResolveArchKeeps ==
    ASSUME IInv, NEW a \in Archs, NEW next, ResolveArch(a, next),
           \/ a = "x86" /\ next = "arm"
           \/ a = "arm" /\ next = "update"
    PROVE  IInv'
<1>1. PICK o \in LookupOutcomes(nc.sel, a) :
        /\ looked' = [looked EXCEPT ![a] = o]
        /\ denied' = IF o = "definitive" THEN denied \cup {<<nc.sel, a>>} ELSE denied
        /\ churn' = churn + FaultSpent(nc.sel, a, o)
  BY DEF ResolveArch
<1>2. /\ o \in Outcomes /\ o # "pending"
      /\ o \in Images => Answers(o, nc.sel, a)
      /\ FaultSpent(nc.sel, a, o) \in Nat
  BY <1>1, LookupType DEF IInv
<1>3. /\ rpc = a /\ rpc' = next
      /\ UNCHANGED <<obj, cache, cacheFresh, published, absent, apiUp, nc, stored, ncFresh, launch>>
  BY DEF ResolveArch
<1>4. looked \in [Archs -> Outcomes] /\ churn \in Nat /\ nc.sel \in Selectors
  BY DEF IInv, TypeOK, NodeClassObjects
<1>5. TypeOK'
  BY <1>1, <1>2, <1>3, <1>4 DEF IInv, TypeOK
<1>6. PassInv'
  BY <1>1, <1>2, <1>3, <1>4 DEF IInv, PassInv, Archs
<1>7. FreshInv' /\ LaunchInv' /\ Sound(obj)' /\ Sound(cache)' /\ Sound(nc)'
  BY <1>3 DEF IInv, FreshInv, LaunchInv
<1> QED BY <1>5, <1>6, <1>7 DEF IInv

\* The write: the merged status lands on the object it was computed from.
LEMMA UpdateStatusKeeps ==
    ASSUME IInv, UpdateStatus
    PROVE  IInv' /\ obj'.imagesGen = obj.gen /\ obj'.gen = obj.gen
           /\ obj'.images = [a \in Archs |-> MergedEntry(Carried(nc), looked, a)]
<1> DEFINE m == MergeImages(nc, looked)
<1>1. /\ rpc = "update" /\ ncFresh /\ EndPass /\ cacheFresh' = FALSE
      /\ obj' = WithStatus(obj, m)
      /\ UNCHANGED <<cache, world, denied, launch>>
  BY DEF UpdateStatus, NoConflict
<1>2. /\ nc \in NodeClassObjects /\ Sound(nc) /\ looked \in [Archs -> Outcomes]
      /\ \A a \in Archs : looked[a] # "pending"
      /\ \A a \in Archs : looked[a] \in Images => Answers(looked[a], nc.sel, a)
      /\ obj \in NodeClassObjects /\ nc.gen = obj.gen /\ nc.sel = obj.sel
  BY <1>1 DEF IInv, TypeOK, PassInv, FreshInv, Archs
<1>3. /\ m \in NodeClassObjects /\ m.gen = nc.gen /\ m.sel = nc.sel /\ m.imagesGen = nc.gen
      /\ m.images = [a \in Archs |-> MergedEntry(Carried(nc), looked, a)]
  BY <1>2, MergeImagesFrame
<1>4. Sound(m)
  BY <1>2, MergeImagesSound
<1> HIDE DEF m
<1>5. obj' = m
  BY <1>1, <1>2, <1>3 DEF WithStatus, NodeClassObjects
<1>6. /\ nc' \in NodeClassObjects /\ stored' \in NodeClassObjects /\ ncFresh' = FALSE
      /\ looked' \in [Archs -> Outcomes] /\ rpc' = "idle" /\ Sound(nc') /\ PassInv'
  BY <1>1, EndPassKeeps
<1>7. TypeOK'
  BY <1>1, <1>3, <1>5, <1>6 DEF IInv, TypeOK, world
<1>8. FreshInv'
  BY <1>1, <1>6 DEF FreshInv
<1>9. LaunchInv' /\ Sound(cache)'
  BY <1>1 DEF IInv, LaunchInv
<1>10. IInv'
  BY <1>4, <1>5, <1>6, <1>7, <1>8, <1>9 DEF IInv
<1> QED BY <1>2, <1>3, <1>5, <1>10

\* A pass that ends without a write.
LEMMA NoUpdateKeeps ==
    ASSUME IInv, EndPass, churn' \in Nat,
           UNCHANGED <<obj, cache, cacheFresh, published, absent, apiUp, denied, launch>>
    PROVE  IInv'
<1>1. /\ nc' \in NodeClassObjects /\ stored' \in NodeClassObjects /\ ncFresh' = FALSE
      /\ looked' \in [Archs -> Outcomes] /\ rpc' = "idle" /\ Sound(nc') /\ PassInv'
  BY EndPassKeeps
<1>2. TypeOK'
  BY <1>1 DEF IInv, TypeOK
<1>3. FreshInv' /\ LaunchInv' /\ Sound(cache)' /\ Sound(obj)'
  BY <1>1 DEF IInv, FreshInv, LaunchInv
<1> QED BY <1>1, <1>2, <1>3 DEF IInv

\* A Create call selects, resolves and returns.
LEMMA CreateKeeps ==
    ASSUME IInv, NEW l \in Launchers, Create(l)
    PROVE  IInv'
<1>1. launch \in [Launchers -> Calls] /\ launch[l] \in Calls
  BY DEF IInv, TypeOK
<1>2. ASSUME NEW c \in Calls, launch' = [launch EXCEPT ![l] = c],
             /\ EntriesAnswer(c.cur, c.sel)
             /\ c.result = "image" => Answers(c.image, c.sel, c.arch)
             /\ c.pc = "resolve" => HasResolvedImage(c.cur, c.arch)
             /\ c.pc # "done" => ~c.live /\ c.result = "none"
             /\ c.live => c.cur = NoEntries,
             churn' \in Nat, denied' \subseteq Selectors \X Archs,
             UNCHANGED <<obj, cache, cacheFresh, published, absent, apiUp, reconciler>>
      PROVE  IInv'
  <2>1. TypeOK'
    BY <1>1, <1>2 DEF IInv, TypeOK, reconciler
  <2>2. LaunchInv'
    BY <1>1, <1>2 DEF IInv, LaunchInv
  <2>3. PassInv' /\ FreshInv' /\ Sound(obj)' /\ Sound(cache)' /\ Sound(nc)'
    BY <1>2 DEF IInv, PassInv, FreshInv, reconciler
  <2> QED BY <2>1, <2>2, <2>3 DEF IInv
<1>3. churn \in Nat /\ denied \subseteq Selectors \X Archs
  BY DEF IInv, TypeOK
<1>4. /\ EntriesAnswer(launch[l].cur, launch[l].sel)
      /\ launch[l].pc = "resolve" => HasResolvedImage(launch[l].cur, launch[l].arch)
      /\ launch[l].pc # "done" => ~launch[l].live /\ launch[l].result = "none"
  BY DEF IInv, LaunchInv
<1>5. CASE CreateSelect(l)
  <2> DEFINE cur == CurrentResolvedImages(cache)
  <2>1. PICK permitted \in (SUBSET Archs) \ {{}} :
          \/ \E a \in permitted :
               /\ HasResolvedImage(cur, a)
               /\ launch' = [launch EXCEPT ![l] = [launch[l] EXCEPT
                     !.pc = "resolve", !.sel = cache.sel, !.cur = cur, !.arch = a]]
          \/ \E a \in permitted :
               launch' = [launch EXCEPT ![l] = [launch[l] EXCEPT
                     !.pc = "done", !.sel = cache.sel, !.cur = cur, !.arch = a,
                     !.result = "nodeClassNotReady"]]
    BY <1>5 DEF CreateSelect
  <2>2. /\ cur \in Entries /\ cache.sel \in Selectors /\ EntriesAnswer(cur, cache.sel)
    BY DEF IInv, TypeOK, NodeClassObjects, CurrentResolvedImages, NoEntries, Entries, Sound
  <2>3. launch[l].pc = "idle" /\ UNCHANGED <<obj, cache, cacheFresh, world, reconciler, denied>>
    BY <1>5 DEF CreateSelect
  <2> HIDE DEF cur
  <2>4. CASE \E a \in permitted :
               /\ HasResolvedImage(cur, a)
               /\ launch' = [launch EXCEPT ![l] = [launch[l] EXCEPT
                     !.pc = "resolve", !.sel = cache.sel, !.cur = cur, !.arch = a]]
    <3>1. PICK a \in permitted :
            /\ HasResolvedImage(cur, a)
            /\ launch' = [launch EXCEPT ![l] = [launch[l] EXCEPT
                     !.pc = "resolve", !.sel = cache.sel, !.cur = cur, !.arch = a]]
      BY <2>4
    <3> DEFINE c == [launch[l] EXCEPT
                     !.pc = "resolve", !.sel = cache.sel, !.cur = cur, !.arch = a]
    <3>2. /\ c \in Calls /\ c.pc = "resolve" /\ c.cur = cur /\ c.sel = cache.sel /\ c.arch = a
          /\ c.live = launch[l].live /\ c.result = launch[l].result
      BY <1>1, <2>2 DEF Calls
    <3> HIDE DEF c
    <3> QED BY <1>2, <1>3, <1>4, <2>2, <2>3, <3>1, <3>2 DEF c, world
  <2>5. CASE \E a \in permitted :
               launch' = [launch EXCEPT ![l] = [launch[l] EXCEPT
                     !.pc = "done", !.sel = cache.sel, !.cur = cur, !.arch = a,
                     !.result = "nodeClassNotReady"]]
    <3>1. PICK a \in permitted :
            launch' = [launch EXCEPT ![l] = [launch[l] EXCEPT
                     !.pc = "done", !.sel = cache.sel, !.cur = cur, !.arch = a,
                     !.result = "nodeClassNotReady"]]
      BY <2>5
    <3> DEFINE c == [launch[l] EXCEPT
                     !.pc = "done", !.sel = cache.sel, !.cur = cur, !.arch = a,
                     !.result = "nodeClassNotReady"]
    <3>2. /\ c \in Calls /\ c.pc = "done" /\ c.cur = cur /\ c.sel = cache.sel
          /\ c.live = launch[l].live /\ c.result = "nodeClassNotReady"
      BY <1>1, <2>2 DEF Calls
    <3> HIDE DEF c
    <3> QED BY <1>2, <1>3, <1>4, <2>2, <2>3, <3>1, <3>2 DEF c, world
  <2> QED BY <2>1, <2>4, <2>5
<1>6. CASE ResolveFromStatus(l)
  <2> DEFINE c == [launch[l] EXCEPT !.pc = "done", !.result = "image",
                                    !.image = launch[l].cur[launch[l].arch]]
  <2>1. /\ launch' = [launch EXCEPT ![l] = c] /\ launch[l].pc = "resolve"
        /\ launch[l].cur[launch[l].arch] # NoImage
        /\ UNCHANGED <<obj, cache, cacheFresh, world, reconciler, denied>>
    BY <1>6 DEF ResolveFromStatus
  <2>2. /\ c \in Calls /\ c.pc = "done" /\ c.cur = launch[l].cur /\ c.sel = launch[l].sel
        /\ c.arch = launch[l].arch /\ c.live = launch[l].live
        /\ c.image = launch[l].cur[launch[l].arch]
    BY <1>1 DEF Calls, Entries
  <2>3. Answers(c.image, c.sel, c.arch)
    BY <1>1, <1>4, <2>1, <2>2 DEF EntriesAnswer, Calls
  <2> HIDE DEF c
  <2> QED BY <1>2, <1>3, <1>4, <2>1, <2>2, <2>3 DEF world
<1>7. CASE ResolveLive(l)
  <2>1. PICK o \in LookupOutcomes(launch[l].sel, launch[l].arch) :
          /\ launch' = [launch EXCEPT ![l] = [launch[l] EXCEPT
                !.pc = "done", !.live = TRUE,
                !.image = IF o \in Images THEN o ELSE NoImage,
                !.result = IF o \in Images THEN "image"
                           ELSE IF o = "definitive" THEN "nodeClassNotReady" ELSE "error"]]
          /\ denied' = IF o = "definitive" THEN denied \cup {<<launch[l].sel, launch[l].arch>>}
                       ELSE denied
          /\ churn' = churn + FaultSpent(launch[l].sel, launch[l].arch, o)
    BY <1>7 DEF ResolveLive
  <2>2. /\ launch[l].pc = "resolve" /\ launch[l].cur[launch[l].arch] = NoImage
        /\ UNCHANGED <<obj, cache, cacheFresh, published, absent, apiUp, reconciler>>
    BY <1>7 DEF ResolveLive
  <2>3. /\ o \in Images => Answers(o, launch[l].sel, launch[l].arch)
        /\ FaultSpent(launch[l].sel, launch[l].arch, o) \in Nat
    BY <2>1, LookupType DEF IInv
  <2> DEFINE c == [launch[l] EXCEPT
                !.pc = "done", !.live = TRUE,
                !.image = IF o \in Images THEN o ELSE NoImage,
                !.result = IF o \in Images THEN "image"
                           ELSE IF o = "definitive" THEN "nodeClassNotReady" ELSE "error"]
  <2>4. /\ c \in Calls /\ c.pc = "done" /\ c.cur = launch[l].cur /\ c.sel = launch[l].sel
        /\ c.arch = launch[l].arch
        /\ c.result = "image" => c.image = o /\ o \in Images
    BY <1>1 DEF Calls
  <2>5. launch[l].cur = NoEntries
    BY <1>4, <2>2 DEF HasResolvedImage
  <2>6. denied' \subseteq Selectors \X Archs /\ churn' \in Nat
    BY <1>1, <1>3, <2>1, <2>3 DEF Calls
  <2> HIDE DEF c
  <2>7. c.result = "image" => Answers(c.image, c.sel, c.arch)
    BY <2>3, <2>4
  <2>8. launch' = [launch EXCEPT ![l] = c]
    BY <2>1 DEF c
  <2> QED BY <1>2, <1>4, <2>2, <2>4, <2>5, <2>6, <2>7, <2>8
<1>8. CASE CreateReturn(l)
  <2>1. IdleCall \in Calls
    BY BlankIsSound DEF IdleCall, Calls, NoEntries, Entries, NodeClassObjects, Archs
  <2>2. /\ IdleCall.pc = "idle" /\ ~IdleCall.live /\ IdleCall.result = "none"
        /\ EntriesAnswer(IdleCall.cur, IdleCall.sel)
    BY DEF IdleCall, EntriesAnswer, NoEntries
  <2>3. /\ launch' = [launch EXCEPT ![l] = IdleCall]
        /\ UNCHANGED <<obj, cache, cacheFresh, world, reconciler, denied>>
    BY <1>8 DEF CreateReturn
  <2> QED BY <1>2, <1>3, <2>1, <2>2, <2>3 DEF world
<1> QED BY <1>5, <1>6, <1>7, <1>8 DEF Create

\* Edits, metadata writes, the watch, the outside world and restarts.
LEMMA EnvironmentKeeps ==
    ASSUME IInv,
           \/ \E s \in Selectors : EditSpec(s)
           \/ TouchMetadata \/ SyncCache \/ WorldChanges \/ ApiRecovers \/ Restart
    PROVE  IInv'
<1>1. ASSUME NEW s \in Selectors, EditSpec(s)
      PROVE  IInv'
  <2>0. obj' = [obj EXCEPT !.gen = @ + 1, !.sel = s] /\ s \in Selectors
    BY <1>1 DEF EditSpec
  <2>1. /\ cacheFresh' = FALSE /\ ncFresh' = FALSE
        /\ UNCHANGED <<cache, world, rpc, nc, stored, looked, denied, launch>>
    BY <1>1 DEF EditSpec
  <2>2. obj \in NodeClassObjects /\ Sound(obj)
    BY DEF IInv, TypeOK
  <2>3. /\ obj' \in NodeClassObjects
        /\ obj'.gen = obj.gen + 1 /\ obj'.imagesGen = obj.imagesGen
        /\ obj'.conds = obj.conds /\ obj'.images = obj.images
    <3>1. obj.gen + 1 \in Nat
      BY <2>2 DEF NodeClassObjects
    <3> DEFINE g == obj.gen + 1
    <3>2. obj' = [obj EXCEPT !.gen = g, !.sel = s] /\ g \in Nat
      BY <2>0, <3>1
    <3> HIDE DEF g
    <3>3. /\ obj' \in NodeClassObjects /\ obj'.gen = g
          /\ obj'.imagesGen = obj.imagesGen /\ obj'.conds = obj.conds /\ obj'.images = obj.images
      BY <2>0, <2>2, <3>2 DEF NodeClassObjects
    <3> QED BY <3>3 DEF g
  <2>4. obj'.imagesGen # obj'.gen /\ obj'.imagesGen <= obj'.gen
    BY <2>2, <2>3 DEF Sound, NodeClassObjects
  <2>5. Sound(obj')
    BY <2>2, <2>3, <2>4
       DEF Sound, EntriesAnswer, CurrentResolvedImages, ResolvedImagesGeneration, NoEntries
  <2>6. TypeOK'
    BY <2>1, <2>3 DEF IInv, TypeOK, world
  <2>7. PassInv' /\ FreshInv' /\ LaunchInv' /\ Sound(cache)' /\ Sound(nc)'
    BY <2>1 DEF IInv, PassInv, FreshInv, LaunchInv
  <2> QED BY <2>5, <2>6, <2>7 DEF IInv
<1>2. CASE TouchMetadata
  <2>1. /\ cacheFresh' = FALSE /\ ncFresh' = FALSE
        /\ UNCHANGED <<obj, cache, published, absent, apiUp, rpc, nc, stored, looked, denied, launch>>
    BY <1>2 DEF TouchMetadata
  <2>2. TypeOK'
    <3>1. churn' \in Nat
      BY <1>2 DEF TouchMetadata, IInv, TypeOK
    <3> QED BY <2>1, <3>1 DEF IInv, TypeOK
  <2>3. PassInv' /\ FreshInv' /\ LaunchInv' /\ Sound(obj)' /\ Sound(cache)' /\ Sound(nc)'
    BY <2>1 DEF IInv, PassInv, FreshInv, LaunchInv
  <2> QED BY <2>2, <2>3 DEF IInv
<1>3. CASE SyncCache
  <2>1. /\ cache' = obj /\ cacheFresh' = TRUE
        /\ UNCHANGED <<obj, world, reconciler, denied, launch>>
    BY <1>3 DEF SyncCache
  <2> QED BY <2>1 DEF IInv, TypeOK, PassInv, FreshInv, LaunchInv, world, reconciler
<1>4. CASE WorldChanges
  <2>1. /\ churn' = churn + 1
        /\ published' \subseteq Images /\ absent' \subseteq References /\ apiUp' \in BOOLEAN
        /\ UNCHANGED <<obj, cache, cacheFresh, reconciler, denied, launch>>
    BY <1>4 DEF WorldChanges, IInv, TypeOK
  <2> QED BY <2>1 DEF IInv, TypeOK, PassInv, FreshInv, LaunchInv, reconciler
<1>5. CASE ApiRecovers
  <2>1. /\ apiUp' = TRUE
        /\ UNCHANGED <<obj, cache, cacheFresh, published, absent, churn, reconciler, denied, launch>>
    BY <1>5 DEF ApiRecovers
  <2> QED BY <2>1 DEF IInv, TypeOK, PassInv, FreshInv, LaunchInv, reconciler
<1>6. CASE Restart
  <2>1. /\ churn' = churn + 1 /\ EndPass /\ launch' = [l \in Launchers |-> IdleCall]
        /\ cache' = obj /\ cacheFresh' = TRUE
        /\ UNCHANGED <<obj, published, absent, apiUp, denied>>
    BY <1>6 DEF Restart
  <2>2. /\ nc' \in NodeClassObjects /\ stored' \in NodeClassObjects /\ ncFresh' = FALSE
        /\ looked' \in [Archs -> Outcomes] /\ rpc' = "idle" /\ Sound(nc') /\ PassInv'
    BY <2>1, EndPassKeeps
  <2>3. IdleCall \in Calls
    BY BlankIsSound DEF IdleCall, Calls, NoEntries, Entries, NodeClassObjects, Archs
  <2>4. TypeOK'
    <3>1. churn' \in Nat /\ launch' \in [Launchers -> Calls]
      BY <2>1, <2>3 DEF IInv, TypeOK
    <3> QED BY <2>1, <2>2, <3>1 DEF IInv, TypeOK
  <2>5. LaunchInv'
    BY <2>1 DEF LaunchInv, IdleCall, EntriesAnswer, NoEntries
  <2>6. FreshInv' /\ Sound(obj)' /\ Sound(cache)'
    BY <2>1, <2>2 DEF IInv, FreshInv
  <2> QED BY <2>2, <2>4, <2>5, <2>6 DEF IInv
<1> QED BY <1>1, <1>2, <1>3, <1>4, <1>5, <1>6

\* One step per action of Next.
LEMMA NextKeeps == IInv /\ [Next]_vars => IInv'
<1> SUFFICES ASSUME IInv, [Next]_vars PROVE IInv'
  OBVIOUS
<1>1. CASE ReconcileStart
  <2>1. /\ rpc' = "network" /\ nc' = cache /\ stored' = cache /\ ncFresh' = cacheFresh
        /\ looked' = NothingLooked
        /\ UNCHANGED <<obj, cache, cacheFresh, world, denied, launch>>
    BY <1>1 DEF ReconcileStart
  <2>2. TypeOK'
    BY <2>1 DEF IInv, TypeOK, NothingLooked, Outcomes, world
  <2>3. PassInv'
    BY <2>1, ConstantsAssumption DEF PassInv, NothingLooked, Archs
  <2>4. FreshInv' /\ LaunchInv' /\ Sound(obj)' /\ Sound(cache)' /\ Sound(nc)'
    BY <2>1 DEF IInv, FreshInv, LaunchInv
  <2> QED BY <2>2, <2>3, <2>4 DEF IInv
<1>2. CASE ValidateNetwork
  BY <1>2, ValidateKeeps DEF ValidateNetwork, Dependents
<1>3. CASE ValidateResources
  BY <1>3, ValidateKeeps DEF ValidateResources, Dependents
<1>4. CASE ValidateUserData
  BY <1>4, ValidateKeeps DEF ValidateUserData, Dependents
<1>5. CASE ResolveArch("x86", "arm")
  BY <1>5, ResolveArchKeeps DEF Archs
<1>6. CASE ResolveArch("arm", "update")
  BY <1>6, ResolveArchKeeps DEF Archs
<1>7. CASE UpdateStatus
  BY <1>7, UpdateStatusKeeps
<1>8. CASE NothingToUpdate \/ UpdateConflict
  BY <1>8, NoUpdateKeeps DEF NothingToUpdate, UpdateConflict, world, IInv, TypeOK
<1>9. CASE UpdateFails
  BY <1>9, NoUpdateKeeps DEF UpdateFails, IInv, TypeOK
<1>10. CASE \E l \in Launchers : Create(l)
  BY <1>10, CreateKeeps
<1>11. CASE \/ \E s \in Selectors : EditSpec(s)
            \/ TouchMetadata \/ SyncCache \/ WorldChanges \/ ApiRecovers \/ Restart
  BY <1>11, EnvironmentKeeps
<1>12. CASE UNCHANGED vars
  BY <1>12 DEF vars, world, reconciler, IInv, TypeOK, PassInv, FreshInv, LaunchInv
<1> QED BY <1>1, <1>2, <1>3, <1>4, <1>5, <1>6, <1>7, <1>8, <1>9, <1>10, <1>11, <1>12
        DEF Next, Reconcile

-----------------------------------------------------------------------------
(* The theorems.                                                           *)

\* Every reachable state satisfies the inductive invariant.
THEOREM Invariance == Spec => []IInv
BY InitEstablishes, NextKeeps, PTL DEF Spec

\* Every variable keeps its type: in particular no pass ever records a lookup
\* that did not answer with an image.
THEOREM TypeCorrect == Spec => []TypeOK
<1>1. IInv => TypeOK
  BY DEF IInv
<1> QED BY <1>1, Invariance, PTL

\* Entries recorded under the current generation answer the current spec, for
\* any number of edits, blips, conflicts and restarts.
THEOREM StatusCorrect == Spec => []StatusAnswersSpec
<1>1. IInv => StatusAnswersSpec
  BY DEF IInv, Sound, StatusAnswersSpec
<1> QED BY <1>1, Invariance, PTL

\* No Create call launches an image of another selector or architecture.
THEOREM LaunchCorrect == Spec => []LaunchAnswersSpec
<1>1. IInv => LaunchAnswersSpec
  BY DEF IInv, LaunchInv, LaunchAnswersSpec
<1> QED BY <1>1, Invariance, PTL

\* Gate and launch never draw on different sources.
THEOREM SourcesAgree == Spec => []GateAndLaunchAgree
<1>1. IInv => GateAndLaunchAgree
  BY DEF IInv, LaunchInv, GateAndLaunchAgree
<1> QED BY <1>1, Invariance, PTL

\* The stored object changes by an edit or by a pass's write and no other way.
LEMMA WhoWritesObj ==
    ASSUME [Next]_vars
    PROVE  \/ UNCHANGED obj
           \/ UpdateStatus
           \/ \E s \in Selectors : EditSpec(s)
BY DEF Next, Reconcile, vars, ReconcileStart, ValidateNetwork, ValidateResources,
       ValidateUserData, Validate, ResolveArch, NothingToUpdate, UpdateConflict, UpdateFails,
       Create, CreateSelect, ResolveFromStatus, ResolveLive, CreateReturn, TouchMetadata,
       SyncCache, WorldChanges, ApiRecovers, Restart

\* The conditions a setter leaves behind agree with the Ready it computes.
LEMMA SetConditionReady ==
    ASSUME NEW n \in NodeClassObjects, NEW d \in Dependents,
           NEW v \in Statuses \ {"Absent"}
    PROVE  /\ SetCondition(n, d, v).conds[d] = v
           /\ SetCondition(n, d, v).ready = "True" =>
                  \A e \in Dependents : SetCondition(n, d, v).conds[e] = "True"
<1> DEFINE m == StatusConditions(n)
           c == [m.conds EXCEPT ![d] = v]
<1>1. m \in NodeClassObjects
  BY StatusConditionsFrame
<1>2. c[d] = v
  BY <1>1 DEF NodeClassObjects
<1>3. Ready(c) = "True" => \A e \in Dependents : c[e] = "True"
  BY DEF Ready
<1>4. SetCondition(n, d, v) =
        [m EXCEPT !.conds = c, !.imagesGen = IF d = "ImagesReady" THEN n.gen ELSE @,
                  !.ready = Ready(c)]
  BY DEF SetCondition
<1> HIDE DEF m, c
<1>5. SetCondition(n, d, v).conds = c /\ SetCondition(n, d, v).ready = Ready(c)
  BY <1>1, <1>4 DEF NodeClassObjects
<1> QED BY <1>2, <1>3, <1>5

\* The merge claims ImagesReady for a non-empty set of entries only.
LEMMA MergeImagesHonest ==
    ASSUME NEW n \in NodeClassObjects, NEW o \in [Archs -> Outcomes],
           \A a \in Archs : o[a] # "pending", MergeImages(n, o).ready = "True"
    PROVE  /\ \A d \in Dependents : MergeImages(n, o).conds[d] = "True"
           /\ MergeImages(n, o).images # NoEntries
<1> DEFINE r == [a \in Archs |-> MergedEntry(Carried(n), o, a)]
           m == [n EXCEPT !.images = r]
<1>1. Carried(n) \in Entries
  BY DEF Carried, NodeClassObjects, NoEntries, Entries
<1>2. \A a \in Archs : MergedEntry(Carried(n), o, a) \in Images \cup {NoImage}
  BY <1>1 DEF MergedEntry, Outcomes, Entries
<1>3. r \in Entries
  BY <1>2 DEF Entries
<1>4. m \in NodeClassObjects
  BY <1>3 DEF NodeClassObjects
<1>5. \E v \in Statuses \ {"Absent"} :
        /\ MergeImages(n, o) = SetCondition(m, "ImagesReady", v)
        /\ v = "True" => r # NoEntries
  BY DEF MergeImages, Statuses
<1>6. MergeImages(n, o).images = r
  BY MergeImagesFrame
<1> HIDE DEF m, r
<1>7. PICK v \in Statuses \ {"Absent"} :
        /\ MergeImages(n, o) = SetCondition(m, "ImagesReady", v)
        /\ v = "True" => r # NoEntries
  BY <1>5
<1>8. "ImagesReady" \in Dependents
  BY DEF Dependents
<1>9. /\ \A d \in Dependents : MergeImages(n, o).conds[d] = "True"
      /\ MergeImages(n, o).conds["ImagesReady"] = v
  BY <1>4, <1>7, <1>8, SetConditionReady
<1> QED BY <1>6, <1>7, <1>8, <1>9

\* Ready=True always stands for four True conditions and an image on record:
\* every write recomputes it last, and an edit of the spec keeps the status.
THEOREM ReadyIsHonest == Spec => []ReadyMeansLaunchable
<1>1. Init => ReadyMeansLaunchable
  BY DEF Init, NewNodeClass, ReadyMeansLaunchable
<1>2. IInv /\ ReadyMeansLaunchable /\ [Next]_vars => ReadyMeansLaunchable'
  <2> SUFFICES ASSUME IInv, ReadyMeansLaunchable, [Next]_vars
               PROVE  ReadyMeansLaunchable'
    OBVIOUS
  <2>1. CASE UNCHANGED obj
    BY <2>1 DEF ReadyMeansLaunchable
  <2>2. CASE UpdateStatus
    <3> DEFINE m == MergeImages(nc, looked)
    <3>1. /\ nc \in NodeClassObjects /\ looked \in [Archs -> Outcomes]
          /\ \A a \in Archs : looked[a] # "pending"
          /\ obj \in NodeClassObjects
      BY <2>2 DEF UpdateStatus, IInv, TypeOK, PassInv, Archs
    <3>2. m.ready = "True" => /\ \A d \in Dependents : m.conds[d] = "True"
                              /\ m.images # NoEntries
      BY <3>1, MergeImagesHonest
    <3>3. obj' = WithStatus(obj, m)
      BY <2>2 DEF UpdateStatus
    <3> HIDE DEF m
    <3>4. obj'.ready = m.ready /\ obj'.conds = m.conds /\ obj'.images = m.images
      BY <3>1, <3>3 DEF WithStatus, NodeClassObjects
    <3> QED BY <3>2, <3>4 DEF ReadyMeansLaunchable
  <2>3. ASSUME NEW s \in Selectors, EditSpec(s)
        PROVE  ReadyMeansLaunchable'
    <3>1. obj \in NodeClassObjects
      BY DEF IInv, TypeOK
    <3>2. obj'.ready = obj.ready /\ obj'.conds = obj.conds /\ obj'.images = obj.images
      BY <2>3, <3>1 DEF EditSpec, NodeClassObjects
    <3> QED BY <3>2 DEF ReadyMeansLaunchable
  <2> QED BY <2>1, <2>2, <2>3, WhoWritesObj
<1> QED BY <1>1, <1>2, Invariance, PTL DEF Spec

\* No pass over a superseded spec is written.
THEOREM StatusIsOfItsSpec == Spec => NoStaleStatus
<1> DEFINE OfItsSpec == obj' # obj /\ obj'.gen = obj.gen => obj'.imagesGen = obj.gen
<1>1. IInv /\ [Next]_vars => [OfItsSpec]_vars
  <2> SUFFICES ASSUME IInv, [Next]_vars
               PROVE  OfItsSpec
    OBVIOUS
  <2>1. CASE UNCHANGED obj
    BY <2>1
  <2>2. CASE UpdateStatus
    BY <2>2, UpdateStatusKeeps
  <2>3. ASSUME NEW s \in Selectors, EditSpec(s)
        PROVE  OfItsSpec
    <3>1. obj \in NodeClassObjects
      BY DEF IInv, TypeOK
    <3>2. obj'.gen = obj.gen + 1 /\ obj.gen \in Nat
      BY <2>3, <3>1 DEF EditSpec, NodeClassObjects
    <3> QED BY <3>2
  <2> QED BY <2>1, <2>2, <2>3, WhoWritesObj
<1> QED BY <1>1, Invariance, PTL DEF Spec, NoStaleStatus

\* An entry of the current generation is dropped on definitive evidence only.
THEOREM BlipsClearNothing == Spec => NoBlipClears
<1> DEFINE Drop == \A a \in Archs :
                      /\ CurrentResolvedImages(obj)[a] # NoImage
                      /\ obj'.gen = obj.gen
                      /\ obj'.images[a] = NoImage
                      => looked[a] = "definitive"
<1>1. IInv /\ [Next]_vars => [Drop]_vars
  <2> SUFFICES ASSUME IInv, [Next]_vars, NEW a \in Archs,
                      CurrentResolvedImages(obj)[a] # NoImage,
                      obj'.gen = obj.gen, obj'.images[a] = NoImage
               PROVE  looked[a] = "definitive"
    OBVIOUS
  <2>1. obj.imagesGen = obj.gen /\ obj.images[a] # NoImage
    BY DEF CurrentResolvedImages, ResolvedImagesGeneration, NoEntries
  <2>2. ~UNCHANGED obj
    BY <2>1
  <2>3. ASSUME NEW s \in Selectors, EditSpec(s)
        PROVE  FALSE
    <3>1. obj.gen \in Nat /\ obj \in NodeClassObjects
      BY DEF IInv, TypeOK, NodeClassObjects
    <3>2. obj' = [obj EXCEPT !.gen = @ + 1, !.sel = s]
      BY <2>3 DEF EditSpec
    <3>3. obj'.gen = obj.gen + 1
      BY <3>1, <3>2 DEF NodeClassObjects
    <3> QED BY <3>1, <3>3
  <2>4. UpdateStatus
    BY <2>2, <2>3, WhoWritesObj
  <2>5. MergedEntry(Carried(nc), looked, a) = NoImage
    <3>1. obj'.images = [b \in Archs |-> MergedEntry(Carried(nc), looked, b)]
      BY <2>4, UpdateStatusKeeps
    <3> QED BY <3>1
  <2>6. Carried(nc)[a] # NoImage
    <3>1. /\ nc.gen = obj.gen /\ nc.images = obj.images
          /\ nc.imagesGen \in {obj.imagesGen, obj.gen}
      BY <2>4 DEF UpdateStatus, NoConflict, IInv, FreshInv
    <3> QED BY <2>1, <3>1 DEF Carried, ResolvedImagesGeneration
  <2>7. looked[a] \in Outcomes
    BY DEF IInv, TypeOK
  <2>8. looked[a] # "pending"
    BY <2>4 DEF UpdateStatus, IInv, PassInv, Archs
  <2> QED BY <2>5, <2>6, <2>7, <2>8, ConstantsAssumption DEF MergedEntry, Outcomes
<1> QED BY <1>1, Invariance, PTL DEF Spec, NoBlipClears

=============================================================================
