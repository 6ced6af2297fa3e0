------------------------ MODULE LaunchRefinementProofs ------------------------
(***************************************************************************)
(* Launch implements Choice, for every set of Create calls, every          *)
(* catalogue and every NodeClass; and a server that was launched stays     *)
(* listed.  The invariant of LaunchProofs says what the scan may conclude  *)
(* from what it collected; the refinement also needs the other direction,  *)
(* that what it collected has a reason.                                    *)
(***************************************************************************)
EXTENDS LaunchProofs

\* A listed type the requirements admit, and the image gate does not.
Imageless(c, i) == Compatible(c, i) /\ ~HasResolvedImage(c.nc, Listed(c)[i].arch)

\* What the scan has collected so far has a cause among the types it has seen.
Reasons(c) ==
    /\ c.missing # {} <=> \E k \in Seen(c) : Imageless(c, k)
    /\ c.blocked => \E k \in Seen(c) : Fits(c, k)

RequestInv(c) ==
    /\ c.pc # "done" => c.result = "none"
    /\ c.pc \in {"fetch", "list"} => c.missing = {} /\ ~c.blocked
    /\ c.pc = "scan" => Reasons(c)
    /\ c.result \in {"launched", "refused"} => c.selected # Unselected

RInv == IInv /\ \A w \in Callers : RequestInv(call[w])

\* The state of Choice that the Create calls stand for.
Requests == [w \in Callers |-> RequestOf(call[w])]

\* A step of Choice, or none.
AbstractStep == [Abstract!Next]_(Abstract!vars)

-----------------------------------------------------------------------------
(* Steps of one call.                                                      *)

\* The call w becomes d, and nothing else changes for the calls.
Becomes(w, d) == d \in Calls /\ call' = [call EXCEPT ![w] = d]

\* What RequestOf makes of a call's step and of its selection.
PhaseOf(c) == IF c.pc = "scan" THEN "choose" ELSE c.pc
OfferOf(c) == [name |-> c.selected.name, zone |-> c.selected.zone]
ChosenOf(c) == IF c.pc = "create" \/ c.result \in {"launched", "refused"} THEN OfferOf(c)
               ELSE Abstract!NoOffer

Offers == [name: Nat, zone: Zones \cup {NoZone}]
RequestRecords ==
    [phase: {"idle", "fetch", "list", "choose", "create", "done"},
     claim: Claims \cup {NoClaim}, nc: NodeClasses \cup {NoNodeClass},
     cat: Catalogues \cup {NoTypes}, marked: SUBSET (Nat \X Zones),
     chosen: Offers, result: Results]

\* The request of a call, field by field.
LEMMA RequestShape ==
    ASSUME NEW c \in Calls
    PROVE  /\ RequestOf(c) \in RequestRecords
           /\ RequestOf(c).phase = PhaseOf(c) /\ RequestOf(c).chosen = ChosenOf(c)
           /\ RequestOf(c).claim = c.claim /\ RequestOf(c).nc = c.nc /\ RequestOf(c).cat = c.cat
           /\ RequestOf(c).marked = c.marked /\ RequestOf(c).result = c.result
           /\ OfferOf(c) \in Offers
<1> DEFINE phase == PhaseOf(c)
           chosen == ChosenOf(c)
<1>1. RequestOf(c) = [phase |-> phase, claim |-> c.claim, nc |-> c.nc, cat |-> c.cat,
                      marked |-> c.marked, result |-> c.result, chosen |-> chosen]
  BY DEF RequestOf, PhaseOf, ChosenOf, OfferOf, Abstract!NoOffer
<1>2. phase \in {"idle", "fetch", "list", "choose", "create", "done"}
  BY DEF PhaseOf, Calls
<1>3. c.selected.name \in Nat /\ c.selected.zone \in Zones \cup {NoZone}
  BY DEF Calls, Selections, Unselected
<1>4. OfferOf(c) \in Offers /\ Abstract!NoOffer \in Offers
  BY <1>3 DEF OfferOf, Offers, Abstract!NoOffer
<1>5. chosen \in Offers
  BY <1>4 DEF ChosenOf
<1> HIDE DEF phase, chosen
<1>6. /\ RequestOf(c) \in RequestRecords
      /\ RequestOf(c).phase = phase /\ RequestOf(c).chosen = chosen
      /\ RequestOf(c).claim = c.claim /\ RequestOf(c).nc = c.nc /\ RequestOf(c).cat = c.cat
      /\ RequestOf(c).marked = c.marked /\ RequestOf(c).result = c.result
  BY <1>1, <1>2, <1>5 DEF RequestRecords, Calls
<1> QED BY <1>4, <1>6 DEF phase, chosen

\* d has read what c has.
SameInputs(c, d) == d.claim = c.claim /\ d.nc = c.nc /\ d.cat = c.cat /\ d.marked = c.marked

\* Calls with the same inputs, phase, choice and result are the same request.
LEMMA SameRequest ==
    ASSUME NEW c \in Calls, NEW d \in Calls, SameInputs(c, d),
           PhaseOf(d) = PhaseOf(c), ChosenOf(d) = ChosenOf(c), d.result = c.result
    PROVE  RequestOf(d) = RequestOf(c)
<1>1. RequestOf(c) \in RequestRecords /\ RequestOf(d) \in RequestRecords
  BY RequestShape
<1>2. /\ RequestOf(d).phase = RequestOf(c).phase /\ RequestOf(d).chosen = RequestOf(c).chosen
      /\ RequestOf(d).claim = RequestOf(c).claim /\ RequestOf(d).nc = RequestOf(c).nc
      /\ RequestOf(d).cat = RequestOf(c).cat /\ RequestOf(d).marked = RequestOf(c).marked
      /\ RequestOf(d).result = RequestOf(c).result
  BY RequestShape DEF SameInputs
<1> QED BY <1>1, <1>2 DEF RequestRecords

\* What a step of one call is to the calls and to the requests.
LEMMA OneCall ==
    ASSUME RInv, NEW w \in Callers, NEW d, Becomes(w, d), RequestInv(d)
    PROVE  /\ \A v \in Callers : RequestInv(call'[v])
           /\ Requests' = [Requests EXCEPT ![w] = RequestOf(d)]
           /\ Requests[w] = RequestOf(call[w])
           /\ Abstract!Put(w, RequestOf(d))
<1>1. call \in [Callers -> Calls]
  BY DEF RInv, IInv, TypeOK
<1>2. \A v \in Callers : call'[v] = IF v = w THEN d ELSE call[v]
  BY <1>1 DEF Becomes
<1>3. \A v \in Callers : RequestInv(call'[v])
  BY <1>2 DEF RInv
<1>4. Requests' = [v \in Callers |-> RequestOf(call'[v])]
  BY DEF Requests, RequestOf
<1>5. Requests' = [Requests EXCEPT ![w] = RequestOf(d)]
  BY <1>2, <1>4 DEF Requests
<1>6. Abstract!Put(w, RequestOf(d))
  BY <1>5 DEF Abstract!Put, Requests
<1> QED BY <1>3, <1>5, <1>6 DEF Requests

\* A step of one call that Choice does not see.
LEMMA HiddenStep ==
    ASSUME RInv, NEW w \in Callers, NEW d, Becomes(w, d), RequestInv(d),
           RequestOf(d) = RequestOf(call[w]), UNCHANGED <<catalogue, nodeClass, marks>>
    PROVE  (\A v \in Callers : RequestInv(call'[v])) /\ AbstractStep
<1>1. /\ \A v \in Callers : RequestInv(call'[v])
      /\ Requests' = [Requests EXCEPT ![w] = RequestOf(d)]
      /\ Requests[w] = RequestOf(call[w])
  BY OneCall
<1>2. Requests' = Requests
  BY <1>1 DEF Requests
<1> QED BY <1>1, <1>2 DEF AbstractStep, Abstract!vars, Requests

\* A call ends, other than by a refusal, and is answered as Choice answers.
LEMMA Ends ==
    ASSUME RInv, NEW w \in Callers, NEW how \in Results \ {"none", "refused"},
           CreateReturns(w, how), call[w].pc # "done",
           how = "launched" => call[w].pc = "create" /\ call[w].selected # Unselected
    PROVE  /\ \A v \in Callers : RequestInv(call'[v])
           /\ call[w].pc # "create" \/ how = "launched" => Abstract!Answer(w, how)
           /\ call[w].pc = "create" /\ how = "error" =>
                Abstract!Put(w, [Requests[w] EXCEPT !.phase = "done", !.result = "error",
                                                    !.chosen = Abstract!NoOffer])
<1> DEFINE c == call[w]
           d == [c EXCEPT !.pc = "done", !.result = how]
<1>1. c \in Calls /\ call \in [Callers -> Calls] /\ RequestInv(c)
  BY DEF RInv, IInv, TypeOK
<1>2. call' = [call EXCEPT ![w] = d]
  BY <1>1 DEF CreateReturns
<1>3. d \in Calls
  BY <1>1 DEF Calls
<1>4. d.pc = "done" /\ d.result = how /\ d.selected = c.selected /\ SameInputs(c, d)
  BY <1>1 DEF Calls, SameInputs
<1> HIDE DEF d
<1>5. RequestInv(d)
  BY <1>4 DEF RequestInv
<1>6. /\ \A v \in Callers : RequestInv(call'[v])
      /\ Requests[w] = RequestOf(c)
      /\ Abstract!Put(w, RequestOf(d))
  BY <1>2, <1>3, <1>5, OneCall DEF Becomes
<1>7. /\ RequestOf(c) \in RequestRecords /\ RequestOf(d) \in RequestRecords
      /\ RequestOf(d).claim = RequestOf(c).claim /\ RequestOf(d).nc = RequestOf(c).nc
      /\ RequestOf(d).cat = RequestOf(c).cat /\ RequestOf(d).marked = RequestOf(c).marked
      /\ RequestOf(d).result = how /\ RequestOf(d).phase = "done"
      /\ RequestOf(d).chosen = ChosenOf(d) /\ RequestOf(c).chosen = ChosenOf(c)
  BY <1>1, <1>3, <1>4, RequestShape DEF SameInputs, PhaseOf
<1>8. ASSUME c.pc # "create" \/ how = "launched"
      PROVE  Abstract!Answer(w, how)
  <2>1. ChosenOf(d) = ChosenOf(c)
    BY <1>1, <1>4, <1>8 DEF ChosenOf, OfferOf, RequestInv
  <2>2. RequestOf(d) = [RequestOf(c) EXCEPT !.phase = "done", !.result = how]
    BY <1>7, <2>1 DEF RequestRecords
  <2>3. Abstract!Put(w, [Requests[w] EXCEPT !.phase = "done", !.result = how])
    BY <1>6, <2>2
  <2> QED BY <2>3 DEF Abstract!Answer, Requests
<1>9. ASSUME c.pc = "create", how = "error"
      PROVE  Abstract!Put(w, [Requests[w] EXCEPT !.phase = "done", !.result = "error",
                                                 !.chosen = Abstract!NoOffer])
  <2>1. ChosenOf(d) = Abstract!NoOffer
    BY <1>4, <1>9 DEF ChosenOf
  <2>2. RequestOf(d) = [RequestOf(c) EXCEPT !.phase = "done", !.result = "error",
                                            !.chosen = Abstract!NoOffer]
    BY <1>7, <1>9, <2>1 DEF RequestRecords
  <2> QED BY <1>6, <2>2
<1> QED BY <1>6, <1>8, <1>9

\* Choice's idle request is well typed.
LEMMA IdleRequestType ==
    /\ Abstract!Idle \in RequestRecords
    /\ Abstract!Idle = RequestOf(IdleCall)
<1>1. /\ RequestOf(IdleCall) \in RequestRecords
      /\ RequestOf(IdleCall).phase = PhaseOf(IdleCall) /\ RequestOf(IdleCall).chosen = ChosenOf(IdleCall)
      /\ RequestOf(IdleCall).claim = IdleCall.claim /\ RequestOf(IdleCall).nc = IdleCall.nc
      /\ RequestOf(IdleCall).cat = IdleCall.cat /\ RequestOf(IdleCall).marked = IdleCall.marked
      /\ RequestOf(IdleCall).result = IdleCall.result
  BY IdleCallType, RequestShape
<1>2. PhaseOf(IdleCall) = "idle" /\ ChosenOf(IdleCall) = Abstract!NoOffer
  BY DEF PhaseOf, ChosenOf, IdleCall
<1>3. /\ IdleCall.claim = NoClaim /\ IdleCall.nc = NoNodeClass /\ IdleCall.cat = NoTypes
      /\ IdleCall.marked = {} /\ IdleCall.result = "none"
  BY DEF IdleCall
<1>4. Abstract!NoOffer \in Offers
  BY DEF Abstract!NoOffer, Offers
<1>5. Abstract!Idle = [phase |-> "idle", claim |-> NoClaim, nc |-> NoNodeClass, cat |-> NoTypes,
                       marked |-> {}, chosen |-> Abstract!NoOffer, result |-> "none"]
  BY DEF Abstract!Idle, NoClaim, NoNodeClass, NoTypes
<1>6. /\ Abstract!Idle \in RequestRecords
      /\ Abstract!Idle.phase = "idle" /\ Abstract!Idle.claim = NoClaim
      /\ Abstract!Idle.nc = NoNodeClass /\ Abstract!Idle.cat = NoTypes
      /\ Abstract!Idle.marked = {} /\ Abstract!Idle.chosen = Abstract!NoOffer
      /\ Abstract!Idle.result = "none"
  BY <1>4, <1>5 DEF RequestRecords, Results
<1> QED BY <1>1, <1>2, <1>3, <1>6 DEF RequestRecords

\* The scheduler's claim is a request.
LEMMA ScheduleRefines ==
    ASSUME RInv, NEW w \in Callers, NEW claim \in Claims, Schedule(w, claim)
    PROVE  (\A v \in Callers : RequestInv(call'[v])) /\ AbstractStep
<1> DEFINE d == [IdleCall EXCEPT !.pc = "fetch", !.claim = claim, !.steady = TRUE, !.barred = refused]
<1>1. /\ call[w].pc = "idle" /\ call' = [call EXCEPT ![w] = d]
      /\ UNCHANGED <<catalogue, nodeClass, marks, refused>>
  BY DEF Schedule
<1>2. refused \in SUBSET (Nat \X Zones) /\ call[w] \in Calls
  BY DEF RInv, IInv, TypeOK
<1>3. d \in Calls
  BY <1>2, IdleCallType DEF Calls
<1>4. /\ d.pc = "fetch" /\ d.claim = claim /\ d.nc = NoNodeClass /\ d.cat = NoTypes
      /\ d.marked = {} /\ d.result = "none" /\ d.missing = {} /\ ~d.blocked
  BY DEF IdleCall
<1> HIDE DEF d
<1>5. RequestInv(d)
  BY <1>4 DEF RequestInv
<1>6. /\ \A v \in Callers : RequestInv(call'[v])
      /\ Requests[w] = RequestOf(call[w])
      /\ Abstract!Put(w, RequestOf(d))
  BY <1>1, <1>3, <1>5, OneCall DEF Becomes
<1>7. RequestOf(d) = [Abstract!Idle EXCEPT !.phase = "fetch", !.claim = claim]
  <2>1. PhaseOf(d) = "fetch" /\ ChosenOf(d) = Abstract!NoOffer
    BY <1>4 DEF PhaseOf, ChosenOf
  <2>2. /\ RequestOf(d) \in RequestRecords
        /\ RequestOf(d).phase = "fetch" /\ RequestOf(d).chosen = Abstract!NoOffer
        /\ RequestOf(d).claim = claim /\ RequestOf(d).nc = NoNodeClass
        /\ RequestOf(d).cat = NoTypes /\ RequestOf(d).marked = {} /\ RequestOf(d).result = "none"
    BY <1>3, <1>4, <2>1, RequestShape
  <2>3. /\ Abstract!Idle \in RequestRecords
        /\ Abstract!Idle.nc = NoNodeClass /\ Abstract!Idle.cat = NoTypes
        /\ Abstract!Idle.marked = {} /\ Abstract!Idle.chosen = Abstract!NoOffer
        /\ Abstract!Idle.result = "none"
    BY IdleRequestType DEF Abstract!Idle, NoNodeClass, NoTypes
  <2> QED BY <2>2, <2>3 DEF RequestRecords
<1>8. Requests[w].phase = "idle"
  BY <1>1, <1>2, <1>6, RequestShape DEF PhaseOf
<1>9. Abstract!Ask(w)
  BY <1>1, <1>6, <1>7, <1>8 DEF Abstract!Ask, Requests
<1> QED BY <1>6, <1>9 DEF AbstractStep, Abstract!Next

\* Reading the NodeClass is reading the NodeClass.
LEMMA ResolveNodeClassRefines ==
    ASSUME RInv, NEW w \in Callers, ResolveNodeClass(w)
    PROVE  (\A v \in Callers : RequestInv(call'[v])) /\ AbstractStep
<1> DEFINE c == call[w]
<1>1. /\ c \in Calls /\ call \in [Callers -> Calls] /\ RequestInv(c)
      /\ nodeClass \in NodeClasses
  BY DEF RInv, IInv, TypeOK
<1>2. c.pc = "fetch" /\ UNCHANGED <<catalogue, nodeClass, marks, refused>>
  BY DEF ResolveNodeClass
<1>3. Requests[w] = RequestOf(c) /\ RequestOf(c).phase = "fetch"
  BY <1>1, <1>2, RequestShape DEF Requests, PhaseOf
<1>4. CASE CreateReturns(w, "error")
  <2>1. (\A v \in Callers : RequestInv(call'[v])) /\ Abstract!Answer(w, "error")
    BY <1>2, <1>4, Ends DEF Results
  <2>2. Abstract!ReadNodeClass(w)
    BY <1>2, <1>3, <2>1 DEF Abstract!ReadNodeClass, Requests
  <2> QED BY <2>1, <2>2 DEF AbstractStep, Abstract!Next
<1>5. CASE call' = [call EXCEPT ![w].pc = "list", ![w].nc = nodeClass]
  <2> DEFINE d == [c EXCEPT !.pc = "list", !.nc = nodeClass]
  <2>1. call' = [call EXCEPT ![w] = d]
    BY <1>1, <1>5
  <2>2. d \in Calls
    BY <1>1 DEF Calls
  <2>3. /\ d.pc = "list" /\ d.nc = nodeClass /\ d.claim = c.claim /\ d.cat = c.cat
        /\ d.marked = c.marked /\ d.result = c.result /\ d.missing = c.missing
        /\ d.blocked = c.blocked /\ d.selected = c.selected
    BY <1>1 DEF Calls
  <2> HIDE DEF d
  <2>4. RequestInv(d)
    BY <1>1, <1>2, <2>3 DEF RequestInv
  <2>5. (\A v \in Callers : RequestInv(call'[v])) /\ Abstract!Put(w, RequestOf(d))
    BY <2>1, <2>2, <2>4, OneCall DEF Becomes
  <2>6. PhaseOf(d) = "list" /\ ChosenOf(d) = ChosenOf(c)
    BY <1>1, <1>2, <2>3 DEF PhaseOf, ChosenOf, RequestInv
  <2>7. RequestOf(d) = [RequestOf(c) EXCEPT !.phase = "list", !.nc = nodeClass]
    <3>1. /\ RequestOf(d) \in RequestRecords /\ RequestOf(c) \in RequestRecords
          /\ RequestOf(d).phase = "list" /\ RequestOf(d).chosen = RequestOf(c).chosen
          /\ RequestOf(d).claim = RequestOf(c).claim /\ RequestOf(d).nc = nodeClass
          /\ RequestOf(d).cat = RequestOf(c).cat /\ RequestOf(d).marked = RequestOf(c).marked
          /\ RequestOf(d).result = RequestOf(c).result
      BY <1>1, <2>2, <2>3, <2>6, RequestShape
    <3> QED BY <1>1, <3>1 DEF RequestRecords
  <2>8. Abstract!Put(w, [Requests[w] EXCEPT !.phase = "list", !.nc = nodeClass])
    BY <1>3, <2>5, <2>7
  <2>9. Abstract!ReadNodeClass(w)
    BY <1>2, <1>3, <2>8 DEF Abstract!ReadNodeClass, Requests
  <2> QED BY <2>5, <2>9 DEF AbstractStep, Abstract!Next
<1> QED BY <1>4, <1>5 DEF ResolveNodeClass

\* List reads the catalogue and the marks in one step, and the scan starts.
LEMMA ListTypesRefines ==
    ASSUME RInv, NEW w \in Callers, ListTypes(w)
    PROVE  (\A v \in Callers : RequestInv(call'[v])) /\ AbstractStep
<1> DEFINE c == call[w]
<1>1. /\ c \in Calls /\ call \in [Callers -> Calls] /\ RequestInv(c)
      /\ catalogue \in Catalogues /\ marks \in SUBSET (Nat \X Zones)
  BY DEF RInv, IInv, TypeOK
<1>2. c.pc = "list" /\ UNCHANGED <<catalogue, nodeClass, marks, refused>>
  BY DEF ListTypes
<1>3. Requests[w] = RequestOf(c) /\ RequestOf(c).phase = "list"
  BY <1>1, <1>2, RequestShape DEF Requests, PhaseOf
<1>4. CASE CreateReturns(w, "error")
  <2>1. (\A v \in Callers : RequestInv(call'[v])) /\ Abstract!Answer(w, "error")
    BY <1>2, <1>4, Ends DEF Results
  <2>2. Abstract!ReadCatalogue(w)
    BY <1>2, <1>3, <2>1 DEF Abstract!ReadCatalogue, Requests
  <2> QED BY <2>1, <2>2 DEF AbstractStep, Abstract!Next
<1>5. CASE call' = [call EXCEPT ![w].pc = "scan", ![w].cat = catalogue, ![w].marked = marks,
                                ![w].todo = DOMAIN List(catalogue, marks, call[w].nc)]
  <2> DEFINE all == DOMAIN List(catalogue, marks, c.nc)
             d == [c EXCEPT !.pc = "scan", !.cat = catalogue, !.marked = marks, !.todo = all]
  <2>1. call' = [call EXCEPT ![w] = d]
    BY <1>1, <1>5
  <2>2. c.nc \in NodeClasses
    BY <1>2 DEF RInv, IInv, CallInv
  <2>3. all \in SUBSET Nat
    BY <1>1, <2>2, ListMeaning, ConstantsAssumption
  <2>4. d \in Calls
    BY <1>1, <2>3 DEF Calls
  <2>5. /\ d.pc = "scan" /\ d.nc = c.nc /\ d.claim = c.claim /\ d.cat = catalogue
        /\ d.marked = marks /\ d.result = c.result /\ d.missing = c.missing
        /\ d.blocked = c.blocked /\ d.selected = c.selected /\ d.todo = all
    BY <1>1 DEF Calls
  <2> HIDE DEF d
  <2>6. Seen(d) = {}
    BY <2>5 DEF Seen, Listed
  <2>7. RequestInv(d)
    BY <1>1, <1>2, <2>5, <2>6 DEF RequestInv, Reasons
  <2>8. (\A v \in Callers : RequestInv(call'[v])) /\ Abstract!Put(w, RequestOf(d))
    BY <2>1, <2>4, <2>7, OneCall DEF Becomes
  <2>9. PhaseOf(d) = "choose" /\ ChosenOf(d) = ChosenOf(c)
    BY <1>1, <1>2, <2>5 DEF PhaseOf, ChosenOf, RequestInv
  <2>10. RequestOf(d) = [RequestOf(c) EXCEPT !.phase = "choose", !.cat = catalogue, !.marked = marks]
    <3>1. /\ RequestOf(d) \in RequestRecords /\ RequestOf(c) \in RequestRecords
          /\ RequestOf(d).phase = "choose" /\ RequestOf(d).chosen = RequestOf(c).chosen
          /\ RequestOf(d).claim = RequestOf(c).claim /\ RequestOf(d).nc = RequestOf(c).nc
          /\ RequestOf(d).cat = catalogue /\ RequestOf(d).marked = marks
          /\ RequestOf(d).result = RequestOf(c).result
      BY <1>1, <2>4, <2>5, <2>9, RequestShape
    <3> QED BY <1>1, <3>1 DEF RequestRecords
  <2>11. Abstract!Put(w, [Requests[w] EXCEPT !.phase = "choose", !.cat = catalogue, !.marked = marks])
    BY <1>3, <2>8, <2>10
  <2>12. Abstract!ReadCatalogue(w)
    BY <1>2, <1>3, <2>11 DEF Abstract!ReadCatalogue, Requests
  <2> QED BY <2>8, <2>12 DEF AbstractStep, Abstract!Next
<1> QED BY <1>4, <1>5 DEF ListTypes

-----------------------------------------------------------------------------
(* The scan, which Choice does not see.                                    *)

\* A step of the scan that records a missing image or a lack of capacity only
\* for the type it takes.
LEMMA ScanRefines ==
    ASSUME RInv, NEW w \in Callers, NEW d, Becomes(w, d), NEW i, ScanStep(call[w], d, i),
           call[w].pc = "scan", UNCHANGED <<catalogue, nodeClass, marks, refused>>,
           d.missing # {} <=> call[w].missing # {} \/ Imageless(call[w], i),
           d.blocked => call[w].blocked \/ Fits(call[w], i)
    PROVE  (\A v \in Callers : RequestInv(call'[v])) /\ AbstractStep
<1> DEFINE c == call[w]
<1>1. c \in Calls /\ d \in Calls /\ RequestInv(c) /\ ScanInv(c)
  BY DEF RInv, IInv, TypeOK, CallInv, Becomes
<1>2. /\ d.pc = "scan" /\ d.result = "none" /\ c.result = "none" /\ SameInputs(c, d)
  BY <1>1 DEF ScanStep, RequestInv, SameInputs
<1>3. /\ Listed(d) = Listed(c) /\ Seen(d) = Seen(c) \cup {i}
      /\ \A k : Fits(d, k) <=> Fits(c, k)
  BY <1>1, ScanStepListing
<1>4. \A k : Imageless(d, k) <=> Imageless(c, k)
  BY <1>2, <1>3 DEF Imageless, Compatible, SameInputs
<1>5. Reasons(c)
  BY <1>1 DEF RequestInv
<1>6. Reasons(d)
  BY <1>3, <1>4, <1>5 DEF Reasons
<1>7. RequestInv(d)
  BY <1>2, <1>6 DEF RequestInv
<1>8. PhaseOf(d) = PhaseOf(c) /\ ChosenOf(d) = ChosenOf(c)
  BY <1>2 DEF PhaseOf, ChosenOf
<1>9. RequestOf(d) = RequestOf(c)
  BY <1>1, <1>2, <1>8, SameRequest
<1> QED BY <1>7, <1>9, HiddenStep

\* A type the requirements rule out leaves no trace.
LEMMA SkipIncompatibleRefines ==
    ASSUME RInv, NEW w \in Callers, SkipIncompatible(w)
    PROVE  (\A v \in Callers : RequestInv(call'[v])) /\ AbstractStep
<1>1. PICK i \in call[w].todo :
        /\ NextType(call[w], i) /\ ~Compatible(call[w], i)
        /\ call' = [call EXCEPT ![w].todo = @ \ {i}]
  BY DEF SkipIncompatible
<1> DEFINE c == call[w]
           d == [c EXCEPT !.todo = c.todo \ {i}]
<1>2. c \in Calls /\ call \in [Callers -> Calls]
  BY DEF RInv, IInv, TypeOK
<1>3. Becomes(w, d) /\ c.pc = "scan"
  BY <1>1, <1>2 DEF Becomes, Calls, NextType
<1>4. ScanStep(c, d, i) /\ d.blocked = c.blocked /\ d.missing = c.missing
  BY <1>1, <1>2 DEF ScanStep, Calls
<1>5. ~Imageless(c, i)
  BY <1>1 DEF Imageless
<1> HIDE DEF d
<1> QED BY <1>3, <1>4, <1>5, ScanRefines DEF SkipIncompatible

\* A type without an image is what a missing architecture stands for.
LEMMA SkipImagelessRefines ==
    ASSUME RInv, NEW w \in Callers, SkipImageless(w)
    PROVE  (\A v \in Callers : RequestInv(call'[v])) /\ AbstractStep
<1>1. PICK i \in call[w].todo :
        /\ NextType(call[w], i) /\ Compatible(call[w], i)
        /\ ~HasResolvedImage(call[w].nc, Listed(call[w])[i].arch)
        /\ call' = [call EXCEPT ![w].todo = @ \ {i},
                                ![w].missing = @ \cup {Listed(call[w])[i].arch}]
  BY DEF SkipImageless
<1> DEFINE c == call[w]
           m == c.missing \cup {Listed(c)[i].arch}
           d == [c EXCEPT !.todo = c.todo \ {i}, !.missing = m]
<1>2. c \in Calls /\ call \in [Callers -> Calls] /\ CallInv(c, catalogue, nodeClass, marks)
  BY DEF RInv, IInv, TypeOK
<1>3. c.pc = "scan" /\ ScanInv(c)
  BY <1>1, <1>2 DEF NextType, CallInv
<1>4. Listed(c)[i].arch \in Archs
  <2>1. i \in DOMAIN List(c.cat, c.marked, c.nc) /\ c.cat \in Catalogues /\ c.nc \in NodeClasses
    BY <1>1, <1>3 DEF ScanInv, Listed
  <2>2. i \in DOMAIN c.cat /\ Listed(c)[i].arch = c.cat[i].arch
    BY <2>1, ListMeaning DEF Listed, ListedAs
  <2> QED BY <2>1, <2>2, ConstantsAssumption
<1>5. m \in SUBSET Archs /\ m # {}
  BY <1>2, <1>4 DEF Calls
<1>6. call' = [call EXCEPT ![w] = d]
  BY <1>1, <1>2
<1>7. d \in Calls
  BY <1>2, <1>5 DEF Calls
<1>8. ScanStep(c, d, i) /\ d.missing = m /\ d.blocked = c.blocked
  BY <1>1, <1>2 DEF ScanStep, Calls
<1>9. Imageless(c, i)
  BY <1>1 DEF Imageless
<1> HIDE DEF d, m
<1> QED BY <1>3, <1>5, <1>6, <1>7, <1>8, <1>9, ScanRefines DEF SkipImageless, Becomes

\* A type with an image and no launchable offering is what blocked stands for.
LEMMA SkipUnavailableRefines ==
    ASSUME RInv, NEW w \in Callers, SkipUnavailable(w)
    PROVE  (\A v \in Callers : RequestInv(call'[v])) /\ AbstractStep
<1>1. PICK i \in call[w].todo :
        /\ NextType(call[w], i) /\ Compatible(call[w], i)
        /\ HasResolvedImage(call[w].nc, Listed(call[w])[i].arch)
        /\ call' = [call EXCEPT ![w].todo = @ \ {i}, ![w].blocked = TRUE]
  BY DEF SkipUnavailable
<1> DEFINE c == call[w]
           d == [c EXCEPT !.todo = c.todo \ {i}, !.blocked = TRUE]
<1>2. c \in Calls /\ call \in [Callers -> Calls]
  BY DEF RInv, IInv, TypeOK
<1>3. Becomes(w, d) /\ c.pc = "scan"
  BY <1>1, <1>2 DEF Becomes, Calls, NextType
<1>4. ScanStep(c, d, i) /\ d.missing = c.missing
  BY <1>1, <1>2 DEF ScanStep, Calls
<1>5. ~Imageless(c, i) /\ Fits(c, i)
  BY <1>1 DEF Imageless, Fits
<1> HIDE DEF d
<1> QED BY <1>3, <1>4, <1>5, ScanRefines DEF SkipUnavailable

\* Ranking a type changes the selection, which Choice does not see yet.
LEMMA RankRefines ==
    ASSUME RInv, NEW w \in Callers, Rank(w)
    PROVE  (\A v \in Callers : RequestInv(call'[v])) /\ AbstractStep
<1> DEFINE c == call[w]
<1>1. PICK i \in c.todo : \E j \in DOMAIN Listed(c)[i].offerings :
        /\ NextType(c, i) /\ Compatible(c, i) /\ HasResolvedImage(c.nc, Listed(c)[i].arch)
        /\ Cheapest(Listed(c)[i], c.claim, j)
        /\ call' = [call EXCEPT
              ![w].todo = @ \ {i},
              ![w].selected = IF Better(Candidate(Listed(c)[i], j), @)
                              THEN Candidate(Listed(c)[i], j) ELSE @]
  BY DEF Rank
<1>2. PICK j \in DOMAIN Listed(c)[i].offerings :
        /\ NextType(c, i) /\ Compatible(c, i) /\ HasResolvedImage(c.nc, Listed(c)[i].arch)
        /\ Cheapest(Listed(c)[i], c.claim, j)
        /\ call' = [call EXCEPT
              ![w].todo = @ \ {i},
              ![w].selected = IF Better(Candidate(Listed(c)[i], j), @)
                              THEN Candidate(Listed(c)[i], j) ELSE @]
  BY <1>1
<1> DEFINE s == IF Better(Candidate(Listed(c)[i], j), c.selected)
                THEN Candidate(Listed(c)[i], j) ELSE c.selected
           d == [c EXCEPT !.todo = c.todo \ {i}, !.selected = s]
<1>3. c \in Calls /\ call \in [Callers -> Calls] /\ CallInv(c, catalogue, nodeClass, marks)
  BY DEF RInv, IInv, TypeOK
<1>4. c.pc = "scan" /\ ScanInv(c) /\ Fits(c, i) /\ ~Imageless(c, i)
  BY <1>2, <1>3 DEF NextType, CallInv, Fits, Imageless
<1>5. call' = [call EXCEPT ![w] = d]
  BY <1>2, <1>3
<1>6. /\ ScanStep(c, d, i) /\ d.selected = s /\ d.blocked = c.blocked /\ d.missing = c.missing
  BY <1>1, <1>3 DEF ScanStep, Calls
<1> HIDE DEF s
<1>7. d.selected \in Selections
  <2> HIDE DEF d
  <2> QED BY <1>2, <1>3, <1>4, <1>6, RankKeepsScan DEF s
<1>8. d \in Calls
  BY <1>3, <1>6, <1>7 DEF Calls
<1> HIDE DEF d
<1> QED BY <1>4, <1>5, <1>6, <1>8, ScanRefines DEF Rank, Becomes

-----------------------------------------------------------------------------
(* The end of the scan: what it found, as Choice sees the catalogue.       *)

\* A type is listed when the NodeClass names no location, or hcloud prices it
\* in one that the NodeClass names.
LEMMA ListDomain ==
    ASSUME NEW cat \in Catalogues, NEW marked, NEW nc \in NodeClasses, NEW i
    PROVE  i \in DOMAIN List(cat, marked, nc) <=>
              /\ i \in DOMAIN cat
              /\ \/ nc.locations = {}
                 \/ \E j \in DOMAIN cat[i].pricings :
                       cat[i].pricings[j].zone # NoZone /\ cat[i].pricings[j].zone \in nc.locations
<1> DEFINE types == ToInstanceTypes(cat)
<1>1. DOMAIN List(cat, marked, nc) = DOMAIN FilterByLocations(types, nc.locations)
  BY DEF List, ApplyAvailability
<1>2. i \in DOMAIN FilterByLocations(types, nc.locations) <=>
        /\ i \in DOMAIN types
        /\ nc.locations = {} \/ DOMAIN InLocations(types[i].offerings, nc.locations) # {}
  <2> HIDE DEF types
  <2> QED BY DEF FilterByLocations
<1>3. DOMAIN types = DOMAIN cat
  BY DEF ToInstanceTypes
<1>4. ASSUME i \in DOMAIN cat, nc.locations # {}
      PROVE  DOMAIN InLocations(types[i].offerings, nc.locations) # {} <=>
               \E j \in DOMAIN cat[i].pricings :
                  cat[i].pricings[j].zone # NoZone /\ cat[i].pricings[j].zone \in nc.locations
  <2> DEFINE os == types[i].offerings
             Ps == cat[i].pricings
  <2>1. types[i] = ToInstanceType(cat[i])
    BY <1>4 DEF ToInstanceTypes
  <2>2. /\ DOMAIN os = {k \in DOMAIN Ps : Ps[k].zone # NoZone}
        /\ \A j \in DOMAIN os : os[j].zone = Ps[j].zone
    BY <2>1 DEF ToInstanceType
  <2> HIDE DEF os, Ps
  <2>3. DOMAIN InLocations(os, nc.locations) = {k \in DOMAIN os : os[k].zone \in nc.locations}
    BY <1>4 DEF InLocations
  <2>4. DOMAIN InLocations(os, nc.locations) # {} <=>
          \E j \in DOMAIN Ps : Ps[j].zone # NoZone /\ Ps[j].zone \in nc.locations
    BY <2>2, <2>3
  <2> QED BY <2>4 DEF os, Ps
<1> QED BY <1>1, <1>2, <1>3, <1>4

\* An offer of Choice is a launch Create may choose, at the same price.
LEMMA OfferedIsEligible ==
    ASSUME NEW c \in Calls, c.cat \in Catalogues, c.nc \in NodeClasses,
           NEW i \in DOMAIN c.cat, NEW j \in DOMAIN c.cat[i].pricings
    PROVE  /\ Abstract!Offered(c.cat[i], j, RequestOf(c)) <=> Eligible(c, i, j)
           /\ Abstract!Price(c.cat[i].pricings[j]) = NetPrice(c.cat[i].pricings[j])
<1> DEFINE st == c.cat[i]
           p == st.pricings[j]
           r == RequestOf(c)
<1>1. r.claim = c.claim /\ r.nc = c.nc /\ r.cat = c.cat /\ r.marked = c.marked
  BY RequestShape
<1>2. p.zone \in c.claim.zones => p.zone # NoZone
  BY ConstantsAssumption DEF Calls, NoClaim
<1>3. Abstract!Priced(p) <=> Usable(p.hourly) \/ Usable(p.monthly)
  BY DEF Abstract!Priced, Usable
<1> HIDE DEF r
<1>4. Abstract!Offered(st, j, r) <=> Eligible(c, i, j)
  BY <1>1, <1>2, <1>3 DEF Abstract!Offered, Abstract!WithImage, Abstract!Within, Eligible
<1>5. Abstract!Price(p) = NetPrice(p)
  BY DEF Abstract!Price, NetPrice, Usable
<1> QED BY <1>4, <1>5 DEF r

\* A fitting type of Choice is a listed type the requirements admit.
LEMMA FittingIsListed ==
    ASSUME NEW c \in Calls, c.cat \in Catalogues, c.nc \in NodeClasses, NEW i
    PROVE  /\ i \in Abstract!Fitting(RequestOf(c)) <=> i \in DOMAIN Listed(c) /\ Compatible(c, i)
           /\ i \in DOMAIN Listed(c) =>
                (Abstract!WithImage(c.cat[i], RequestOf(c)) <=> HasResolvedImage(c.nc, Listed(c)[i].arch))
<1> DEFINE r == RequestOf(c)
<1>1. r.claim = c.claim /\ r.nc = c.nc /\ r.cat = c.cat
  BY RequestShape
<1> HIDE DEF r
<1>2. i \in DOMAIN Listed(c) <=>
        /\ i \in DOMAIN c.cat
        /\ \/ c.nc.locations = {}
           \/ \E j \in DOMAIN c.cat[i].pricings :
                 c.cat[i].pricings[j].zone # NoZone /\ c.cat[i].pricings[j].zone \in c.nc.locations
  BY ListDomain DEF Listed
<1>3. i \in DOMAIN Listed(c) => Listed(c)[i].name = c.cat[i].name /\ Listed(c)[i].arch = c.cat[i].arch
  BY ListMeaning DEF Listed, ListedAs
<1>4. i \in Abstract!Fitting(r) <=>
        /\ i \in DOMAIN c.cat /\ c.cat[i].name \in c.claim.fits
        /\ \/ c.nc.locations = {}
           \/ \E j \in DOMAIN c.cat[i].pricings :
                 c.cat[i].pricings[j].zone # NoZone /\ c.cat[i].pricings[j].zone \in c.nc.locations
  BY <1>1 DEF Abstract!Fitting, Abstract!Within
<1>5. i \in Abstract!Fitting(r) <=> i \in DOMAIN Listed(c) /\ Compatible(c, i)
  BY <1>2, <1>3, <1>4 DEF Compatible
<1>6. i \in DOMAIN Listed(c) =>
        (Abstract!WithImage(c.cat[i], r) <=> HasResolvedImage(c.nc, Listed(c)[i].arch))
  BY <1>1, <1>3 DEF Abstract!WithImage, HasResolvedImage
<1> QED BY <1>5, <1>6 DEF r

\* When the scan ends with a selection, that is the best offer there is.
LEMMA ScanFindsBest ==
    ASSUME NEW c \in Calls, ScanInv(c), c.todo = {}, c.selected # Unselected
    PROVE  /\ \E i \in DOMAIN c.cat : \E j \in DOMAIN c.cat[i].pricings :
                /\ Abstract!Best(c.cat[i], j, RequestOf(c))
                /\ OfferOf(c) = [name |-> c.cat[i].name, zone |-> c.cat[i].pricings[j].zone]
           /\ c.nc.images = {} \/ c.selected.arch \in c.nc.images
<1> DEFINE r == RequestOf(c)
<1>1. c.cat \in Catalogues /\ c.nc \in NodeClasses /\ Seen(c) = DOMAIN Listed(c)
  BY DEF ScanInv, Seen
<1>2. PICK i \in DOMAIN Listed(c) : \E j :
        Ranked(c, i, j) /\ c.selected = Candidate(Listed(c)[i], j)
  BY <1>1 DEF ScanInv
<1>3. PICK j : Ranked(c, i, j) /\ c.selected = Candidate(Listed(c)[i], j)
  BY <1>2
<1>4. \A k \in DOMAIN Listed(c) : \A m :
        Ranked(c, k, m) => NoWorse(c.selected, Candidate(Listed(c)[k], m))
  BY <1>1 DEF ScanInv
<1>5. /\ i \in DOMAIN c.cat /\ j \in DOMAIN c.cat[i].pricings /\ Eligible(c, i, j)
      /\ c.selected.name = c.cat[i].name /\ c.selected.zone = c.cat[i].pricings[j].zone
      /\ c.selected.price = NetPrice(c.cat[i].pricings[j])
  BY <1>1, <1>3, RankedMeaning
<1>6. r.cat = c.cat
  BY RequestShape
<1> HIDE DEF r
<1>7. Abstract!Offered(c.cat[i], j, r) /\ Abstract!Price(c.cat[i].pricings[j]) = c.selected.price
  BY <1>1, <1>5, OfferedIsEligible DEF r
<1>8. ASSUME NEW k \in DOMAIN c.cat, NEW m \in DOMAIN c.cat[k].pricings,
             Abstract!Offered(c.cat[k], m, r)
      PROVE  \/ Abstract!Price(c.cat[i].pricings[j]) < Abstract!Price(c.cat[k].pricings[m])
             \/ /\ Abstract!Price(c.cat[i].pricings[j]) = Abstract!Price(c.cat[k].pricings[m])
                /\ c.cat[i].name <= c.cat[k].name
  <2>1. Eligible(c, k, m) /\ Abstract!Price(c.cat[k].pricings[m]) = NetPrice(c.cat[k].pricings[m])
    BY <1>1, <1>8, OfferedIsEligible DEF r
  <2>2. k \in DOMAIN Listed(c) /\ Ranked(c, k, m)
    BY <1>1, <2>1, EligibleIsRanked
  <2> DEFINE e == Candidate(Listed(c)[k], m)
  <2>3. NoWorse(c.selected, e)
    BY <1>4, <2>2
  <2>4. e.name = c.cat[k].name /\ e.price = NetPrice(c.cat[k].pricings[m])
    BY <1>1, <2>2, RankedMeaning
  <2> HIDE DEF e
  <2> QED BY <1>5, <1>7, <2>1, <2>3, <2>4 DEF NoWorse
<1>9. Abstract!Best(c.cat[i], j, r)
  BY <1>6, <1>7, <1>8 DEF Abstract!Best
<1>10. c.nc.images = {} \/ c.selected.arch \in c.nc.images
  <2>1. c.selected.arch = Listed(c)[i].arch
    BY <1>3 DEF Candidate
  <2> QED BY <1>3, <2>1 DEF Ranked, Fits, HasResolvedImage
<1>11. OfferOf(c) = [name |-> c.cat[i].name, zone |-> c.cat[i].pricings[j].zone]
  BY <1>5 DEF OfferOf
<1> QED BY <1>5, <1>9, <1>10, <1>11 DEF r

\* When it ends with none, there was no offer, and what it collected tells
\* whether the image is to blame.
LEMMA ScanFindsNone ==
    ASSUME NEW c \in Calls, ScanInv(c), Reasons(c), c.todo = {}, c.selected = Unselected
    PROVE  /\ Abstract!NothingOffered(RequestOf(c))
           /\ c.missing # {} /\ ~c.blocked <=> Abstract!ImageIsToBlame(RequestOf(c))
<1> DEFINE r == RequestOf(c)
<1>1. c.cat \in Catalogues /\ c.nc \in NodeClasses /\ Seen(c) = DOMAIN Listed(c)
  BY DEF ScanInv, Seen
<1>2. r.cat = c.cat
  BY RequestShape
<1> HIDE DEF r
<1>3. Abstract!NothingOffered(r)
  <2>1. ASSUME NEW i \in DOMAIN c.cat, NEW j \in DOMAIN c.cat[i].pricings
        PROVE  ~Abstract!Offered(c.cat[i], j, r)
    <3>1. i \in DOMAIN Listed(c) => ~Ranked(c, i, j)
      BY <1>1 DEF ScanInv
    <3> QED BY <1>1, <3>1, OfferedIsEligible, EligibleIsRanked DEF r
  <2> QED BY <1>2, <2>1 DEF Abstract!NothingOffered
<1>4. \A i : i \in Abstract!Fitting(r) <=> i \in DOMAIN Listed(c) /\ Compatible(c, i)
  BY <1>1, FittingIsListed DEF r
<1>5. \A i \in DOMAIN Listed(c) :
        Abstract!WithImage(r.cat[i], r) <=> HasResolvedImage(c.nc, Listed(c)[i].arch)
  BY <1>1, <1>2, FittingIsListed DEF r
<1>6. c.missing # {} <=> \E k \in DOMAIN Listed(c) : Imageless(c, k)
  BY <1>1 DEF Reasons
<1>7. c.blocked <=> \E k \in DOMAIN Listed(c) : Fits(c, k)
  BY <1>1 DEF Reasons, ScanInv
<1>8. c.missing # {} /\ ~c.blocked <=> Abstract!ImageIsToBlame(r)
  BY <1>4, <1>5, <1>6, <1>7 DEF Abstract!ImageIsToBlame, Imageless, Fits
<1> QED BY <1>3, <1>8 DEF r

-----------------------------------------------------------------------------
(* The choice, hcloud's answer and the return.                             *)

\* The scan that ends with nothing declines the claim, for Choice's reason.
LEMMA NothingSelectedRefines ==
    ASSUME RInv, NEW w \in Callers, NothingSelected(w)
    PROVE  (\A v \in Callers : RequestInv(call'[v])) /\ AbstractStep
<1> DEFINE c == call[w]
           how == IF c.missing # {} /\ ~c.blocked THEN "noImage" ELSE "noCapacity"
<1>1. /\ c.pc = "scan" /\ c.todo = {} /\ c.selected = Unselected /\ CreateReturns(w, how)
      /\ UNCHANGED <<catalogue, nodeClass, marks, refused>>
  BY DEF NothingSelected
<1>2. c \in Calls /\ ScanInv(c) /\ Reasons(c)
  BY <1>1 DEF RInv, IInv, TypeOK, CallInv, RequestInv
<1>3. how \in Results \ {"none", "refused"} /\ how # "launched"
  BY DEF Results
<1>4. Requests[w] = RequestOf(c) /\ RequestOf(c).phase = "choose"
  BY <1>1, <1>2, RequestShape DEF Requests, PhaseOf
<1>5. /\ Abstract!NothingOffered(RequestOf(c))
      /\ how = IF Abstract!ImageIsToBlame(RequestOf(c)) THEN "noImage" ELSE "noCapacity"
  BY <1>1, <1>2, ScanFindsNone
<1> HIDE DEF how
<1>6. (\A v \in Callers : RequestInv(call'[v])) /\ Abstract!Answer(w, how)
  BY <1>1, <1>3, Ends
<1>7. Abstract!Decline(w)
  BY <1>1, <1>4, <1>5, <1>6 DEF Abstract!Decline, Requests
<1> QED BY <1>6, <1>7 DEF AbstractStep, Abstract!Next

\* The scan that ends with a selection chooses the best offer.
LEMMA ResolveImageRefines ==
    ASSUME RInv, NEW w \in Callers, ResolveImage(w)
    PROVE  (\A v \in Callers : RequestInv(call'[v])) /\ AbstractStep
<1> DEFINE c == call[w]
<1>1. /\ c.pc = "scan" /\ c.todo = {} /\ c.selected # Unselected
      /\ UNCHANGED <<catalogue, nodeClass, marks, refused>>
  BY DEF ResolveImage
<1>2. c \in Calls /\ call \in [Callers -> Calls] /\ ScanInv(c) /\ RequestInv(c)
  BY <1>1 DEF RInv, IInv, TypeOK, CallInv
<1>3. Requests[w] = RequestOf(c) /\ RequestOf(c).phase = "choose"
      /\ RequestOf(c).cat = c.cat /\ RequestOf(c).nc = c.nc
  BY <1>1, <1>2, RequestShape DEF Requests, PhaseOf
<1>4. PICK i \in DOMAIN c.cat : \E j \in DOMAIN c.cat[i].pricings :
        /\ Abstract!Best(c.cat[i], j, RequestOf(c))
        /\ OfferOf(c) = [name |-> c.cat[i].name, zone |-> c.cat[i].pricings[j].zone]
  BY <1>1, <1>2, ScanFindsBest
<1>5. PICK j \in DOMAIN c.cat[i].pricings :
        /\ Abstract!Best(c.cat[i], j, RequestOf(c))
        /\ OfferOf(c) = [name |-> c.cat[i].name, zone |-> c.cat[i].pricings[j].zone]
  BY <1>4
<1>6. ASSUME \/ Abstract!Put(w, [Requests[w] EXCEPT !.phase = "create", !.chosen = OfferOf(c)])
             \/ Abstract!Answer(w, "error")
             \/ c.nc.images = {} /\ Abstract!Answer(w, "imageLost")
      PROVE  AbstractStep
  <2> DEFINE offer == [name |-> Requests[w].cat[i].name, zone |-> Requests[w].cat[i].pricings[j].zone]
  <2>1. OfferOf(c) = offer
    BY <1>3, <1>5
  <2>2. \/ Abstract!Put(w, [Requests[w] EXCEPT !.phase = "create", !.chosen = offer])
        \/ Abstract!Answer(w, "error")
        \/ Requests[w].nc.images = {} /\ Abstract!Answer(w, "imageLost")
    BY <1>3, <1>6, <2>1
  <2>3. /\ i \in DOMAIN Requests[w].cat /\ j \in DOMAIN Requests[w].cat[i].pricings
        /\ Abstract!Best(Requests[w].cat[i], j, Requests[w]) /\ Requests[w].phase = "choose"
    BY <1>3, <1>5
  <2>4. Abstract!Choose(w)
    BY <1>1, <2>2, <2>3, Zenon DEF Abstract!Choose, Requests
  <2> QED BY <2>4 DEF AbstractStep, Abstract!Next
<1>7. CASE CreateReturns(w, "error")
  <2>1. (\A v \in Callers : RequestInv(call'[v])) /\ Abstract!Answer(w, "error")
    BY <1>1, <1>7, Ends DEF Results
  <2> QED BY <1>6, <2>1
<1>8. CASE c.selected.arch \notin c.nc.images /\ CreateReturns(w, "imageLost")
  <2>1. (\A v \in Callers : RequestInv(call'[v])) /\ Abstract!Answer(w, "imageLost")
    BY <1>1, <1>8, Ends DEF Results
  <2>2. c.nc.images = {}
    BY <1>1, <1>2, <1>8, ScanFindsBest
  <2> QED BY <1>6, <2>1, <2>2
<1>9. CASE call' = [call EXCEPT ![w].pc = "create"]
  <2> DEFINE d == [c EXCEPT !.pc = "create"]
  <2>1. call' = [call EXCEPT ![w] = d] /\ d \in Calls
    BY <1>2, <1>9 DEF Calls
  <2>2. /\ d.pc = "create" /\ d.claim = c.claim /\ d.nc = c.nc /\ d.cat = c.cat
        /\ d.marked = c.marked /\ d.result = c.result /\ d.selected = c.selected
    BY <1>2 DEF Calls
  <2> HIDE DEF d
  <2>3. RequestInv(d)
    BY <1>1, <1>2, <2>2 DEF RequestInv
  <2>4. (\A v \in Callers : RequestInv(call'[v])) /\ Abstract!Put(w, RequestOf(d))
    BY <2>1, <2>3, OneCall DEF Becomes
  <2>5. PhaseOf(d) = "create" /\ ChosenOf(d) = OfferOf(c)
    BY <2>2 DEF PhaseOf, ChosenOf, OfferOf
  <2>6. RequestOf(d) = [RequestOf(c) EXCEPT !.phase = "create", !.chosen = OfferOf(c)]
    <3>1. /\ RequestOf(d) \in RequestRecords /\ RequestOf(c) \in RequestRecords
          /\ RequestOf(d).phase = "create" /\ RequestOf(d).chosen = OfferOf(c)
          /\ RequestOf(d).claim = RequestOf(c).claim /\ RequestOf(d).nc = RequestOf(c).nc
          /\ RequestOf(d).cat = RequestOf(c).cat /\ RequestOf(d).marked = RequestOf(c).marked
          /\ RequestOf(d).result = RequestOf(c).result
          /\ OfferOf(c) \in Offers
      BY <1>2, <2>1, <2>2, <2>5, RequestShape
    <3> QED BY <3>1 DEF RequestRecords
  <2>7. Abstract!Put(w, [Requests[w] EXCEPT !.phase = "create", !.chosen = OfferOf(c)])
    BY <1>3, <2>4, <2>6
  <2> QED BY <1>6, <2>4, <2>7
<1> QED BY <1>7, <1>8, <1>9 DEF ResolveImage

\* What a call waiting for hcloud's answer is to Choice.
LEMMA Asked ==
    ASSUME RInv, NEW w \in Callers, call[w].pc = "create"
    PROVE  /\ call[w] \in Calls /\ call[w].selected # Unselected /\ call[w].result = "none"
           /\ Requests[w] = RequestOf(call[w]) /\ Requests[w].phase = "create"
           /\ Requests[w].chosen = OfferOf(call[w])
<1>1. call[w] \in Calls /\ call[w].selected # Unselected /\ call[w].result = "none"
  BY DEF RInv, IInv, TypeOK, CallInv, RequestInv
<1> QED BY <1>1, RequestShape DEF Requests, PhaseOf, ChosenOf

\* hcloud accepts.
LEMMA LaunchedRefines ==
    ASSUME RInv, NEW w \in Callers, Launched(w)
    PROVE  (\A v \in Callers : RequestInv(call'[v])) /\ AbstractStep
<1>1. /\ call[w].pc = "create" /\ CreateReturns(w, "launched")
      /\ UNCHANGED <<catalogue, nodeClass, marks, refused>>
  BY DEF Launched
<1>2. Requests[w].phase = "create" /\ call[w].selected # Unselected
  BY <1>1, Asked
<1>3. (\A v \in Callers : RequestInv(call'[v])) /\ Abstract!Answer(w, "launched")
  BY <1>1, <1>2, Ends DEF Results
<1>4. Abstract!Deliver(w)
  BY <1>1, <1>2, <1>3 DEF Abstract!Deliver, Requests
<1> QED BY <1>3, <1>4 DEF AbstractStep, Abstract!Next

\* hcloud fails otherwise.
LEMMA CreateFailsRefines ==
    ASSUME RInv, NEW w \in Callers, CreateFails(w)
    PROVE  (\A v \in Callers : RequestInv(call'[v])) /\ AbstractStep
<1>1. /\ call[w].pc = "create" /\ CreateReturns(w, "error")
      /\ UNCHANGED <<catalogue, nodeClass, marks, refused>>
  BY DEF CreateFails
<1>2. Requests[w].phase = "create"
  BY <1>1, Asked
<1>3. /\ \A v \in Callers : RequestInv(call'[v])
      /\ Abstract!Put(w, [Requests[w] EXCEPT !.phase = "done", !.result = "error",
                                             !.chosen = Abstract!NoOffer])
  BY <1>1, Ends DEF Results
<1>4. Abstract!Deliver(w)
  BY <1>1, <1>2, <1>3 DEF Abstract!Deliver, Requests
<1> QED BY <1>3, <1>4 DEF AbstractStep, Abstract!Next

\* Core takes the answer.
LEMMA ReturnRefines ==
    ASSUME RInv, NEW w \in Callers, Return(w)
    PROVE  (\A v \in Callers : RequestInv(call'[v])) /\ AbstractStep
<1>1. /\ call[w].pc = "done" /\ Becomes(w, IdleCall)
      /\ UNCHANGED <<catalogue, nodeClass, marks, refused>>
  BY IdleCallType DEF Return, Becomes
<1>2. RequestInv(IdleCall)
  BY DEF RequestInv, IdleCall
<1>3. /\ \A v \in Callers : RequestInv(call'[v])
      /\ Requests[w] = RequestOf(call[w])
      /\ Abstract!Put(w, RequestOf(IdleCall))
  BY <1>1, <1>2, OneCall
<1>4. Abstract!Put(w, Abstract!Idle)
  BY <1>3, IdleRequestType
<1>5. call[w] \in Calls
  BY DEF RInv, IInv, TypeOK
<1>6. Requests[w].phase = "done"
  BY <1>1, <1>3, <1>5, RequestShape DEF PhaseOf
<1>7. Abstract!Done(w)
  BY <1>1, <1>4, <1>6 DEF Abstract!Done, Requests
<1> QED BY <1>3, <1>7 DEF AbstractStep, Abstract!Next

-----------------------------------------------------------------------------
(* Changes around the calls.                                               *)

\* A call that hears of a change is the same request.
LEMMA UnsettledRequest ==
    ASSUME NEW c \in Calls, NEW d \in Calls, NEW mk, Unsettled(c, d, mk)
    PROVE  RequestOf(d) = RequestOf(c) /\ (RequestInv(c) => RequestInv(d))
<1>1. SameInputs(c, d) /\ PhaseOf(d) = PhaseOf(c) /\ ChosenOf(d) = ChosenOf(c) /\ d.result = c.result
  BY DEF Unsettled, SameInputs, PhaseOf, ChosenOf, OfferOf
<1>2. RequestOf(d) = RequestOf(c)
  BY <1>1, SameRequest
<1>3. Listed(d) = Listed(c)
  BY DEF Unsettled, Listed
<1>4. Seen(d) = Seen(c)
  BY <1>3 DEF Unsettled, Seen
<1>5. \A k : (Fits(d, k) <=> Fits(c, k)) /\ (Imageless(d, k) <=> Imageless(c, k))
  BY <1>3 DEF Unsettled, Fits, Imageless, Compatible
<1>6. Reasons(c) => Reasons(d)
  BY <1>4, <1>5 DEF Reasons, Unsettled
<1> QED BY <1>2, <1>6 DEF RequestInv, Unsettled

\* hcloud refuses: the pair that was chosen is marked.
LEMMA RefusedRefines ==
    ASSUME RInv, NEW w \in Callers, Refused(w)
    PROVE  (\A v \in Callers : RequestInv(call'[v])) /\ AbstractStep
<1> DEFINE c == call[w]
           e == [c EXCEPT !.pc = "done", !.result = "refused"]
           cs == [call EXCEPT ![w] = e]
<1>1. /\ c.pc = "create" /\ marks' = marks \cup {<<c.selected.name, c.selected.zone>>}
      /\ call' = Unsettle([call EXCEPT ![w].pc = "done", ![w].result = "refused"])
      /\ UNCHANGED <<catalogue, nodeClass>>
  BY DEF Refused, MarkUnavailable
<1>2. call \in [Callers -> Calls] /\ \A v \in Callers : RequestInv(call[v])
  BY DEF RInv, IInv, TypeOK
<1>3. /\ c \in Calls /\ c.selected # Unselected /\ c.result = "none"
      /\ Requests[w] = RequestOf(c) /\ Requests[w].phase = "create"
      /\ Requests[w].chosen = OfferOf(c)
  BY <1>1, Asked
<1>4. call' = Unsettle(cs)
  BY <1>1, <1>2
<1>5. e \in Calls
  BY <1>3 DEF Calls, Results
<1>6. /\ e.pc = "done" /\ e.result = "refused" /\ e.selected = c.selected /\ SameInputs(c, e)
      /\ e.barred = c.barred
  BY <1>3 DEF Calls, SameInputs
<1> HIDE DEF e
<1>7. cs \in [Callers -> Calls] /\ \A v \in Callers : cs[v] = IF v = w THEN e ELSE call[v]
  BY <1>2, <1>5
<1>8. RequestInv(e)
  BY <1>3, <1>6 DEF RequestInv
<1>9. RequestOf(e) = [RequestOf(c) EXCEPT !.phase = "done", !.result = "refused"]
  <2>1. PhaseOf(e) = "done" /\ ChosenOf(e) = OfferOf(c)
    BY <1>6 DEF PhaseOf, ChosenOf, OfferOf
  <2>2. /\ RequestOf(e) \in RequestRecords /\ RequestOf(c) \in RequestRecords
        /\ RequestOf(e).phase = "done" /\ RequestOf(e).chosen = RequestOf(c).chosen
        /\ RequestOf(e).claim = RequestOf(c).claim /\ RequestOf(e).nc = RequestOf(c).nc
        /\ RequestOf(e).cat = RequestOf(c).cat /\ RequestOf(e).marked = RequestOf(c).marked
        /\ RequestOf(e).result = "refused"
    BY <1>3, <1>5, <1>6, <2>1, RequestShape DEF SameInputs
  <2> QED BY <2>2 DEF RequestRecords
<1>10. ASSUME NEW v \in Callers
       PROVE  RequestInv(call'[v]) /\ RequestOf(call'[v]) = RequestOf(cs[v])
  <2>1. cs[v].barred \subseteq cs[v].barred
    OBVIOUS
  <2> HIDE DEF cs
  <2>2. call'[v] \in Calls /\ Unsettled(cs[v], call'[v], cs[v].barred)
    BY <1>4, <1>7, <2>1, UnsettleMeaning
  <2>3. cs[v] \in Calls /\ RequestInv(cs[v])
    BY <1>2, <1>7, <1>8
  <2> QED BY <2>2, <2>3, UnsettledRequest
<1>11. Requests' = [v \in Callers |-> RequestOf(call'[v])]
  BY DEF Requests, RequestOf
<1> HIDE DEF cs
<1>12. Requests' = [v \in Callers |-> IF v = w THEN RequestOf(e) ELSE RequestOf(call[v])]
  BY <1>7, <1>10, <1>11
<1>13. Requests' = [Requests EXCEPT ![w] = RequestOf(e)]
  BY <1>12 DEF Requests
<1>14. Abstract!Answer(w, "refused")
  BY <1>3, <1>9, <1>13 DEF Abstract!Answer, Abstract!Put, Requests
<1>15. marks' = marks \cup {<<Requests[w].chosen.name, Requests[w].chosen.zone>>}
  BY <1>1, <1>3 DEF OfferOf
<1>16. Abstract!Deliver(w)
  BY <1>1, <1>3, <1>14, <1>15 DEF Abstract!Deliver, Requests
<1> QED BY <1>10, <1>16 DEF AbstractStep, Abstract!Next

\* A change of the NodeClass, of the catalogue or of the marks is one to Choice.
LEMMA SurroundingsRefine ==
    ASSUME RInv, catalogue' \in Catalogues, nodeClass' \in NodeClasses, marks' \in SUBSET marks,
           \A v \in Callers : call'[v] \in Calls /\ \E mk : Unsettled(call[v], call'[v], mk)
    PROVE  (\A v \in Callers : RequestInv(call'[v])) /\ AbstractStep
<1>1. ASSUME NEW v \in Callers
      PROVE  RequestInv(call'[v]) /\ RequestOf(call'[v]) = RequestOf(call[v])
  <2>1. call[v] \in Calls /\ RequestInv(call[v])
    BY DEF RInv, IInv, TypeOK
  <2>2. PICK mk : call'[v] \in Calls /\ Unsettled(call[v], call'[v], mk)
    OBVIOUS
  <2> QED BY <2>1, <2>2, UnsettledRequest
<1>2. Requests' = [v \in Callers |-> RequestOf(call'[v])]
  BY DEF Requests, RequestOf
<1>3. Requests' = Requests
  BY <1>1, <1>2 DEF Requests
<1>4. Abstract!WorldChanges
  BY <1>3 DEF Abstract!WorldChanges, Requests
<1> QED BY <1>1, <1>4 DEF AbstractStep, Abstract!Next

\* A NodeClass edit or a new catalogue.
LEMMA ChangesRefine ==
    ASSUME RInv, NodeClassChanges \/ CatalogueChanges
    PROVE  (\A v \in Callers : RequestInv(call'[v])) /\ AbstractStep
<1>1. /\ call \in [Callers -> Calls] /\ catalogue \in Catalogues /\ nodeClass \in NodeClasses
  BY DEF RInv, IInv, TypeOK
<1>2. /\ call' = Unsettle(call) /\ catalogue' \in Catalogues /\ nodeClass' \in NodeClasses
      /\ marks' \in SUBSET marks
  BY <1>1 DEF NodeClassChanges, CatalogueChanges
<1>3. ASSUME NEW v \in Callers
      PROVE  call'[v] \in Calls /\ Unsettled(call[v], call'[v], call[v].barred)
  BY <1>1, <1>2, UnsettleMeaning
<1> QED BY <1>2, <1>3, SurroundingsRefine

\* A mark that ends.
LEMMA MarkEndsRefines ==
    ASSUME RInv, NEW o, MarkEnds(o)
    PROVE  (\A v \in Callers : RequestInv(call'[v])) /\ AbstractStep
<1>1. /\ call \in [Callers -> Calls] /\ catalogue \in Catalogues /\ nodeClass \in NodeClasses
  BY DEF RInv, IInv, TypeOK
<1>2. /\ call' = [w \in Callers |-> [Unsettle(call)[w] EXCEPT !.barred = @ \ {o}]]
      /\ UNCHANGED <<catalogue, nodeClass>> /\ marks' \in SUBSET marks
  BY DEF MarkEnds
<1>3. ASSUME NEW v \in Callers
      PROVE  call'[v] \in Calls /\ Unsettled(call[v], call'[v], call[v].barred)
  <2> DEFINE c == Unsettle(call)[v]
             d == [c EXCEPT !.barred = c.barred \ {o}]
  <2>1. c \in Calls /\ Unsettled(call[v], c, call[v].barred)
    BY <1>1, UnsettleMeaning
  <2>2. call'[v] = d
    BY <1>2
  <2> HIDE DEF c
  <2>3. d \in Calls
    BY <2>1 DEF Calls
  <2>4. /\ d.pc = c.pc /\ d.claim = c.claim /\ d.nc = c.nc /\ d.cat = c.cat /\ d.marked = c.marked
        /\ d.todo = c.todo /\ d.missing = c.missing /\ d.blocked = c.blocked
        /\ d.selected = c.selected /\ d.result = c.result /\ d.steady = c.steady
        /\ d.barred = c.barred \ {o}
    BY <2>1 DEF Calls
  <2> HIDE DEF d
  <2>5. Unsettled(call[v], d, call[v].barred)
    BY <2>1, <2>4 DEF Unsettled
  <2> QED BY <2>2, <2>3, <2>5
<1> QED BY <1>1, <1>2, <1>3, SurroundingsRefine

-----------------------------------------------------------------------------
(* The refinement.                                                         *)

\* Every step of Launch keeps RequestInv, and is a step of Choice or none.
LEMMA NextRefines ==
    ASSUME RInv, [Next]_vars
    PROVE  (\A v \in Callers : RequestInv(call'[v])) /\ AbstractStep
<1> DEFINE Goal == (\A v \in Callers : RequestInv(call'[v])) /\ AbstractStep
<1> SUFFICES Goal
  OBVIOUS
<1>1. CASE UNCHANGED vars
  <2>1. Requests' = Requests
    BY <1>1 DEF vars, Requests, RequestOf
  <2> QED BY <1>1, <2>1 DEF RInv, vars, AbstractStep, Abstract!vars, Requests
<1> HIDE DEF Goal
<1>2. ASSUME NEW w \in Callers, Create(w) PROVE Goal
  <2>1. CASE ResolveNodeClass(w)
    BY <2>1, ResolveNodeClassRefines DEF Goal
  <2>2. CASE ListTypes(w)
    BY <2>2, ListTypesRefines DEF Goal
  <2>3. CASE SkipIncompatible(w)
    BY <2>3, SkipIncompatibleRefines DEF Goal
  <2>4. CASE SkipImageless(w)
    BY <2>4, SkipImagelessRefines DEF Goal
  <2>5. CASE SkipUnavailable(w)
    BY <2>5, SkipUnavailableRefines DEF Goal
  <2>6. CASE Rank(w)
    BY <2>6, RankRefines DEF Goal
  <2>7. CASE NothingSelected(w)
    BY <2>7, NothingSelectedRefines DEF Goal
  <2>8. CASE ResolveImage(w)
    BY <2>8, ResolveImageRefines DEF Goal
  <2>9. CASE Launched(w)
    BY <2>9, LaunchedRefines DEF Goal
  <2>10. CASE Refused(w)
    BY <2>10, RefusedRefines DEF Goal
  <2>11. CASE CreateFails(w)
    BY <2>11, CreateFailsRefines DEF Goal
  <2>12. CASE Return(w)
    BY <2>12, ReturnRefines DEF Goal
  <2> QED BY <1>2, <2>1, <2>2, <2>3, <2>4, <2>5, <2>6, <2>7, <2>8, <2>9, <2>10, <2>11, <2>12
          DEF Create
<1>3. ASSUME NEW w \in Callers, NEW claim \in Claims, Schedule(w, claim) PROVE Goal
  BY <1>3, ScheduleRefines DEF Goal
<1>4. ASSUME NEW o \in refused, MarkEnds(o) PROVE Goal
  BY <1>4, MarkEndsRefines DEF Goal
<1>5. CASE NodeClassChanges \/ CatalogueChanges
  BY <1>5, ChangesRefine DEF Goal
<1> QED BY <1>1, <1>2, <1>3, <1>4, <1>5 DEF Next

\* What the scan has collected has a cause, throughout every execution.
THEOREM RequestInvariance == Spec => []RInv
<1>1. Init => RInv
  <2> SUFFICES ASSUME Init PROVE RInv
    OBVIOUS
  <2>1. RequestInv(IdleCall)
    BY DEF RequestInv, IdleCall
  <2>2. \A w \in Callers : call[w] = IdleCall
    BY DEF Init
  <2> QED BY <2>1, <2>2, InitEstablishes DEF RInv
<1>2. RInv /\ [Next]_vars => RInv'
  <2> SUFFICES ASSUME RInv, [Next]_vars PROVE RInv'
    OBVIOUS
  <2>1. IInv'
    BY NextKeeps DEF RInv
  <2>2. \A w \in Callers : RequestInv(call'[w])
    BY NextRefines
  <2> QED BY <2>1, <2>2 DEF RInv
<1> QED BY <1>1, <1>2, PTL DEF Spec

\* CloudProvider.Create, which filters, scans and ranks while the catalogue, the
\* NodeClass and the marks change under it, answers every claim as Choice does in
\* one step.
THEOREM CreateImplementsChoice == Spec => ImplementsChoice
<1>1. Init => Abstract!Init
  <2> SUFFICES ASSUME Init PROVE Abstract!Init
    OBVIOUS
  <2>1. \A w \in Callers : RequestOf(call[w]) = Abstract!Idle
    BY IdleRequestType DEF Init
  <2> QED BY <2>1 DEF Init, Abstract!Init
<1>2. RInv /\ [Next]_vars => [Abstract!Next]_(Abstract!vars)
  BY NextRefines DEF AbstractStep
<1> QED BY <1>1, <1>2, RequestInvariance, PTL DEF Spec, ImplementsChoice, Abstract!Spec

-----------------------------------------------------------------------------
(* A server that was launched stays listed.                                *)

\* GetInstanceTypes lists what List lists, under its names and in its zones.
LEMMA AdvertKeepsOfferings ==
    ASSUME TypeOK, NEW i \in DOMAIN List(catalogue, marks, nodeClass)
    PROVE  LET it == List(catalogue, marks, nodeClass)[i]
               ad == GetInstanceTypes[i]
           IN  /\ i \in DOMAIN GetInstanceTypes /\ ad.name = it.name
               /\ DOMAIN ad.offerings = DOMAIN it.offerings
               /\ \A j \in DOMAIN it.offerings : ad.offerings[j].zone = it.offerings[j].zone
<1> DEFINE types == List(catalogue, marks, nodeClass)
           it == types[i]
           ad == GetInstanceTypes[i]
           off == [j \in DOMAIN it.offerings |-> [it.offerings[j] EXCEPT !.available = FALSE]]
<1>1. i \in DOMAIN GetInstanceTypes
  BY DEF GetInstanceTypes, MarkImagelessArchesUnavailable
<1>2. ad = IF HasResolvedImage(nodeClass, it.arch) THEN it ELSE [it EXCEPT !.offerings = off]
  BY DEF GetInstanceTypes, MarkImagelessArchesUnavailable
<1> DEFINE near == FilterByLocations(ToInstanceTypes(catalogue), nodeClass.locations)
<1>3. DOMAIN it = {"name", "arch", "offerings"}
  <2>1. i \in DOMAIN near
    BY DEF List, ApplyAvailability
  <2>2. i \in DOMAIN ToInstanceTypes(catalogue)
    BY <2>1 DEF FilterByLocations
  <2>3. DOMAIN ToInstanceTypes(catalogue)[i] = {"name", "arch", "offerings"}
    BY <2>2 DEF ToInstanceTypes, ToInstanceType
  <2>4. DOMAIN near[i] = DOMAIN ToInstanceTypes(catalogue)[i]
    BY <2>1 DEF FilterByLocations
  <2>5. DOMAIN it = DOMAIN near[i]
    BY <2>1 DEF List, ApplyAvailability
  <2> QED BY <2>3, <2>4, <2>5
<1>4. \A j \in DOMAIN it.offerings : it.offerings[j].zone = off[j].zone
  <2> TAKE j \in DOMAIN it.offerings
  <2>1. off[j] = [it.offerings[j] EXCEPT !.available = FALSE]
    OBVIOUS
  <2> HIDE DEF it, off
  <2> QED BY <2>1
<1>5. DOMAIN off = DOMAIN it.offerings
  OBVIOUS
<1> HIDE DEF it, ad, off
<1>6. ad.name = it.name /\ (ad.offerings = it.offerings \/ ad.offerings = off)
  BY <1>2, <1>3
<1> QED BY <1>1, <1>4, <1>5, <1>6 DEF it, ad

\* A server type hcloud prices where a server of it runs stays listed there,
\* whatever has become of its price, its marks and its image since.
THEOREM RunningStayListed == Spec => []RunningNodesListed
<1>1. RInv => RunningNodesListed
  <2> SUFFICES ASSUME RInv, NEW w \in Callers, call[w].result = "launched",
                      nodeClass.locations = {} \/ call[w].selected.zone \in nodeClass.locations,
                      NEW i \in DOMAIN catalogue, NEW j \in DOMAIN catalogue[i].pricings,
                      catalogue[i].name = call[w].selected.name,
                      catalogue[i].pricings[j].zone = call[w].selected.zone
      PROVE  \E k \in DOMAIN GetInstanceTypes :
                /\ GetInstanceTypes[k].name = call[w].selected.name
                /\ call[w].selected.zone \in {GetInstanceTypes[k].offerings[m].zone :
                                                m \in DOMAIN GetInstanceTypes[k].offerings}
    BY DEF RunningNodesListed
  <2> DEFINE s == call[w].selected
             it == List(catalogue, marks, nodeClass)[i]
             ad == GetInstanceTypes[i]
  <2>1. TypeOK /\ RequestInv(call[w]) /\ call[w] \in Calls
    BY DEF RInv, IInv, TypeOK
  <2>2. s.zone # NoZone
    BY <2>1, ConstantsAssumption DEF RequestInv, Calls, Selections
  <2>3. catalogue \in Catalogues /\ nodeClass \in NodeClasses
    BY <2>1 DEF TypeOK
  <2>4. i \in DOMAIN List(catalogue, marks, nodeClass)
    BY <2>2, <2>3, ListedWhenOffered
  <2>5. ListedAs(it, catalogue[i], marks, nodeClass)
    BY <2>3, <2>4, ListMeaning
  <2>6. /\ i \in DOMAIN GetInstanceTypes /\ ad.name = it.name
        /\ DOMAIN ad.offerings = DOMAIN it.offerings
        /\ \A m \in DOMAIN it.offerings : ad.offerings[m].zone = it.offerings[m].zone
    BY <2>1, <2>4, AdvertKeepsOfferings
  <2> HIDE DEF it, ad
  <2>7. it.name = s.name /\ j \in DOMAIN it.offerings /\ it.offerings[j].zone = s.zone
    BY <2>2, <2>5 DEF ListedAs
  <2>8. ad.name = s.name /\ j \in DOMAIN ad.offerings /\ ad.offerings[j].zone = s.zone
    BY <2>6, <2>7
  <2> QED BY <2>6, <2>8 DEF ad
<1> QED BY <1>1, RequestInvariance, PTL

=============================================================================
