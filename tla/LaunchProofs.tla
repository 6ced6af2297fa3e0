----------------------------- MODULE LaunchProofs -----------------------------
(***************************************************************************)
(* Proofs about Launch, for every set of Create calls, every catalogue and *)
(* every NodeClass: the min-scan's loop invariant, and what follows from   *)
(* it about the server that is launched and the errors that are returned.  *)
(***************************************************************************)
EXTENDS Launch, TLAPS

\* The i-th listed type passes the requirements and the image gate, and its
\* j-th offering is one of those it is ranked on.
Fits(c, i) == Compatible(c, i) /\ HasResolvedImage(c.nc, Listed(c)[i].arch)
Ranked(c, i, j) == Fits(c, i) /\ j \in Launchable(Listed(c)[i], c.claim)

NoWorse(s, e) == s.price < e.price \/ (s.price = e.price /\ s.name <= e.name)

\* What the scheduler needs to see: an offering the claim can be launched into.
Placeable(cat, marked, nc, claim) ==
    \E i \in DOMAIN List(cat, marked, nc) :
        /\ List(cat, marked, nc)[i].name \in claim.fits
        /\ HasResolvedImage(nc, List(cat, marked, nc)[i].arch)
        /\ Launchable(List(cat, marked, nc)[i], claim) # {}

\* The types the scan has been over.
Seen(c) == DOMAIN Listed(c) \ c.todo

\* The loop invariant of the min-scan.
ScanInv(c) ==
    /\ c.cat \in Catalogues /\ c.nc \in NodeClasses /\ c.todo \subseteq DOMAIN Listed(c)
    /\ c.selected = Unselected => \A k \in Seen(c) : \A j : ~Ranked(c, k, j)
    /\ c.selected # Unselected =>
          /\ \E k \in Seen(c) : \E j : Ranked(c, k, j) /\ c.selected = Candidate(Listed(c)[k], j)
          /\ \A k \in Seen(c) : \A j :
                Ranked(c, k, j) => NoWorse(c.selected, Candidate(Listed(c)[k], j))
    /\ c.missing # {} => c.nc.images # {}
    /\ c.selected = Unselected /\ ~c.blocked => \A k \in Seen(c) : ~Fits(c, k)
    /\ c.steady => Placeable(c.cat, c.marked, c.nc, c.claim)
    /\ c.barred \subseteq c.marked

\* The image is the whole story of the call c.
ImagesOnly(c) ==
    /\ c.nc.images # {}
    /\ \A i \in DOMAIN Listed(c) : Compatible(c, i) => Listed(c)[i].arch \notin c.nc.images

\* What holds of a call at each of its steps, when the provider's catalogue is
\* cat, the NodeClass nc and the marks mk.
CallInv(c, cat, nc, mk) ==
    /\ c.barred \subseteq mk
    /\ c.pc = "fetch" /\ c.steady => Placeable(cat, mk, nc, c.claim)
    /\ c.pc = "list" =>
          /\ c.nc \in NodeClasses
          /\ c.steady => Placeable(cat, mk, c.nc, c.claim)
    /\ c.pc \in {"fetch", "list"} => c.missing = {} /\ c.selected = Unselected
    /\ c.pc \in {"scan", "create"} => ScanInv(c)
    /\ c.pc = "create" => c.todo = {} /\ c.selected # Unselected
    /\ c.result = "noImage" => ImagesOnly(c)
    /\ c.result \in {"noImage", "noCapacity"} => c.pc = "done" /\ ~c.steady
    /\ c.result = "imageLost" => c.pc = "done" /\ c.nc.images = {}

IInv ==
    /\ TypeOK /\ marks = refused
    /\ \A w \in Callers : CallInv(call[w], catalogue, nodeClass, marks)

-----------------------------------------------------------------------------
(* What List returns.                                                      *)

\* The server type st, as it is listed.
ListedAs(it, st, marked, nc) ==
    /\ it.name = st.name /\ it.arch = st.arch
    /\ DOMAIN it.offerings =
          {j \in DOMAIN st.pricings :
              /\ st.pricings[j].zone # NoZone
              /\ nc.locations = {} \/ st.pricings[j].zone \in nc.locations}
    /\ \A j \in DOMAIN it.offerings :
          /\ it.offerings[j].zone = st.pricings[j].zone
          /\ it.offerings[j].price = HourlyNetPrice(st.pricings[j]).price
          /\ it.offerings[j].available <=>
                HourlyNetPrice(st.pricings[j]).ok /\ <<st.name, st.pricings[j].zone>> \notin marked

\* The types and offerings listed are those of the catalogue, in its locations.
LEMMA ListMeaning ==
    ASSUME NEW cat \in Catalogues, NEW marked, NEW nc \in NodeClasses
    PROVE  \A i \in DOMAIN List(cat, marked, nc) :
              i \in DOMAIN cat /\ ListedAs(List(cat, marked, nc)[i], cat[i], marked, nc)
<1> DEFINE types == ToInstanceTypes(cat)
           near == FilterByLocations(types, nc.locations)
           live == ApplyAvailability(near, marked)
<1>1. List(cat, marked, nc) = live
  BY DEF List
<1> SUFFICES ASSUME NEW i \in DOMAIN live
             PROVE  i \in DOMAIN cat /\ ListedAs(live[i], cat[i], marked, nc)
  BY <1>1
<1>2. i \in DOMAIN near /\ i \in DOMAIN types /\ i \in DOMAIN cat
  BY DEF ApplyAvailability, FilterByLocations, ToInstanceTypes
<1> DEFINE t == types[i]
           n == near[i]
           it == live[i]
<1>3. t = ToInstanceType(cat[i])
  BY <1>2 DEF ToInstanceTypes
<1>4. n = [t EXCEPT !.offerings = InLocations(t.offerings, nc.locations)]
  BY <1>2 DEF FilterByLocations
<1>5. it = [n EXCEPT !.offerings =
              [j \in DOMAIN n.offerings |->
                [n.offerings[j] EXCEPT !.available = @ /\ <<n.name, n.offerings[j].zone>> \notin marked]]]
  BY <1>2 DEF ApplyAvailability
<1> HIDE DEF types, near, live, t, n, it
<1> DEFINE Ps == cat[i].pricings
<1>6. /\ t.name = cat[i].name /\ t.arch = cat[i].arch
      /\ DOMAIN t = {"name", "arch", "offerings"}
      /\ DOMAIN t.offerings = {k \in DOMAIN Ps : Ps[k].zone # NoZone}
      /\ \A j \in DOMAIN t.offerings :
            t.offerings[j] = [zone |-> Ps[j].zone, price |-> HourlyNetPrice(Ps[j]).price,
                              available |-> HourlyNetPrice(Ps[j]).ok]
  BY <1>3 DEF ToInstanceType
<1>7. /\ n.name = t.name /\ n.arch = t.arch /\ DOMAIN n = {"name", "arch", "offerings"}
      /\ n.offerings = InLocations(t.offerings, nc.locations)
  BY <1>4, <1>6
<1>8. /\ DOMAIN n.offerings = {k \in DOMAIN t.offerings :
                                  nc.locations = {} \/ t.offerings[k].zone \in nc.locations}
      /\ \A j \in DOMAIN n.offerings : n.offerings[j] = t.offerings[j]
  BY <1>7 DEF InLocations
<1>9. /\ it.name = n.name /\ it.arch = n.arch
      /\ it.offerings = [j \in DOMAIN n.offerings |->
            [n.offerings[j] EXCEPT !.available = @ /\ <<n.name, n.offerings[j].zone>> \notin marked]]
  BY <1>5, <1>7
<1>10. DOMAIN it.offerings = {j \in DOMAIN Ps :
                                /\ Ps[j].zone # NoZone
                                /\ nc.locations = {} \/ Ps[j].zone \in nc.locations}
  <2>1. DOMAIN it.offerings = DOMAIN n.offerings
    BY <1>9
  <2>2. \A j \in DOMAIN t.offerings : t.offerings[j].zone = Ps[j].zone
    <3> TAKE j \in DOMAIN t.offerings
    <3> DEFINE up == HourlyNetPrice(Ps[j]).ok
               price == HourlyNetPrice(Ps[j]).price
               zone == Ps[j].zone
    <3>1. t.offerings[j] = [zone |-> zone, price |-> price, available |-> up]
      BY <1>6
    <3> HIDE DEF up, price, zone
    <3>2. t.offerings[j].zone = zone
      BY <3>1
    <3> QED BY <3>2 DEF zone
  <2> HIDE DEF Ps
  <2> QED BY <1>6, <1>8, <2>1, <2>2
<1>11. ASSUME NEW j \in DOMAIN it.offerings
       PROVE  /\ it.offerings[j].zone = Ps[j].zone
              /\ it.offerings[j].price = HourlyNetPrice(Ps[j]).price
              /\ it.offerings[j].available <=>
                    HourlyNetPrice(Ps[j]).ok /\ <<cat[i].name, Ps[j].zone>> \notin marked
  <2>1. j \in DOMAIN n.offerings /\ j \in DOMAIN t.offerings
    BY <1>8, <1>9
  <2>2. n.offerings[j] = [zone |-> Ps[j].zone, price |-> HourlyNetPrice(Ps[j]).price,
                          available |-> HourlyNetPrice(Ps[j]).ok]
    BY <1>6, <1>8, <2>1
  <2>3. it.offerings[j] =
          [n.offerings[j] EXCEPT !.available = @ /\ <<n.name, n.offerings[j].zone>> \notin marked]
    BY <1>9, <2>1
  <2> DEFINE up == HourlyNetPrice(Ps[j]).ok
             price == HourlyNetPrice(Ps[j]).price
             zone == Ps[j].zone
             free == <<n.name, zone>> \notin marked
  <2> HIDE DEF up, price, zone
  <2>4. n.offerings[j] = [zone |-> zone, price |-> price, available |-> up]
    BY <2>2 DEF up, price, zone
  <2>5. it.offerings[j] = [zone |-> zone, price |-> price, available |-> up /\ free]
    BY <2>3, <2>4
  <2>6. n.name = cat[i].name
    BY <1>6, <1>7
  <2>7. /\ it.offerings[j].zone = zone /\ it.offerings[j].price = price
        /\ it.offerings[j].available = (up /\ free)
    BY <2>5
  <2> QED BY <2>6, <2>7 DEF up, price, zone
<1>12. it.name = cat[i].name /\ it.arch = cat[i].arch
  BY <1>6, <1>7, <1>9
<1> QED BY <1>2, <1>10, <1>11, <1>12 DEF it, ListedAs

\* A type with an offering in the NodeClass's locations is listed.
LEMMA ListedWhenOffered ==
    ASSUME NEW cat \in Catalogues, NEW marked, NEW nc \in NodeClasses,
           NEW i \in DOMAIN cat, NEW j \in DOMAIN cat[i].pricings,
           cat[i].pricings[j].zone # NoZone,
           nc.locations = {} \/ cat[i].pricings[j].zone \in nc.locations
    PROVE  i \in DOMAIN List(cat, marked, nc)
<1> DEFINE types == ToInstanceTypes(cat)
<1>1. i \in DOMAIN types /\ types[i] = ToInstanceType(cat[i])
  BY DEF ToInstanceTypes
<1>2. j \in DOMAIN types[i].offerings /\ types[i].offerings[j].zone = cat[i].pricings[j].zone
  BY <1>1 DEF ToInstanceType
<1>3. j \in DOMAIN InLocations(types[i].offerings, nc.locations)
  BY <1>2 DEF InLocations
<1> HIDE DEF types
<1>4. i \in DOMAIN FilterByLocations(types, nc.locations)
  BY <1>1, <1>3 DEF FilterByLocations
<1> QED BY <1>4 DEF List, ApplyAvailability, types

\* A usable price is a positive number.
LEMMA PriceMeaning ==
    ASSUME NEW p \in Pricings
    PROVE  /\ HourlyNetPrice(p).ok <=> Usable(p.hourly) \/ Usable(p.monthly)
           /\ HourlyNetPrice(p).ok =>
                HourlyNetPrice(p).price = NetPrice(p) /\ NetPrice(p) \in Nat \ {0}
<1>1. /\ p.hourly \in Int \cup {NoFigure} /\ p.monthly \in Int \cup {NoFigure}
  BY DEF Pricings, Figures
<1> QED BY <1>1, ConstantsAssumption DEF HourlyNetPrice, Usable, NetPrice

\* An offering a call ranks is typed, priced and unmarked, and is the
\* catalogue's own.
LEMMA RankedMeaning ==
    ASSUME NEW c \in Calls, c.cat \in Catalogues, c.nc \in NodeClasses,
           NEW i \in DOMAIN Listed(c), NEW j, Ranked(c, i, j)
    PROVE  /\ i \in DOMAIN c.cat /\ j \in DOMAIN c.cat[i].pricings /\ Eligible(c, i, j)
           /\ Candidate(Listed(c)[i], j) \in Selections
           /\ Candidate(Listed(c)[i], j).name = c.cat[i].name
           /\ Candidate(Listed(c)[i], j).zone = c.cat[i].pricings[j].zone
           /\ Candidate(Listed(c)[i], j).price = NetPrice(c.cat[i].pricings[j])
<1> DEFINE it == Listed(c)[i]
           p == c.cat[i].pricings[j]
<1>1. Listed(c) = List(c.cat, c.marked, c.nc)
  BY DEF Listed
<1>2. /\ it.name \in c.claim.fits /\ HasResolvedImage(c.nc, it.arch)
      /\ j \in DOMAIN it.offerings /\ it.offerings[j].available
      /\ it.offerings[j].zone \in c.claim.zones
  BY DEF Ranked, Fits, Compatible, Launchable
<1>3. /\ i \in DOMAIN c.cat /\ it.name = c.cat[i].name /\ it.arch = c.cat[i].arch
      /\ j \in DOMAIN c.cat[i].pricings /\ p.zone # NoZone
      /\ c.nc.locations = {} \/ p.zone \in c.nc.locations
      /\ it.offerings[j].zone = p.zone
      /\ it.offerings[j].price = HourlyNetPrice(p).price
      /\ HourlyNetPrice(p).ok /\ <<c.cat[i].name, p.zone>> \notin c.marked
  <2>1. i \in DOMAIN c.cat /\ ListedAs(it, c.cat[i], c.marked, c.nc)
    BY <1>1, ListMeaning
  <2> HIDE DEF it
  <2> QED BY <1>2, <2>1 DEF ListedAs
<1>4. p \in Pricings /\ c.cat[i].name \in Nat /\ c.cat[i].arch \in Archs
  BY <1>3, ConstantsAssumption
<1> HIDE DEF it, p
<1>5. /\ Usable(p.hourly) \/ Usable(p.monthly)
      /\ it.offerings[j].price = NetPrice(p) /\ NetPrice(p) \in Nat \ {0}
  BY <1>3, <1>4, PriceMeaning
<1>6. Eligible(c, i, j)
  BY <1>2, <1>3, <1>5 DEF Eligible, HasResolvedImage, p
<1>7. p.zone \in Zones
  BY <1>3, <1>4 DEF Pricings
<1>8. /\ Candidate(it, j).name = it.name /\ Candidate(it, j).arch = it.arch
      /\ Candidate(it, j).zone = it.offerings[j].zone
      /\ Candidate(it, j).price = it.offerings[j].price
  BY DEF Candidate
<1>9. Candidate(it, j) \in Selections
  BY <1>3, <1>4, <1>5, <1>7 DEF Candidate, Selections
<1> QED BY <1>3, <1>5, <1>6, <1>8, <1>9 DEF it, p

\* Whatever could be launched is ranked.
LEMMA EligibleIsRanked ==
    ASSUME NEW c \in Calls, c.cat \in Catalogues, c.nc \in NodeClasses,
           NEW i \in DOMAIN c.cat, NEW j \in DOMAIN c.cat[i].pricings, Eligible(c, i, j)
    PROVE  i \in DOMAIN Listed(c) /\ Ranked(c, i, j)
<1> DEFINE it == Listed(c)[i]
           p == c.cat[i].pricings[j]
<1>1. Listed(c) = List(c.cat, c.marked, c.nc)
  BY DEF Listed
<1>2. /\ c.cat[i].name \in c.claim.fits
      /\ c.nc.images = {} \/ c.cat[i].arch \in c.nc.images
      /\ p.zone \in c.claim.zones
      /\ c.nc.locations = {} \/ p.zone \in c.nc.locations
      /\ <<c.cat[i].name, p.zone>> \notin c.marked
      /\ Usable(p.hourly) \/ Usable(p.monthly)
  BY DEF Eligible
<1>3. p \in Pricings
  BY ConstantsAssumption
<1>4. c.claim.zones \subseteq Zones
  BY ConstantsAssumption DEF Calls, NoClaim
<1>5. p.zone # NoZone
  BY <1>2, <1>4, ConstantsAssumption
<1>6. HourlyNetPrice(p).ok
  BY <1>2, <1>3, PriceMeaning
<1>7. i \in DOMAIN Listed(c)
  BY <1>1, <1>2, <1>5, ListedWhenOffered
<1>8. /\ it.name = c.cat[i].name /\ it.arch = c.cat[i].arch
      /\ j \in DOMAIN it.offerings
      /\ it.offerings[j].zone = p.zone /\ it.offerings[j].available
  <2>1. ListedAs(it, c.cat[i], c.marked, c.nc)
    BY <1>1, <1>7, ListMeaning
  <2> HIDE DEF it
  <2> QED BY <1>2, <1>5, <1>6, <2>1 DEF ListedAs
<1> HIDE DEF it, p
<1>9. j \in Launchable(it, c.claim)
  BY <1>2, <1>8 DEF Launchable
<1>10. Compatible(c, i) /\ HasResolvedImage(c.nc, it.arch)
  BY <1>2, <1>8 DEF Compatible, HasResolvedImage, it
<1> QED BY <1>7, <1>9, <1>10 DEF Ranked, Fits, it

\* What GetInstanceTypes advertises, Create will rank.
LEMMA AdvertMeaning ==
    ASSUME NEW claim,
           \E i \in DOMAIN GetInstanceTypes :
              /\ GetInstanceTypes[i].name \in claim.fits
              /\ Launchable(GetInstanceTypes[i], claim) # {},
           TypeOK
    PROVE  Placeable(catalogue, marks, nodeClass, claim)
<1> DEFINE types == List(catalogue, marks, nodeClass)
<1>1. GetInstanceTypes = MarkImagelessArchesUnavailable(types, nodeClass)
  BY DEF GetInstanceTypes
<1> HIDE DEF types
<1>2. PICK i \in DOMAIN types :
        /\ GetInstanceTypes[i].name \in claim.fits
        /\ Launchable(GetInstanceTypes[i], claim) # {}
  BY <1>1 DEF MarkImagelessArchesUnavailable
<1> DEFINE ad == GetInstanceTypes[i]
           it == types[i]
<1>3. ad = IF HasResolvedImage(nodeClass, it.arch) THEN it
           ELSE [it EXCEPT !.offerings =
                   [j \in DOMAIN it.offerings |-> [it.offerings[j] EXCEPT !.available = FALSE]]]
  BY <1>1, <1>2 DEF MarkImagelessArchesUnavailable
<1>4. HasResolvedImage(nodeClass, it.arch)
  <2> SUFFICES ASSUME ~HasResolvedImage(nodeClass, it.arch) PROVE FALSE
    OBVIOUS
  <2>1. PICK j \in Launchable(ad, claim) : TRUE
    BY <1>2
  <2> DEFINE off == [k \in DOMAIN it.offerings |-> [it.offerings[k] EXCEPT !.available = FALSE]]
  <2>2. ad = [it EXCEPT !.offerings = off]
    BY <1>3
  <2>3. "offerings" \in DOMAIN it
    <3> DEFINE near == FilterByLocations(ToInstanceTypes(catalogue), nodeClass.locations)
    <3>1. i \in DOMAIN near
      BY DEF types, List, ApplyAvailability
    <3>2. it = [near[i] EXCEPT !.offerings =
                 [j2 \in DOMAIN near[i].offerings |->
                   [near[i].offerings[j2] EXCEPT
                      !.available = @ /\ <<near[i].name, near[i].offerings[j2].zone>> \notin marks]]]
      BY <3>1 DEF types, List, ApplyAvailability
    <3>3. i \in DOMAIN ToInstanceTypes(catalogue)
      BY <3>1 DEF FilterByLocations
    <3>4. "offerings" \in DOMAIN ToInstanceTypes(catalogue)[i]
      BY <3>3 DEF ToInstanceTypes, ToInstanceType
    <3>5. DOMAIN near[i] = DOMAIN ToInstanceTypes(catalogue)[i]
      BY <3>1 DEF FilterByLocations
    <3> HIDE DEF near
    <3> QED BY <3>2, <3>4, <3>5
  <2> HIDE DEF it, ad
  <2>4. ad.offerings = off
    BY <2>2, <2>3
  <2>5. j \in DOMAIN off /\ off[j].available
    BY <2>1, <2>4 DEF Launchable
  <2>6. off[j] = [it.offerings[j] EXCEPT !.available = FALSE]
    BY <2>5
  <2> QED BY <2>5, <2>6
<1>5. ad = it
  BY <1>3, <1>4
<1> QED BY <1>2, <1>4, <1>5 DEF Placeable, types

-----------------------------------------------------------------------------
(* The inductive invariant.                                                *)

\* A call that has not begun is well typed.
LEMMA IdleCallType == IdleCall \in Calls
BY DEF IdleCall, Calls, Results

\* Nothing is claimed of a call that has not begun.
LEMMA IdleCallInv ==
    ASSUME NEW cat, NEW nc, NEW mk
    PROVE  CallInv(IdleCall, cat, nc, mk)
BY DEF CallInv, IdleCall

\* With no call under way and nothing marked, the inductive invariant holds.
LEMMA InitEstablishes == Init => IInv
<1> SUFFICES ASSUME Init PROVE IInv
  OBVIOUS
<1>1. TypeOK
  BY IdleCallType DEF Init, TypeOK
<1>2. ASSUME NEW w \in Callers PROVE CallInv(call[w], catalogue, nodeClass, marks)
  BY IdleCallInv DEF Init
<1> QED BY <1>1, <1>2 DEF IInv, Init

\* A step of one call leaves the others as they are.
LEMMA LocalStep ==
    ASSUME IInv, NEW w \in Callers, NEW c \in Calls,
           call' = [call EXCEPT ![w] = c], CallInv(c, catalogue, nodeClass, marks),
           UNCHANGED <<catalogue, nodeClass, marks, refused>>
    PROVE  IInv'
<1>1. TypeOK'
  BY DEF IInv, TypeOK
<1>2. ASSUME NEW v \in Callers PROVE CallInv(call'[v], catalogue', nodeClass', marks')
  <2>1. call'[v] = IF v = w THEN c ELSE call[v]
    BY DEF IInv, TypeOK
  <2> QED BY <2>1 DEF IInv
<1> QED BY <1>1, <1>2 DEF IInv

\* A call that ends without the scan having failed.
LEMMA EndsKeeps ==
    ASSUME IInv, NEW w \in Callers, NEW how \in {"error", "imageLost", "launched"},
           CreateReturns(w, how), call[w].pc # "done", how = "imageLost" => call[w].nc.images = {},
           UNCHANGED <<catalogue, nodeClass, marks, refused>>
    PROVE  IInv'
<1> DEFINE c == [call[w] EXCEPT !.pc = "done", !.result = how]
<1>1. call[w] \in Calls /\ call \in [Callers -> Calls] /\ CallInv(call[w], catalogue, nodeClass, marks)
  BY DEF IInv, TypeOK
<1>2. call' = [call EXCEPT ![w] = c]
  BY <1>1 DEF CreateReturns
<1>3. c \in Calls
  BY <1>1 DEF Calls, Results
<1>4. c.pc = "done" /\ c.result = how /\ c.barred = call[w].barred /\ c.nc = call[w].nc
  BY <1>1 DEF Calls
<1> HIDE DEF c
<1>5. CallInv(c, catalogue, nodeClass, marks)
  BY <1>1, <1>4 DEF CallInv
<1> QED BY <1>2, <1>3, <1>5, LocalStep

\* A claim the scheduler has just made is placeable: what GetInstanceTypes shows
\* as available is what Create may choose.
LEMMA ScheduleKeeps ==
    ASSUME IInv, NEW w \in Callers, NEW claim \in Claims, Schedule(w, claim)
    PROVE  IInv'
<1> DEFINE c == [IdleCall EXCEPT !.pc = "fetch", !.claim = claim, !.steady = TRUE, !.barred = refused]
<1>1. call' = [call EXCEPT ![w] = c] /\ UNCHANGED <<catalogue, nodeClass, marks, refused>>
  BY DEF Schedule
<1>2. Placeable(catalogue, marks, nodeClass, claim)
  BY AdvertMeaning DEF Schedule, IInv
<1>3. refused \in SUBSET (Nat \X Zones) /\ refused = marks
  BY DEF IInv, TypeOK
<1>4. c \in Calls
  BY <1>3, IdleCallType DEF Calls
<1>5. /\ c.pc = "fetch" /\ c.claim = claim /\ c.barred = marks /\ c.result = "none"
      /\ c.missing = {} /\ c.selected = Unselected
  BY <1>3 DEF IdleCall
<1> HIDE DEF c
<1>6. CallInv(c, catalogue, nodeClass, marks)
  BY <1>2, <1>5 DEF CallInv
<1> QED BY <1>1, <1>4, <1>6, LocalStep

\* The NodeClass a call reads is the one its claim was placed by, if nothing changed.
LEMMA ResolveNodeClassKeeps ==
    ASSUME IInv, NEW w \in Callers, ResolveNodeClass(w)
    PROVE  IInv'
<1>1. call[w] \in Calls /\ call \in [Callers -> Calls] /\ CallInv(call[w], catalogue, nodeClass, marks)
  BY DEF IInv, TypeOK
<1>2. CASE CreateReturns(w, "error")
  BY <1>2, EndsKeeps DEF ResolveNodeClass
<1>3. CASE call' = [call EXCEPT ![w].pc = "list", ![w].nc = nodeClass]
  <2> DEFINE c == [call[w] EXCEPT !.pc = "list", !.nc = nodeClass]
  <2>1. call[w].pc = "fetch" /\ UNCHANGED <<catalogue, nodeClass, marks, refused>>
    BY DEF ResolveNodeClass
  <2>2. call' = [call EXCEPT ![w] = c]
    BY <1>1, <1>3
  <2>3. nodeClass \in NodeClasses
    BY DEF IInv, TypeOK
  <2>4. c \in Calls
    BY <1>1, <2>3 DEF Calls
  <2>5. /\ c.pc = "list" /\ c.nc = nodeClass /\ c.claim = call[w].claim
        /\ c.steady = call[w].steady /\ c.barred = call[w].barred /\ c.result = call[w].result
        /\ c.missing = call[w].missing /\ c.selected = call[w].selected
    BY <1>1 DEF Calls
  <2> HIDE DEF c
  <2>6. CallInv(c, catalogue, nodeClass, marks)
    BY <1>1, <2>1, <2>3, <2>5 DEF CallInv
  <2> QED BY <2>1, <2>2, <2>4, <2>6, LocalStep
<1> QED BY <1>2, <1>3 DEF ResolveNodeClass

\* The scan starts with nothing seen, over a list the claim is placeable in if
\* nothing changed.
LEMMA ListTypesKeeps ==
    ASSUME IInv, NEW w \in Callers, ListTypes(w)
    PROVE  IInv'
<1>1. call[w] \in Calls /\ call \in [Callers -> Calls] /\ CallInv(call[w], catalogue, nodeClass, marks)
  BY DEF IInv, TypeOK
<1>2. CASE CreateReturns(w, "error")
  BY <1>2, EndsKeeps DEF ListTypes
<1>3. CASE call' = [call EXCEPT ![w].pc = "scan", ![w].cat = catalogue, ![w].marked = marks,
                                ![w].todo = DOMAIN List(catalogue, marks, call[w].nc)]
  <2> DEFINE all == DOMAIN List(catalogue, marks, call[w].nc)
             c == [call[w] EXCEPT !.pc = "scan", !.cat = catalogue, !.marked = marks, !.todo = all]
  <2>1. call[w].pc = "list" /\ UNCHANGED <<catalogue, nodeClass, marks, refused>>
    BY DEF ListTypes
  <2>2. call' = [call EXCEPT ![w] = c]
    BY <1>1, <1>3
  <2>3. /\ catalogue \in Catalogues /\ call[w].nc \in NodeClasses /\ marks \in SUBSET (Nat \X Zones)
        /\ call[w].result \notin {"noImage", "noCapacity", "imageLost"} /\ call[w].barred \subseteq marks
        /\ call[w].steady => Placeable(catalogue, marks, call[w].nc, call[w].claim)
    BY <1>1, <2>1 DEF IInv, TypeOK, CallInv
  <2>4. all \in SUBSET Nat
    BY <2>3, ListMeaning, ConstantsAssumption
  <2>5. c \in Calls
    BY <1>1, <2>3, <2>4 DEF Calls
  <2>6. /\ c.pc = "scan" /\ c.cat = catalogue /\ c.marked = marks /\ c.todo = all
        /\ c.nc = call[w].nc /\ c.claim = call[w].claim /\ c.steady = call[w].steady
        /\ c.barred = call[w].barred /\ c.result = call[w].result
        /\ c.missing = call[w].missing /\ c.selected = call[w].selected
    BY <1>1 DEF Calls
  <2> HIDE DEF c, all
  <2>7. all = DOMAIN Listed(c) /\ Seen(c) = {}
    BY <2>6 DEF Listed, Seen, all
  <2>8. call[w].missing = {} /\ call[w].selected = Unselected
    BY <1>1, <2>1 DEF CallInv
  <2>9. ScanInv(c)
    BY <2>3, <2>6, <2>7, <2>8 DEF ScanInv
  <2>10. CallInv(c, catalogue, nodeClass, marks)
    BY <2>3, <2>6, <2>9 DEF CallInv
  <2> QED BY <2>1, <2>2, <2>5, <2>10, LocalStep
<1> QED BY <1>2, <1>3 DEF ListTypes

-----------------------------------------------------------------------------
(* The scan.                                                               *)

\* d is the call c with another type scanned.
ScanStep(c, d, i) ==
    /\ d.cat = c.cat /\ d.marked = c.marked /\ d.nc = c.nc /\ d.claim = c.claim
    /\ d.steady = c.steady /\ d.barred = c.barred /\ d.result = c.result /\ d.pc = c.pc
    /\ i \in c.todo /\ d.todo = c.todo \ {i}

\* A step of the scan adds the type it takes to those seen, and changes no list.
LEMMA ScanStepListing ==
    ASSUME NEW c, NEW d, NEW i, ScanStep(c, d, i), ScanInv(c)
    PROVE  /\ Listed(d) = Listed(c) /\ Seen(d) = Seen(c) \cup {i}
           /\ \A k : Fits(d, k) <=> Fits(c, k)
           /\ \A k, j : Ranked(d, k, j) <=> Ranked(c, k, j)
<1>1. Listed(d) = Listed(c)
  BY DEF ScanStep, Listed
<1>2. \A k : Fits(d, k) <=> Fits(c, k)
  BY <1>1 DEF ScanStep, Fits, Compatible
<1>3. \A k, j : Ranked(d, k, j) <=> Ranked(c, k, j)
  BY <1>1, <1>2 DEF ScanStep, Ranked
<1>4. Seen(d) = Seen(c) \cup {i}
  BY <1>1 DEF Seen, ScanStep, ScanInv
<1> QED BY <1>1, <1>2, <1>3, <1>4

\* A type passed over has nothing to rank.
LEMMA SkipKeepsScan ==
    ASSUME NEW c, NEW d, NEW i, ScanStep(c, d, i), ScanInv(c),
           d.selected = c.selected, \A j : ~Ranked(c, i, j),
           ~d.blocked => ~c.blocked /\ ~Fits(c, i),
           d.missing # {} => c.nc.images # {}
    PROVE  ScanInv(d)
<1>1. /\ Listed(d) = Listed(c) /\ Seen(d) = Seen(c) \cup {i}
      /\ \A k : Fits(d, k) <=> Fits(c, k)
      /\ \A k, j : Ranked(d, k, j) <=> Ranked(c, k, j)
  BY ScanStepListing
<1>2. /\ d.cat = c.cat /\ d.marked = c.marked /\ d.nc = c.nc /\ d.claim = c.claim
      /\ d.steady = c.steady /\ d.barred = c.barred /\ d.todo \subseteq c.todo
  BY DEF ScanStep
<1>3. /\ d.cat \in Catalogues /\ d.nc \in NodeClasses /\ d.todo \subseteq DOMAIN Listed(d)
      /\ d.missing # {} => d.nc.images # {}
      /\ d.steady => Placeable(d.cat, d.marked, d.nc, d.claim)
      /\ d.barred \subseteq d.marked
  BY <1>1, <1>2 DEF ScanInv
<1>4. d.selected = Unselected => \A k \in Seen(d) : \A j : ~Ranked(d, k, j)
  BY <1>1 DEF ScanInv
<1>5. ASSUME d.selected # Unselected
      PROVE  /\ \E k \in Seen(d) : \E j : Ranked(d, k, j) /\ d.selected = Candidate(Listed(d)[k], j)
             /\ \A k \in Seen(d) : \A j :
                   Ranked(d, k, j) => NoWorse(d.selected, Candidate(Listed(d)[k], j))
  BY <1>1, <1>5 DEF ScanInv
<1>6. d.selected = Unselected /\ ~d.blocked => \A k \in Seen(d) : ~Fits(d, k)
  BY <1>1 DEF ScanInv
<1> QED BY <1>3, <1>4, <1>5, <1>6 DEF ScanInv

\* The comparison is a total order on what is ranked.
LEMMA BetterOrNoWorse ==
    ASSUME NEW s \in Selections, NEW e \in Selections
    PROVE  (Better(e, s) => NoWorse(e, s)) /\ (~Better(e, s) => NoWorse(s, e))
BY DEF Selections, Better, NoWorse, Unselected

\* Price, then name, orders the candidates.
LEMMA NoWorseTransitive ==
    ASSUME NEW s \in Selections, NEW e \in Selections, NEW x \in Selections,
           NoWorse(s, e), NoWorse(e, x)
    PROVE  NoWorse(s, x)
BY DEF Selections, NoWorse

\* Within a type, the offering chosen is no dearer than the others.
LEMMA CheapestIsNoWorse ==
    ASSUME NEW it, NEW claim, NEW j, Cheapest(it, claim, j),
           NEW k \in Launchable(it, claim), Candidate(it, k) \in Selections
    PROVE  NoWorse(Candidate(it, j), Candidate(it, k))
<1>1. it.offerings[j].price < it.offerings[k].price \/ it.offerings[j].price = it.offerings[k].price
  BY DEF Cheapest
<1>2. /\ Candidate(it, j).price = it.offerings[j].price /\ Candidate(it, j).name = it.name
      /\ Candidate(it, k).price = it.offerings[k].price /\ Candidate(it, k).name = it.name
  BY DEF Candidate
<1>3. it.name \in Nat
  BY <1>2 DEF Selections
<1> QED BY <1>1, <1>2, <1>3 DEF NoWorse

\* Ranking a type keeps the best of what has been seen.
LEMMA RankKeepsScan ==
    ASSUME NEW c \in Calls, NEW d, NEW i, ScanStep(c, d, i), ScanInv(c), NEW j,
           Fits(c, i), Cheapest(Listed(c)[i], c.claim, j),
           d.selected = IF Better(Candidate(Listed(c)[i], j), c.selected)
                        THEN Candidate(Listed(c)[i], j) ELSE c.selected,
           d.missing = c.missing, d.blocked = c.blocked
    PROVE  ScanInv(d) /\ d.selected \in Selections
<1> DEFINE e == Candidate(Listed(c)[i], j)
<1>1. /\ Listed(d) = Listed(c) /\ Seen(d) = Seen(c) \cup {i}
      /\ \A k, m : Ranked(d, k, m) <=> Ranked(c, k, m)
  BY ScanStepListing
<1>2. /\ d.cat = c.cat /\ d.marked = c.marked /\ d.nc = c.nc /\ d.claim = c.claim
      /\ d.steady = c.steady /\ d.barred = c.barred /\ d.todo \subseteq c.todo /\ i \in c.todo
  BY DEF ScanStep
<1>3. /\ d.cat \in Catalogues /\ d.nc \in NodeClasses /\ d.todo \subseteq DOMAIN Listed(d)
      /\ d.missing # {} => d.nc.images # {}
      /\ d.steady => Placeable(d.cat, d.marked, d.nc, d.claim)
      /\ d.barred \subseteq d.marked
  BY <1>1, <1>2 DEF ScanInv
<1>4. c.cat \in Catalogues /\ c.nc \in NodeClasses /\ i \in DOMAIN Listed(c)
  BY <1>2 DEF ScanInv
<1>5. Ranked(c, i, j)
  BY DEF Ranked, Cheapest
<1>6. \A k \in DOMAIN Listed(c) : \A m : Ranked(c, k, m) => Candidate(Listed(c)[k], m) \in Selections
  BY <1>4, RankedMeaning
<1>7. e \in Selections
  BY <1>4, <1>5, <1>6
<1>8. ASSUME NEW m, Ranked(c, i, m) PROVE NoWorse(e, Candidate(Listed(c)[i], m))
  BY <1>4, <1>6, <1>8, CheapestIsNoWorse DEF Ranked
<1>9. ASSUME NEW x \in Selections PROVE x # Unselected
  BY DEF Selections, Unselected
<1> HIDE DEF e
<1>10. Seen(c) \subseteq DOMAIN Listed(c)
  BY DEF Seen
<1>11. CASE c.selected = Unselected
  <2>1. d.selected = e
    BY <1>11 DEF Better, e
  <2>2. \A k \in Seen(c) : \A m : ~Ranked(c, k, m)
    BY <1>11 DEF ScanInv
  <2>3. /\ \E k \in Seen(d) : \E m : Ranked(d, k, m) /\ d.selected = Candidate(Listed(d)[k], m)
        /\ \A k \in Seen(d) : \A m :
              Ranked(d, k, m) => NoWorse(d.selected, Candidate(Listed(d)[k], m))
    BY <1>1, <1>5, <1>8, <2>1, <2>2 DEF e
  <2> QED BY <1>3, <1>7, <1>9, <2>1, <2>3 DEF ScanInv
<1>12. CASE c.selected # Unselected
  <2>1. c.selected \in Selections
    BY <1>12 DEF Calls
  <2>2. /\ \E k \in Seen(c) : \E m : Ranked(c, k, m) /\ c.selected = Candidate(Listed(c)[k], m)
        /\ \A k \in Seen(c) : \A m :
              Ranked(c, k, m) => NoWorse(c.selected, Candidate(Listed(c)[k], m))
    BY <1>12 DEF ScanInv
  <2>3. d.selected = IF Better(e, c.selected) THEN e ELSE c.selected
    BY DEF e
  <2>4. d.selected \in Selections
    BY <1>7, <2>1, <2>3
  <2>5. NoWorse(d.selected, e) /\ NoWorse(d.selected, c.selected)
    <3>1. NoWorse(e, e) /\ NoWorse(c.selected, c.selected)
      BY <1>7, <2>1 DEF NoWorse, Selections
    <3> QED BY <1>7, <2>1, <2>3, <3>1, BetterOrNoWorse
  <2>6. \E k \in Seen(d) : \E m : Ranked(d, k, m) /\ d.selected = Candidate(Listed(d)[k], m)
    BY <1>1, <1>5, <2>2, <2>3 DEF e
  <2>7. ASSUME NEW k \in Seen(d), NEW m, Ranked(d, k, m)
        PROVE  NoWorse(d.selected, Candidate(Listed(d)[k], m))
    <3>1. Ranked(c, k, m) /\ k \in DOMAIN Listed(c) /\ Candidate(Listed(c)[k], m) \in Selections
      BY <1>1, <1>4, <1>6, <1>10, <2>7
    <3>2. CASE k = i
      <4>1. NoWorse(e, Candidate(Listed(c)[k], m))
        BY <1>8, <3>1, <3>2
      <4> QED BY <1>1, <1>7, <2>4, <2>5, <3>1, <4>1, NoWorseTransitive
    <3>3. CASE k \in Seen(c)
      <4>1. NoWorse(c.selected, Candidate(Listed(c)[k], m))
        BY <2>2, <3>1, <3>3
      <4> QED BY <1>1, <2>1, <2>4, <2>5, <3>1, <4>1, NoWorseTransitive
    <3> QED BY <1>1, <3>2, <3>3
  <2> QED BY <1>3, <1>9, <2>4, <2>6, <2>7 DEF ScanInv
<1> QED BY <1>11, <1>12

\* A scan step of the call w keeps the invariant when its ScanInv is kept.
LEMMA ScanStepKeeps ==
    ASSUME IInv, NEW w \in Callers, NEW d \in Calls, NEW i,
           ScanStep(call[w], d, i), call[w].pc = "scan", ScanInv(d),
           call' = [call EXCEPT ![w] = d],
           UNCHANGED <<catalogue, nodeClass, marks, refused>>
    PROVE  IInv'
<1>1. CallInv(call[w], catalogue, nodeClass, marks)
  BY DEF IInv
<1>2. /\ d.pc = "scan" /\ d.barred \subseteq marks
      /\ d.result \notin {"noImage", "noCapacity", "imageLost"}
  BY <1>1 DEF CallInv, ScanStep
<1>3. CallInv(d, catalogue, nodeClass, marks)
  BY <1>2 DEF CallInv
<1> QED BY <1>3, LocalStep

\* A type the requirements rule out leaves the scan as it was.
LEMMA SkipIncompatibleKeeps ==
    ASSUME IInv, NEW w \in Callers, SkipIncompatible(w)
    PROVE  IInv'
<1>1. PICK i \in call[w].todo :
        /\ NextType(call[w], i) /\ ~Compatible(call[w], i)
        /\ call' = [call EXCEPT ![w].todo = @ \ {i}]
  BY DEF SkipIncompatible
<1> DEFINE c == call[w]
           d == [c EXCEPT !.todo = c.todo \ {i}]
<1>2. c \in Calls /\ call \in [Callers -> Calls] /\ CallInv(c, catalogue, nodeClass, marks)
  BY DEF IInv, TypeOK
<1>3. c.pc = "scan" /\ ScanInv(c)
  BY <1>1, <1>2 DEF NextType, CallInv
<1>4. call' = [call EXCEPT ![w] = d] /\ d \in Calls
  BY <1>1, <1>2 DEF Calls
<1>5. ScanStep(c, d, i) /\ d.selected = c.selected /\ d.blocked = c.blocked /\ d.missing = c.missing
  BY <1>1, <1>2 DEF ScanStep, Calls
<1> HIDE DEF d
<1>6. ~Fits(c, i) /\ \A j : ~Ranked(c, i, j)
  BY <1>1 DEF Fits, Ranked
<1>7. ScanInv(d)
  BY <1>3, <1>5, <1>6, SkipKeepsScan DEF ScanInv
<1> QED BY <1>3, <1>4, <1>5, <1>7, ScanStepKeeps DEF SkipIncompatible

\* A type without an image is never ranked, and its architecture is one that
\* status lacks.
LEMMA SkipImagelessKeeps ==
    ASSUME IInv, NEW w \in Callers, SkipImageless(w)
    PROVE  IInv'
<1>1. PICK i \in call[w].todo :
        /\ NextType(call[w], i) /\ ~HasResolvedImage(call[w].nc, Listed(call[w])[i].arch)
        /\ call' = [call EXCEPT ![w].todo = @ \ {i},
                                ![w].missing = @ \cup {Listed(call[w])[i].arch}]
  BY DEF SkipImageless
<1> DEFINE c == call[w]
           m == c.missing \cup {Listed(c)[i].arch}
           d == [c EXCEPT !.todo = c.todo \ {i}, !.missing = m]
<1>2. c \in Calls /\ call \in [Callers -> Calls] /\ CallInv(c, catalogue, nodeClass, marks)
  BY DEF IInv, TypeOK
<1>3. c.pc = "scan" /\ ScanInv(c)
  BY <1>1, <1>2 DEF NextType, CallInv
<1>4. Listed(c)[i].arch \in Archs
  <2>1. i \in DOMAIN List(c.cat, c.marked, c.nc) /\ c.cat \in Catalogues /\ c.nc \in NodeClasses
    BY <1>1, <1>3 DEF ScanInv, Listed
  <2>2. i \in DOMAIN c.cat /\ Listed(c)[i].arch = c.cat[i].arch
    BY <2>1, ListMeaning DEF Listed, ListedAs
  <2> QED BY <2>1, <2>2, ConstantsAssumption
<1>5. m \in SUBSET Archs
  BY <1>2, <1>4 DEF Calls
<1>6. call' = [call EXCEPT ![w] = d]
  BY <1>1, <1>2
<1>7. d \in Calls
  BY <1>2, <1>5 DEF Calls
<1>8. ScanStep(c, d, i) /\ d.selected = c.selected /\ d.blocked = c.blocked
  BY <1>1, <1>2 DEF ScanStep, Calls
<1> HIDE DEF d
<1>9. ~Fits(c, i) /\ (\A j : ~Ranked(c, i, j)) /\ c.nc.images # {}
  BY <1>1 DEF Fits, Ranked, HasResolvedImage
<1>10. ScanInv(d)
  BY <1>3, <1>8, <1>9, SkipKeepsScan
<1> QED BY <1>3, <1>6, <1>7, <1>8, <1>10, ScanStepKeeps DEF SkipImageless

\* A type without a launchable offering is never ranked; it is remembered as a
\* lack of capacity.
LEMMA SkipUnavailableKeeps ==
    ASSUME IInv, NEW w \in Callers, SkipUnavailable(w)
    PROVE  IInv'
<1>1. PICK i \in call[w].todo :
        /\ NextType(call[w], i) /\ Launchable(Listed(call[w])[i], call[w].claim) = {}
        /\ call' = [call EXCEPT ![w].todo = @ \ {i}, ![w].blocked = TRUE]
  BY DEF SkipUnavailable
<1> DEFINE c == call[w]
           d == [c EXCEPT !.todo = c.todo \ {i}, !.blocked = TRUE]
<1>2. c \in Calls /\ call \in [Callers -> Calls] /\ CallInv(c, catalogue, nodeClass, marks)
  BY DEF IInv, TypeOK
<1>3. c.pc = "scan" /\ ScanInv(c)
  BY <1>1, <1>2 DEF NextType, CallInv
<1>4. call' = [call EXCEPT ![w] = d] /\ d \in Calls
  BY <1>1, <1>2 DEF Calls
<1>5. ScanStep(c, d, i) /\ d.selected = c.selected /\ d.blocked /\ d.missing = c.missing
  BY <1>1, <1>2 DEF ScanStep, Calls
<1> HIDE DEF d
<1>6. \A j : ~Ranked(c, i, j)
  BY <1>1 DEF Ranked
<1>7. ScanInv(d)
  BY <1>3, <1>5, <1>6, SkipKeepsScan DEF ScanInv
<1> QED BY <1>3, <1>4, <1>5, <1>7, ScanStepKeeps DEF SkipUnavailable

\* The better of the selection and the type's cheapest offering is no worse than
\* anything seen.
LEMMA RankKeeps ==
    ASSUME IInv, NEW w \in Callers, Rank(w)
    PROVE  IInv'
<1> DEFINE c == call[w]
<1>1. PICK i \in c.todo : \E j \in DOMAIN Listed(c)[i].offerings :
        /\ NextType(c, i) /\ Compatible(c, i) /\ HasResolvedImage(c.nc, Listed(c)[i].arch)
        /\ Cheapest(Listed(c)[i], c.claim, j)
        /\ call' = [call EXCEPT
              ![w].todo = @ \ {i},
              ![w].selected = IF Better(Candidate(Listed(c)[i], j), @)
                              THEN Candidate(Listed(c)[i], j) ELSE @]
  BY DEF Rank
<1>2. PICK j \in DOMAIN Listed(c)[i].offerings :
        /\ NextType(c, i) /\ Compatible(c, i) /\ HasResolvedImage(c.nc, Listed(c)[i].arch)
        /\ Cheapest(Listed(c)[i], c.claim, j)
        /\ call' = [call EXCEPT
              ![w].todo = @ \ {i},
              ![w].selected = IF Better(Candidate(Listed(c)[i], j), @)
                              THEN Candidate(Listed(c)[i], j) ELSE @]
  BY <1>1
<1> DEFINE s == IF Better(Candidate(Listed(c)[i], j), c.selected)
                THEN Candidate(Listed(c)[i], j) ELSE c.selected
           d == [c EXCEPT !.todo = c.todo \ {i}, !.selected = s]
<1>3. c \in Calls /\ call \in [Callers -> Calls] /\ CallInv(c, catalogue, nodeClass, marks)
  BY DEF IInv, TypeOK
<1>4. c.pc = "scan" /\ ScanInv(c) /\ Fits(c, i)
  BY <1>2, <1>3 DEF NextType, CallInv, Fits
<1>5. call' = [call EXCEPT ![w] = d]
  BY <1>2, <1>3
<1>6. /\ ScanStep(c, d, i) /\ d.selected = s /\ d.blocked = c.blocked /\ d.missing = c.missing
  BY <1>1, <1>3 DEF ScanStep, Calls
<1> HIDE DEF s
<1>7. ScanInv(d) /\ d.selected \in Selections
  <2> HIDE DEF d
  <2> QED BY <1>2, <1>3, <1>4, <1>6, RankKeepsScan DEF s
<1>8. d \in Calls
  BY <1>3, <1>6, <1>7 DEF Calls
<1> HIDE DEF d
<1> QED BY <1>4, <1>5, <1>6, <1>7, <1>8, ScanStepKeeps DEF Rank

\* With nothing selected there was nothing to place, and if no fitting type was
\* blocked on capacity then every fitting type lacks an image.
LEMMA NothingSelectedKeeps ==
    ASSUME IInv, NEW w \in Callers, NothingSelected(w)
    PROVE  IInv'
<1> DEFINE c == call[w]
           how == IF c.missing # {} /\ ~c.blocked THEN "noImage" ELSE "noCapacity"
           d == [c EXCEPT !.pc = "done", !.result = how]
<1>1. /\ c.pc = "scan" /\ c.todo = {} /\ c.selected = Unselected
      /\ UNCHANGED <<catalogue, nodeClass, marks, refused>>
  BY DEF NothingSelected
<1>2. c \in Calls /\ call \in [Callers -> Calls] /\ CallInv(c, catalogue, nodeClass, marks)
  BY DEF IInv, TypeOK
<1>3. ScanInv(c) /\ c.barred \subseteq marks
  BY <1>1, <1>2 DEF CallInv
<1>4. call' = [call EXCEPT ![w] = d]
  BY <1>2 DEF NothingSelected, CreateReturns
<1>5. how \in {"noImage", "noCapacity"}
  OBVIOUS
<1>6. d \in Calls
  <2> HIDE DEF how
  <2> QED BY <1>2, <1>5 DEF Calls, Results
<1>7. /\ d.pc = "done" /\ d.result = how /\ d.cat = c.cat /\ d.marked = c.marked /\ d.nc = c.nc
      /\ d.claim = c.claim /\ d.steady = c.steady /\ d.barred = c.barred
  BY <1>2 DEF Calls
<1> HIDE DEF d
<1>8. Seen(c) = DOMAIN Listed(c)
  BY <1>1 DEF Seen
<1>9. ~c.steady
  <2> SUFFICES ASSUME Placeable(c.cat, c.marked, c.nc, c.claim) PROVE FALSE
    BY <1>3 DEF ScanInv
  <2>1. PICK i \in DOMAIN Listed(c) :
          /\ Listed(c)[i].name \in c.claim.fits /\ HasResolvedImage(c.nc, Listed(c)[i].arch)
          /\ Launchable(Listed(c)[i], c.claim) # {}
    BY DEF Placeable, Listed
  <2>2. \E j : Ranked(c, i, j)
    BY <2>1 DEF Ranked, Fits, Compatible
  <2> QED BY <1>1, <1>3, <1>8, <2>2 DEF ScanInv
<1>10. how = "noImage" => ImagesOnly(d)
  <2> SUFFICES ASSUME how = "noImage" PROVE ImagesOnly(d)
    OBVIOUS
  <2>1. c.missing # {} /\ ~c.blocked
    OBVIOUS
  <2>2. c.nc.images # {} /\ \A k \in DOMAIN Listed(c) : ~Fits(c, k)
    BY <1>1, <1>3, <1>8, <2>1 DEF ScanInv
  <2>3. Listed(d) = Listed(c)
    BY <1>7 DEF Listed
  <2> QED BY <1>7, <2>2, <2>3 DEF ImagesOnly, Fits, Compatible, HasResolvedImage
<1>11. CallInv(d, catalogue, nodeClass, marks)
  BY <1>3, <1>7, <1>9, <1>10 DEF CallInv
<1> QED BY <1>1, <1>4, <1>6, <1>11, LocalStep

\* Resolving the image and the user data leaves the selection alone.
LEMMA ResolveImageKeeps ==
    ASSUME IInv, NEW w \in Callers, ResolveImage(w)
    PROVE  IInv'
<1> DEFINE c == call[w]
           d == [c EXCEPT !.pc = "create"]
<1>1. /\ c.pc = "scan" /\ c.todo = {} /\ c.selected # Unselected
      /\ UNCHANGED <<catalogue, nodeClass, marks, refused>>
  BY DEF ResolveImage
<1>2. CASE CreateReturns(w, "error")
  BY <1>1, <1>2, EndsKeeps
<1>4. CASE c.selected.arch \notin c.nc.images /\ CreateReturns(w, "imageLost")
  <2>1. ScanInv(c)
    BY <1>1 DEF IInv, CallInv
  <2>2. PICK k, j : Ranked(c, k, j) /\ c.selected = Candidate(Listed(c)[k], j)
    BY <1>1, <2>1 DEF ScanInv
  <2>3. c.selected.arch = Listed(c)[k].arch
    BY <2>2 DEF Candidate
  <2>4. c.nc.images = {}
    BY <1>4, <2>2, <2>3 DEF Ranked, Fits, HasResolvedImage
  <2> QED BY <1>1, <1>4, <2>4, EndsKeeps
<1>3. CASE call' = [call EXCEPT ![w].pc = "create"]
  <2>1. c \in Calls /\ call \in [Callers -> Calls] /\ CallInv(c, catalogue, nodeClass, marks)
    BY DEF IInv, TypeOK
  <2>2. call' = [call EXCEPT ![w] = d] /\ d \in Calls
    BY <1>3, <2>1 DEF Calls
  <2>3. /\ d.pc = "create" /\ d.cat = c.cat /\ d.marked = c.marked /\ d.nc = c.nc
        /\ d.claim = c.claim /\ d.steady = c.steady /\ d.barred = c.barred /\ d.result = c.result
        /\ d.todo = c.todo /\ d.selected = c.selected /\ d.missing = c.missing
        /\ d.blocked = c.blocked
    BY <2>1 DEF Calls
  <2> HIDE DEF d
  <2>4. Listed(d) = Listed(c)
    BY <2>3 DEF Listed
  <2>5. Seen(d) = Seen(c)
    BY <2>3, <2>4 DEF Seen
  <2>6. \A k : Fits(d, k) <=> Fits(c, k)
    BY <2>3, <2>4 DEF Fits, Compatible
  <2>7. \A k, j : Ranked(d, k, j) <=> Ranked(c, k, j)
    BY <2>3, <2>4, <2>6 DEF Ranked
  <2>8. ScanInv(c)
    BY <1>1, <2>1 DEF CallInv
  <2>9. ScanInv(d)
    BY <2>3, <2>4, <2>5, <2>6, <2>7, <2>8 DEF ScanInv
  <2>10. CallInv(d, catalogue, nodeClass, marks)
    BY <1>1, <2>1, <2>3, <2>9 DEF CallInv
  <2> QED BY <1>1, <2>2, <2>10, LocalStep
<1> QED BY <1>2, <1>3, <1>4 DEF ResolveImage

\* A call that has returned leaves nothing behind.
LEMMA ReturnKeeps ==
    ASSUME IInv, NEW w \in Callers, Return(w)
    PROVE  IInv'
BY IdleCallType, IdleCallInv, LocalStep DEF Return

-----------------------------------------------------------------------------
(* Changes around the calls.                                               *)

\* d is the call c after a change it may not have seen, when the marks are mk.
Unsettled(c, d, mk) ==
    /\ d.pc = c.pc /\ d.claim = c.claim /\ d.nc = c.nc /\ d.cat = c.cat /\ d.marked = c.marked
    /\ d.todo = c.todo /\ d.missing = c.missing /\ d.blocked = c.blocked
    /\ d.selected = c.selected /\ d.result = c.result
    /\ d.pc \in {"fetch", "list"} => ~d.steady
    /\ d.steady => c.steady
    /\ d.barred \subseteq c.barred /\ d.barred \subseteq mk

\* A call told that something changed claims less than it did.
LEMMA UnsettledKeeps ==
    ASSUME NEW c, NEW d, NEW cat, NEW nc, NEW mk, NEW cat2, NEW nc2, NEW mk2,
           CallInv(c, cat, nc, mk), Unsettled(c, d, mk2)
    PROVE  CallInv(d, cat2, nc2, mk2)
<1>1. Listed(d) = Listed(c)
  BY DEF Unsettled, Listed
<1>2. Seen(d) = Seen(c)
  BY <1>1 DEF Unsettled, Seen
<1>3. \A k : Fits(d, k) <=> Fits(c, k)
  BY <1>1 DEF Unsettled, Fits, Compatible
<1>4. \A k, j : Ranked(d, k, j) <=> Ranked(c, k, j)
  BY <1>1, <1>3 DEF Unsettled, Ranked
<1>5. ScanInv(c) => ScanInv(d)
  BY <1>1, <1>2, <1>3, <1>4 DEF Unsettled, ScanInv
<1>6. ImagesOnly(c) => ImagesOnly(d)
  BY <1>1 DEF Unsettled, ImagesOnly, Compatible
<1> QED BY <1>5, <1>6 DEF Unsettled, CallInv

\* What Unsettle does to one call.
LEMMA UnsettleMeaning ==
    ASSUME NEW cs \in [Callers -> Calls], NEW v \in Callers, NEW mk, cs[v].barred \subseteq mk
    PROVE  Unsettle(cs)[v] \in Calls /\ Unsettled(cs[v], Unsettle(cs)[v], mk)
<1> DEFINE c == cs[v]
           d == Unsettle(cs)[v]
<1>1. c \in Calls
  OBVIOUS
<1>2. d = IF c.pc \in {"fetch", "list"} THEN [c EXCEPT !.steady = FALSE] ELSE c
  BY DEF Unsettle
<1> HIDE DEF c, d
<1>3. CASE c.pc \in {"fetch", "list"}
  <2>1. d = [c EXCEPT !.steady = FALSE]
    BY <1>2, <1>3
  <2>2. d \in Calls
    BY <1>1, <2>1 DEF Calls
  <2> QED BY <1>1, <2>1, <2>2 DEF Unsettled, Calls, c, d
<1>4. CASE c.pc \notin {"fetch", "list"}
  BY <1>1, <1>2, <1>4 DEF Unsettled, c, d
<1> QED BY <1>3, <1>4

\* A change of the NodeClass or of the catalogue keeps the inductive invariant:
\* calls past their reads hold copies.
LEMMA SurroundingsKeep ==
    ASSUME IInv, UNCHANGED <<marks, refused>>, call' = Unsettle(call),
           catalogue' \in Catalogues, nodeClass' \in NodeClasses
    PROVE  IInv'
<1>1. call \in [Callers -> Calls]
  BY DEF IInv, TypeOK
<1>2. ASSUME NEW v \in Callers
      PROVE  call'[v] \in Calls /\ CallInv(call'[v], catalogue', nodeClass', marks')
  <2>1. CallInv(call[v], catalogue, nodeClass, marks)
    BY DEF IInv
  <2>2. call[v].barred \subseteq marks
    BY <2>1 DEF CallInv
  <2>3. Unsettle(call)[v] \in Calls /\ Unsettled(call[v], Unsettle(call)[v], marks)
    BY <1>1, <2>2, UnsettleMeaning
  <2>4. CallInv(Unsettle(call)[v], catalogue', nodeClass', marks)
    BY <2>1, <2>3, UnsettledKeeps
  <2> QED BY <2>3, <2>4
<1>3. call' \in [Callers -> Calls]
  BY <1>2 DEF Unsettle
<1>4. TypeOK'
  BY <1>3 DEF IInv, TypeOK
<1> QED BY <1>2, <1>4 DEF IInv

\* A refusal marks its pair and unsettles the claims made before it.
LEMMA RefusedKeeps ==
    ASSUME IInv, NEW w \in Callers, Refused(w)
    PROVE  IInv'
<1> DEFINE pair == <<call[w].selected.name, call[w].selected.zone>>
           e == [call[w] EXCEPT !.pc = "done", !.result = "refused"]
           cs == [call EXCEPT ![w] = e]
<1>1. call[w] \in Calls /\ call \in [Callers -> Calls] /\ CallInv(call[w], catalogue, nodeClass, marks)
  BY DEF IInv, TypeOK
<1>2. /\ call[w].pc = "create" /\ marks' = marks \cup {pair} /\ refused' = refused \cup {pair}
      /\ call' = Unsettle([call EXCEPT ![w].pc = "done", ![w].result = "refused"])
      /\ UNCHANGED <<catalogue, nodeClass>>
  BY DEF Refused, MarkUnavailable
<1>3. call[w].selected \in Selections
  BY <1>1, <1>2 DEF CallInv, Calls
<1>4. pair \in Nat \X Zones
  BY <1>3 DEF Selections
<1>5. cs = [call EXCEPT ![w].pc = "done", ![w].result = "refused"]
  BY <1>1
<1>6. e \in Calls
  BY <1>1 DEF Calls, Results
<1>7. e.pc = "done" /\ e.result = "refused" /\ e.barred = call[w].barred
  BY <1>1 DEF Calls
<1> HIDE DEF e, pair
<1>8. CallInv(e, catalogue, nodeClass, marks)
  BY <1>1, <1>7 DEF CallInv
<1>9. cs \in [Callers -> Calls]
  BY <1>1, <1>6
<1>10. ASSUME NEW v \in Callers
       PROVE  call'[v] \in Calls /\ CallInv(call'[v], catalogue', nodeClass', marks')
  <2>1. CallInv(cs[v], catalogue, nodeClass, marks)
    BY <1>1, <1>8 DEF IInv
  <2>2. cs[v].barred \subseteq marks'
    BY <1>2, <2>1 DEF CallInv
  <2> HIDE DEF cs
  <2>3. Unsettle(cs)[v] \in Calls /\ Unsettled(cs[v], Unsettle(cs)[v], marks')
    BY <1>9, <2>2, UnsettleMeaning
  <2>4. CallInv(Unsettle(cs)[v], catalogue', nodeClass', marks')
    BY <2>1, <2>3, UnsettledKeeps
  <2> QED BY <1>2, <1>5, <2>3, <2>4
<1>11. call' \in [Callers -> Calls]
  BY <1>2, <1>10 DEF Unsettle
<1>12. TypeOK' /\ marks' = refused'
  BY <1>2, <1>4, <1>11 DEF IInv, TypeOK
<1> QED BY <1>10, <1>12 DEF IInv

\* A mark that ends is no longer held against any call.
LEMMA MarkEndsKeeps ==
    ASSUME IInv, NEW o, MarkEnds(o)
    PROVE  IInv'
<1>1. /\ marks' = marks \ {o} /\ refused' = refused \ {o} /\ UNCHANGED <<catalogue, nodeClass>>
      /\ call' = [w \in Callers |-> [Unsettle(call)[w] EXCEPT !.barred = @ \ {o}]]
  BY DEF MarkEnds
<1>2. call \in [Callers -> Calls]
  BY DEF IInv, TypeOK
<1>3. ASSUME NEW v \in Callers
      PROVE  call'[v] \in Calls /\ CallInv(call'[v], catalogue', nodeClass', marks')
  <2> DEFINE c == Unsettle(call)[v]
             d == [c EXCEPT !.barred = c.barred \ {o}]
  <2>1. CallInv(call[v], catalogue, nodeClass, marks)
    BY DEF IInv
  <2>2. call[v].barred \subseteq marks
    BY <2>1 DEF CallInv
  <2>3. c \in Calls /\ Unsettled(call[v], c, marks)
    BY <1>2, <2>2, UnsettleMeaning
  <2>4. call'[v] = d
    BY <1>1
  <2> HIDE DEF c
  <2>5. d \in Calls
    BY <2>3 DEF Calls
  <2>6. /\ d.pc = c.pc /\ d.claim = c.claim /\ d.nc = c.nc /\ d.cat = c.cat /\ d.marked = c.marked
        /\ d.todo = c.todo /\ d.missing = c.missing /\ d.blocked = c.blocked
        /\ d.selected = c.selected /\ d.result = c.result /\ d.steady = c.steady
        /\ d.barred = c.barred \ {o}
    BY <2>3 DEF Calls
  <2> HIDE DEF d
  <2>7. Unsettled(call[v], d, marks')
    BY <1>1, <2>3, <2>6 DEF Unsettled
  <2>8. CallInv(d, catalogue', nodeClass', marks')
    BY <2>1, <2>7, UnsettledKeeps
  <2> QED BY <2>4, <2>5, <2>8
<1>4. call' \in [Callers -> Calls]
  BY <1>1, <1>3
<1>5. TypeOK' /\ marks' = refused'
  BY <1>1, <1>4 DEF IInv, TypeOK
<1> QED BY <1>3, <1>5 DEF IInv

\* Every step of the calls and their surroundings keeps the inductive invariant.
LEMMA NextKeeps == IInv /\ [Next]_vars => IInv'
<1> SUFFICES ASSUME IInv, [Next]_vars PROVE IInv'
  OBVIOUS
<1>1. CASE UNCHANGED vars
  BY <1>1 DEF IInv, TypeOK, vars
<1>2. ASSUME NEW w \in Callers, Create(w) PROVE IInv'
  <2>1. CASE ResolveNodeClass(w)
    BY <2>1, ResolveNodeClassKeeps
  <2>2. CASE ListTypes(w)
    BY <2>2, ListTypesKeeps
  <2>3. CASE SkipIncompatible(w)
    BY <2>3, SkipIncompatibleKeeps
  <2>4. CASE SkipImageless(w)
    BY <2>4, SkipImagelessKeeps
  <2>5. CASE SkipUnavailable(w)
    BY <2>5, SkipUnavailableKeeps
  <2>6. CASE Rank(w)
    BY <2>6, RankKeeps
  <2>7. CASE NothingSelected(w)
    BY <2>7, NothingSelectedKeeps
  <2>8. CASE ResolveImage(w)
    BY <2>8, ResolveImageKeeps
  <2>9. CASE Launched(w)
    BY <2>9, EndsKeeps DEF Launched
  <2>10. CASE Refused(w)
    BY <2>10, RefusedKeeps
  <2>11. CASE CreateFails(w)
    BY <2>11, EndsKeeps DEF CreateFails
  <2>12. CASE Return(w)
    BY <2>12, ReturnKeeps
  <2> QED BY <1>2, <2>1, <2>2, <2>3, <2>4, <2>5, <2>6, <2>7, <2>8, <2>9, <2>10, <2>11, <2>12
          DEF Create
<1>3. ASSUME NEW w \in Callers, NEW claim \in Claims, Schedule(w, claim) PROVE IInv'
  BY <1>3, ScheduleKeeps
<1>4. ASSUME NEW o \in refused, MarkEnds(o) PROVE IInv'
  BY <1>4, MarkEndsKeeps
<1>5. CASE NodeClassChanges
  <2>1. catalogue \in Catalogues
    BY DEF IInv, TypeOK
  <2> QED BY <1>5, <2>1, SurroundingsKeep DEF NodeClassChanges
<1>6. CASE CatalogueChanges
  <2>1. nodeClass \in NodeClasses
    BY DEF IInv, TypeOK
  <2> QED BY <1>6, <2>1, SurroundingsKeep DEF CatalogueChanges
<1> QED BY <1>1, <1>2, <1>3, <1>4, <1>5, <1>6 DEF Next

\* The loop invariant, and what surrounds it, hold throughout every execution.
THEOREM Invariance == Spec => []IInv
BY InitEstablishes, NextKeeps, PTL DEF Spec

-----------------------------------------------------------------------------
(* What it implies.                                                        *)

\* Every variable keeps its type; what is selected has a positive price.
THEOREM TypeCorrect == Spec => []TypeOK
<1>1. IInv => TypeOK
  BY DEF IInv
<1> QED BY <1>1, Invariance, PTL

\* At the create call the scan is over and its choice is the best of the listing.
LEMMA AtCreate ==
    ASSUME IInv, NEW w \in Callers, call[w].pc = "create"
    PROVE  /\ call[w] \in Calls /\ call[w].cat \in Catalogues /\ call[w].nc \in NodeClasses
           /\ call[w].barred \subseteq call[w].marked
           /\ \E i \in DOMAIN Listed(call[w]) : \E j :
                 Ranked(call[w], i, j) /\ call[w].selected = Candidate(Listed(call[w])[i], j)
           /\ \A i \in DOMAIN Listed(call[w]) : \A j :
                 Ranked(call[w], i, j) => NoWorse(call[w].selected, Candidate(Listed(call[w])[i], j))
<1>1. /\ call[w] \in Calls /\ ScanInv(call[w]) /\ call[w].todo = {}
      /\ call[w].selected # Unselected
  BY DEF IInv, TypeOK, CallInv
<1>2. Seen(call[w]) = DOMAIN Listed(call[w])
  BY <1>1 DEF Seen
<1> QED BY <1>1, <1>2 DEF ScanInv

\* The create call names the cheapest launchable type, ties going to the lower
\* name, in the location it was priced for.
THEOREM LaunchesCheapest == Spec => []CheapestLaunch
<1>1. ASSUME IInv PROVE CheapestLaunch
  <2> SUFFICES ASSUME NEW w \in Callers, call[w].pc = "create"
      PROVE  /\ \E i \in DOMAIN call[w].cat : \E j \in DOMAIN call[w].cat[i].pricings :
                   /\ Eligible(call[w], i, j)
                   /\ call[w].selected.name = call[w].cat[i].name
                   /\ call[w].selected.zone = call[w].cat[i].pricings[j].zone
                   /\ call[w].selected.price = NetPrice(call[w].cat[i].pricings[j])
             /\ \A i \in DOMAIN call[w].cat : \A j \in DOMAIN call[w].cat[i].pricings :
                   Eligible(call[w], i, j) =>
                      \/ call[w].selected.price < NetPrice(call[w].cat[i].pricings[j])
                      \/ /\ call[w].selected.price = NetPrice(call[w].cat[i].pricings[j])
                         /\ call[w].selected.name <= call[w].cat[i].name
    BY DEF CheapestLaunch
  <2> DEFINE c == call[w]
  <2>1. /\ c \in Calls /\ c.cat \in Catalogues /\ c.nc \in NodeClasses
        /\ \E i \in DOMAIN Listed(c) : \E j :
              Ranked(c, i, j) /\ c.selected = Candidate(Listed(c)[i], j)
        /\ \A i \in DOMAIN Listed(c) : \A j :
              Ranked(c, i, j) => NoWorse(c.selected, Candidate(Listed(c)[i], j))
    BY <1>1, AtCreate
  <2> HIDE DEF c
  <2>2. PICK i \in DOMAIN Listed(c) : \E j :
          Ranked(c, i, j) /\ c.selected = Candidate(Listed(c)[i], j)
    BY <2>1
  <2>3. PICK j : Ranked(c, i, j) /\ c.selected = Candidate(Listed(c)[i], j)
    BY <2>2
  <2>4. /\ i \in DOMAIN c.cat /\ j \in DOMAIN c.cat[i].pricings /\ Eligible(c, i, j)
        /\ c.selected.name = c.cat[i].name /\ c.selected.zone = c.cat[i].pricings[j].zone
        /\ c.selected.price = NetPrice(c.cat[i].pricings[j])
    BY <2>1, <2>3, RankedMeaning
  <2>5. ASSUME NEW k \in DOMAIN c.cat, NEW m \in DOMAIN c.cat[k].pricings, Eligible(c, k, m)
        PROVE  \/ c.selected.price < NetPrice(c.cat[k].pricings[m])
               \/ /\ c.selected.price = NetPrice(c.cat[k].pricings[m])
                  /\ c.selected.name <= c.cat[k].name
    <3>1. k \in DOMAIN Listed(c) /\ Ranked(c, k, m)
      BY <2>1, <2>5, EligibleIsRanked
    <3>2. NoWorse(c.selected, Candidate(Listed(c)[k], m))
      BY <2>1, <3>1
    <3>3. /\ Candidate(Listed(c)[k], m).name = c.cat[k].name
          /\ Candidate(Listed(c)[k], m).price = NetPrice(c.cat[k].pricings[m])
      BY <2>1, <3>1, RankedMeaning
    <3> QED BY <3>2, <3>3 DEF NoWorse
  <2> QED BY <2>4, <2>5 DEF c
<1> QED BY <1>1, Invariance, PTL

\* The same catalogue in another order leads to the same server type.
THEOREM ChoiceIsReproducible == Spec => []Reproducible
<1>1. ASSUME IInv, CheapestLaunch PROVE Reproducible
  <2>1. ASSUME NEW w \in Callers, NEW v \in Callers,
               call[w].pc = "create", call[v].pc = "create",
               {call[w].cat[i] : i \in DOMAIN call[w].cat} = {call[v].cat[i] : i \in DOMAIN call[v].cat},
               call[w].claim = call[v].claim, call[w].nc = call[v].nc,
               call[w].marked = call[v].marked
        PROVE  NoWorse(call[w].selected, call[v].selected)
    <3> DEFINE c == call[w]
               d == call[v]
    <3>1. PICK i \in DOMAIN d.cat : \E j \in DOMAIN d.cat[i].pricings :
            /\ Eligible(d, i, j) /\ d.selected.name = d.cat[i].name
            /\ d.selected.price = NetPrice(d.cat[i].pricings[j])
      BY <1>1, <2>1 DEF CheapestLaunch
    <3>2. PICK j \in DOMAIN d.cat[i].pricings :
            /\ Eligible(d, i, j) /\ d.selected.name = d.cat[i].name
            /\ d.selected.price = NetPrice(d.cat[i].pricings[j])
      BY <3>1
    <3>3. PICK k \in DOMAIN c.cat : c.cat[k] = d.cat[i]
      BY <2>1
    <3>4. j \in DOMAIN c.cat[k].pricings /\ Eligible(c, k, j)
      BY <2>1, <3>2, <3>3 DEF Eligible
    <3>5. \/ c.selected.price < NetPrice(c.cat[k].pricings[j])
          \/ c.selected.price = NetPrice(c.cat[k].pricings[j]) /\ c.selected.name <= c.cat[k].name
      BY <1>1, <2>1, <3>4 DEF CheapestLaunch
    <3> QED BY <3>2, <3>3, <3>5 DEF NoWorse
  <2>2. ASSUME NEW w \in Callers, call[w].pc = "create" PROVE call[w].selected \in Selections
    <3>1. call[w] \in Calls /\ call[w].selected # Unselected
      BY <1>1, <2>2 DEF IInv, TypeOK, CallInv
    <3> QED BY <3>1 DEF Calls
  <2>3. ASSUME NEW x \in Selections, NEW y \in Selections, NoWorse(x, y), NoWorse(y, x)
        PROVE  x.name = y.name
    BY <2>3 DEF NoWorse, Selections
  <2> QED BY <2>1, <2>2, <2>3 DEF Reproducible
<1> QED BY <1>1, Invariance, LaunchesCheapest, PTL

\* A refused pair is not asked for again before its mark has ended.
THEOREM RoutesAround == Spec => []NoDoomedRetry
<1>1. ASSUME IInv PROVE NoDoomedRetry
  <2> SUFFICES ASSUME NEW w \in Callers, call[w].pc = "create"
               PROVE  <<call[w].selected.name, call[w].selected.zone>> \notin call[w].barred
    BY DEF NoDoomedRetry
  <2> DEFINE c == call[w]
  <2>1. /\ c \in Calls /\ c.cat \in Catalogues /\ c.nc \in NodeClasses
        /\ c.barred \subseteq c.marked
        /\ \E i \in DOMAIN Listed(c) : \E j :
              Ranked(c, i, j) /\ c.selected = Candidate(Listed(c)[i], j)
    BY <1>1, AtCreate
  <2> HIDE DEF c
  <2>2. PICK i \in DOMAIN Listed(c) : \E j :
          Ranked(c, i, j) /\ c.selected = Candidate(Listed(c)[i], j)
    BY <2>1
  <2>3. PICK j : Ranked(c, i, j) /\ c.selected = Candidate(Listed(c)[i], j)
    BY <2>2
  <2>4. /\ Eligible(c, i, j)
        /\ c.selected.name = c.cat[i].name /\ c.selected.zone = c.cat[i].pricings[j].zone
    BY <2>1, <2>3, RankedMeaning
  <2>5. <<c.selected.name, c.selected.zone>> \notin c.marked
    BY <2>4 DEF Eligible
  <2> QED BY <2>1, <2>5 DEF c
<1> QED BY <1>1, Invariance, PTL

\* Create turns down what the scheduler was shown only where the NodeClass has
\* published no image at all and the live lookup finds none.
THEOREM SchedulerAndCreateAgree == Spec => []NoFutileClaims
<1>1. IInv => NoFutileClaims
  BY DEF IInv, CallInv, NoFutileClaims
<1> QED BY <1>1, Invariance, PTL

\* NodeClassNotReady is returned only when images are the whole story.
THEOREM ErrorsBlameFairly == Spec => []BlameIsFair
<1>1. IInv => BlameIsFair
  BY DEF IInv, CallInv, ImagesOnly, BlameIsFair
<1> QED BY <1>1, Invariance, PTL

=============================================================================
