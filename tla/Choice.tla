-------------------------------- MODULE Choice --------------------------------
(***************************************************************************)
(* What CloudProvider.Create promises karpenter core, without saying how:  *)
(* a claim is answered with the cheapest offer hcloud's catalogue has for  *)
(* it, chosen in one step, or with the reason there is none; and an offer  *)
(* hcloud turns down is marked, that one and no other.  Launch, which      *)
(* filters, scans and ranks, implements it.                                *)
(***************************************************************************)
EXTENDS Integers

CONSTANTS Callers, NoZone, NoFigure, Catalogues, NodeClasses, Claims

VARIABLES
    catalogue,  \* the server types hcloud offers
    nodeClass,  \* the HCloudNodeClass
    marks,      \* the (type, location) pairs marked unavailable
    request     \* the requests of core

vars == <<catalogue, nodeClass, marks, request>>

NoOffer == [name |-> 0, zone |-> NoZone]

\* No request.
Idle == [phase |-> "idle", claim |-> [fits |-> {}, zones |-> {}],
         nc |-> [images |-> {}, locations |-> {}], cat |-> << >>, marked |-> {},
         chosen |-> NoOffer, result |-> "none"]

-----------------------------------------------------------------------------
(* The offers of the catalogue a request saw, for its claim and NodeClass. *)

Priced(p) == {f \in {p.hourly, p.monthly} : f # NoFigure /\ f > 0} # {}

\* In 1/730 of the hourly unit.
Price(p) == IF p.hourly # NoFigure /\ p.hourly > 0 THEN 730 * p.hourly ELSE p.monthly

Within(zone, r) == zone # NoZone /\ (r.nc.locations = {} \/ zone \in r.nc.locations)

WithImage(st, r) == r.nc.images = {} \/ st.arch \in r.nc.images

\* The server type's j-th price is an offer.
Offered(st, j, r) ==
    LET p == st.pricings[j]
    IN  /\ st.name \in r.claim.fits /\ WithImage(st, r)
        /\ p.zone \in r.claim.zones /\ Within(p.zone, r)
        /\ <<st.name, p.zone>> \notin r.marked
        /\ Priced(p)

\* No offer is cheaper, or as cheap from a type with a lower name.
Best(st, j, r) ==
    /\ Offered(st, j, r)
    /\ \A i \in DOMAIN r.cat : \A k \in DOMAIN r.cat[i].pricings :
          Offered(r.cat[i], k, r) =>
            \/ Price(st.pricings[j]) < Price(r.cat[i].pricings[k])
            \/ /\ Price(st.pricings[j]) = Price(r.cat[i].pricings[k])
               /\ st.name <= r.cat[i].name

NothingOffered(r) ==
    \A i \in DOMAIN r.cat : \A j \in DOMAIN r.cat[i].pricings : ~Offered(r.cat[i], j, r)

\* The server types the claim allows, in the NodeClass's locations.
Fitting(r) ==
    {i \in DOMAIN r.cat :
        /\ r.cat[i].name \in r.claim.fits
        /\ \/ r.nc.locations = {}
           \/ \E j \in DOMAIN r.cat[i].pricings : Within(r.cat[i].pricings[j].zone, r)}

\* Some server type fits, and none that does has an image.
ImageIsToBlame(r) ==
    Fitting(r) # {} /\ \A i \in Fitting(r) : ~WithImage(r.cat[i], r)

-----------------------------------------------------------------------------

Put(w, r) == request' = [request EXCEPT ![w] = r]

Answer(w, how) == Put(w, [request[w] EXCEPT !.phase = "done", !.result = how])

Ask(w) ==
    /\ request[w].phase = "idle"
    /\ \E claim \in Claims : Put(w, [Idle EXCEPT !.phase = "fetch", !.claim = claim])
    /\ UNCHANGED <<catalogue, nodeClass, marks>>

ReadNodeClass(w) ==
    /\ request[w].phase = "fetch"
    /\ \/ Put(w, [request[w] EXCEPT !.phase = "list", !.nc = nodeClass])
       \/ Answer(w, "error")
    /\ UNCHANGED <<catalogue, nodeClass, marks>>

ReadCatalogue(w) ==
    /\ request[w].phase = "list"
    /\ \/ Put(w, [request[w] EXCEPT !.phase = "choose", !.cat = catalogue, !.marked = marks])
       \/ Answer(w, "error")
    /\ UNCHANGED <<catalogue, nodeClass, marks>>

\* The choice, unless an image or user data cannot be had for it.
Choose(w) ==
    /\ request[w].phase = "choose"
    /\ \E i \in DOMAIN request[w].cat : \E j \in DOMAIN request[w].cat[i].pricings :
         LET st == request[w].cat[i]
         IN  /\ Best(st, j, request[w])
             /\ \/ Put(w, [request[w] EXCEPT !.phase = "create",
                               !.chosen = [name |-> st.name, zone |-> st.pricings[j].zone]])
                \/ Answer(w, "error")
                \/ request[w].nc.images = {} /\ Answer(w, "imageLost")
    /\ UNCHANGED <<catalogue, nodeClass, marks>>

\* Nothing is on offer: the image is blamed if it is the whole story.
Decline(w) ==
    /\ request[w].phase = "choose" /\ NothingOffered(request[w])
    /\ Answer(w, IF ImageIsToBlame(request[w]) THEN "noImage" ELSE "noCapacity")
    /\ UNCHANGED <<catalogue, nodeClass, marks>>

\* hcloud's answer.
Deliver(w) ==
    /\ request[w].phase = "create"
    /\ \/ Answer(w, "launched") /\ UNCHANGED marks
       \/ /\ Answer(w, "refused")
          /\ marks' = marks \cup {<<request[w].chosen.name, request[w].chosen.zone>>}
       \/ Put(w, [request[w] EXCEPT !.phase = "done", !.result = "error", !.chosen = NoOffer])
          /\ UNCHANGED marks
    /\ UNCHANGED <<catalogue, nodeClass>>

Done(w) ==
    /\ request[w].phase = "done"
    /\ Put(w, Idle)
    /\ UNCHANGED <<catalogue, nodeClass, marks>>

\* The NodeClass and the catalogue change, and marks end.
WorldChanges ==
    /\ catalogue' \in Catalogues /\ nodeClass' \in NodeClasses /\ marks' \in SUBSET marks
    /\ UNCHANGED request

Init ==
    /\ catalogue \in Catalogues /\ nodeClass \in NodeClasses /\ marks = {}
    /\ request = [w \in Callers |-> Idle]

Next ==
    \/ \E w \in Callers : \/ Ask(w) \/ ReadNodeClass(w) \/ ReadCatalogue(w)
                          \/ Choose(w) \/ Decline(w) \/ Deliver(w) \/ Done(w)
    \/ WorldChanges

Spec == Init /\ [][Next]_vars

=============================================================================
