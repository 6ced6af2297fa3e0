------------------------------ MODULE DriftProofs ------------------------------
(***************************************************************************)
(* Proofs about Drift, for every set of NodeClaims, of specs and of image  *)
(* listings: image lookups are right, IsDrifted calls a node drifted only   *)
(* for a cause, and no NodeClaim is replaced more often than there were    *)
(* causes.                                                                 *)
(***************************************************************************)
EXTENDS Drift, ImageFamilyProofs, TLAPS

\* No NodeClass has a label with a key of karpenter's own.  Where one does, the
\* management label wins on the server and IsDrifted finds the other missing.
OwnKeysOnly == \A s \in Specs : DOMAIN s.labels \cap ManagementKeys = {}

Phases == {"pending", "creating", "launched"}
Causes == {"edit", "touch", "failure"}
ClaimFields == {"phase", "copy", "imageID", "type"}
ServerFields == {"image", "networks", "firewalls", "type", "location", "labels"}

\* A claim and its server are well formed, and the server is the claim's.
SlotType(cl, s) ==
    /\ DOMAIN cl = ClaimFields /\ DOMAIN s = ServerFields
    /\ cl.phase \in Phases /\ cl.copy \in Specs \cup {NoSpec}
    /\ cl.phase = "creating" => cl.copy \in Specs
    /\ cl.phase = "launched" => cl.type \in Types
    /\ s # NoServer => cl.phase = "launched" /\ s.type \in Types /\ s.location \in Zones

\* Every variable but the claims and the servers has its type.
RestTyped ==
    /\ spec \in Specs /\ images \in Listings
    /\ node \in [Claims -> NodeStatus] /\ check \in [Claims -> Specs \cup {NoSpec}]
    /\ drifted \in [Claims -> Reasons \cup {NoReason}] /\ cause \in [Claims -> SUBSET Causes]
    /\ replaced \in [Claims -> Nat] /\ touches \in [Claims -> 0..MaxTouches]
    /\ edits \in 0..MaxEdits /\ faults \in 0..MaxFaults

TypeInv ==
    /\ RestTyped
    /\ DOMAIN claim = Claims /\ DOMAIN server = Claims
    /\ \A c \in Claims : SlotType(claim[c], server[c])

-----------------------------------------------------------------------------
(* Types.                                                                  *)

\* A new claim and no server, field by field.
LEMMA Blanks ==
    /\ DOMAIN NewClaim = ClaimFields /\ NewClaim.phase = "pending" /\ NewClaim.copy = NoSpec
    /\ NewClaim.type = "none" /\ NewClaim.imageID = NoImage
    /\ DOMAIN NoServer = ServerFields /\ NoServer.type = "none"
BY DEF NewClaim, NoServer, ClaimFields, ServerFields

\* A server that is created, field by field: its labels are those asked for,
\* save where karpenter has its own.
LEMMA ServerForMeaning ==
    ASSUME NEW c, NEW sp, NEW t, NEW z, NEW image
    PROVE  LET s == ServerFor(c, sp, t, z, image)
           IN  /\ DOMAIN s = ServerFields
               /\ s.image = image /\ s.type = t /\ s.location = z /\ s.firewalls = sp.firewalls
               /\ sp.network > 0 => sp.network \in s.networks
               /\ DOMAIN s.labels = DOMAIN sp.labels \cup ManagementKeys
               /\ \A k \in DOMAIN sp.labels \ ManagementKeys : s.labels[k] = sp.labels[k]
<1> DEFINE s == ServerFor(c, sp, t, z, image)
           nets == IF sp.network > 0 THEN {sp.network} ELSE {}
           ls == ServerLabels(c, sp.labels)
           fws == sp.firewalls
<1>1. s = [image |-> image, networks |-> nets, firewalls |-> fws, type |-> t, location |-> z, labels |-> ls]
  BY DEF ServerFor
<1>2. sp.network > 0 => sp.network \in nets
  OBVIOUS
<1>3. DOMAIN ManagementLabels(c) = ManagementKeys
  BY DEF ManagementLabels
<1>4. /\ DOMAIN ls = DOMAIN sp.labels \cup ManagementKeys
      /\ \A k \in DOMAIN sp.labels \ ManagementKeys : ls[k] = sp.labels[k]
  BY <1>3 DEF ServerLabels, WrittenOver
<1> HIDE DEF s, nets, ls, fws
<1>5. /\ DOMAIN s = ServerFields /\ s.image = image /\ s.networks = nets /\ s.firewalls = fws
      /\ s.type = t /\ s.location = z /\ s.labels = ls
  BY <1>1 DEF ServerFields
<1> QED BY <1>2, <1>4, <1>5 DEF s, fws

\* The hydrated claim, field by field.
LEMMA HydrateMeaning ==
    ASSUME NEW s
    PROVE  /\ DOMAIN Hydrate(s) = ClaimFields /\ Hydrate(s).phase = "launched"
           /\ Hydrate(s).copy = NoSpec /\ Hydrate(s).imageID = s.image /\ Hydrate(s).type = s.type
<1> DEFINE image == s.image
           type == s.type
<1>1. Hydrate(s) = [NewClaim EXCEPT !.phase = "launched", !.imageID = image, !.type = type]
  BY DEF Hydrate
<1> HIDE DEF image, type
<1>2. /\ DOMAIN Hydrate(s) = ClaimFields /\ Hydrate(s).phase = "launched"
      /\ Hydrate(s).copy = NoSpec /\ Hydrate(s).imageID = image /\ Hydrate(s).type = type
  BY <1>1, Blanks DEF ClaimFields
<1> QED BY <1>2 DEF image, type

\* IsDrifted answers a reason that applies, or none if none does.
LEMMA AnswerMeaning ==
    ASSUME NEW cl, NEW s, NEW sp
    PROVE  /\ Answer(cl, s, sp) \in Reasons \cup {NoReason}
           /\ Answer(cl, s, sp) # NoReason =>
                s # NoServer /\ \E r \in Reasons : Drifts(cl, s, sp)[r]
<1> DEFINE D(i) == Drifts(cl, s, sp)[Order[i]]
<1>1. /\ DOMAIN Order = 1..6 /\ Order[1] = "ImageDrift" /\ Order[2] = "NetworkDrift"
      /\ Order[3] = "FirewallDrift" /\ Order[4] = "ServerTypeDrift"
      /\ Order[5] = "LocationDrift" /\ Order[6] = "LabelsDrift"
  BY DEF Order
<1>2. \A r \in Reasons : \E i \in 1..6 : Order[i] = r
  BY <1>1 DEF Reasons
<1>3. \A i \in 1..6 : Order[i] \in Reasons
  BY <1>1 DEF Reasons
<1> DEFINE Found(i) == D(i) /\ \A k \in 1..(i - 1) : ~D(k)
<1>4. CASE s = NoServer \/ \A r \in Reasons : ~Drifts(cl, s, sp)[r]
  BY <1>4 DEF Answer
<1>5. CASE ~(s = NoServer \/ \A r \in Reasons : ~Drifts(cl, s, sp)[r])
  <2>1. \E i \in 1..6 : D(i)
    BY <1>2, <1>5
  <2>2. \E i \in 1..6 : Found(i)
    <3> HIDE DEF D
    <3> QED BY <2>1
  <2>3. PICK first : first = CHOOSE i \in DOMAIN Order : Found(i)
    OBVIOUS
  <2>4. first \in 1..6
    <3> HIDE DEF Found
    <3> QED BY <1>1, <2>2, <2>3
  <2>5. Answer(cl, s, sp) = Order[first]
    BY <1>5, <2>3 DEF Answer
  <2> QED BY <1>3, <1>5, <2>4, <2>5
<1> QED BY <1>4, <1>5

\* TypeInv is TypeOK, and what TypeOK leaves out.
LEMMA TypeInvImplies == TypeInv => TypeOK
BY ConstantsAssumption DEF TypeInv, RestTyped, SlotType, TypeOK, Phases, Causes

\* g differs from f at c, if anywhere.
OnlyAt(c, f, g) == DOMAIN g = DOMAIN f /\ \A d \in DOMAIN f \ {c} : g[d] = f[d]

\* A step that changes one claim and its server, and keeps the other types.
LEMMA SlotStep ==
    ASSUME TypeInv, RestTyped', NEW c \in Claims, OnlyAt(c, claim, claim'),
           OnlyAt(c, server, server'), SlotType(claim'[c], server'[c])
    PROVE  TypeInv'
<1>1. DOMAIN claim' = Claims /\ DOMAIN server' = Claims
  BY DEF TypeInv, OnlyAt
<1>2. ASSUME NEW d \in Claims PROVE SlotType(claim'[d], server'[d])
  <2>1. CASE d = c
    BY <2>1
  <2>2. CASE d # c
    BY <2>2 DEF TypeInv, OnlyAt
  <2> QED BY <2>1, <2>2
<1> QED BY <1>1, <1>2 DEF TypeInv

\* A step that leaves claims and servers alone.
LEMMA RestStep ==
    ASSUME TypeInv, RestTyped', UNCHANGED <<claim, server>>
    PROVE  TypeInv'
BY DEF TypeInv

\* A new claim has no server.
LEMMA NewSlotType == SlotType(NewClaim, NoServer)
BY Blanks DEF SlotType, Phases

\* What a change of the server's own may make of it.
Changed(s, t) ==
    \/ t = NoServer
    \/ DOMAIN t = ServerFields /\ t.type \in Types /\ t.location = s.location

\* What somebody takes from a server leaves a server, or none.
LEMMA DamageMeaning ==
    ASSUME TypeInv, NEW c \in Claims, Damage(c)
    PROVE  \E t : server' = [server EXCEPT ![c] = t] /\ Changed(server[c], t)
<1> DEFINE s == server[c]
<1>1. DOMAIN s = ServerFields /\ s # NoServer
  BY DEF TypeInv, SlotType, Damage, Touched
<1>2. s.type \in Types
  BY <1>1 DEF TypeInv, SlotType
<1>3. DOMAIN server = Claims
  BY DEF TypeInv
<1>4. CASE server' = [server EXCEPT ![c].networks = {}]
  <2>1. server' = [server EXCEPT ![c] = [s EXCEPT !.networks = {}]]
    BY <1>3, <1>4
  <2>2. Changed(s, [s EXCEPT !.networks = {}])
    BY <1>1, <1>2 DEF Changed, ServerFields
  <2> QED BY <2>1, <2>2
<1>5. ASSUME NEW f, server' = [server EXCEPT ![c].firewalls = @ \ {f}]
      PROVE  \E t : server' = [server EXCEPT ![c] = t] /\ Changed(s, t)
  <2>1. server' = [server EXCEPT ![c] = [s EXCEPT !.firewalls = s.firewalls \ {f}]]
    BY <1>3, <1>5
  <2>2. Changed(s, [s EXCEPT !.firewalls = s.firewalls \ {f}])
    BY <1>1, <1>2 DEF Changed, ServerFields
  <2> QED BY <2>1, <2>2
<1>6. ASSUME NEW t \in Types, server' = [server EXCEPT ![c].type = t]
      PROVE  \E u : server' = [server EXCEPT ![c] = u] /\ Changed(s, u)
  <2>1. server' = [server EXCEPT ![c] = [s EXCEPT !.type = t]]
    BY <1>3, <1>6
  <2>2. Changed(s, [s EXCEPT !.type = t])
    BY <1>1 DEF Changed, ServerFields
  <2> QED BY <2>1, <2>2
<1>7. ASSUME NEW id, server' = [server EXCEPT ![c].image = id]
      PROVE  \E t : server' = [server EXCEPT ![c] = t] /\ Changed(s, t)
  <2>1. server' = [server EXCEPT ![c] = [s EXCEPT !.image = id]]
    BY <1>3, <1>7
  <2>2. Changed(s, [s EXCEPT !.image = id])
    BY <1>1, <1>2 DEF Changed, ServerFields
  <2> QED BY <2>1, <2>2
<1>8. ASSUME NEW k, server' = [server EXCEPT ![c].labels = [j \in DOMAIN @ \ {k} |-> @[j]]]
      PROVE  \E t : server' = [server EXCEPT ![c] = t] /\ Changed(s, t)
  <2> DEFINE ls == [j \in DOMAIN s.labels \ {k} |-> s.labels[j]]
  <2>1. server' = [server EXCEPT ![c] = [s EXCEPT !.labels = ls]]
    BY <1>3, <1>8
  <2> HIDE DEF ls
  <2>2. Changed(s, [s EXCEPT !.labels = ls])
    BY <1>1, <1>2 DEF Changed, ServerFields
  <2> QED BY <2>1, <2>2
<1>9. CASE server' = [server EXCEPT ![c] = NoServer]
  BY <1>9 DEF Changed
<1> QED BY <1>4, <1>5, <1>6, <1>7, <1>8, <1>9 DEF Damage

\* The server t has all that s has.
Keeps(s, t) ==
    /\ DOMAIN t = ServerFields
    /\ t.type = s.type /\ t.location = s.location /\ t.image \in {s.image, NoImage}
    /\ t.networks = s.networks /\ s.firewalls \subseteq t.firewalls
    /\ \A k \in DOMAIN s.labels : k \in DOMAIN t.labels /\ t.labels[k] = s.labels[k]

\* What somebody adds to a server takes nothing from it.
LEMMA AdornMeaning ==
    ASSUME TypeInv, NEW c \in Claims, Adorn(c)
    PROVE  \E t : server' = [server EXCEPT ![c] = t] /\ Keeps(server[c], t)
<1> DEFINE s == server[c]
<1>1. DOMAIN s = ServerFields /\ DOMAIN server = Claims
  BY DEF TypeInv, SlotType
<1>2. CASE server' = [server EXCEPT ![c].firewalls = @ \cup {0}]
  <2>1. server' = [server EXCEPT ![c] = [s EXCEPT !.firewalls = s.firewalls \cup {0}]]
    BY <1>1, <1>2
  <2>2. Keeps(s, [s EXCEPT !.firewalls = s.firewalls \cup {0}])
    BY <1>1 DEF Keeps, ServerFields
  <2> QED BY <2>1, <2>2
<1>3. CASE server' = [server EXCEPT ![c].labels = WrittenOver([k \in {"note"} |-> "by hand"], @)]
  <2> DEFINE ls == WrittenOver([k \in {"note"} |-> "by hand"], s.labels)
  <2>1. server' = [server EXCEPT ![c] = [s EXCEPT !.labels = ls]]
    BY <1>1, <1>3
  <2>2. \A k \in DOMAIN s.labels : k \in DOMAIN ls /\ ls[k] = s.labels[k]
    BY DEF WrittenOver
  <2> HIDE DEF ls
  <2>3. Keeps(s, [s EXCEPT !.labels = ls])
    BY <1>1, <2>2 DEF Keeps, ServerFields
  <2> QED BY <2>1, <2>3
<1> QED BY <1>2, <1>3 DEF Adorn

\* Nor does a new listing, but for the image that is withdrawn.
LEMMA ImagesChangeMeaning ==
    ASSUME TypeInv, ImagesChange
    PROVE  /\ DOMAIN server' = Claims
           /\ \A c \in Claims :
                 server'[c] = server[c] \/ (server[c] # NoServer /\ Keeps(server[c], server'[c]))
<1>1. DOMAIN server' = Claims
  BY DEF ImagesChange
<1>2. ASSUME NEW c \in Claims
      PROVE  server'[c] = server[c] \/ (server[c] # NoServer /\ Keeps(server[c], server'[c]))
  <2> DEFINE s == server[c]
             t == [s EXCEPT !.image = NoImage]
             Shown == \E i \in DOMAIN images' : images'[i].id = s.image
  <2>1. server'[c] = IF s = NoServer \/ Shown THEN s ELSE t
    BY Zenon DEF ImagesChange
  <2>2. server'[c] = s \/ (s # NoServer /\ server'[c] = t)
    <3> HIDE DEF s, t, Shown
    <3> QED BY <2>1
  <2>3. DOMAIN s = ServerFields
    BY DEF TypeInv, SlotType
  <2> HIDE DEF s
  <2>4. Keeps(s, t)
    BY <2>3 DEF Keeps, ServerFields
  <2> QED BY <2>2, <2>4 DEF s
<1> QED BY <1>1, <1>2

-----------------------------------------------------------------------------
(* The types are kept.                                                     *)

\* Create reads the NodeClass.
LEMMA ReadNodeClassTypes ==
    ASSUME TypeInv, NEW c \in Claims, ReadNodeClass(c)
    PROVE  TypeInv'
<1> DEFINE cl == [claim[c] EXCEPT !.phase = "creating", !.copy = spec]
<1>1. SlotType(claim[c], server[c]) /\ DOMAIN claim = Claims /\ DOMAIN server = Claims /\ RestTyped
  BY DEF TypeInv
<1>2. claim[c].phase = "pending" /\ UNCHANGED server
  BY DEF ReadNodeClass
<1>3. claim' = [claim EXCEPT ![c] = cl]
  BY <1>1 DEF ReadNodeClass
<1>4. /\ DOMAIN cl = ClaimFields /\ cl.phase = "creating" /\ cl.copy = spec
  BY <1>1 DEF SlotType, ClaimFields
<1> HIDE DEF cl
<1>5. SlotType(cl, server[c])
  BY <1>1, <1>2, <1>4 DEF SlotType, RestTyped, Phases
<1>6. RestTyped'
  <2>1. /\ cause' = [cause EXCEPT ![c] = {}]
        /\ UNCHANGED <<node, check, drifted, spec, images, edits, touches, faults, replaced>>
    BY DEF ReadNodeClass, world
  <2> QED BY <1>1, <2>1 DEF RestTyped, Causes
<1>7. /\ claim'[c] = cl /\ server'[c] = server[c]
      /\ OnlyAt(c, claim, claim') /\ OnlyAt(c, server, server')
  BY <1>1, <1>2, <1>3 DEF OnlyAt
<1> QED BY <1>5, <1>6, <1>7, SlotStep

\* What CreateServer does: s is the server, a the server as hcloud's answer shows it.
Creates(c, sp, s, a) ==
    /\ server' = [server EXCEPT ![c] = s] /\ claim' = [claim EXCEPT ![c] = Hydrate(a)]
    /\ \E t \in Types, z \in sp.locations : \E id, shown :
          /\ s = ServerFor(c, sp, t, z, id) /\ a = ServerFor(c, sp, t, z, shown)
          /\ shown \in {id, NoImage}

\* The server and the claim hydrated from hcloud's answer are well formed.
LEMMA CreateServerMeaning ==
    ASSUME TypeInv, NEW c \in Claims, CreateServer(c)
    PROVE  /\ claim[c].copy \in Specs
           /\ \E s, a : /\ Creates(c, claim[c].copy, s, a) /\ a.type = s.type
                        /\ a.image \in {s.image, NoImage}
                        /\ SlotType(Hydrate(a), s) /\ s # NoServer
<1> DEFINE sp == claim[c].copy
<1>1. claim[c].phase = "creating" /\ sp \in Specs
  BY DEF CreateServer, TypeInv, SlotType
<1>2. PICK t \in Types, z \in sp.locations : \E img :
        /\ server' = [server EXCEPT ![c] = ServerFor(c, sp, t, z, img.id)]
        /\ \E shown \in {img.id, NoImage} :
              claim' = [claim EXCEPT ![c] = Hydrate(ServerFor(c, sp, t, z, shown))]
  BY Zenon DEF CreateServer
<1>3. PICK img :
        /\ server' = [server EXCEPT ![c] = ServerFor(c, sp, t, z, img.id)]
        /\ \E shown \in {img.id, NoImage} :
              claim' = [claim EXCEPT ![c] = Hydrate(ServerFor(c, sp, t, z, shown))]
  BY <1>2, Zenon
<1>4. PICK shown \in {img.id, NoImage} :
        claim' = [claim EXCEPT ![c] = Hydrate(ServerFor(c, sp, t, z, shown))]
  BY <1>3
<1> DEFINE id == img.id
           s == ServerFor(c, sp, t, z, id)
           a == ServerFor(c, sp, t, z, shown)
<1>5. z \in Zones
  BY <1>1, ConstantsAssumption
<1>6. /\ DOMAIN s = ServerFields /\ s.type = t /\ s.location = z /\ s.image = id
      /\ a.type = t /\ a.image = shown
  BY ServerForMeaning
<1>7. Creates(c, sp, s, a)
  BY <1>3, <1>4 DEF Creates
<1> HIDE DEF s, a
<1>8. /\ DOMAIN Hydrate(a) = ClaimFields /\ Hydrate(a).phase = "launched"
      /\ Hydrate(a).copy = NoSpec /\ Hydrate(a).type = t
  BY <1>6, HydrateMeaning
<1>9. SlotType(Hydrate(a), s)
  BY <1>5, <1>6, <1>8 DEF SlotType, Phases
<1>10. s # NoServer
  BY <1>6, Blanks, ConstantsAssumption
<1> QED BY <1>1, <1>4, <1>6, <1>7, <1>9, <1>10

\* Create makes the server.
LEMMA CreateServerTypes ==
    ASSUME TypeInv, NEW c \in Claims, CreateServer(c)
    PROVE  TypeInv'
<1>1. PICK s, a : /\ server' = [server EXCEPT ![c] = s] /\ claim' = [claim EXCEPT ![c] = Hydrate(a)]
                  /\ SlotType(Hydrate(a), s)
  BY CreateServerMeaning DEF Creates
<1>2. RestTyped'
  BY DEF TypeInv, RestTyped, CreateServer, world, NodeStatus
<1>3. /\ claim'[c] = Hydrate(a) /\ server'[c] = s
      /\ OnlyAt(c, claim, claim') /\ OnlyAt(c, server, server')
  BY <1>1 DEF TypeInv, OnlyAt
<1> QED BY <1>1, <1>2, <1>3, SlotStep

\* Create ends without a server.
LEMMA CreateEndsTypes ==
    ASSUME TypeInv, NEW c \in Claims, CreateNoImage(c) \/ CreateFails(c)
    PROVE  TypeInv'
<1>1. /\ claim[c].phase = "creating" /\ claim' = [claim EXCEPT ![c] = NewClaim] /\ UNCHANGED server
  BY DEF CreateNoImage, CreateFails
<1>2. server[c] = NoServer /\ DOMAIN claim = Claims
  BY <1>1 DEF TypeInv, SlotType
<1>3. /\ claim'[c] = NewClaim /\ server'[c] = NoServer
      /\ OnlyAt(c, claim, claim') /\ OnlyAt(c, server, server')
  BY <1>1, <1>2 DEF OnlyAt
<1>4. RestTyped'
  <2>1. /\ faults' = faults \/ (faults < MaxFaults /\ faults' = faults + 1)
        /\ UNCHANGED <<node, check, drifted, spec, images, edits, touches, cause, replaced>>
    BY DEF CreateNoImage, CreateFails, world
  <2> QED BY <2>1, ConstantsAssumption DEF TypeInv, RestTyped
<1> QED BY <1>3, <1>4, NewSlotType, SlotStep

\* A drift check starts, ends or fails.
LEMMA CheckTypes ==
    ASSUME TypeInv, NEW c \in Claims, CheckStart(c) \/ CheckEnd(c) \/ CheckFails(c)
    PROVE  TypeInv'
<1>1. RestTyped
  BY DEF TypeInv
<1>2. CASE CheckStart(c)
  <2>1. RestTyped' /\ UNCHANGED <<claim, server>>
    BY <1>1, <1>2 DEF RestTyped, CheckStart, world
  <2> QED BY <2>1, RestStep
<1>3. CASE CheckEnd(c)
  <2>1. Answer(claim[c], server[c], check[c]) \in Reasons \cup {NoReason}
    BY AnswerMeaning
  <2>2. RestTyped' /\ UNCHANGED <<claim, server>>
    BY <1>1, <1>3, <2>1 DEF RestTyped, CheckEnd, world
  <2> QED BY <2>2, RestStep
<1>4. CASE CheckFails(c)
  <2>1. RestTyped' /\ UNCHANGED <<claim, server>>
    BY <1>1, <1>4, ConstantsAssumption DEF RestTyped, CheckFails
  <2> QED BY <2>1, RestStep
<1> QED BY <1>2, <1>3, <1>4

\* A replacement starts the slot afresh.
LEMMA ReplaceTypes ==
    ASSUME TypeInv, NEW c \in Claims, Replace(c)
    PROVE  TypeInv'
<1>1. claim' = [claim EXCEPT ![c] = NewClaim] /\ server' = [server EXCEPT ![c] = NoServer]
  BY DEF Replace
<1>2. RestTyped'
  BY DEF TypeInv, RestTyped, Replace, world, NodeStatus, Causes
<1>3. /\ claim'[c] = NewClaim /\ server'[c] = NoServer
      /\ OnlyAt(c, claim, claim') /\ OnlyAt(c, server, server')
  BY <1>1 DEF TypeInv, OnlyAt
<1> QED BY <1>2, <1>3, NewSlotType, SlotStep

\* A change behind karpenter's back leaves a server, or none.
LEMMA TouchTypes ==
    ASSUME TypeInv, NEW c \in Claims, Damage(c) \/ Adorn(c)
    PROVE  TypeInv'
<1>1. /\ SlotType(claim[c], server[c]) /\ DOMAIN claim = Claims
      /\ claim[c].phase = "launched" /\ server[c] # NoServer
  BY DEF TypeInv, Damage, Adorn, Touched
<1>2. PICK t : server' = [server EXCEPT ![c] = t] /\ Changed(server[c], t)
  <2>1. CASE Damage(c)
    BY <2>1, DamageMeaning
  <2>2. CASE Adorn(c)
    BY <1>1, <2>2, AdornMeaning DEF Keeps, Changed, SlotType
  <2> QED BY <2>1, <2>2
<1>3. SlotType(claim[c], t)
  BY <1>1, <1>2, Blanks DEF SlotType, Changed
<1>4. Touched(c) /\ (UNCHANGED cause \/ cause' = [cause EXCEPT ![c] = @ \cup {"touch"}])
  BY DEF Damage, Adorn
<1>5. /\ claim'[c] = claim[c] /\ server'[c] = t
      /\ OnlyAt(c, claim, claim') /\ OnlyAt(c, server, server')
  BY <1>1, <1>2, <1>4 DEF TypeInv, Touched, OnlyAt
<1>6. RestTyped'
  BY <1>4, ConstantsAssumption DEF TypeInv, RestTyped, Touched, Causes
<1> QED BY <1>3, <1>5, <1>6, SlotStep

\* A node fails, recovers or is lost; the spec is edited.
LEMMA NodeAndEditTypes ==
    ASSUME TypeInv,
           EditSpec \/ \E c \in Claims : NodeFails(c) \/ NodeRecovers(c) \/ NodeLost(c)
    PROVE  TypeInv'
<1>1. RestTyped
  BY DEF TypeInv
<1>2. CASE EditSpec
  <2>1. RestTyped' /\ UNCHANGED <<claim, server>>
    BY <1>1, <1>2, ConstantsAssumption DEF RestTyped, EditSpec, Causes
  <2> QED BY <2>1, RestStep
<1>3. ASSUME NEW c \in Claims, NodeFails(c) PROVE TypeInv'
  <2>1. RestTyped' /\ UNCHANGED <<claim, server>>
    BY <1>1, <1>3, ConstantsAssumption DEF RestTyped, NodeFails, Causes, NodeStatus
  <2> QED BY <2>1, RestStep
<1>4. ASSUME NEW c \in Claims, NodeRecovers(c) \/ NodeLost(c) PROVE TypeInv'
  <2>1. RestTyped' /\ UNCHANGED <<claim, server>>
    BY <1>1, <1>4 DEF RestTyped, NodeRecovers, NodeLost, NodeStatus, world
  <2> QED BY <2>1, RestStep
<1> QED BY <1>2, <1>3, <1>4

\* Images come and go.
LEMMA ImagesChangeTypes ==
    ASSUME TypeInv, ImagesChange
    PROVE  TypeInv'
<1>1. /\ DOMAIN server' = Claims
      /\ \A c \in Claims : server'[c] = server[c] \/ (server[c] # NoServer /\ Keeps(server[c], server'[c]))
  BY ImagesChangeMeaning
<1>2. UNCHANGED claim
  BY DEF ImagesChange
<1>3. ASSUME NEW c \in Claims PROVE SlotType(claim'[c], server'[c])
  BY <1>1, <1>2 DEF TypeInv, SlotType, Keeps
<1>4. RestTyped'
  BY ConstantsAssumption DEF TypeInv, RestTyped, ImagesChange
<1> QED BY <1>1, <1>2, <1>3, <1>4 DEF TypeInv

\* Every step keeps the types.
LEMMA NextKeepsTypes == TypeInv /\ [Next]_vars => TypeInv'
<1> SUFFICES ASSUME TypeInv, [Next]_vars PROVE TypeInv'
  OBVIOUS
<1>1. CASE UNCHANGED vars
  BY <1>1 DEF TypeInv, RestTyped, vars, world
<1>2. ASSUME NEW c \in Claims, Create(c) \/ CreateFails(c) PROVE TypeInv'
  BY <1>2, ReadNodeClassTypes, CreateServerTypes, CreateEndsTypes DEF Create
<1>3. ASSUME NEW c \in Claims, CheckStart(c) \/ CheckEnd(c) \/ CheckFails(c) PROVE TypeInv'
  BY <1>3, CheckTypes
<1>4. ASSUME NEW c \in Claims, DisruptDrifted(c) \/ Repair(c) \/ GarbageCollect(c) PROVE TypeInv'
  BY <1>4, ReplaceTypes DEF DisruptDrifted, Repair, GarbageCollect
<1>5. ASSUME NEW c \in Claims, Damage(c) \/ Adorn(c) PROVE TypeInv'
  BY <1>5, TouchTypes
<1>6. ASSUME NEW c \in Claims, NodeFails(c) \/ NodeRecovers(c) \/ NodeLost(c) PROVE TypeInv'
  BY <1>6, NodeAndEditTypes
<1>7. CASE EditSpec
  BY <1>7, NodeAndEditTypes
<1>8. CASE ImagesChange
  BY <1>8, ImagesChangeTypes
<1> QED BY <1>1, <1>2, <1>3, <1>4, <1>5, <1>6, <1>7, <1>8 DEF Next

\* New claims and no servers are well typed.
LEMMA InitTypes == Init => TypeInv
<1> SUFFICES ASSUME Init PROVE TypeInv
  OBVIOUS
<1>1. RestTyped
  BY ConstantsAssumption DEF Init, RestTyped, NodeStatus
<1>2. /\ DOMAIN claim = Claims /\ DOMAIN server = Claims
      /\ \A c \in Claims : claim[c] = NewClaim /\ server[c] = NoServer
  BY DEF Init
<1> QED BY <1>1, <1>2, NewSlotType DEF TypeInv

\* TypeInv throughout every execution.
THEOREM TypeInvariance == Spec => []TypeInv
BY InitTypes, NextKeepsTypes, PTL DEF Spec

\* Every variable keeps its type; a launched claim has recorded its server's type,
\* and only a launched claim has a server.
THEOREM TypeCorrect == Spec => []TypeOK
BY TypeInvariance, TypeInvImplies, PTL

\* Whatever listing hcloud answers with, and for every spec and server type, an
\* image lookup gives a right answer (Resolve).
THEOREM EveryLookupIsRight == Spec => []LookupsRight
<1>1. TypeInv => LookupsRight
  <2> SUFFICES ASSUME TypeInv, NEW s \in Specs, NEW t \in Types
               PROVE  RightAnswer(Resolve(images, s.imageSelector, ArchOf[t]),
                                  images, s.imageSelector, ArchOf[t])
    BY DEF LookupsRight
  <2>1. IsListing(images)
    BY ConstantsAssumption DEF TypeInv, RestTyped
  <2> QED BY <2>1, ResolveIsRight
<1> QED BY <1>1, TypeInvariance, PTL

-----------------------------------------------------------------------------
(* What is true of a slot between the steps of Create, IsDrifted and core. *)

\* A claim that is not launched has no server, no check and no condition.
Blank(c) ==
    claim[c].phase # "launched" =>
        server[c] = NoServer /\ check[c] = NoSpec /\ drifted[c] = NoReason /\ node[c] = "True"

\* Create's copy of the NodeClass is the NodeClass, unless that was edited since.
CopyFresh(c) ==
    claim[c].phase = "creating" /\ "edit" \notin cause[c] => claim[c].copy = spec

\* A launched claim has its server, unless somebody deleted that by hand.
ServerStands(c) ==
    claim[c].phase = "launched" /\ "touch" \notin cause[c] => server[c] # NoServer

\* Without an edit or a change by hand, the server is as it was launched, that is
\* as the NodeClass asks, and an IsDrifted call compares it with that NodeClass.
AsLaunched(c) ==
    claim[c].phase = "launched" /\ cause[c] \cap {"edit", "touch"} = {} =>
        /\ server[c].type = claim[c].type /\ ImageKept(claim[c], server[c])
        /\ Conforms(server[c], spec)
        /\ check[c] \in {spec, NoSpec}

DriftHasCause(c) == drifted[c] # NoReason => cause[c] \cap {"edit", "touch"} # {}

OutageHasCause(c) == node[c] # "True" => cause[c] # {}

\* A replacement that has a cause by now, and is still to come.
Owed(c) == IF claim[c].phase # "pending" /\ cause[c] # {} THEN 1 ELSE 0

\* Every replacement, made or owed, has an edit or a touch to its account.
Accounts(c) == replaced[c] + Owed(c) <= edits + touches[c]

SlotInv(c) ==
    /\ Blank(c) /\ CopyFresh(c) /\ ServerStands(c) /\ AsLaunched(c)
    /\ DriftHasCause(c) /\ OutageHasCause(c) /\ Accounts(c)

IInv == TypeInv /\ \A c \in Claims : SlotInv(c)

-----------------------------------------------------------------------------
(* Steps of one slot.                                                      *)

\* The numbers are numbers.
LEMMA Numbers ==
    ASSUME TypeInv, NEW c \in Claims
    PROVE  /\ replaced[c] \in Nat /\ edits \in Nat /\ touches[c] \in Nat
           /\ Owed(c) \in {0, 1} /\ cause[c] \in SUBSET Causes
BY ConstantsAssumption DEF TypeInv, RestTyped, Owed

\* The step is one of the slot c, and of nothing it shares with others.
StepOf(c) ==
    /\ OnlyAt(c, claim, claim') /\ OnlyAt(c, server, server') /\ OnlyAt(c, node, node')
    /\ OnlyAt(c, check, check') /\ OnlyAt(c, drifted, drifted') /\ OnlyAt(c, cause, cause')
    /\ OnlyAt(c, replaced, replaced') /\ OnlyAt(c, touches, touches')
    /\ spec' = spec /\ edits' = edits

\* A step of one slot keeps the invariant of the others.
LEMMA OthersKeep ==
    ASSUME IInv, TypeInv', NEW c \in Claims, StepOf(c), SlotInv(c)'
    PROVE  IInv'
<1>1. ASSUME NEW d \in Claims, d # c PROVE SlotInv(d)'
  <2>1. /\ claim'[d] = claim[d] /\ server'[d] = server[d] /\ node'[d] = node[d]
        /\ check'[d] = check[d] /\ drifted'[d] = drifted[d] /\ cause'[d] = cause[d]
        /\ replaced'[d] = replaced[d] /\ touches'[d] = touches[d]
        /\ spec' = spec /\ edits' = edits
    BY <1>1 DEF IInv, TypeInv, RestTyped, StepOf, OnlyAt
  <2>2. SlotInv(d)
    BY DEF IInv
  <2>3. Blank(d)' /\ CopyFresh(d)' /\ ServerStands(d)'
    BY <2>1, <2>2 DEF SlotInv, Blank, CopyFresh, ServerStands
  <2>4. AsLaunched(d)'
    BY <2>1, <2>2 DEF SlotInv, AsLaunched, Conforms, ImageKept
  <2>5. DriftHasCause(d)' /\ OutageHasCause(d)'
    BY <2>1, <2>2 DEF SlotInv, DriftHasCause, OutageHasCause
  <2>6. Accounts(d)'
    BY <2>1, <2>2 DEF SlotInv, Accounts, Owed
  <2> QED BY <2>3, <2>4, <2>5, <2>6 DEF SlotInv
<1> QED BY <1>1 DEF IInv

\* Create reads the NodeClass: whatever happened before does not count.
LEMMA ReadNodeClassKeeps ==
    ASSUME IInv, NEW c \in Claims, ReadNodeClass(c)
    PROVE  IInv'
<1>1. TypeInv /\ TypeInv' /\ SlotInv(c)
  BY ReadNodeClassTypes DEF IInv
<1>2. /\ claim[c].phase = "pending" /\ claim'[c].phase = "creating" /\ claim'[c].copy = spec
      /\ OnlyAt(c, claim, claim')
  BY <1>1 DEF ReadNodeClass, TypeInv, SlotType, ClaimFields, OnlyAt
<1>3. cause'[c] = {} /\ OnlyAt(c, cause, cause')
  BY <1>1 DEF ReadNodeClass, TypeInv, RestTyped, OnlyAt
<1>4. UNCHANGED <<server, node, check, drifted, spec, edits, touches, replaced>>
  BY DEF ReadNodeClass, world
<1>5. StepOf(c)
  BY <1>2, <1>3, <1>4 DEF StepOf, OnlyAt
<1>6. Accounts(c)'
  BY <1>1, <1>3, <1>4, Numbers DEF SlotInv, Accounts, Owed
<1>7. SlotInv(c)'
  BY <1>1, <1>2, <1>3, <1>4, <1>6
     DEF SlotInv, Blank, CopyFresh, ServerStands, AsLaunched, DriftHasCause, OutageHasCause
<1> QED BY <1>1, <1>5, <1>7, OthersKeep

\* The server created conforms to the copy of the NodeClass it was created from.
LEMMA ServerConforms ==
    ASSUME OwnKeysOnly, NEW c, NEW sp \in Specs, NEW t, NEW z \in sp.locations, NEW image
    PROVE  Conforms(ServerFor(c, sp, t, z, image), sp)
<1> DEFINE s == ServerFor(c, sp, t, z, image)
<1>1. /\ s.location = z /\ s.firewalls = sp.firewalls
      /\ sp.network > 0 => sp.network \in s.networks
      /\ DOMAIN s.labels = DOMAIN sp.labels \cup ManagementKeys
      /\ \A k \in DOMAIN sp.labels \ ManagementKeys : s.labels[k] = sp.labels[k]
  BY ServerForMeaning
<1>2. sp.network = 0 \/ sp.network > 0
  BY ConstantsAssumption
<1>3. DOMAIN sp.labels \cap ManagementKeys = {}
  BY DEF OwnKeysOnly
<1> HIDE DEF s
<1>4. Conforms(s, sp)
  BY <1>1, <1>2, <1>3 DEF Conforms
<1> QED BY <1>4 DEF s

\* The server is created as the copy of the NodeClass asks, and the copy is the
\* NodeClass unless an edit raced.
LEMMA CreateServerKeeps ==
    ASSUME OwnKeysOnly, IInv, NEW c \in Claims, CreateServer(c)
    PROVE  IInv'
<1>1. TypeInv /\ TypeInv' /\ SlotInv(c)
  BY CreateServerTypes DEF IInv
<1> DEFINE sp == claim[c].copy
<1>2. PICK s, a : /\ Creates(c, sp, s, a) /\ a.type = s.type /\ a.image \in {s.image, NoImage}
                  /\ sp \in Specs /\ s # NoServer
  BY <1>1, CreateServerMeaning
<1>3. /\ server' = [server EXCEPT ![c] = s] /\ claim' = [claim EXCEPT ![c] = Hydrate(a)]
      /\ \E t \in Types, z \in sp.locations : \E id : s = ServerFor(c, sp, t, z, id)
  BY <1>2 DEF Creates
<1>4. sp \in Specs /\ s # NoServer
  BY <1>2
<1>5. Conforms(s, sp)
  BY <1>3, <1>4, ServerConforms
<1>6. /\ server'[c] = s /\ claim'[c] = Hydrate(a)
      /\ OnlyAt(c, server, server') /\ OnlyAt(c, claim, claim')
  BY <1>1, <1>3 DEF TypeInv, OnlyAt
<1>7. claim[c].phase = "creating" /\ node'[c] = "True" /\ OnlyAt(c, node, node')
  BY <1>1 DEF CreateServer, TypeInv, RestTyped, OnlyAt
<1>8. UNCHANGED <<check, drifted, spec, edits, touches, cause, replaced>>
  BY DEF CreateServer, world
<1>9. StepOf(c)
  BY <1>6, <1>7, <1>8 DEF StepOf, OnlyAt
<1>10. /\ claim'[c].phase = "launched" /\ claim'[c].imageID \in {s.image, NoImage}
       /\ claim'[c].type = s.type
  BY <1>2, <1>6, HydrateMeaning
<1>11. Blank(c)' /\ CopyFresh(c)' /\ ServerStands(c)'
  BY <1>4, <1>6, <1>10 DEF Blank, CopyFresh, ServerStands
<1>12. AsLaunched(c)'
  <2> SUFFICES ASSUME cause[c] \cap {"edit", "touch"} = {}
               PROVE  Conforms(s, spec) /\ check[c] = NoSpec
    BY <1>6, <1>8, <1>10 DEF AsLaunched, Conforms, ImageKept
  <2>1. sp = spec
    BY <1>1, <1>7 DEF SlotInv, CopyFresh
  <2>2. check[c] = NoSpec
    BY <1>1, <1>7 DEF SlotInv, Blank
  <2> QED BY <1>5, <2>1, <2>2
<1>13. DriftHasCause(c)' /\ OutageHasCause(c)'
  BY <1>1, <1>7, <1>8 DEF SlotInv, DriftHasCause, OutageHasCause
<1>14. Accounts(c)'
  BY <1>1, <1>7, <1>8, <1>10 DEF SlotInv, Accounts, Owed
<1>15. SlotInv(c)'
  BY <1>11, <1>12, <1>13, <1>14 DEF SlotInv
<1> QED BY <1>1, <1>9, <1>15, OthersKeep

\* A Create that ends without a server owes nothing.
LEMMA CreateEndsKeeps ==
    ASSUME IInv, NEW c \in Claims, CreateNoImage(c) \/ CreateFails(c)
    PROVE  IInv'
<1>1. TypeInv /\ TypeInv' /\ SlotInv(c)
  BY CreateEndsTypes DEF IInv
<1>2. /\ claim[c].phase = "creating" /\ claim' = [claim EXCEPT ![c] = NewClaim]
      /\ UNCHANGED <<server, node, check, drifted, spec, edits, touches, cause, replaced>>
  BY DEF CreateNoImage, CreateFails, world
<1>3. claim'[c].phase = "pending" /\ OnlyAt(c, claim, claim')
  BY <1>1, <1>2, Blanks DEF TypeInv, OnlyAt
<1>4. StepOf(c)
  BY <1>2, <1>3 DEF StepOf, OnlyAt
<1>5. Accounts(c)'
  BY <1>1, <1>2, <1>3, Numbers DEF SlotInv, Accounts, Owed
<1>6. SlotInv(c)'
  BY <1>1, <1>2, <1>3, <1>5
     DEF SlotInv, Blank, CopyFresh, ServerStands, AsLaunched, DriftHasCause, OutageHasCause
<1> QED BY <1>1, <1>4, <1>6, OthersKeep

\* A server that conforms, and is of the type and the image recorded, has no
\* reason to be called drifted.
LEMMA ConformingDoesNotDrift ==
    ASSUME NEW cl, NEW s, NEW sp \in Specs, Conforms(s, sp),
           s.type = cl.type, ImageKept(cl, s)
    PROVE  \A r \in Reasons : ~Drifts(cl, s, sp)[r]
<1>1. ~ImageDrifts(cl, s)
  BY DEF ImageDrifts, ImageKept
<1>2. ~(sp.network > 0 /\ sp.network \notin s.networks)
  BY ConstantsAssumption DEF Conforms
<1>3. ~FirewallDrifts(s, sp)
  BY DEF FirewallDrifts, Conforms
<1>4. ~(cl.type # "none" /\ s.type # cl.type)
  OBVIOUS
<1>5. ~(sp.locations # {} /\ s.location \notin sp.locations)
  BY DEF Conforms
<1>6. ~LabelsDrift(s, sp)
  BY DEF LabelsDrift, Conforms
<1> DEFINE D == Drifts(cl, s, sp)
<1>7. /\ D["ImageDrift"] = ImageDrifts(cl, s)
      /\ D["NetworkDrift"] = (sp.network > 0 /\ sp.network \notin s.networks)
      /\ D["FirewallDrift"] = FirewallDrifts(s, sp)
      /\ D["ServerTypeDrift"] = (cl.type # "none" /\ s.type # cl.type)
      /\ D["LocationDrift"] = (sp.locations # {} /\ s.location \notin sp.locations)
      /\ D["LabelsDrift"] = LabelsDrift(s, sp)
  BY DEF Drifts
<1> HIDE DEF D
<1>8. /\ ~D["ImageDrift"] /\ ~D["NetworkDrift"] /\ ~D["FirewallDrift"]
      /\ ~D["ServerTypeDrift"] /\ ~D["LocationDrift"] /\ ~D["LabelsDrift"]
  BY <1>1, <1>2, <1>3, <1>4, <1>5, <1>6, <1>7
<1> QED BY <1>8 DEF Reasons, D

\* An IsDrifted call takes a copy of the NodeClass.
LEMMA CheckStartKeeps ==
    ASSUME IInv, NEW c \in Claims, CheckStart(c)
    PROVE  IInv'
<1>1. TypeInv /\ TypeInv' /\ SlotInv(c)
  BY CheckTypes DEF IInv
<1>2. /\ claim[c].phase = "launched" /\ check'[c] = spec /\ OnlyAt(c, check, check')
  BY <1>1 DEF CheckStart, TypeInv, RestTyped, OnlyAt
<1>3. UNCHANGED <<claim, server, node, drifted, spec, edits, touches, cause, replaced>>
  BY DEF CheckStart, world
<1>4. StepOf(c)
  BY <1>2, <1>3 DEF StepOf, OnlyAt
<1>5. AsLaunched(c)'
  BY <1>1, <1>2, <1>3 DEF SlotInv, AsLaunched, Conforms, ImageKept
<1>6. SlotInv(c)'
  BY <1>1, <1>2, <1>3, <1>5
     DEF SlotInv, Blank, CopyFresh, ServerStands, DriftHasCause, OutageHasCause, Accounts, Owed
<1> QED BY <1>1, <1>4, <1>6, OthersKeep

\* It calls a node drifted only if something happened to it.
LEMMA CheckEndKeeps ==
    ASSUME IInv, NEW c \in Claims, CheckEnd(c)
    PROVE  IInv'
<1>1. TypeInv /\ TypeInv' /\ SlotInv(c)
  BY CheckTypes DEF IInv
<1>2. /\ check[c] # NoSpec /\ check'[c] = NoSpec /\ OnlyAt(c, check, check')
      /\ drifted'[c] = Answer(claim[c], server[c], check[c]) /\ OnlyAt(c, drifted, drifted')
  BY <1>1 DEF CheckEnd, TypeInv, RestTyped, OnlyAt
<1>3. UNCHANGED <<claim, server, node, spec, edits, touches, cause, replaced>>
  BY DEF CheckEnd, world
<1>4. StepOf(c)
  BY <1>2, <1>3 DEF StepOf, OnlyAt
<1>5. claim[c].phase = "launched"
  BY <1>1, <1>2 DEF SlotInv, Blank
<1>6. DriftHasCause(c)'
  <2> SUFFICES ASSUME cause[c] \cap {"edit", "touch"} = {}
               PROVE  Answer(claim[c], server[c], check[c]) = NoReason
    BY <1>2, <1>3 DEF DriftHasCause
  <2>1. /\ server[c].type = claim[c].type /\ ImageKept(claim[c], server[c])
        /\ Conforms(server[c], spec) /\ check[c] = spec
    BY <1>1, <1>2, <1>5 DEF SlotInv, AsLaunched
  <2>2. spec \in Specs
    BY <1>1 DEF TypeInv, RestTyped
  <2>3. \A r \in Reasons : ~Drifts(claim[c], server[c], check[c])[r]
    BY <2>1, <2>2, ConformingDoesNotDrift
  <2> QED BY <2>3, AnswerMeaning
<1>7. AsLaunched(c)'
  BY <1>1, <1>2, <1>3 DEF SlotInv, AsLaunched, Conforms, ImageKept
<1>8. SlotInv(c)'
  BY <1>1, <1>3, <1>5, <1>6, <1>7
     DEF SlotInv, Blank, CopyFresh, ServerStands, OutageHasCause, Accounts, Owed
<1> QED BY <1>1, <1>4, <1>8, OthersKeep

\* A check that fails says nothing.
LEMMA CheckFailsKeeps ==
    ASSUME IInv, NEW c \in Claims, CheckFails(c)
    PROVE  IInv'
<1>1. TypeInv /\ TypeInv' /\ SlotInv(c)
  BY CheckTypes DEF IInv
<1>2. /\ check'[c] = NoSpec /\ OnlyAt(c, check, check')
  BY <1>1 DEF CheckFails, TypeInv, RestTyped, OnlyAt
<1>3. UNCHANGED <<claim, server, node, drifted, spec, edits, touches, cause, replaced>>
  BY DEF CheckFails
<1>4. StepOf(c)
  BY <1>2, <1>3 DEF StepOf, OnlyAt
<1>5. AsLaunched(c)'
  BY <1>1, <1>2, <1>3 DEF SlotInv, AsLaunched, Conforms, ImageKept
<1>6. SlotInv(c)'
  BY <1>1, <1>2, <1>3, <1>5
     DEF SlotInv, Blank, CopyFresh, ServerStands, DriftHasCause, OutageHasCause, Accounts, Owed
<1> QED BY <1>1, <1>4, <1>6, OthersKeep

\* A replacement with a cause settles what is owed.
LEMMA ReplaceKeeps ==
    ASSUME IInv, NEW c \in Claims, Replace(c), claim[c].phase = "launched", cause[c] # {}
    PROVE  IInv'
<1>1. TypeInv /\ TypeInv' /\ SlotInv(c)
  BY ReplaceTypes DEF IInv
<1>2. /\ claim'[c] = NewClaim /\ OnlyAt(c, claim, claim')
      /\ server'[c] = NoServer /\ OnlyAt(c, server, server')
  BY <1>1 DEF Replace, TypeInv, OnlyAt
<1>3. /\ check'[c] = NoSpec /\ OnlyAt(c, check, check')
      /\ drifted'[c] = NoReason /\ OnlyAt(c, drifted, drifted')
      /\ node'[c] = "True" /\ OnlyAt(c, node, node')
      /\ cause'[c] = {} /\ OnlyAt(c, cause, cause')
      /\ replaced'[c] = replaced[c] + 1 /\ OnlyAt(c, replaced, replaced')
      /\ UNCHANGED <<spec, edits, touches>>
  BY <1>1 DEF Replace, TypeInv, RestTyped, OnlyAt, world
<1>4. StepOf(c)
  BY <1>2, <1>3 DEF StepOf, OnlyAt
<1>5. claim'[c].phase = "pending"
  BY <1>2, Blanks
<1>6. Accounts(c)'
  <2>1. replaced[c] + 1 <= edits + touches[c]
    BY <1>1 DEF SlotInv, Accounts, Owed
  <2> QED BY <1>1, <1>3, <2>1, Numbers DEF Accounts, Owed
<1>7. SlotInv(c)'
  BY <1>2, <1>3, <1>5, <1>6
     DEF SlotInv, Blank, CopyFresh, ServerStands, AsLaunched, DriftHasCause, OutageHasCause
<1> QED BY <1>1, <1>4, <1>7, OthersKeep

\* Core replaces only where there is a cause.
LEMMA DisruptionKeeps ==
    ASSUME IInv, NEW c \in Claims, DisruptDrifted(c) \/ Repair(c) \/ GarbageCollect(c)
    PROVE  IInv'
<1>1. SlotInv(c) /\ Replace(c)
  BY DEF IInv, DisruptDrifted, Repair, GarbageCollect
<1>2. CASE DisruptDrifted(c)
  <2>1. drifted[c] # NoReason
    BY <1>2 DEF DisruptDrifted
  <2>2. claim[c].phase = "launched" /\ cause[c] # {}
    BY <1>1, <2>1 DEF SlotInv, Blank, DriftHasCause
  <2> QED BY <1>1, <2>2, ReplaceKeeps
<1>3. CASE Repair(c) \/ GarbageCollect(c)
  <2>1. claim[c].phase = "launched" /\ node[c] # "True"
    BY <1>3 DEF Repair, GarbageCollect, RepairPolicies
  <2>2. cause[c] # {}
    BY <1>1, <2>1 DEF SlotInv, OutageHasCause
  <2> QED BY <1>1, <2>1, <2>2, ReplaceKeeps
<1> QED BY <1>2, <1>3

-----------------------------------------------------------------------------
(* The surroundings.                                                       *)

\* What has been added to a server, or withdrawn of its image, does not count.
LEMMA KeptConforms ==
    ASSUME NEW s, NEW t, NEW sp, Keeps(s, t), Conforms(s, sp)
    PROVE  Conforms(t, sp)
BY DEF Keeps, Conforms

\* Nor does it make a server none.
LEMMA KeptStands ==
    ASSUME TypeInv, NEW c \in Claims, server[c] # NoServer, NEW t, Keeps(server[c], t)
    PROVE  t # NoServer
BY Blanks, ConstantsAssumption DEF TypeInv, SlotType, Keeps

\* What somebody takes from a server is a cause, and to his account.
LEMMA DamageKeeps ==
    ASSUME IInv, NEW c \in Claims, Damage(c)
    PROVE  IInv'
<1>1. TypeInv /\ TypeInv' /\ SlotInv(c)
  BY TouchTypes DEF IInv
<1>2. PICK t : server' = [server EXCEPT ![c] = t]
  BY <1>1, DamageMeaning
<1>3. /\ OnlyAt(c, server, server')
  BY <1>1, <1>2 DEF TypeInv, OnlyAt
<1>4. Touched(c) /\ cause' = [cause EXCEPT ![c] = @ \cup {"touch"}]
  BY DEF Damage
<1>5. /\ claim[c].phase = "launched"
      /\ touches'[c] = touches[c] + 1 /\ OnlyAt(c, touches, touches')
      /\ cause'[c] = cause[c] \cup {"touch"} /\ OnlyAt(c, cause, cause')
      /\ UNCHANGED <<claim, node, check, drifted, spec, edits, replaced>>
  BY <1>1, <1>4 DEF Touched, TypeInv, RestTyped, OnlyAt
<1>6. StepOf(c)
  BY <1>3, <1>5 DEF StepOf, OnlyAt
<1>7. Accounts(c)'
  BY <1>1, <1>5, Numbers DEF SlotInv, Accounts, Owed
<1>8. SlotInv(c)'
  BY <1>1, <1>5, <1>7
     DEF SlotInv, Blank, CopyFresh, ServerStands, AsLaunched, DriftHasCause, OutageHasCause
<1> QED BY <1>1, <1>6, <1>8, OthersKeep

\* What somebody adds to a server is no cause, and needs none.
LEMMA AdornKeeps ==
    ASSUME IInv, NEW c \in Claims, Adorn(c)
    PROVE  IInv'
<1>1. TypeInv /\ TypeInv' /\ SlotInv(c)
  BY TouchTypes DEF IInv
<1>2. PICK t : server' = [server EXCEPT ![c] = t] /\ Keeps(server[c], t)
  BY <1>1, AdornMeaning
<1>3. server'[c] = t /\ OnlyAt(c, server, server')
  BY <1>1, <1>2 DEF TypeInv, OnlyAt
<1>4. Touched(c) /\ UNCHANGED cause
  BY DEF Adorn
<1>5. /\ claim[c].phase = "launched" /\ server[c] # NoServer
      /\ touches'[c] = touches[c] + 1 /\ OnlyAt(c, touches, touches')
      /\ UNCHANGED <<claim, node, check, drifted, spec, edits, replaced, cause>>
  BY <1>1, <1>4 DEF Touched, TypeInv, RestTyped, OnlyAt
<1>6. StepOf(c)
  BY <1>3, <1>5 DEF StepOf, OnlyAt
<1>7. t # NoServer
  BY <1>1, <1>2, <1>5, KeptStands
<1>8. AsLaunched(c)'
  <2> SUFFICES ASSUME cause[c] \cap {"edit", "touch"} = {}
               PROVE  /\ t.type = claim[c].type /\ ImageKept(claim[c], t)
                      /\ Conforms(t, spec) /\ check[c] \in {spec, NoSpec}
    BY <1>3, <1>5 DEF AsLaunched, Conforms, ImageKept
  <2>1. /\ server[c].type = claim[c].type /\ ImageKept(claim[c], server[c])
        /\ Conforms(server[c], spec) /\ check[c] \in {spec, NoSpec}
    BY <1>1, <1>5 DEF SlotInv, AsLaunched
  <2>2. Conforms(t, spec)
    BY <1>2, <2>1, KeptConforms
  <2> QED BY <1>2, <2>1, <2>2 DEF Keeps, ImageKept
<1>9. Accounts(c)'
  BY <1>1, <1>5, Numbers DEF SlotInv, Accounts, Owed
<1>10. SlotInv(c)'
  BY <1>1, <1>3, <1>5, <1>7, <1>8, <1>9
     DEF SlotInv, Blank, CopyFresh, ServerStands, DriftHasCause, OutageHasCause
<1> QED BY <1>1, <1>6, <1>10, OthersKeep

\* A node that fails has its cause; one is lost only with its server.
LEMMA NodeKeeps ==
    ASSUME IInv, NEW c \in Claims, NodeFails(c) \/ NodeRecovers(c) \/ NodeLost(c)
    PROVE  IInv'
<1>1. TypeInv /\ TypeInv' /\ SlotInv(c)
  BY NodeAndEditTypes DEF IInv
<1>2. CASE NodeFails(c)
  <2>1. /\ claim[c].phase = "launched" /\ OnlyAt(c, node, node')
        /\ touches'[c] = touches[c] + 1 /\ OnlyAt(c, touches, touches')
        /\ cause'[c] = cause[c] \cup {"failure"} /\ OnlyAt(c, cause, cause')
        /\ UNCHANGED <<claim, server, check, drifted, spec, edits, replaced>>
    BY <1>1, <1>2 DEF NodeFails, TypeInv, RestTyped, OnlyAt
  <2>2. StepOf(c)
    BY <2>1 DEF StepOf, OnlyAt
  <2>3. Accounts(c)'
    BY <1>1, <2>1, Numbers DEF SlotInv, Accounts, Owed
  <2>4. AsLaunched(c)'
    BY <1>1, <2>1 DEF SlotInv, AsLaunched, Conforms, ImageKept
  <2>5. SlotInv(c)'
    BY <1>1, <2>1, <2>3, <2>4
       DEF SlotInv, Blank, CopyFresh, ServerStands, DriftHasCause, OutageHasCause
  <2> QED BY <1>1, <2>2, <2>5, OthersKeep
<1>3. CASE NodeRecovers(c) \/ NodeLost(c)
  <2>1. /\ OnlyAt(c, node, node')
        /\ node'[c] = "True" \/ (claim[c].phase = "launched" /\ server[c] = NoServer)
    BY <1>1, <1>3 DEF NodeRecovers, NodeLost, TypeInv, RestTyped, OnlyAt
  <2>2. UNCHANGED <<claim, server, check, drifted, cause, touches, spec, edits, replaced>>
    BY <1>3 DEF NodeRecovers, NodeLost, world
  <2>3. StepOf(c)
    BY <2>1, <2>2 DEF StepOf, OnlyAt
  <2>4. AsLaunched(c)'
    BY <1>1, <2>2 DEF SlotInv, AsLaunched, Conforms, ImageKept
  <2>5. OutageHasCause(c)'
    BY <1>1, <2>1, <2>2 DEF SlotInv, ServerStands, OutageHasCause
  <2>6. SlotInv(c)'
    BY <1>1, <2>1, <2>2, <2>4, <2>5
       DEF SlotInv, Blank, CopyFresh, ServerStands, DriftHasCause, Accounts, Owed
  <2> QED BY <1>1, <2>3, <2>6, OthersKeep
<1> QED BY <1>2, <1>3

\* An edit is a cause for every claim whose Create has read the NodeClass, and
\* it is to the account of each.
LEMMA EditSpecKeeps ==
    ASSUME IInv, EditSpec
    PROVE  IInv'
<1>1. TypeInv /\ TypeInv'
  BY NodeAndEditTypes DEF IInv
<1>2. ASSUME NEW c \in Claims PROVE SlotInv(c)'
  <2>1. /\ edits' = edits + 1
        /\ cause'[c] = IF claim[c].phase = "pending" THEN {} ELSE cause[c] \cup {"edit"}
        /\ UNCHANGED <<claim, server, node, check, drifted, touches, replaced>>
    BY DEF EditSpec
  <2>2. SlotInv(c)
    BY DEF IInv
  <2>3. Accounts(c)'
    BY <1>1, <2>1, <2>2, Numbers DEF SlotInv, Accounts, Owed
  <2> QED BY <2>1, <2>2, <2>3
          DEF SlotInv, Blank, CopyFresh, ServerStands, AsLaunched, DriftHasCause, OutageHasCause
<1> QED BY <1>1, <1>2 DEF IInv

\* Images that are published, withdrawn or reordered are no cause, and need none.
LEMMA ImagesChangeKeeps ==
    ASSUME IInv, ImagesChange
    PROVE  IInv'
<1>1. TypeInv /\ TypeInv'
  BY ImagesChangeTypes DEF IInv
<1>2. ASSUME NEW c \in Claims PROVE SlotInv(c)'
  <2>1. UNCHANGED <<claim, node, check, drifted, spec, edits, touches, cause, replaced>>
    BY DEF ImagesChange
  <2>2. server'[c] = server[c] \/ (server[c] # NoServer /\ Keeps(server[c], server'[c]))
    BY <1>1, ImagesChangeMeaning
  <2>3. SlotInv(c)
    BY DEF IInv
  <2>4. server'[c] = NoServer <=> server[c] = NoServer
    BY <1>1, <2>2, KeptStands
  <2>5. AsLaunched(c)'
    <3> SUFFICES ASSUME claim[c].phase = "launched", cause[c] \cap {"edit", "touch"} = {}
                 PROVE  /\ server'[c].type = claim[c].type
                        /\ ImageKept(claim[c], server'[c])
                        /\ Conforms(server'[c], spec) /\ check[c] \in {spec, NoSpec}
      BY <2>1 DEF AsLaunched, Conforms, ImageKept
    <3>1. /\ server[c].type = claim[c].type /\ ImageKept(claim[c], server[c])
          /\ Conforms(server[c], spec) /\ check[c] \in {spec, NoSpec}
      BY <2>3 DEF SlotInv, AsLaunched
    <3>2. Conforms(server'[c], spec)
      BY <2>2, <3>1, KeptConforms
    <3> QED BY <2>2, <3>1, <3>2 DEF Keeps, ImageKept
  <2> QED BY <2>1, <2>3, <2>4, <2>5
          DEF SlotInv, Blank, CopyFresh, ServerStands, DriftHasCause, OutageHasCause, Accounts, Owed
<1> QED BY <1>1, <1>2 DEF IInv

-----------------------------------------------------------------------------
(* The theorems.                                                           *)

\* Every step keeps the inductive invariant.
LEMMA NextKeeps ==
    ASSUME OwnKeysOnly
    PROVE  IInv /\ [Next]_vars => IInv'
<1> SUFFICES ASSUME IInv, [Next]_vars PROVE IInv'
  OBVIOUS
<1>1. CASE UNCHANGED vars
  <2>1. TypeInv'
    BY <1>1, NextKeepsTypes DEF IInv
  <2>2. ASSUME NEW c \in Claims PROVE SlotInv(c)'
    BY <1>1 DEF IInv, vars, world, SlotInv, Blank, CopyFresh, ServerStands, AsLaunched, Conforms, ImageKept,
                DriftHasCause, OutageHasCause, Accounts, Owed
  <2> QED BY <2>1, <2>2 DEF IInv
<1>2. ASSUME NEW c \in Claims, Create(c) \/ CreateFails(c) PROVE IInv'
  BY <1>2, ReadNodeClassKeeps, CreateServerKeeps, CreateEndsKeeps DEF Create
<1>3. ASSUME NEW c \in Claims, CheckStart(c) \/ CheckEnd(c) \/ CheckFails(c) PROVE IInv'
  BY <1>3, CheckStartKeeps, CheckEndKeeps, CheckFailsKeeps
<1>4. ASSUME NEW c \in Claims, DisruptDrifted(c) \/ Repair(c) \/ GarbageCollect(c) PROVE IInv'
  BY <1>4, DisruptionKeeps
<1>5. ASSUME NEW c \in Claims, Damage(c) \/ Adorn(c) PROVE IInv'
  BY <1>5, DamageKeeps, AdornKeeps
<1>6. ASSUME NEW c \in Claims, NodeFails(c) \/ NodeRecovers(c) \/ NodeLost(c) PROVE IInv'
  BY <1>6, NodeKeeps
<1>7. CASE EditSpec
  BY <1>7, EditSpecKeeps
<1>8. CASE ImagesChange
  BY <1>8, ImagesChangeKeeps
<1> QED BY <1>1, <1>2, <1>3, <1>4, <1>5, <1>6, <1>7, <1>8 DEF Next

\* Nothing has happened yet.
LEMMA InitEstablishes == Init => IInv
<1> SUFFICES ASSUME Init PROVE IInv
  OBVIOUS
<1>1. TypeInv
  BY InitTypes
<1>2. ASSUME NEW c \in Claims PROVE SlotInv(c)
  <2>1. /\ claim[c] = NewClaim /\ server[c] = NoServer /\ check[c] = NoSpec /\ drifted[c] = NoReason
        /\ node[c] = "True" /\ cause[c] = {} /\ replaced[c] = 0 /\ touches[c] = 0 /\ edits = 0
    BY DEF Init
  <2>2. claim[c].phase = "pending"
    BY <2>1, Blanks
  <2> QED BY <2>1, <2>2 DEF SlotInv, Blank, CopyFresh, ServerStands, AsLaunched, DriftHasCause,
                            OutageHasCause, Accounts, Owed
<1> QED BY <1>1, <1>2 DEF IInv

\* The invariant of the slots, throughout every execution.
THEOREM Invariance ==
    ASSUME OwnKeysOnly
    PROVE  Spec => []IInv
BY InitEstablishes, NextKeeps, PTL DEF Spec

\* A node is called drifted only if its NodeClass was edited or its server
\* changed by hand since its Create read the NodeClass, for NodeClasses without
\* labels of karpenter's own.
THEOREM DriftHasACause ==
    ASSUME OwnKeysOnly
    PROVE  Spec => []NoCauselessDrift
<1>1. IInv => NoCauselessDrift
  BY DEF IInv, SlotInv, DriftHasCause, NoCauselessDrift
<1> QED BY <1>1, Invariance, PTL

\* No slot is replaced more often than the spec was edited and its server or node
\* touched, for NodeClasses without labels of karpenter's own.
THEOREM ReplacementsAccountedFor ==
    ASSUME OwnKeysOnly
    PROVE  Spec => []ReplacementsBounded
<1>1. IInv => ReplacementsBounded
  <2> SUFFICES ASSUME IInv, NEW c \in Claims PROVE replaced[c] <= edits + touches[c]
    BY DEF ReplacementsBounded
  <2>1. Accounts(c) /\ TypeInv
    BY DEF IInv, SlotInv
  <2> QED BY <2>1, Numbers DEF Accounts
<1> QED BY <1>1, Invariance, PTL

=============================================================================
