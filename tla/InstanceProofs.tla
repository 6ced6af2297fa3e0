---------------------------- MODULE InstanceProofs ----------------------------
(***************************************************************************)
(* Proofs about Instance, for any NodeClaims of any clusters in a project, *)
(* any number of servers and any number of faults.                         *)
(***************************************************************************)
EXTENDS Instance, SequenceTheorems, TLAPS

Servers ==
    [name: Claims, labels: {ServerLabels(c) : c \in Claims}, claim: Claims,
     group: Nat, state: {"up", "deleting", "gone"}]

GroupNames == {GroupNameOf(c) : c \in Claims}

NodeClaims ==
    [phase: {"launching", "launched", "terminating", "finalized"}, id: Nat,
     pc: {"none", "group", "create", "wait", "delete"}, group: Nat, server: Nat]

TypeInv ==
    /\ servers \in Seq(Servers) /\ groups \in Seq(GroupNames)
    /\ claim \in [Claims -> NodeClaims] /\ faults \in 0..MaxFaults

\* Group g, if there is one, is the group named for c's pool.
GroupOK(g, c, gs) == g # NoID => g \in 1..Len(gs) /\ gs[g] = GroupNameOf(c)

\* A server bears its claim's name and labels, and is in its pool's group.
ServerOK(s, gs) ==
    s.name = s.claim /\ s.labels = ServerLabels(s.claim) /\ GroupOK(s.group, s.claim, gs)

\* What holds of the NodeClaim c in state e: its calls belong to its phase, it
\* waits for a server exactly when its call has made one, and it is finalized
\* with a server only when that is gone.
ClaimOK(c, e, ss, gs) ==
    /\ e.id # NoID => e.id \in 1..Len(ss)
    /\ e.server # NoID => e.server \in 1..Len(ss)
    /\ GroupOK(e.group, c, gs)
    /\ e.pc \in {"group", "create", "wait"} => e.phase = "launching"
    /\ e.pc = "delete" => e.phase = "terminating" /\ e.id # NoID
    /\ e.phase = "launching" => e.id = NoID
    /\ e.phase = "launched" => e.id # NoID
    /\ e.pc = "wait" <=> e.server # NoID
    /\ e.phase = "finalized" /\ e.id # NoID => ss[e.id].state = "gone"

GroupsUnique == \A g, h \in 1..Len(groups) : groups[g] = groups[h] => g = h

Alone ==
    \A i, k \in 1..Len(servers) :
        servers[i].claim = servers[k].claim /\ servers[i].state # "gone" /\ servers[k].state # "gone"
        => i = k

Accounted ==
    faults = 0 =>
        \A id \in 1..Len(servers) : servers[id].state # "gone" =>
            id \in {claim[servers[id].claim].id, claim[servers[id].claim].server}

IInv ==
    /\ TypeInv
    /\ \A id \in 1..Len(servers) : ServerOK(servers[id], groups)
    /\ \A c \in Claims : ClaimOK(c, claim[c], servers, groups)
    /\ GroupsUnique /\ Alone /\ Accounted

\* Servers and groups are numbered from 1, and servers are records.
LEMMA Domains ==
    ASSUME TypeInv
    PROVE  /\ DOMAIN servers = 1..Len(servers) /\ DOMAIN groups = 1..Len(groups)
           /\ \A id \in 1..Len(servers) : servers[id] \in Servers /\ servers[id].claim \in Claims
<1>1. servers \in Seq(Servers) /\ groups \in Seq(GroupNames)
  BY DEF TypeInv
<1>2. \A id \in 1..Len(servers) : servers[id] \in Servers
  BY <1>1, ElementOfSeq
<1>3. \A t \in Servers : t.claim \in Claims
  BY DEF Servers
<1>4. QED BY <1>1, <1>2, <1>3, LenProperties

-----------------------------------------------------------------------------
(* Four kinds of step.                                                     *)

\* A step that changes NodeClaims only; without a fault, it forgets no server.
LEMMA ClaimsStep ==
    ASSUME IInv, claim' \in [Claims -> NodeClaims],
           \A d \in Claims : ClaimOK(d, claim'[d], servers, groups),
           UNCHANGED <<servers, groups>>, faults' \in 0..MaxFaults,
           faults' = 0 =>
               /\ faults = 0
               /\ \A d \in Claims : ({claim[d].id, claim[d].server} \ {NoID})
                                        \subseteq {claim'[d].id, claim'[d].server}
    PROVE  IInv'
<1>1. TypeInv'
  BY DEF IInv, TypeInv
<1>2. \A id \in 1..Len(servers') : ServerOK(servers'[id], groups')
  BY DEF IInv
<1>3. \A d \in Claims : ClaimOK(d, claim'[d], servers', groups')
  OBVIOUS
<1>4. GroupsUnique' /\ Alone'
  BY DEF IInv, GroupsUnique, Alone
<1>5. Accounted'
  <2>1. SUFFICES ASSUME faults' = 0, NEW id \in 1..Len(servers), servers[id].state # "gone"
                 PROVE  id \in {claim'[servers[id].claim].id, claim'[servers[id].claim].server}
    BY DEF Accounted
  <2>2. servers[id].claim \in Claims /\ id # NoID
    BY Domains DEF IInv, NoID
  <2>3. id \in {claim[servers[id].claim].id, claim[servers[id].claim].server}
    BY <2>1 DEF IInv, Accounted
  <2>4. QED BY <2>1, <2>2, <2>3
<1>6. QED BY <1>1, <1>2, <1>3, <1>4, <1>5 DEF IInv

\* A step that changes one NodeClaim only.
LEMMA ClaimStep ==
    ASSUME IInv, NEW c \in Claims, NEW e \in NodeClaims,
           claim' = [claim EXCEPT ![c] = e], ClaimOK(c, e, servers, groups),
           UNCHANGED <<servers, groups>>, faults' \in 0..MaxFaults,
           faults' = 0 =>
               faults = 0 /\ ({claim[c].id, claim[c].server} \ {NoID}) \subseteq {e.id, e.server}
    PROVE  IInv'
<1>1. claim' \in [Claims -> NodeClaims] /\ \A d \in Claims : claim'[d] = IF d = c THEN e ELSE claim[d]
  BY DEF IInv, TypeInv
<1>2. \A d \in Claims : ClaimOK(d, claim'[d], servers, groups)
  BY <1>1 DEF IInv
<1>3. faults' = 0 => \A d \in Claims : ({claim[d].id, claim[d].server} \ {NoID})
                                            \subseteq {claim'[d].id, claim'[d].server}
  BY <1>1
<1>4. QED BY <1>1, <1>2, <1>3, ClaimsStep

\* A step that makes c's placement group, if its name is free.
LEMMA GroupStep ==
    ASSUME IInv, NEW c \in Claims, NEW e \in NodeClaims,
           claim' = [claim EXCEPT ![c] = e], e.id = claim[c].id, claim[c].server = NoID,
           groups' = Append(groups, GroupNameOf(c)), GroupsNamed(GroupNameOf(c)) = {},
           ClaimOK(c, e, servers, groups'),
           UNCHANGED servers, faults' \in 0..MaxFaults, faults' = 0 => faults = 0
    PROVE  IInv'
<1>1. /\ groups' \in Seq(GroupNames) /\ Len(groups') = Len(groups) + 1 /\ Len(groups) \in Nat
      /\ \A g \in 1..Len(groups) : groups'[g] = groups[g]
      /\ groups'[Len(groups) + 1] = GroupNameOf(c)
  <2>1. groups \in Seq(GroupNames) /\ GroupNameOf(c) \in GroupNames
    BY DEF IInv, TypeInv, GroupNames
  <2>2. QED BY <2>1, AppendProperties, LenProperties
<1>2. \A d \in Claims : claim'[d] = IF d = c THEN e ELSE claim[d]
  BY DEF IInv, TypeInv
<1>3. TypeInv'
  BY <1>1, <1>2 DEF IInv, TypeInv
<1>4. \A g, d : GroupOK(g, d, groups) => GroupOK(g, d, groups')
  BY <1>1 DEF GroupOK
<1>5. \A id \in 1..Len(servers') : ServerOK(servers'[id], groups')
  BY <1>4 DEF IInv, ServerOK
<1>6. \A d \in Claims : ClaimOK(d, claim'[d], servers', groups')
  <2>1. SUFFICES ASSUME NEW d \in Claims PROVE ClaimOK(d, claim'[d], servers, groups')
    OBVIOUS
  <2>2. CASE d = c
    BY <1>2, <2>2
  <2>3. CASE d # c
    <3>1. claim'[d] = claim[d] /\ ClaimOK(d, claim[d], servers, groups)
      BY <1>2, <2>3 DEF IInv
    <3>2. QED BY <3>1, <1>4 DEF ClaimOK
  <2>4. QED BY <2>2, <2>3
<1>7. GroupsUnique'
  <2>1. \A g \in 1..Len(groups) : groups[g] # GroupNameOf(c)
    <3>1. DOMAIN groups = 1..Len(groups)
      BY LenProperties DEF IInv, TypeInv
    <3>2. QED BY <3>1 DEF GroupsNamed
  <2>2. QED BY <1>1, <2>1 DEF IInv, GroupsUnique
<1>8. Alone'
  BY DEF IInv, Alone
<1>9. Accounted'
  <2>1. SUFFICES ASSUME faults' = 0, NEW id \in 1..Len(servers), servers[id].state # "gone"
                 PROVE  id \in {claim'[servers[id].claim].id, claim'[servers[id].claim].server}
    BY DEF Accounted
  <2>2. servers[id].claim \in Claims /\ id # NoID
    BY Domains DEF IInv, NoID
  <2>3. id \in {claim[servers[id].claim].id, claim[servers[id].claim].server}
    BY <2>1 DEF IInv, Accounted
  <2>4. QED BY <1>2, <2>2, <2>3
<1>10. QED BY <1>3, <1>5, <1>6, <1>7, <1>8, <1>9 DEF IInv

\* hcloud's new server comes last.
LEMMA NewServerAppends ==
    ASSUME TypeInv, NEW c \in Claims, NewServer(c)
    PROVE  LET s == [name |-> c, labels |-> ServerLabels(c), claim |-> c,
                     group |-> claim[c].group, state |-> "up"]
           IN  /\ servers' \in Seq(Servers) /\ Len(servers') = Len(servers) + 1
               /\ Len(servers) \in Nat
               /\ \A id \in 1..Len(servers) : servers'[id] = servers[id]
               /\ servers'[Len(servers) + 1] = s
<1> DEFINE s == [name |-> c, labels |-> ServerLabels(c), claim |-> c,
                 group |-> claim[c].group, state |-> "up"]
<1>1. s \in Servers /\ servers \in Seq(Servers)
  BY DEF TypeInv, Servers, NodeClaims
<1>2. servers' = Append(servers, s)
  BY DEF NewServer
<1> HIDE DEF s
<1>3. /\ servers' \in Seq(Servers) /\ Len(servers') = Len(servers) + 1 /\ Len(servers) \in Nat
      /\ \A id \in 1..Len(servers) : servers'[id] = servers[id]
      /\ servers'[Len(servers) + 1] = s
  BY <1>1, <1>2, AppendProperties, LenProperties
<1>4. QED BY <1>3 DEF s

\* A step that makes c's server, if its name is free.
LEMMA ServerStep ==
    ASSUME IInv, NEW c \in Claims, NEW e \in NodeClaims, claim[c].pc = "create",
           claim' = [claim EXCEPT ![c] = e], NewServer(c), ~NameTaken(c),
           ClaimOK(c, e, servers', groups),
           UNCHANGED groups, faults' \in 0..MaxFaults,
           faults' = 0 => faults = 0 /\ e.server = Len(servers) + 1
    PROVE  IInv'
<1> DEFINE s == [name |-> c, labels |-> ServerLabels(c), claim |-> c,
                 group |-> claim[c].group, state |-> "up"]
<1>1. TypeInv /\ servers \in Seq(Servers)
  BY DEF IInv, TypeInv
<1>2. /\ servers' \in Seq(Servers) /\ Len(servers') = Len(servers) + 1 /\ Len(servers) \in Nat
      /\ \A id \in 1..Len(servers) : servers'[id] = servers[id]
      /\ servers'[Len(servers) + 1] = s
  BY <1>1, NewServerAppends
<1>3. \A d \in Claims : claim'[d] = IF d = c THEN e ELSE claim[d]
  BY DEF IInv, TypeInv
<1>4. TypeInv'
  BY <1>2, <1>3 DEF IInv, TypeInv
<1>5. \A id \in 1..Len(servers') : ServerOK(servers'[id], groups')
  <2>1. ServerOK(s, groups)
    BY DEF IInv, ClaimOK, ServerOK
  <2>2. \A id \in 1..Len(servers) : ServerOK(servers[id], groups)
    BY DEF IInv
  <2>3. QED BY <1>2, <2>1, <2>2
<1>6. \A d \in Claims : ClaimOK(d, claim'[d], servers', groups')
  <2>1. SUFFICES ASSUME NEW d \in Claims PROVE ClaimOK(d, claim'[d], servers', groups)
    OBVIOUS
  <2>2. CASE d = c
    BY <1>3, <2>2
  <2>3. CASE d # c
    <3>1. claim'[d] = claim[d] /\ ClaimOK(d, claim[d], servers, groups)
      BY <1>3, <2>3 DEF IInv
    <3>2. QED BY <3>1, <1>2 DEF ClaimOK
  <2>4. QED BY <2>2, <2>3
<1>7. GroupsUnique'
  BY DEF IInv, GroupsUnique
<1>8. \A id \in 1..Len(servers) : servers[id].claim = c => servers[id].state = "gone"
  <2>1. DOMAIN servers = 1..Len(servers)
    BY <1>1, LenProperties
  <2>2. \A id \in 1..Len(servers) : servers[id].name = servers[id].claim
    BY DEF IInv, ServerOK
  <2>3. QED BY <2>1, <2>2 DEF NameTaken, Live
<1>9. Alone'
  <2>1. Alone /\ s.claim = c
    BY DEF IInv
  <2>2. SUFFICES ASSUME NEW i \in 1..Len(servers'), NEW k \in 1..Len(servers'),
                        servers'[i].claim = servers'[k].claim,
                        servers'[i].state # "gone", servers'[k].state # "gone"
                 PROVE  i = k
    BY DEF Alone
  <2> HIDE DEF s
  <2>3. CASE i \in 1..Len(servers) /\ k \in 1..Len(servers)
    BY <1>2, <2>1, <2>2, <2>3 DEF Alone
  <2>4. CASE i = Len(servers) + 1 \/ k = Len(servers) + 1
    BY <1>2, <1>8, <2>1, <2>2, <2>4
  <2>5. QED BY <1>2, <2>3, <2>4
<1>10. Accounted'
  <2>1. SUFFICES ASSUME faults' = 0, NEW id \in 1..Len(servers'), servers'[id].state # "gone"
                 PROVE  id \in {claim'[servers'[id].claim].id, claim'[servers'[id].claim].server}
    BY DEF Accounted
  <2>2. CASE id = Len(servers) + 1
    BY <1>2, <1>3, <2>1, <2>2
  <2>3. CASE id \in 1..Len(servers)
    <3>1. servers'[id] = servers[id] /\ servers[id].claim \in Claims /\ servers[id].claim # c
      BY <1>1, <1>2, <1>8, <2>1, <2>3, Domains
    <3>2. id \in {claim[servers[id].claim].id, claim[servers[id].claim].server}
      BY <2>1, <2>3, <3>1 DEF IInv, Accounted
    <3>3. QED BY <1>3, <3>1, <3>2
  <2>4. QED BY <1>2, <2>2, <2>3
<1>11. QED BY <1>4, <1>5, <1>6, <1>7, <1>9, <1>10 DEF IInv

\* A step that moves a server on to the state st, and perhaps ends a call that
\* has made no server.
LEMMA StateStep ==
    ASSUME IInv, NEW id \in 1..Len(servers), servers[id].state # "gone",
           NEW st \in {"deleting", "gone"},
           servers' = [servers EXCEPT ![id].state = st],
           claim' \in [Claims -> NodeClaims],
           \A c \in Claims : /\ ClaimOK(c, claim'[c], servers, groups)
                             /\ claim'[c].id = claim[c].id /\ claim'[c].server = claim[c].server,
           UNCHANGED groups, faults' \in 0..MaxFaults, faults' = 0 => faults = 0
    PROVE  IInv'
<1>1. servers \in Seq(Servers) /\ Len(servers) \in Nat /\ DOMAIN servers = 1..Len(servers)
  BY LenProperties DEF IInv, TypeInv
<1>2. \A k \in 1..Len(servers) : servers[k] \in Servers
  BY <1>1, ElementOfSeq
<1> DEFINE t == [servers[id] EXCEPT !.state = st]
<1>3. t \in Servers /\ t.name = servers[id].name /\ t.labels = servers[id].labels
      /\ t.claim = servers[id].claim /\ t.group = servers[id].group /\ t.state = st
  BY <1>2 DEF Servers
<1> HIDE DEF t
<1>4. servers' = [servers EXCEPT ![id] = t]
  BY <1>1 DEF t
<1>5. /\ servers' \in Seq(Servers) /\ Len(servers') = Len(servers)
      /\ \A k \in 1..Len(servers) : servers'[k] = IF k = id THEN t ELSE servers[k]
  BY <1>1, <1>3, <1>4, ExceptSeq
<1>6. TypeInv'
  BY <1>5 DEF IInv, TypeInv
<1>7. \A k \in 1..Len(servers') : ServerOK(servers'[k], groups')
  BY <1>3, <1>5 DEF IInv, ServerOK
<1>8. \A c \in Claims : ClaimOK(c, claim'[c], servers', groups')
  <2>1. \A k \in 1..Len(servers) : servers[k].state = "gone" => servers'[k].state = "gone"
    BY <1>5
  <2>2. QED BY <1>5, <2>1 DEF IInv, ClaimOK
<1>9. GroupsUnique'
  BY DEF IInv, GroupsUnique
<1>10. \A k \in 1..Len(servers) : /\ servers'[k].claim = servers[k].claim
                                  /\ servers'[k].state # "gone" => servers[k].state # "gone"
  BY <1>3, <1>5
<1>11. Alone'
  BY <1>5, <1>10 DEF IInv, Alone
<1>12. Accounted'
  BY <1>2, <1>5, <1>10 DEF IInv, Accounted, Servers
<1>13. QED BY <1>6, <1>7, <1>8, <1>9, <1>11, <1>12 DEF IInv

-----------------------------------------------------------------------------
(* The actions.                                                            *)

\* What a claim looks like when its call is over.
LEMMA RequeueFields ==
    ASSUME TypeInv, NEW c \in Claims
    PROVE  /\ Requeue(c) \in NodeClaims
           /\ Requeue(c).phase = claim[c].phase /\ Requeue(c).id = claim[c].id
           /\ Requeue(c).pc = "none" /\ Requeue(c).group = NoID /\ Requeue(c).server = NoID
<1>1. claim[c] \in NodeClaims
  BY DEF TypeInv
<1>2. QED BY <1>1 DEF Requeue, NodeClaims, NoID

\* A call that is over leaves its claim as it should be.
LEMMA RequeueOK ==
    ASSUME IInv, NEW c \in Claims
    PROVE  ClaimOK(c, Requeue(c), servers, groups)
<1>1. ClaimOK(c, claim[c], servers, groups) /\ TypeInv
  BY DEF IInv
<1>2. QED BY <1>1, RequeueFields DEF ClaimOK, GroupOK

\* A call that ends without having made a server changes nothing else.
LEMMA Requeued ==
    ASSUME IInv, NEW c \in Claims, claim' = [claim EXCEPT ![c] = Requeue(c)],
           UNCHANGED <<servers, groups>>, faults' \in 0..MaxFaults,
           faults' = 0 => faults = 0 /\ claim[c].pc # "wait"
    PROVE  IInv'
<1>1. TypeInv /\ ClaimOK(c, claim[c], servers, groups)
  BY DEF IInv
<1>2. claim[c].pc # "wait" => claim[c].server = NoID
  BY <1>1 DEF ClaimOK
<1>3. QED BY <1>1, <1>2, RequeueFields, RequeueOK, ClaimStep

\* A fault is counted.
LEMMA FaultCounted ==
    ASSUME TypeInv, Faulty
    PROVE  faults' \in 0..MaxFaults /\ faults' # 0
<1>1. MaxFaults \in Nat
  BY ConstantsAssumption
<1>2. QED BY <1>1 DEF TypeInv, Faulty

\* Init establishes the invariant.
LEMMA InitHolds == Init => IInv
<1> SUFFICES ASSUME Init PROVE IInv
  OBVIOUS
<1>1. Unlaunched \in NodeClaims /\ MaxFaults \in Nat
  BY ConstantsAssumption DEF Unlaunched, NodeClaims, NoID
<1>2. /\ servers \in Seq(Servers) /\ Len(servers) = 0
      /\ groups \in Seq(GroupNames) /\ Len(groups) = 0
  BY EmptySeq DEF Init
<1>3. TypeInv
  BY <1>1, <1>2 DEF Init, TypeInv
<1>4. \A c \in Claims : ClaimOK(c, claim[c], servers, groups)
  BY DEF Init, ClaimOK, GroupOK, Unlaunched, NoID
<1>5. 1..0 = {}
  OBVIOUS
<1>6. QED BY <1>2, <1>3, <1>4, <1>5 DEF IInv, GroupsUnique, Alone, Accounted

\* The listing of placement groups keeps the invariant.
LEMMA ListGroupsKeeps == ASSUME IInv, NEW c \in Claims, ListGroups(c) PROVE IInv'
<1>1. /\ TypeInv /\ ClaimOK(c, claim[c], servers, groups) /\ claim[c] \in NodeClaims
      /\ claim[c].phase = "launching" /\ claim[c].pc = "none"
  BY DEF IInv, TypeInv, ListGroups
<1>2. UNCHANGED <<servers, groups>> /\ faults' = faults /\ faults \in 0..MaxFaults
  BY <1>1 DEF ListGroups, TypeInv
<1>3. ASSUME NEW q \in {"group", "create"}, claim' = [claim EXCEPT ![c].pc = q]
      PROVE  IInv'
  <2> DEFINE e == [claim[c] EXCEPT !.pc = q]
  <2>1. e \in NodeClaims /\ e.phase = claim[c].phase /\ e.id = claim[c].id /\ e.pc = q
        /\ e.group = claim[c].group /\ e.server = claim[c].server
    BY <1>1 DEF NodeClaims
  <2>2. claim' = [claim EXCEPT ![c] = e]
    BY <1>3
  <2> HIDE DEF e
  <2>3. ClaimOK(c, e, servers, groups)
    BY <1>1, <2>1 DEF ClaimOK
  <2>4. QED BY <1>2, <2>1, <2>2, <2>3, ClaimStep
<1>4. ASSUME NEW g \in GroupsNamed(GroupNameOf(c)),
             claim' = [claim EXCEPT ![c].pc = "create", ![c].group = g]
      PROVE  IInv'
  <2> DEFINE e == [claim[c] EXCEPT !.pc = "create", !.group = g]
  <2>1. DOMAIN groups = 1..Len(groups)
    BY <1>1, LenProperties DEF TypeInv
  <2>2. g \in 1..Len(groups) /\ g \in Nat /\ groups[g] = GroupNameOf(c)
    BY <2>1 DEF GroupsNamed
  <2>3. e \in NodeClaims /\ e.phase = claim[c].phase /\ e.id = claim[c].id /\ e.pc = "create"
        /\ e.group = g /\ e.server = claim[c].server
    BY <1>1, <2>2 DEF NodeClaims
  <2>4. claim' = [claim EXCEPT ![c] = e]
    BY <1>1, <1>4 DEF TypeInv
  <2> HIDE DEF e
  <2>5. ClaimOK(c, e, servers, groups)
    BY <1>1, <2>2, <2>3 DEF ClaimOK, GroupOK
  <2>6. QED BY <1>2, <2>3, <2>4, <2>5, ClaimStep
<1>5. QED BY <1>3, <1>4 DEF ListGroups

\* Creating the placement group keeps the invariant.
LEMMA CreateGroupKeeps == ASSUME IInv, NEW c \in Claims, CreateGroup(c) PROVE IInv'
<1>1. /\ TypeInv /\ ClaimOK(c, claim[c], servers, groups) /\ claim[c] \in NodeClaims
      /\ claim[c].pc = "group" /\ UNCHANGED <<servers, faults>> /\ faults \in 0..MaxFaults
  BY DEF IInv, TypeInv, CreateGroup
<1>2. CASE GroupsNamed(GroupNameOf(c)) = {}
  <2> DEFINE n == Len(groups) + 1
             e == [claim[c] EXCEPT !.pc = "create", !.group = n]
  <2>1. groups \in Seq(GroupNames) /\ GroupNameOf(c) \in GroupNames /\ n \in Nat \ {0}
    BY <1>1, LenProperties DEF TypeInv, GroupNames
  <2>2. groups' = Append(groups, GroupNameOf(c)) /\ claim' = [claim EXCEPT ![c] = e]
    BY <1>1, <1>2 DEF CreateGroup, TypeInv
  <2>3. Len(groups') = n /\ groups'[n] = GroupNameOf(c)
    BY <2>1, <2>2, AppendProperties
  <2> HIDE DEF n
  <2>4. e \in NodeClaims /\ e.phase = claim[c].phase /\ e.id = claim[c].id /\ e.pc = "create"
        /\ e.group = n /\ e.server = claim[c].server
    BY <1>1, <2>1 DEF NodeClaims
  <2> HIDE DEF e
  <2>5. ClaimOK(c, e, servers, groups') /\ claim[c].server = NoID
    BY <1>1, <2>1, <2>3, <2>4 DEF ClaimOK, GroupOK
  <2>6. QED BY <1>1, <1>2, <2>2, <2>4, <2>5, GroupStep
<1>3. CASE GroupsNamed(GroupNameOf(c)) # {}
  <2>1. claim' = [claim EXCEPT ![c] = Requeue(c)] /\ UNCHANGED groups
    BY <1>3 DEF CreateGroup
  <2>2. QED BY <1>1, <2>1, Requeued
<1>4. QED BY <1>2, <1>3

\* A group made and its answer lost keeps the invariant.
LEMMA GroupAnswerLostKeeps == ASSUME IInv, NEW c \in Claims, GroupAnswerLost(c) PROVE IInv'
<1>1. /\ TypeInv /\ ClaimOK(c, claim[c], servers, groups)
      /\ claim[c].pc = "group" /\ GroupsNamed(GroupNameOf(c)) = {} /\ UNCHANGED servers
      /\ groups' = Append(groups, GroupNameOf(c)) /\ claim' = [claim EXCEPT ![c] = Requeue(c)]
  BY DEF IInv, GroupAnswerLost
<1>2. faults' \in 0..MaxFaults /\ faults' # 0
  BY <1>1, FaultCounted DEF GroupAnswerLost
<1>3. ClaimOK(c, Requeue(c), servers, groups') /\ claim[c].server = NoID
  BY <1>1, RequeueOK, RequeueFields DEF ClaimOK, GroupOK
<1>4. QED BY <1>1, <1>2, <1>3, RequeueFields, GroupStep

\* Creating the server keeps the invariant.
LEMMA CreateServerKeeps == ASSUME IInv, NEW c \in Claims, CreateServer(c) PROVE IInv'
<1>1. /\ TypeInv /\ ClaimOK(c, claim[c], servers, groups) /\ claim[c] \in NodeClaims
      /\ claim[c].pc = "create" /\ ~NameTaken(c) /\ NewServer(c)
      /\ UNCHANGED <<groups, faults>> /\ faults \in 0..MaxFaults
  BY DEF IInv, TypeInv, CreateServer
<1> DEFINE n == Len(servers) + 1
           e == [claim[c] EXCEPT !.pc = "wait", !.server = n]
<1>2. Len(servers') = n /\ n \in Nat \ {0} /\ Len(servers) \in Nat
      /\ \A id \in 1..Len(servers) : servers'[id] = servers[id]
  <2>1. /\ Len(servers') = Len(servers) + 1 /\ Len(servers) \in Nat
        /\ \A id \in 1..Len(servers) : servers'[id] = servers[id]
    BY <1>1, NewServerAppends
  <2>2. QED BY <2>1
<1>3. claim' = [claim EXCEPT ![c] = e] /\ n = Len(servers) + 1
  BY <1>1 DEF CreateServer, TypeInv
<1> HIDE DEF n
<1>4. e \in NodeClaims /\ e.phase = claim[c].phase /\ e.id = claim[c].id /\ e.pc = "wait"
      /\ e.group = claim[c].group /\ e.server = n
  BY <1>1, <1>2 DEF NodeClaims
<1> HIDE DEF e
<1>5. ClaimOK(c, e, servers', groups)
  BY <1>1, <1>2, <1>4 DEF ClaimOK, NoID
<1>6. QED BY <1>1, <1>3, <1>4, <1>5, ServerStep

\* A server made and its answer lost keeps the invariant.
LEMMA CreateAnswerLostKeeps == ASSUME IInv, NEW c \in Claims, CreateAnswerLost(c) PROVE IInv'
<1>1. /\ TypeInv /\ ClaimOK(c, claim[c], servers, groups)
      /\ claim[c].pc = "create" /\ ~NameTaken(c) /\ NewServer(c)
      /\ UNCHANGED groups /\ claim' = [claim EXCEPT ![c] = Requeue(c)]
  BY DEF IInv, CreateAnswerLost
<1>2. faults' \in 0..MaxFaults /\ faults' # 0
  BY <1>1, FaultCounted DEF CreateAnswerLost
<1>3. claim[c].phase = "launching" /\ claim[c].id = NoID
  BY <1>1 DEF ClaimOK
<1>4. ClaimOK(c, Requeue(c), servers', groups)
  BY <1>1, <1>3, RequeueFields DEF ClaimOK, GroupOK
<1>5. QED BY <1>1, <1>2, <1>4, RequeueFields, ServerStep

\* A refused name, or a call that fails, keeps the invariant.
LEMMA EndsKeep ==
    ASSUME IInv, NEW c \in Claims, CreateNameTaken(c) \/ CallFails(c)
    PROVE  IInv'
<1>1. TypeInv /\ faults \in 0..MaxFaults
  BY DEF IInv, TypeInv
<1>2. CASE CreateNameTaken(c)
  BY <1>1, <1>2, Requeued DEF CreateNameTaken
<1>3. CASE CallFails(c)
  <2>1. faults' \in 0..MaxFaults /\ faults' # 0
    BY <1>1, <1>3, FaultCounted DEF CallFails
  <2>2. QED BY <1>3, <2>1, Requeued DEF CallFails
<1>4. QED BY <1>2, <1>3

\* A refusal for lack of capacity keeps the invariant.
LEMMA CreateNoCapacityKeeps == ASSUME IInv, NEW c \in Claims, CreateNoCapacity(c) PROVE IInv'
<1>1. /\ TypeInv /\ ClaimOK(c, claim[c], servers, groups) /\ claim[c].pc = "create"
      /\ UNCHANGED <<servers, groups, faults>> /\ faults \in 0..MaxFaults
  BY DEF IInv, TypeInv, CreateNoCapacity
<1> DEFINE e == [Requeue(c) EXCEPT !.phase = "terminating"]
<1>2. claim' = [claim EXCEPT ![c] = e]
  BY DEF CreateNoCapacity
<1>3. e \in NodeClaims /\ e.phase = "terminating" /\ e.id = claim[c].id /\ e.pc = "none"
      /\ e.group = NoID /\ e.server = NoID
  BY <1>1, RequeueFields DEF NodeClaims
<1> HIDE DEF e
<1>4. ClaimOK(c, e, servers, groups) /\ claim[c].server = NoID
  BY <1>1, <1>3 DEF ClaimOK, GroupOK
<1>5. QED BY <1>1, <1>2, <1>3, <1>4, ClaimStep

\* The end of the wait keeps the invariant.
LEMMA CreatedKeeps == ASSUME IInv, NEW c \in Claims, Created(c) PROVE IInv'
<1>1. /\ TypeInv /\ ClaimOK(c, claim[c], servers, groups) /\ claim[c].pc = "wait"
      /\ claim[c] \in NodeClaims
      /\ UNCHANGED <<servers, groups, faults>> /\ faults \in 0..MaxFaults
  BY DEF IInv, TypeInv, Created
<1> DEFINE e == [Requeue(c) EXCEPT !.phase = "launched", !.id = claim[c].server]
<1>2. claim' = [claim EXCEPT ![c] = e]
  BY DEF Created
<1>3. e \in NodeClaims /\ e.phase = "launched" /\ e.id = claim[c].server /\ e.pc = "none"
      /\ e.group = NoID /\ e.server = NoID
  BY <1>1, RequeueFields DEF NodeClaims
<1> HIDE DEF e
<1>4. ClaimOK(c, e, servers, groups) /\ claim[c].id = NoID
  BY <1>1, <1>3 DEF ClaimOK, GroupOK
<1>5. QED BY <1>1, <1>2, <1>3, <1>4, ClaimStep

\* Deletion of a NodeClaim, and the finalization of one never launched.
LEMMA PhaseKeeps ==
    ASSUME IInv, NEW c \in Claims, DeleteClaim(c) \/ FinalizeUnlaunched(c)
    PROVE  IInv'
<1>1. /\ TypeInv /\ ClaimOK(c, claim[c], servers, groups) /\ claim[c] \in NodeClaims
      /\ UNCHANGED <<servers, groups, faults>> /\ faults \in 0..MaxFaults
  BY DEF IInv, TypeInv, DeleteClaim, FinalizeUnlaunched
<1>2. ASSUME NEW p \in {"terminating", "finalized"}, claim' = [claim EXCEPT ![c].phase = p],
             claim[c].pc \notin {"group", "create", "wait"},
             p = "finalized" => claim[c].id = NoID
      PROVE  IInv'
  <2> DEFINE e == [claim[c] EXCEPT !.phase = p]
  <2>1. claim' = [claim EXCEPT ![c] = e]
    BY <1>2
  <2>2. e \in NodeClaims /\ e.phase = p /\ e.id = claim[c].id /\ e.pc = claim[c].pc
        /\ e.group = claim[c].group /\ e.server = claim[c].server
    BY <1>1 DEF NodeClaims
  <2> HIDE DEF e
  <2>3. ClaimOK(c, e, servers, groups)
    BY <1>1, <1>2, <2>2 DEF ClaimOK
  <2>4. QED BY <1>1, <2>1, <2>2, <2>3, ClaimStep
<1>3. CASE DeleteClaim(c)
  BY <1>2, <1>3 DEF DeleteClaim
<1>4. CASE FinalizeUnlaunched(c)
  <2>1. claim[c].phase = "terminating" /\ claim[c].id = NoID
    BY <1>4 DEF FinalizeUnlaunched
  <2>2. claim[c].pc \notin {"group", "create", "wait"}
    BY <1>1, <2>1 DEF ClaimOK
  <2>3. QED BY <1>2, <1>4, <2>1, <2>2 DEF FinalizeUnlaunched
<1>5. QED BY <1>3, <1>4

\* Delete's get keeps the invariant.
LEMMA GetForDeleteKeeps == ASSUME IInv, NEW c \in Claims, GetForDelete(c) PROVE IInv'
<1>1. /\ TypeInv /\ ClaimOK(c, claim[c], servers, groups) /\ claim[c] \in NodeClaims
      /\ claim[c].phase = "terminating" /\ claim[c].id # NoID /\ claim[c].pc = "none"
      /\ UNCHANGED <<servers, groups, faults>> /\ faults \in 0..MaxFaults
  BY DEF IInv, TypeInv, GetForDelete
<1> DEFINE e == IF Live(claim[c].id) THEN [claim[c] EXCEPT !.pc = "delete"]
                ELSE [claim[c] EXCEPT !.phase = "finalized"]
<1>2. claim' = [claim EXCEPT ![c] = e]
  BY DEF GetForDelete
<1>3. /\ e \in NodeClaims /\ e.id = claim[c].id
      /\ e.group = claim[c].group /\ e.server = claim[c].server
      /\ \/ e.pc = "delete" /\ e.phase = "terminating"
         \/ e.pc = "none" /\ e.phase = "finalized" /\ servers[claim[c].id].state = "gone"
  BY <1>1 DEF NodeClaims, Live
<1> HIDE DEF e
<1>4. ClaimOK(c, e, servers, groups)
  BY <1>1, <1>3 DEF ClaimOK
<1>5. QED BY <1>1, <1>2, <1>3, <1>4, ClaimStep

\* Delete's delete keeps the invariant.
LEMMA DeleteServerKeeps == ASSUME IInv, NEW c \in Claims, DeleteServer(c) PROVE IInv'
<1>1. /\ TypeInv /\ ClaimOK(c, claim[c], servers, groups) /\ claim[c] \in NodeClaims
      /\ claim[c].pc = "delete" /\ UNCHANGED <<groups, faults>> /\ faults \in 0..MaxFaults
  BY DEF IInv, TypeInv, DeleteServer
<1>2. claim[c].id \in 1..Len(servers) /\ claim[c].phase = "terminating" /\ claim[c].server = NoID
  BY <1>1 DEF ClaimOK
<1>3. CASE Live(claim[c].id)
  <2>1. /\ servers' = [servers EXCEPT ![claim[c].id].state = "deleting"]
        /\ claim' = [claim EXCEPT ![c] = Requeue(c)] /\ servers[claim[c].id].state # "gone"
    BY <1>3 DEF DeleteServer, Live
  <2>2. /\ claim' \in [Claims -> NodeClaims]
        /\ \A d \in Claims : claim'[d] = IF d = c THEN Requeue(c) ELSE claim[d]
    BY <1>1, <2>1, RequeueFields DEF TypeInv
  <2>3. \A d \in Claims : /\ ClaimOK(d, claim'[d], servers, groups)
                          /\ claim'[d].id = claim[d].id /\ claim'[d].server = claim[d].server
    BY <1>1, <1>2, <2>2, RequeueOK, RequeueFields DEF IInv
  <2>4. QED BY <1>1, <1>2, <2>1, <2>2, <2>3, StateStep
<1>4. CASE ~Live(claim[c].id)
  <2> DEFINE e == [claim[c] EXCEPT !.pc = "none", !.phase = "finalized"]
  <2>1. claim' = [claim EXCEPT ![c] = e] /\ UNCHANGED servers
    BY <1>1, <1>4 DEF DeleteServer, TypeInv
  <2>2. e \in NodeClaims /\ e.phase = "finalized" /\ e.id = claim[c].id /\ e.pc = "none"
        /\ e.group = claim[c].group /\ e.server = claim[c].server
    BY <1>1 DEF NodeClaims
  <2> HIDE DEF e
  <2>3. ClaimOK(c, e, servers, groups)
    BY <1>1, <1>2, <1>4, <2>2 DEF ClaimOK, Live
  <2>4. QED BY <1>1, <2>1, <2>2, <2>3, ClaimStep
<1>5. QED BY <1>3, <1>4

\* hcloud, the console and a restart keep the invariant.
LEMMA SurroundingsKeep ==
    ASSUME IInv,
           \/ \E id \in DOMAIN servers : ServerGone(id) \/ ConsoleDeletes(id)
           \/ \E c \in Claims : Restart(ClusterOf[c])
    PROVE  IInv'
<1>1. /\ TypeInv /\ faults \in 0..MaxFaults /\ DOMAIN servers = 1..Len(servers)
      /\ claim \in [Claims -> NodeClaims] /\ \A c \in Claims : ClaimOK(c, claim[c], servers, groups)
  BY LenProperties DEF IInv, TypeInv
<1>2. ASSUME NEW id \in 1..Len(servers), ServerGone(id) PROVE IInv'
  BY <1>1, <1>2, StateStep DEF ServerGone
<1>3. ASSUME NEW id \in 1..Len(servers), ConsoleDeletes(id) PROVE IInv'
  <2>1. faults' \in 0..MaxFaults /\ faults' # 0
    BY <1>1, <1>3, FaultCounted DEF ConsoleDeletes
  <2>2. QED BY <1>1, <1>3, <2>1, StateStep DEF ConsoleDeletes
<1>4. ASSUME NEW k \in Claims, Restart(ClusterOf[k]) PROVE IInv'
  <2>1. faults' \in 0..MaxFaults /\ faults' # 0
    BY <1>1, <1>4, FaultCounted DEF Restart
  <2>2. claim' = [c \in Claims |-> IF ClusterOf[c] = ClusterOf[k] THEN Requeue(c) ELSE claim[c]]
        /\ UNCHANGED <<servers, groups>>
    BY <1>4 DEF Restart
  <2>3. /\ claim' \in [Claims -> NodeClaims]
        /\ \A c \in Claims : ClaimOK(c, claim'[c], servers, groups)
    BY <1>1, <2>2, RequeueFields, RequeueOK
  <2>4. QED BY <2>1, <2>2, <2>3, ClaimsStep
<1>5. QED BY <1>1, <1>2, <1>3, <1>4

\* Every step keeps the invariant.
LEMMA NextKeeps == IInv /\ [Next]_vars => IInv'
<1> SUFFICES ASSUME IInv, [Next]_vars PROVE IInv'
  OBVIOUS
<1>1. CASE UNCHANGED vars
  BY <1>1 DEF vars, IInv, TypeInv, GroupsUnique, Alone, Accounted
<1>2. ASSUME NEW c \in Claims, Create(c) PROVE IInv'
  BY <1>2, ListGroupsKeeps, CreateGroupKeeps, GroupAnswerLostKeeps, CreateServerKeeps,
     CreateAnswerLostKeeps, EndsKeep, CreateNoCapacityKeeps, CreatedKeeps DEF Create
<1>3. ASSUME NEW c \in Claims, CallFails(c) \/ DeleteClaim(c) \/ Terminate(c) PROVE IInv'
  BY <1>3, EndsKeep, PhaseKeeps, GetForDeleteKeeps, DeleteServerKeeps DEF Terminate
<1>4. QED BY <1>1, <1>2, <1>3, SurroundingsKeep DEF Next

\* The invariant holds in every reachable state.
THEOREM Invariance == Spec => []IInv
BY InitHolds, NextKeeps, PTL DEF Spec

-----------------------------------------------------------------------------
(* The properties.                                                         *)

\* The labels of a server say which cluster it belongs to, whatever the
\* NodeClass asks for.
LEMMA LabelValues ==
    ASSUME NEW c \in Claims
    PROVE  /\ {"managed-by", "cluster", "nodeclaim"} \subseteq DOMAIN ServerLabels(c)
           /\ ServerLabels(c)["managed-by"] = ManagedBy
           /\ ServerLabels(c)["cluster"] = ClusterOf[c]
<1>1. {"managed-by", "cluster", "nodeclaim"} \subseteq DOMAIN ManagementLabels(c)
  BY DEF ManagementLabels, ManagementKeys
<1>2. ManagementLabels(c)["managed-by"] = ManagedBy /\ ManagementLabels(c)["cluster"] = ClusterOf[c]
  BY DEF ManagementLabels, ManagementKeys
<1>3. QED BY <1>1, <1>2 DEF ServerLabels, WrittenOver

\* A one-element sequence, and a sequence over a larger set.
LEMMA SeqFacts ==
    ASSUME NEW S, NEW x \in S, NEW R, R \subseteq S
    PROVE  <<x>> \in Seq(S) /\ \A s \in Seq(R) : s \in Seq(S)
OBVIOUS

\* Pools of one name in different clusters have different placement groups.
LEMMA NamesApart ==
    ASSUME NEW c \in Claims, NEW d \in Claims, PoolOf[c] = PoolOf[d],
           GroupNameOf(c) = GroupNameOf(d)
    PROVE  ClusterOf[c] = ClusterOf[d]
<1> DEFINE S == STRING \cup {"karpenter"}
           k == <<"karpenter">>
<1>1. "karpenter" \in S /\ STRING \subseteq S
  OBVIOUS
<1> HIDE DEF S
<1>2. /\ ClusterOf[c] \in Seq(S) /\ ClusterOf[d] \in Seq(S) /\ PoolOf[c] \in Seq(S)
      /\ k \in Seq(S)
  BY <1>1, ConstantsAssumption, SeqFacts
<1>3. (k \o ClusterOf[c]) \o PoolOf[c] = (k \o ClusterOf[d]) \o PoolOf[c]
  BY DEF GroupNameOf, PlacementGroupName
<1> HIDE DEF k
<1>4. k \o ClusterOf[c] \in Seq(S) /\ k \o ClusterOf[d] \in Seq(S)
  BY <1>2, ConcatProperties
<1>5. k \o ClusterOf[c] = k \o ClusterOf[d]
  BY <1>2, <1>3, <1>4, ConcatSimplifications
<1>6. QED BY <1>2, <1>5, ConcatSimplifications

\* Every reachable state of the instance provider is well typed: calls belong to
\* the phase of their NodeClaim, IDs are those of servers that were created, and
\* a launched NodeClaim has one (Create, Delete).
THEOREM TypeCorrect == Spec => []TypeOK
<1>1. IInv => TypeOK
  <2> SUFFICES ASSUME IInv PROVE TypeOK
    OBVIOUS
  <2>1. \A id \in DOMAIN servers :
          /\ servers[id].state \in {"up", "deleting", "gone"} /\ servers[id].claim \in Claims
          /\ servers[id].group \in DOMAIN groups \cup {NoID}
          /\ LabelKeys \ {"nodepool"} \subseteq DOMAIN servers[id].labels
    <3> SUFFICES ASSUME NEW id \in DOMAIN servers
                 PROVE  /\ servers[id].state \in {"up", "deleting", "gone"} /\ servers[id].claim \in Claims
                        /\ servers[id].group \in DOMAIN groups \cup {NoID}
                        /\ LabelKeys \ {"nodepool"} \subseteq DOMAIN servers[id].labels
      OBVIOUS
    <3>1. servers[id] \in Servers /\ ServerOK(servers[id], groups)
      BY Domains DEF IInv
    <3>2. servers[id].state \in {"up", "deleting", "gone"} /\ servers[id].claim \in Claims
      BY <3>1 DEF Servers
    <3>3. servers[id].group \in DOMAIN groups \cup {NoID}
      BY <3>1, Domains DEF ServerOK, GroupOK
    <3>4. LabelKeys \ {"nodepool"} \subseteq DOMAIN servers[id].labels
      BY <3>1, <3>2, LabelValues DEF ServerOK, LabelKeys
    <3>5. QED BY <3>2, <3>3, <3>4
  <2>2. \A c \in Claims : claim[c] \in NodeClaims /\ ClaimOK(c, claim[c], servers, groups)
    BY DEF IInv, TypeInv
  <2>3. faults \in 0..MaxFaults
    BY DEF IInv, TypeInv
  <2>4. QED BY <2>1, <2>2, <2>3, Domains DEF TypeOK, NodeClaims, ClaimOK, GroupOK
<1>2. QED BY <1>1, Invariance, PTL

\* A NodeClaim is finalized only when the server it was launched with is gone
\* (delete).
THEOREM FinalizedGone == Spec => []FinalizedMeansGone
<1>1. IInv => FinalizedMeansGone
  BY DEF IInv, ClaimOK, FinalizedMeansGone, Live
<1>2. QED BY <1>1, Invariance, PTL

\* A NodeClaim never has two servers, however often Create failed, lost its
\* answer or was forgotten (create).
THEOREM OneServer == Spec => []OneServerPerClaim
<1>1. IInv => OneServerPerClaim
  BY Domains DEF IInv, Alone, OneServerPerClaim, Live
<1>2. QED BY <1>1, Invariance, PTL

\* Without a fault every running server is its NodeClaim's or the one its
\* Create waits for (create, delete).
THEOREM StraysNeedFaults == Spec => []NoStrays
<1>1. IInv => NoStrays
  BY Domains DEF IInv, Accounted, NoStrays, Live
<1>2. QED BY <1>1, Invariance, PTL

\* List shows a cluster its own servers and no others, whatever labels
\* NodeClasses ask for (create's labels, List).
THEOREM OwnServersListed == Spec => []ListedByOwnCluster
<1>1. IInv => ListedByOwnCluster
  <2> SUFFICES ASSUME IInv, NEW id \in DOMAIN servers, Live(id), NEW c \in Claims
               PROVE  id \in Managed(ClusterOf[c]) <=> ClusterOf[c] = ClusterOf[servers[id].claim]
    BY DEF ListedByOwnCluster
  <2>1. servers[id].claim \in Claims /\ servers[id].labels = ServerLabels(servers[id].claim)
    BY Domains DEF IInv, ServerOK, Servers
  <2>2. /\ servers[id].labels["managed-by"] = ManagedBy
        /\ servers[id].labels["cluster"] = ClusterOf[servers[id].claim]
    BY <2>1, LabelValues
  <2>3. QED BY <2>2 DEF Managed
<1>2. QED BY <1>1, Invariance, PTL

\* The servers of a pool share its placement group, however their Creates raced
\* to make it (getOrCreatePlacementGroup).
THEOREM PoolGroupShared == Spec => []PoolSharesGroup
<1>1. IInv => PoolSharesGroup
  <2> SUFFICES ASSUME IInv, NEW i \in DOMAIN servers, NEW k \in DOMAIN servers,
                      servers[i].group # NoID, servers[k].group # NoID,
                      ClusterOf[servers[i].claim] = ClusterOf[servers[k].claim],
                      PoolOf[servers[i].claim] = PoolOf[servers[k].claim]
               PROVE  servers[i].group = servers[k].group
    BY DEF PoolSharesGroup
  <2>1. ServerOK(servers[i], groups) /\ ServerOK(servers[k], groups) /\ GroupsUnique
    BY Domains DEF IInv
  <2>2. GroupNameOf(servers[i].claim) = GroupNameOf(servers[k].claim)
    BY DEF GroupNameOf
  <2>3. QED BY <2>1, <2>2 DEF ServerOK, GroupOK, GroupsUnique
<1>2. QED BY <1>1, Invariance, PTL

\* Clusters with a pool of the same name keep their placement groups apart
\* (placementGroupName).
THEOREM SamePoolsApart == Spec => []SamePoolApart
<1>1. IInv => SamePoolApart
  <2> SUFFICES ASSUME IInv, NEW i \in DOMAIN servers, NEW k \in DOMAIN servers,
                      servers[i].group # NoID,
                      PoolOf[servers[i].claim] = PoolOf[servers[k].claim],
                      servers[i].group = servers[k].group
               PROVE  ClusterOf[servers[i].claim] = ClusterOf[servers[k].claim]
    BY DEF SamePoolApart
  <2>1. /\ ServerOK(servers[i], groups) /\ ServerOK(servers[k], groups)
        /\ servers[i].claim \in Claims /\ servers[k].claim \in Claims
    BY Domains DEF IInv, Servers
  <2>2. GroupNameOf(servers[i].claim) = GroupNameOf(servers[k].claim)
    BY <2>1 DEF ServerOK, GroupOK
  <2>3. QED BY <2>1, <2>2, NamesApart
<1>2. QED BY <1>1, Invariance, PTL

=============================================================================
