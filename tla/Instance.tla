------------------------------- MODULE Instance -------------------------------
(***************************************************************************)
(* The instance provider (pkg/providers/instance) between karpenter core's *)
(* NodeClaims and the servers and placement groups of one Hetzner project. *)
(* Several clusters may share the project, each with its own controller.   *)
(*                                                                         *)
(* Create is a list and perhaps a create of the placement group, the       *)
(* server create, and the wait for its actions; Delete is a get and a      *)
(* delete.  Each hcloud call is an action, so calls for other NodeClaims,  *)
(* operators with the hcloud console and hcloud's own asynchronous         *)
(* deletions come between.  A call may fail, a created server's answer may *)
(* be lost, and the controller may restart and forget the calls under way. *)
(*                                                                         *)
(* Core is external: it calls Create until a provider ID comes back or the *)
(* NodeClaim is deleted, and Delete until it answers NodeClaimNotFound.    *)
(*                                                                         *)
(* A definition marked "Fault:" is a plausible mistake in the operator that *)
(* follows it.  No specification uses one; putting it in the operator's    *)
(* place shows that a property can fail.                                   *)
(***************************************************************************)
EXTENDS Integers, Sequences

CONSTANTS
    Claims,         \* NodeClaims of all clusters; a claim's name is unique
    ClusterOf,      \* ClusterOf[c]: the cluster's name, as its hyphenated words
    PoolOf,         \* PoolOf[c]: the node pool's name likewise; << >> for none
    Strategies,     \* Strategies[c]: what spec.placementGroupStrategy may be when Create reads it
    SpecLabels,     \* SpecLabels[c]: spec.labels
    MaxServers,     \* bound: servers ever created
    MaxFaults       \* bound: failed calls, lost answers, restarts, console deletions

ManagedBy == <<"karpenter">>                    \* apiv1.ServerValueManagedBy
LabelKeys == {"managed-by", "cluster", "nodeclaim", "nodepool"}

ASSUME ConstantsAssumption ==
    /\ \A c \in Claims : /\ ClusterOf[c] \in Seq(STRING) /\ ClusterOf[c] # << >>
                         /\ PoolOf[c] \in Seq(STRING)
                         /\ Strategies[c] \subseteq {"spread", "none"}
    /\ MaxServers \in Nat /\ MaxFaults \in Nat

VARIABLES
    servers,    \* servers[id]: every server ever created in the project
    groups,     \* groups[id]: the name of each placement group in the project
    claim,      \* the NodeClaims, with the provider call made for each
    faults      \* faults so far

vars == <<servers, groups, claim, faults>>

NoID == 0

\* A NodeClaim: its phase, status.providerID, the step its provider call is at,
\* and that call's placement group and server.
Unlaunched == [phase |-> "launching", id |-> NoID, pc |-> "none", group |-> NoID, server |-> NoID]

Live(id) == servers[id].state # "gone"

\* The call made for c is over; core will call again if it still needs to.
Requeue(c) == [claim[c] EXCEPT !.pc = "none", !.group = NoID, !.server = NoID]

\* One fault of the outside world.
Faulty == faults < MaxFaults /\ faults' = faults + 1

-----------------------------------------------------------------------------
(* Create.                                                                 *)

\* Fault: the node pool's name alone.
UnscopedGroupName(cluster, pool) == <<"karpenter">> \o pool

\* placementGroupName: "karpenter-" + cluster + "-" + pool, as words.
PlacementGroupName(cluster, pool) == <<"karpenter">> \o cluster \o pool

\* AllWithOpts: the placement groups of that name.
GroupsNamed(name) == {g \in DOMAIN groups : groups[g] = name}

GroupNameOf(c) == PlacementGroupName(ClusterOf[c], PoolOf[c])

ManagementKeys(c) ==
    {"managed-by", "cluster", "nodeclaim"} \cup (IF PoolOf[c] = << >> THEN {} ELSE {"nodepool"})

ManagementLabels(c) ==
    [k \in ManagementKeys(c) |->
        CASE k = "managed-by" -> ManagedBy
          [] k = "cluster" -> ClusterOf[c]
          [] k = "nodeclaim" -> c
          [] k = "nodepool" -> PoolOf[c]]

\* The labels ls, then those of last: where both have a key, last wins.
WrittenOver(ls, last) ==
    [k \in DOMAIN ls \cup DOMAIN last |-> IF k \in DOMAIN last THEN last[k] ELSE ls[k]]

\* Fault: the NodeClass's labels are applied last.
SpecLabelsWin(c) == WrittenOver(ManagementLabels(c), SpecLabels[c])

\* The labels of a new server: the management labels overwrite spec.labels.
ServerLabels(c) == WrittenOver(SpecLabels[c], ManagementLabels(c))

\* getOrCreatePlacementGroup, the listing; strategy "none" needs no group.
ListGroups(c) ==
    /\ claim[c].phase = "launching" /\ claim[c].pc = "none"
    /\ \/ /\ "none" \in Strategies[c]
          /\ claim' = [claim EXCEPT ![c].pc = "create"]
       \/ /\ "spread" \in Strategies[c] /\ GroupsNamed(GroupNameOf(c)) = {}
          /\ claim' = [claim EXCEPT ![c].pc = "group"]
       \/ /\ "spread" \in Strategies[c]
          /\ \E g \in GroupsNamed(GroupNameOf(c)) :
                claim' = [claim EXCEPT ![c].pc = "create", ![c].group = g]
    /\ UNCHANGED <<servers, groups, faults>>

\* Fault: hcloud's refusal of a second group of the name is not noticed.
CreateGroupAnyway(c) ==
    /\ claim[c].pc = "group"
    /\ groups' = Append(groups, GroupNameOf(c))
    /\ claim' = [claim EXCEPT ![c].pc = "create", ![c].group = Len(groups) + 1]
    /\ UNCHANGED <<servers, faults>>

\* getOrCreatePlacementGroup, the create.  Names are unique in a project: if
\* another Create has made the group since, this one returns an error.
CreateGroup(c) ==
    /\ claim[c].pc = "group"
    /\ IF GroupsNamed(GroupNameOf(c)) = {}
       THEN /\ groups' = Append(groups, GroupNameOf(c))
            /\ claim' = [claim EXCEPT ![c].pc = "create", ![c].group = Len(groups) + 1]
       ELSE claim' = [claim EXCEPT ![c] = Requeue(c)] /\ UNCHANGED groups
    /\ UNCHANGED <<servers, faults>>

\* hcloud made the group and its answer was lost.
GroupAnswerLost(c) ==
    /\ claim[c].pc = "group" /\ GroupsNamed(GroupNameOf(c)) = {}
    /\ groups' = Append(groups, GroupNameOf(c))
    /\ claim' = [claim EXCEPT ![c] = Requeue(c)]
    /\ Faulty /\ UNCHANGED servers

\* hcloud makes the server.
NewServer(c) ==
    servers' = Append(servers, [name |-> c, labels |-> ServerLabels(c), claim |-> c,
                                group |-> claim[c].group, state |-> "up"])

\* hcloud refuses a server whose name is taken.
NameTaken(c) == \E id \in DOMAIN servers : Live(id) /\ servers[id].name = c

\* Fault: every attempt asks for a fresh name.
AlwaysFree(c) ==
    /\ claim[c].pc = "create" /\ Len(servers) < MaxServers
    /\ NewServer(c)
    /\ claim' = [claim EXCEPT ![c].pc = "wait", ![c].server = Len(servers) + 1]
    /\ UNCHANGED <<groups, faults>>

CreateServer(c) ==
    /\ claim[c].pc = "create" /\ ~NameTaken(c) /\ Len(servers) < MaxServers
    /\ NewServer(c)
    /\ claim' = [claim EXCEPT ![c].pc = "wait", ![c].server = Len(servers) + 1]
    /\ UNCHANGED <<groups, faults>>

\* hcloud made the server and its answer was lost.
CreateAnswerLost(c) ==
    /\ claim[c].pc = "create" /\ ~NameTaken(c) /\ Len(servers) < MaxServers
    /\ NewServer(c)
    /\ claim' = [claim EXCEPT ![c] = Requeue(c)]
    /\ Faulty /\ UNCHANGED groups

\* uniqueness_error: MapCreateError's default, an ordinary error.
CreateNameTaken(c) ==
    /\ claim[c].pc = "create" /\ NameTaken(c)
    /\ claim' = [claim EXCEPT ![c] = Requeue(c)]
    /\ UNCHANGED <<servers, groups, faults>>

\* InsufficientCapacity: core deletes the NodeClaim.
CreateNoCapacity(c) ==
    /\ claim[c].pc = "create"
    /\ claim' = [claim EXCEPT ![c] = [Requeue(c) EXCEPT !.phase = "terminating"]]
    /\ UNCHANGED <<servers, groups, faults>>

\* Fault: the hydrated NodeClaim carries no provider ID.
CreatedUnhydrated(c) ==
    /\ claim[c].pc = "wait"
    /\ claim' = [claim EXCEPT ![c] = [Requeue(c) EXCEPT !.phase = "launched"]]
    /\ UNCHANGED <<servers, groups, faults>>

\* WaitFor returned: the NodeClaim gets its provider ID.
Created(c) ==
    /\ claim[c].pc = "wait"
    /\ claim' = [claim EXCEPT ![c] = [Requeue(c) EXCEPT !.phase = "launched", !.id = claim[c].server]]
    /\ UNCHANGED <<servers, groups, faults>>

\* Any hcloud call of Create or Delete, WaitFor included, fails.
CallFails(c) ==
    /\ claim[c].pc # "none"
    /\ claim' = [claim EXCEPT ![c] = Requeue(c)]
    /\ Faulty /\ UNCHANGED <<servers, groups>>

-----------------------------------------------------------------------------
(* Get, List and Delete.                                                   *)

\* List: the servers labelled as managed by this cluster's karpenter.
Managed(cluster) ==
    {id \in DOMAIN servers : /\ Live(id)
                             /\ servers[id].labels["managed-by"] = ManagedBy
                             /\ servers[id].labels["cluster"] = cluster}

\* The user, disruption or a launch timeout deletes the NodeClaim; or core's
\* garbage collection, which does not find its server in List.
DeleteClaim(c) ==
    /\ claim[c].phase \in {"launching", "launched"} /\ claim[c].pc = "none"
    /\ claim' = [claim EXCEPT ![c].phase = "terminating"]
    /\ UNCHANGED <<servers, groups, faults>>

\* A NodeClaim that never got a provider ID has nothing to Delete.
FinalizeUnlaunched(c) ==
    /\ claim[c].phase = "terminating" /\ claim[c].id = NoID
    /\ claim' = [claim EXCEPT ![c].phase = "finalized"]
    /\ UNCHANGED <<servers, groups, faults>>

\* Fault: a server already gone is taken for a deletion just triggered.
GetForDeleteQuiet(c) ==
    /\ claim[c].phase = "terminating" /\ claim[c].id # NoID /\ claim[c].pc = "none"
    /\ Live(claim[c].id) /\ claim' = [claim EXCEPT ![c].pc = "delete"]
    /\ UNCHANGED <<servers, groups, faults>>

\* Delete, GetByID: a server that is gone answers NodeClaimNotFound.
GetForDelete(c) ==
    /\ claim[c].phase = "terminating" /\ claim[c].id # NoID /\ claim[c].pc = "none"
    /\ claim' = [claim EXCEPT ![c] = IF Live(@.id) THEN [@ EXCEPT !.pc = "delete"]
                                     ELSE [@ EXCEPT !.phase = "finalized"]]
    /\ UNCHANGED <<servers, groups, faults>>

\* Fault: triggering the deletion is taken for its completion.
DeleteServerDone(c) ==
    /\ claim[c].pc = "delete"
    /\ servers' = [servers EXCEPT ![claim[c].id].state = IF @ = "up" THEN "deleting" ELSE @]
    /\ claim' = [claim EXCEPT ![c].pc = "none", ![c].phase = "finalized"]
    /\ UNCHANGED <<groups, faults>>

\* Delete, DeleteWithResult: triggered, or the server went in between.
DeleteServer(c) ==
    /\ claim[c].pc = "delete"
    /\ IF Live(claim[c].id)
       THEN /\ servers' = [servers EXCEPT ![claim[c].id].state = "deleting"]
            /\ claim' = [claim EXCEPT ![c] = Requeue(c)]
       ELSE /\ claim' = [claim EXCEPT ![c].pc = "none", ![c].phase = "finalized"]
            /\ UNCHANGED servers
    /\ UNCHANGED <<groups, faults>>

-----------------------------------------------------------------------------
(* The surroundings.                                                       *)

\* hcloud finishes a deletion.
ServerGone(id) ==
    /\ servers[id].state = "deleting"
    /\ servers' = [servers EXCEPT ![id].state = "gone"]
    /\ UNCHANGED <<groups, claim, faults>>

\* Somebody deletes a server in the hcloud console.
ConsoleDeletes(id) ==
    /\ servers[id].state = "up"
    /\ servers' = [servers EXCEPT ![id].state = "deleting"]
    /\ Faulty /\ UNCHANGED <<groups, claim>>

\* A cluster's controller restarts and forgets the calls under way.
Restart(cluster) ==
    /\ \E c \in Claims : ClusterOf[c] = cluster /\ claim[c].pc # "none"
    /\ claim' = [c \in Claims |-> IF ClusterOf[c] = cluster THEN Requeue(c) ELSE claim[c]]
    /\ Faulty /\ UNCHANGED <<servers, groups>>

Init ==
    /\ servers = << >> /\ groups = << >> /\ faults = 0
    /\ claim = [c \in Claims |-> Unlaunched]

Create(c) ==
    \/ ListGroups(c) \/ CreateGroup(c) \/ GroupAnswerLost(c)
    \/ CreateServer(c) \/ CreateAnswerLost(c)
    \/ CreateNameTaken(c) \/ CreateNoCapacity(c) \/ Created(c)

\* What core does for a NodeClaim that is being deleted.
Terminate(c) == FinalizeUnlaunched(c) \/ GetForDelete(c) \/ DeleteServer(c)

Next ==
    \/ \E c \in Claims : \/ Create(c) \/ CallFails(c)
                         \/ DeleteClaim(c) \/ Terminate(c)
    \/ \E id \in DOMAIN servers : ServerGone(id) \/ ConsoleDeletes(id)
    \/ \E c \in Claims : Restart(ClusterOf[c])

Spec == Init /\ [][Next]_vars

\* Core requeues a deleted NodeClaim until it is finalized, and hcloud finishes
\* the deletions it has begun.
FairSpec ==
    /\ Spec
    /\ \A c \in Claims : WF_vars(Terminate(c))
    /\ WF_vars(\E id \in DOMAIN servers : ServerGone(id))

-----------------------------------------------------------------------------
(* Properties.                                                             *)

\* Every variable keeps its type.
TypeOK ==
    /\ \A id \in DOMAIN servers :
          /\ servers[id].state \in {"up", "deleting", "gone"} /\ servers[id].claim \in Claims
          /\ servers[id].group \in DOMAIN groups \cup {NoID}
          /\ LabelKeys \ {"nodepool"} \subseteq DOMAIN servers[id].labels
    /\ \A c \in Claims :
          /\ claim[c].phase \in {"launching", "launched", "terminating", "finalized"}
          /\ claim[c].pc \in {"none", "group", "create", "wait", "delete"}
          /\ claim[c].id \in DOMAIN servers \cup {NoID}
          /\ claim[c].server \in DOMAIN servers \cup {NoID}
          /\ claim[c].group \in DOMAIN groups \cup {NoID}
          /\ claim[c].phase = "launched" => claim[c].id # NoID
          /\ claim[c].phase = "launching" => claim[c].id = NoID
    /\ faults \in 0..MaxFaults

\* A NodeClaim that had a server is finalized only when that server is gone:
\* NodeClaimNotFound is returned "once the server no longer exists" (Delete).
FinalizedMeansGone ==
    \A c \in Claims : claim[c].phase = "finalized" /\ claim[c].id # NoID => ~Live(claim[c].id)

\* However its calls failed, were retried or forgotten, a NodeClaim never has
\* two servers running: the server is named for the claim (create).
OneServerPerClaim ==
    \A i, k \in DOMAIN servers :
        servers[i].claim = servers[k].claim /\ Live(i) /\ Live(k) => i = k

\* Only a lost answer, a failed wait or a restart can leave a server that no
\* NodeClaim leads to: otherwise every running server is its claim's, or the one
\* its Create is waiting for.  Nothing ever deletes a server that Delete is not
\* called for (create, delete).
NoStrays ==
    faults = 0 =>
        \A id \in DOMAIN servers : Live(id) =>
            id \in {claim[servers[id].claim].id, claim[servers[id].claim].server}

\* A server, orphaned or not, is listed by the cluster it was created for and
\* by no other, whatever labels the NodeClass asks for: core deletes NodeClaims
\* whose server List does not return (create's labels, List).
ListedByOwnCluster ==
    \A id \in DOMAIN servers : Live(id) =>
        \A c \in Claims : id \in Managed(ClusterOf[c]) <=> ClusterOf[c] = ClusterOf[servers[id].claim]

\* Servers of one node pool share one placement group, however the Creates that
\* found it missing raced (getOrCreatePlacementGroup).
PoolSharesGroup ==
    \A i, k \in DOMAIN servers :
        /\ servers[i].group # NoID /\ servers[k].group # NoID
        /\ ClusterOf[servers[i].claim] = ClusterOf[servers[k].claim]
        /\ PoolOf[servers[i].claim] = PoolOf[servers[k].claim]
        => servers[i].group = servers[k].group

\* Clusters with a node pool of the same name do not share its placement group
\* (placementGroupName).
SamePoolApart ==
    \A i, k \in DOMAIN servers :
        LET c == servers[i].claim
            d == servers[k].claim
        IN  /\ servers[i].group # NoID /\ servers[k].group # NoID
            /\ PoolOf[c] = PoolOf[d] /\ ClusterOf[c] # ClusterOf[d]
            => servers[i].group # servers[k].group

\* A placement group belongs to one cluster: its name is "scoped to the cluster"
\* (placementGroupName).
GroupsScopedToCluster ==
    \A i, k \in DOMAIN servers :
        /\ servers[i].group # NoID /\ servers[i].group = servers[k].group
        => ClusterOf[servers[i].claim] = ClusterOf[servers[k].claim]

\* A deleted NodeClaim is finalized in the end: Delete does not leave core
\* requeueing a claim whose server is gone (delete).
ClaimsFinalized ==
    \A c \in Claims : claim[c].phase = "terminating" ~> claim[c].phase = "finalized"

=============================================================================
