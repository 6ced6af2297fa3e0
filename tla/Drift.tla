--------------------------------- MODULE Drift ---------------------------------
(***************************************************************************)
(* IsDrifted and RepairPolicies (pkg/cloudprovider/cloudprovider.go), and  *)
(* what karpenter core does with their answers: a node whose server no     *)
(* longer fits its NodeClass, or which stopped reporting, is replaced.     *)
(*                                                                         *)
(* Create and IsDrifted each read the NodeClass once and hcloud later, so  *)
(* the spec may be edited in between; servers are changed with the hcloud  *)
(* console; images are published, withdrawn and listed in another order.   *)
(* The NodeClaims of one NodeClass are the slots of Claims: a replacement  *)
(* takes the slot of the NodeClaim it replaces.  How types and locations   *)
(* are chosen is in Launch, which published image a Create uses in         *)
(* NodeClass (here it looks one up), how servers come and go in Instance.  *)
(*                                                                         *)
(* A definition marked "Fault:" is a plausible mistake in the operator that *)
(* follows it.  No specification uses one; putting it in the operator's    *)
(* place shows that a property can fail.                                   *)
(***************************************************************************)
EXTENDS ImageFamily

CONSTANTS
    Claims,         \* NodeClaims of the NodeClass
    Specs,          \* what the HCloudNodeClass's spec may be
    Listings,       \* image listings hcloud may answer with
    ArchOf,         \* ArchOf[t]: the architecture of server type t
    Zones,          \* hcloud locations
    NoSpec,         \* no copy of a spec
    MaxEdits,       \* bound: edits of the spec
    MaxTouches,     \* bound: changes to one slot's servers or nodes behind karpenter's back
    MaxFaults       \* bound: failed calls

Types == DOMAIN ArchOf
ManagementKeys == {"managed-by", "cluster", "nodeclaim", "nodepool"}
NodeStatus == {"True", "False", "Unknown"}      \* of the Node's Ready condition
Reasons == {"ImageDrift", "NetworkDrift", "FirewallDrift",
            "ServerTypeDrift", "LocationDrift", "LabelsDrift"}

ASSUME ConstantsAssumption ==
    /\ \A s \in Specs : /\ s.network \in Nat
                        /\ s.locations \subseteq Zones /\ s.locations # {}
    /\ NoSpec \notin Specs /\ "none" \notin Types
    /\ \A l \in Listings : IsListing(l)
    /\ MaxEdits \in Nat /\ MaxTouches \in Nat /\ MaxFaults \in Nat

VARIABLES
    spec,       \* the NodeClass's spec
    images,     \* hcloud's image listing
    claim,      \* claim[c]: phase, and what Create recorded
    server,     \* server[c]: the claim's server
    node,       \* node[c]: its Node's Ready condition
    check,      \* check[c]: the NodeClass copy of an IsDrifted call under way
    drifted,    \* drifted[c]: the reason of the Drifted condition
    edits,      \* edits of the spec so far
    touches,    \* touches[c]: changes behind karpenter's back so far
    faults,     \* failed calls so far
    cause,      \* history: what happened to a NodeClaim since Create read its NodeClass
    replaced    \* history: how often the slot's NodeClaim was replaced

world == <<spec, images, edits, touches, faults>>
vars == <<claim, server, node, check, drifted, world, cause, replaced>>

NoReason == "none"

\* No server: it has no type.
NoServer == [image |-> NoImage, networks |-> {}, firewalls |-> {}, type |-> "none",
             location |-> "none", labels |-> << >>]

\* A NodeClaim core has made: the NodeClass copy of its Create call, and
\* status.imageID and the instance type label Create hydrates.
NewClaim == [phase |-> "pending", copy |-> NoSpec, imageID |-> NoImage, type |-> "none"]

-----------------------------------------------------------------------------
(* Create.                                                                 *)

ManagementLabels(c) ==
    [k \in ManagementKeys |->
        CASE k = "managed-by" -> "karpenter"
          [] k = "cluster" -> "cluster"
          [] k = "nodeclaim" -> c
          [] k = "nodepool" -> "pool"]

\* The labels ls, then those of last: where both have a key, last wins.
WrittenOver(ls, last) ==
    [k \in DOMAIN ls \cup DOMAIN last |-> IF k \in DOMAIN last THEN last[k] ELSE ls[k]]

\* The labels of a new server: the management labels overwrite spec.labels.
ServerLabels(c, labels) == WrittenOver(labels, ManagementLabels(c))

\* resolveNodeClass in Create.
ReadNodeClass(c) ==
    /\ claim[c].phase = "pending"
    /\ claim' = [claim EXCEPT ![c].phase = "creating", ![c].copy = spec]
    /\ cause' = [cause EXCEPT ![c] = {}]
    /\ UNCHANGED <<server, node, check, drifted, world, replaced>>

\* The server hcloud creates from the options Create passes, showing an image.
ServerFor(c, sp, t, z, image) ==
    [image |-> image, networks |-> IF sp.network > 0 THEN {sp.network} ELSE {},
     firewalls |-> sp.firewalls, type |-> t, location |-> z, labels |-> ServerLabels(c, sp.labels)]

\* Fault: the labels of the instance type are not merged in.
HydrateUntyped(s) == [NewClaim EXCEPT !.phase = "launched", !.imageID = s.image]

\* The NodeClaim hydrated from the server of hcloud's answer: one that shows no
\* image leaves status.imageID empty.
Hydrate(s) == [NewClaim EXCEPT !.phase = "launched", !.imageID = s.image, !.type = s.type]

\* The server is created, of some type and in some location of the copy.  hcloud's
\* answer may show its image or none.
CreateServer(c) ==
    /\ claim[c].phase = "creating"
    /\ \E t \in Types, z \in claim[c].copy.locations :
         LET sp == claim[c].copy
             img == Resolve(images, sp.imageSelector, ArchOf[t])
         IN  /\ img # NoImage
             /\ server' = [server EXCEPT ![c] = ServerFor(c, sp, t, z, img.id)]
             /\ \E shown \in {img.id, NoImage} :
                   claim' = [claim EXCEPT ![c] = Hydrate(ServerFor(c, sp, t, z, shown))]
    /\ node' = [node EXCEPT ![c] = "True"]
    /\ UNCHANGED <<check, drifted, world, cause, replaced>>

\* Create finds no image.  Core calls Create again.
CreateNoImage(c) ==
    /\ claim[c].phase = "creating"
    /\ \E t \in Types : Resolve(images, claim[c].copy.imageSelector, ArchOf[t]) = NoImage
    /\ claim' = [claim EXCEPT ![c] = NewClaim]
    /\ UNCHANGED <<server, node, check, drifted, world, cause, replaced>>

\* Create fails for any other reason, or the controller restarts.
CreateFails(c) ==
    /\ claim[c].phase = "creating" /\ faults < MaxFaults
    /\ claim' = [claim EXCEPT ![c] = NewClaim]
    /\ faults' = faults + 1
    /\ UNCHANGED <<server, node, check, drifted, spec, images, edits, touches, cause, replaced>>

-----------------------------------------------------------------------------
(* IsDrifted.                                                              *)

\* Fault: the firewalls must be exactly those of the NodeClass.
FirewallsExact(s, sp) == sp.firewalls # s.firewalls

\* Every firewall of the NodeClass must be attached; others may be.
FirewallDrifts(s, sp) == ~(sp.firewalls \subseteq s.firewalls)

\* Fault: a server whose image is gone is compared too.
ImageDriftsAnyway(cl, s) == cl.imageID # s.image

\* The image recorded at launch, where both are known.
ImageDrifts(cl, s) == cl.imageID # NoImage /\ s.image # NoImage /\ cl.imageID # s.image

\* Every label of the NodeClass must be on the server; others may be.
LabelsDrift(s, sp) ==
    \E k \in DOMAIN sp.labels : k \notin DOMAIN s.labels \/ s.labels[k] # sp.labels[k]

\* The comparisons of IsDrifted for a claim, its server and a NodeClass.
Drifts(cl, s, sp) ==
    [ImageDrift |-> ImageDrifts(cl, s),
     NetworkDrift |-> sp.network > 0 /\ sp.network \notin s.networks,
     FirewallDrift |-> FirewallDrifts(s, sp),
     ServerTypeDrift |-> cl.type # "none" /\ s.type # cl.type,
     LocationDrift |-> sp.locations # {} /\ s.location \notin sp.locations,
     LabelsDrift |-> LabelsDrift(s, sp)]

\* The order the comparisons come in.
Order == <<"ImageDrift", "NetworkDrift", "FirewallDrift",
           "ServerTypeDrift", "LocationDrift", "LabelsDrift">>

\* The answers of IsDrifted: the first reason that applies; none for a server
\* that is gone.
Answer(cl, s, sp) ==
    IF s = NoServer \/ \A r \in Reasons : ~Drifts(cl, s, sp)[r] THEN NoReason
    ELSE LET first == CHOOSE i \in DOMAIN Order :
                         /\ Drifts(cl, s, sp)[Order[i]]
                         /\ \A k \in 1..(i - 1) : ~Drifts(cl, s, sp)[Order[k]]
         IN  Order[first]

\* resolveNodeClass in IsDrifted.
CheckStart(c) ==
    /\ claim[c].phase = "launched" /\ check[c] = NoSpec
    /\ check' = [check EXCEPT ![c] = spec]
    /\ UNCHANGED <<claim, server, node, drifted, world, cause, replaced>>

\* Get and the comparisons; core sets or clears the Drifted condition.
CheckEnd(c) ==
    /\ check[c] # NoSpec
    /\ drifted' = [drifted EXCEPT ![c] = Answer(claim[c], server[c], check[c])]
    /\ check' = [check EXCEPT ![c] = NoSpec]
    /\ UNCHANGED <<claim, server, node, world, cause, replaced>>

\* One of the two reads fails: IsDrifted returns an error and core leaves the
\* condition as it is.
CheckFails(c) ==
    /\ check[c] # NoSpec /\ faults < MaxFaults
    /\ check' = [check EXCEPT ![c] = NoSpec]
    /\ faults' = faults + 1
    /\ UNCHANGED <<claim, server, node, drifted, spec, images, edits, touches, cause, replaced>>

-----------------------------------------------------------------------------
(* What core does with the answers.                                        *)

\* The NodeClaim and its server are deleted, and core makes another.
Replace(c) ==
    /\ claim' = [claim EXCEPT ![c] = NewClaim]
    /\ server' = [server EXCEPT ![c] = NoServer]
    /\ check' = [check EXCEPT ![c] = NoSpec]
    /\ drifted' = [drifted EXCEPT ![c] = NoReason]
    /\ node' = [node EXCEPT ![c] = "True"]
    /\ cause' = [cause EXCEPT ![c] = {}]
    /\ replaced' = [replaced EXCEPT ![c] = @ + 1]
    /\ UNCHANGED world

\* Disruption replaces a drifted node.
DisruptDrifted(c) == drifted[c] # NoReason /\ Replace(c)

\* Fault: a node that stopped reporting is left alone.
RepairFalseOnly == {[status |-> "False", toleration |-> 5]}

\* RepairPolicies, of the Ready condition: False or Unknown for five minutes.
RepairPolicies == {[status |-> st, toleration |-> 5] : st \in {"False", "Unknown"}}

\* Core replaces a node that has been in a status of the policies for as long
\* as they tolerate.
Repair(c) ==
    /\ claim[c].phase = "launched"
    /\ \E p \in RepairPolicies : node[c] = p.status
    /\ Replace(c)

\* List returns the server: its labels say it is managed by this cluster.
Listed(s) ==
    /\ s # NoServer
    /\ \A k \in {"managed-by", "cluster"} :
          k \in DOMAIN s.labels /\ s.labels[k] = ManagementLabels("any")[k]

\* Core's garbage collection does not find the server in List, nor the node ready.
GarbageCollect(c) ==
    /\ claim[c].phase = "launched" /\ ~Listed(server[c]) /\ node[c] # "True"
    /\ Replace(c)

-----------------------------------------------------------------------------
(* The surroundings.                                                       *)

\* Anything of the spec is edited.
EditSpec ==
    /\ edits < MaxEdits /\ edits' = edits + 1
    /\ spec' \in Specs \ {spec}
    /\ cause' = [c \in Claims |-> IF claim[c].phase = "pending" THEN {} ELSE cause[c] \cup {"edit"}]
    /\ UNCHANGED <<claim, server, node, check, drifted, images, touches, faults, replaced>>

Touched(c) ==
    /\ claim[c].phase = "launched" /\ server[c] # NoServer
    /\ touches[c] < MaxTouches /\ touches' = [touches EXCEPT ![c] = @ + 1]
    /\ UNCHANGED <<claim, node, check, drifted, spec, images, edits, faults, replaced>>

\* Somebody takes from the server what it was created with: the network or a
\* firewall is detached, it is resized, rebuilt from another image, loses a
\* label or is deleted.
Damage(c) ==
    /\ Touched(c)
    /\ cause' = [cause EXCEPT ![c] = @ \cup {"touch"}]
    /\ \/ server' = [server EXCEPT ![c].networks = {}]
       \/ \E f \in server[c].firewalls : server' = [server EXCEPT ![c].firewalls = @ \ {f}]
       \/ \E t \in Types \ {server[c].type} : server' = [server EXCEPT ![c].type = t]
       \/ \E i \in DOMAIN images : /\ images[i].id # server[c].image
                                   /\ server' = [server EXCEPT ![c].image = images[i].id]
       \/ \E k \in DOMAIN server[c].labels :
             server' = [server EXCEPT ![c].labels = [j \in DOMAIN @ \ {k} |-> @[j]]]
       \/ server' = [server EXCEPT ![c] = NoServer]

\* Somebody adds a firewall or a label of his own: that is not drift.
Adorn(c) ==
    /\ Touched(c)
    /\ UNCHANGED cause
    /\ \/ server' = [server EXCEPT ![c].firewalls = @ \cup {0}]
       \/ server' = [server EXCEPT ![c].labels = WrittenOver([k \in {"note"} |-> "by hand"], @)]

\* The node's kubelet reports a failure or stops reporting; or it recovers.
NodeFails(c) ==
    /\ claim[c].phase = "launched" /\ node[c] = "True" /\ server[c] # NoServer
    /\ touches[c] < MaxTouches /\ touches' = [touches EXCEPT ![c] = @ + 1]
    /\ \E st \in NodeStatus \ {"True"} : node' = [node EXCEPT ![c] = st]
    /\ cause' = [cause EXCEPT ![c] = @ \cup {"failure"}]
    /\ UNCHANGED <<claim, server, check, drifted, spec, images, edits, faults, replaced>>

NodeRecovers(c) ==
    /\ node[c] # "True" /\ server[c] # NoServer
    /\ node' = [node EXCEPT ![c] = "True"]
    /\ UNCHANGED <<claim, server, check, drifted, world, cause, replaced>>

\* A node without a server stops reporting.
NodeLost(c) ==
    /\ claim[c].phase = "launched" /\ node[c] # "Unknown" /\ server[c] = NoServer
    /\ node' = [node EXCEPT ![c] = "Unknown"]
    /\ UNCHANGED <<claim, server, check, drifted, world, cause, replaced>>

\* Images are published, withdrawn or listed in another order; a server whose
\* image is withdrawn shows none.
ImagesChange ==
    /\ faults < MaxFaults /\ faults' = faults + 1
    /\ images' \in Listings \ {images}
    /\ server' = [c \in Claims |->
          IF server[c] = NoServer \/ \E i \in DOMAIN images' : images'[i].id = server[c].image
          THEN server[c] ELSE [server[c] EXCEPT !.image = NoImage]]
    /\ UNCHANGED <<claim, node, check, drifted, spec, edits, touches, cause, replaced>>

Init ==
    /\ spec \in Specs /\ images \in Listings
    /\ claim = [c \in Claims |-> NewClaim]
    /\ server = [c \in Claims |-> NoServer] /\ node = [c \in Claims |-> "True"]
    /\ check = [c \in Claims |-> NoSpec] /\ drifted = [c \in Claims |-> NoReason]
    /\ edits = 0 /\ touches = [c \in Claims |-> 0] /\ faults = 0
    /\ cause = [c \in Claims |-> {}] /\ replaced = [c \in Claims |-> 0]

Create(c) == ReadNodeClass(c) \/ CreateServer(c) \/ CreateNoImage(c)

Next ==
    \/ \E c \in Claims : \/ Create(c) \/ CreateFails(c)
                         \/ CheckStart(c) \/ CheckEnd(c) \/ CheckFails(c)
                         \/ DisruptDrifted(c) \/ Repair(c) \/ GarbageCollect(c)
                         \/ Damage(c) \/ Adorn(c) \/ NodeFails(c)
                         \/ NodeRecovers(c) \/ NodeLost(c)
    \/ EditSpec \/ ImagesChange

Spec == Init /\ [][Next]_vars

\* Core calls Create until it returns a server, checks every NodeClaim for drift
\* again and again, and disrupts, repairs and collects.
FairSpec ==
    /\ Spec
    /\ \A c \in Claims :
          /\ WF_vars(Create(c)) /\ WF_vars(NodeLost(c))
          /\ WF_vars(CheckStart(c)) /\ WF_vars(CheckEnd(c))
          /\ WF_vars(DisruptDrifted(c)) /\ WF_vars(Repair(c)) /\ WF_vars(GarbageCollect(c))

-----------------------------------------------------------------------------
(* Properties.                                                             *)

\* Every variable keeps its type, and a launched claim has recorded its server.
TypeOK ==
    /\ spec \in Specs /\ images \in Listings
    /\ \A c \in Claims :
          /\ claim[c].phase \in {"pending", "creating", "launched"}
          /\ claim[c].copy \in Specs \cup {NoSpec} /\ (claim[c].phase = "creating" => claim[c].copy # NoSpec)
          /\ claim[c].phase = "launched" => claim[c].type \in Types
          /\ server[c] # NoServer =>
                /\ claim[c].phase = "launched"
                /\ server[c].type \in Types /\ server[c].location \in Zones
          /\ node[c] \in NodeStatus /\ check[c] \in Specs \cup {NoSpec}
          /\ drifted[c] \in Reasons \cup {NoReason}
          /\ cause[c] \subseteq {"edit", "touch", "failure"}
          /\ replaced[c] \in Nat /\ touches[c] \in 0..MaxTouches
    /\ edits \in 0..MaxEdits /\ faults \in 0..MaxFaults

\* A node is called drifted only if the NodeClass was edited or the server
\* changed by hand since its Create read the NodeClass: not because a Create and
\* an edit raced, nor for firewalls and labels of others, nor because images were
\* published, withdrawn or listed in another order (IsDrifted).
NoCauselessDrift ==
    \A c \in Claims : drifted[c] # NoReason => cause[c] \cap {"edit", "touch"} # {}

\* A NodeClaim is not replaced over and over: every replacement answers an edit
\* or a change behind karpenter's back of its own (IsDrifted, RepairPolicies).
ReplacementsBounded == \A c \in Claims : replaced[c] <= edits + touches[c]

\* Every image lookup on a listing that could be read gives a right answer,
\* however images are published, withdrawn or reordered: of Talos the newest
\* wherever it is listed, of Ubuntu the first listed (Resolve).
LookupsRight ==
    \A s \in Specs, t \in Types :
        RightAnswer(Resolve(images, s.imageSelector, ArchOf[t]), images, s.imageSelector, ArchOf[t])

\* The server has everything the NodeClass asks for.
Conforms(s, sp) ==
    /\ sp.network = 0 \/ sp.network \in s.networks
    /\ sp.firewalls \subseteq s.firewalls
    /\ s.location \in sp.locations
    /\ \A k \in DOMAIN sp.labels : k \in DOMAIN s.labels /\ s.labels[k] = sp.labels[k]

\* The server shows the image recorded at launch, as far as both are known.
ImageKept(cl, s) == cl.imageID = NoImage \/ s.image \in {cl.imageID, NoImage}

Healthy(c) ==
    /\ claim[c].phase = "launched" /\ server[c] # NoServer /\ node[c] = "True"
    /\ drifted[c] = NoReason
    /\ server[c].type = claim[c].type /\ ImageKept(claim[c], server[c])
    /\ Conforms(server[c], spec)

\* There is an image for every server type.
Launchable == \A t \in Types : Resolve(images, spec.imageSelector, ArchOf[t]) # NoImage

\* Once edits and interference stop, every NodeClaim has a server that is as it
\* was launched and has all the NodeClass asks for, and is left alone: drift seen
\* on a stale copy of the NodeClass is taken back or acted on, and a node that
\* stopped reporting is replaced (IsDrifted, RepairPolicies).
Settles == (<>[]Launchable) => <>[](\A c \in Claims : Healthy(c))

\* Labels that karpenter itself puts on a server never count as drift (IsDrifted).
ManagementLabelsPermitted == \A c \in Claims : drifted[c] = "LabelsDrift" => cause[c] # {}

\* In the end no node whose image was recorded runs one that its NodeClass does not
\* select: "image [...] drift trigger[s] node replacement" (README).
ImagesFollowSelector ==
    (<>[]Launchable) =>
        <>[](\A c \in Claims : server[c] # NoServer /\ claim[c].imageID # NoImage =>
                \A i \in DOMAIN images : images[i].id = server[c].image =>
                    Answers(images[i], spec.imageSelector, ArchOf[server[c].type]))

\* A server made for a selector without a version gets the newest image of its
\* family: "omit to always get the newest" (examples/ubuntu-nodeclass.yaml).
NewestByDefault ==
    [][\A c \in Claims :
          LET selector == claim[c].copy.imageSelector
          IN  server[c] = NoServer /\ server'[c] # NoServer /\ selector.version = NoVersion =>
                \A i, k \in DOMAIN images :
                    /\ images[i].id = server'[c].image
                    /\ Answers(images[k], selector, ArchOf[server'[c].type])
                    => images[k].created <= images[i].created]_vars

=============================================================================
