------------------------------- MODULE MCDrift --------------------------------
(***************************************************************************)
(* Instances of Drift for TLC.                                             *)
(***************************************************************************)
EXTENDS Drift, SequencesExt, TLC

CONSTANTS c1

Snapshot(n, arch, v, at, ls) ==
    [id |-> n, type |-> "snapshot", arch |-> arch, mentions |-> {"talos"} \cup v, labels |-> ls, created |-> at]
System(n, arch, v, at) ==
    [id |-> n, type |-> "system", arch |-> arch, mentions |-> {"ubuntu"} \cup v, labels |-> {}, created |-> at]

\* Talos 1.10 for x86 and a later snapshot of 1.1, labelled; a snapshot for arm;
\* two releases of Ubuntu, and a snapshot that is not Talos.
Talos11 == Snapshot("t1", "x86", {"1.1"}, 2, {"pinned"})
Talos110 == Snapshot("t2", "x86", {"1.1", "1.10"}, 1, {})
TalosArm == Snapshot("t3", "arm", {"1.1", "1.10"}, 3, {"pinned"})
Backup == [Snapshot("b", "x86", {}, 9, {}) EXCEPT !.mentions = {"backup"}]
Ubuntu22 == System("u1", "x86", {"22.04"}, 1)
Ubuntu24 == System("u2", "x86", {"24.04"}, 2)
UbuntuArm == System("u3", "arm", {"24.04"}, 2)

Full == <<Backup, Talos110, Ubuntu24, Talos11, TalosArm, Ubuntu22, UbuntuArm>>
\* The same images in another order.
Reversed == Reverse(Full)
\* Talos 1.10 is withdrawn, and the older Ubuntu comes first.
Less == <<Talos11, Ubuntu22, TalosArm, UbuntuArm, Ubuntu24>>
ThreeListings == {Full, Reversed, Less}

Talos(v, ls) == [family |-> "talos", version |-> v, labels |-> ls]
Ubuntu(v) == [family |-> "ubuntu", version |-> v, labels |-> {}]

TwoTypes == [cx |-> "x86", cax |-> "arm"]

NodeClassSpec(net, fws, zs, ls, sel) ==
    [network |-> net, firewalls |-> fws, locations |-> zs, labels |-> ls, imageSelector |-> sel]

TwoZones == {"nbg1", "fsn1"}
NoLabels == [k \in {} |-> ""]

ManySpecs ==
    {NodeClassSpec(1, {7}, {"nbg1"}, "team" :> "a", Talos(NoVersion, {})),
     NodeClassSpec(2, {7, 8}, TwoZones, NoLabels, Talos("1.10", {})),
     NodeClassSpec(1, {}, {"fsn1"}, "team" :> "b", Ubuntu("24.04")),
     NodeClassSpec(1, {}, {"fsn1"}, NoLabels, Talos("1.1", {"pinned"}))}

\* spec.labels uses a key of karpenter's own.
ManagedLabelSpecs ==
    {NodeClassSpec(1, {}, {"nbg1"}, "managed-by" :> "team-a", Talos(NoVersion, {}))}

\* The image selector asks for the newest Talos, or is pinned to 1.10; nothing
\* else changes.  The 1.10 snapshot answers both, the later 1.1 only the first.
RepinnedSpecs ==
    {NodeClassSpec(1, {}, {"nbg1"}, NoLabels, Talos(NoVersion, {})),
     NodeClassSpec(1, {}, {"nbg1"}, NoLabels, Talos("1.10", {}))}

\* Ubuntu, of whatever version.
UnpinnedSpecs == {NodeClassSpec(1, {}, {"nbg1"}, NoLabels, Ubuntu(NoVersion))}

OneListing == {Full}
OldestFirst == {Less}

=============================================================================
