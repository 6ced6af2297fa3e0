----------------------------- MODULE MCNodeClass -----------------------------
(***************************************************************************)
(* Instances of NodeClass for TLC: up to two selectors, an x86 and an arm  *)
(* image for the first, an x86 image for the second.                       *)
(***************************************************************************)
EXTENDS NodeClass

CONSTANTS s1, s2, i1, i2, i3, net, fw, secret, l1

MCArchOf == [i \in Images |-> IF i = i2 THEN "arm" ELSE "x86"]
MCSelectorOf == [i \in Images |-> IF i = i3 THEN s2 ELSE s1]

=============================================================================
