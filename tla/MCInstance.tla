------------------------------ MODULE MCInstance ------------------------------
(***************************************************************************)
(* Instances of Instance for TLC: NodeClaims of two clusters that share a  *)
(* Hetzner project.  A NodeClass of cluster a asks for a cluster label of  *)
(* its own.                                                                *)
(***************************************************************************)
EXTENDS Instance, TLC

CONSTANTS a1, a2, b1

\* a1 and a2 are in cluster "prod", b1 in "prod-eu".
MCClusterOf == [c \in Claims |-> IF c = b1 THEN <<"prod", "eu">> ELSE <<"prod">>]

\* Every pool is called "spot".
SamePools == [c \in Claims |-> <<"spot">>]

\* Cluster "prod" calls its pool "eu-spot".
HyphenatedPools == [c \in Claims |-> IF c = b1 THEN <<"spot">> ELSE <<"eu", "spot">>]

\* The NodeClass of cluster "prod-eu" is switched between the two strategies.
MCStrategies == [c \in Claims |-> IF c = b1 THEN {"spread", "none"} ELSE {"spread"}]

ClashingLabels ==
    [c \in Claims |-> IF c = b1 THEN << >> ELSE ("cluster" :> <<"prod", "eu">>) @@ ("team" :> "x")]

=============================================================================
