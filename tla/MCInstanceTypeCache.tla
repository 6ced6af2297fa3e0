------------------------- MODULE MCInstanceTypeCache -------------------------
(***************************************************************************)
(* An instance of InstanceTypeCache for TLC.  Version 1 of the catalogue   *)
(* lists every offering without a usable price; version 2 prices them all. *)
(***************************************************************************)
EXTENDS InstanceTypeCache

CONSTANTS t1, t2, o1

MCListed == [v \in Versions |-> Offerings]
MCPriced == [v \in Versions |-> IF v = 1 THEN {} ELSE Offerings]

=============================================================================
