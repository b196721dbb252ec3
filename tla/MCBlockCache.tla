---------------------------- MODULE MCBlockCache ----------------------------
(* Instances of BlockCache for TLC: a volume of two sectors and a
   volume of one, a task on each. *)
EXTENDS BlockCache, TLC

CONSTANTS p1, p2, v1, v2

Sectors == <<v1, v1, v2>>
Users == (p1 :> v1 @@ p2 :> v2)
=============================================================================
