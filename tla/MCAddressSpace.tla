--------------------------- MODULE MCAddressSpace ---------------------------
(* Threads of one program, some of which run another program, for TLC.      *)
EXTENDS AddressSpace, TLC
CONSTANTS t1, t2, t3, t4, s1, s2, s3
(* The threads are alike, and so are the spaces not yet used.               *)
Alike == Permutations(Tasks \ {Root}) \cup Permutations(Spaces \ {Home})
=============================================================================
