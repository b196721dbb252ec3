--------------------------- MODULE MCProcessTree ---------------------------
(* Small process trees for TLC.                                             *)
EXTENDS ProcessTree
CONSTANTS p1, p2, p3, p4

(* One child or two, or a child and a grandchild.                           *)
Small == {<<p1, p2>>, <<p1, p3>>, <<p2, p3>>}
(* The grandchild may also be spawned by somebody else under p2's pid.      *)
ByPid == {<<p2, p3>>}
(* Four generations.                                                        *)
Chain == {<<p1, p2>>, <<p2, p3>>, <<p3, p4>>}
=============================================================================
