--------------------------- MODULE MCRoundRobin ---------------------------
(* RoundRobin with a task of half a quantum and one of two quanta.         *)
EXTENDS RoundRobin, TLC

CONSTANTS t1, t2

LightAndHeavy == t1 :> 1 @@ t2 :> 4
Order == <<t1, t2>>
=============================================================================
