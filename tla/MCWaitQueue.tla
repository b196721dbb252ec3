---------------------------- MODULE MCWaitQueue ----------------------------
(* WaitQueue with two waiters on one queue and a third on another, and     *)
(* with one waiter that blocks on either queue.                            *)
EXTENDS WaitQueue, TLC
CONSTANTS t1, t2, t3, q1, q2

Apart == (t1 :> {q1}) @@ (t2 :> {q1}) @@ (t3 :> {q2})
Either == (t1 :> {q1, q2})
OnlyFirst == (t1 :> {q1})
=============================================================================
