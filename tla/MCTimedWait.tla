---------------------------- MODULE MCTimedWait ----------------------------
(* TimedWait with one sleeper and one futex waiter.                        *)
EXTENDS TimedWait
=============================================================================
