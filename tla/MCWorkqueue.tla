---------------------------- MODULE MCWorkqueue ----------------------------
(* Workqueue on one and on two CPUs.                                       *)
EXTENDS Workqueue
=============================================================================
