---------------------------- MODULE MCRunQueue ----------------------------
(* RunQueue with interchangeable contexts and tasks.                       *)
EXTENDS RunQueue, TLC

Perms == Permutations(Procs) \cup Permutations(Tasks)
=============================================================================
