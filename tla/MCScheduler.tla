---------------------------- MODULE MCScheduler ----------------------------
(* Scheduler on two CPUs.                                                  *)
EXTENDS Scheduler, TLC

Perms == Permutations(Wakers) \cup Permutations(Reapers)

First == CHOOSE u \in Tasks : TRUE

(* Nobody calls task_set_affinity.                                         *)
NoMasks == [t \in Tasks |-> {}]

(* taskset of any task to either CPU alone.                                *)
OneCpuMasks == [t \in Tasks |-> {{c} : c \in CPU}]

(* taskset of the first task to CPU 0.                                     *)
FirstToZero == [t \in Tasks |-> IF t = First THEN {{0}} ELSE {}]

(* The first task sleeps in task_msleep and stops, the others block on     *)
(* wait queues.                                                            *)
HalfAndHalf ==
  [t \in Tasks |-> IF t = First
                   THEN {"timed", "stopped"} ELSE {"waitq"}]

(* Tasks that only ever block on wait queues.                              *)
WaitqOnly == [t \in Tasks |-> {"waitq"}]

(* Every task does everything.                                             *)
AllSleeps == [t \in Tasks |-> Asleep]
=============================================================================
