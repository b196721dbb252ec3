---------------------------- MODULE QueueOwner ----------------------------
(***************************************************************************)
(* What the run queues promise, without locks or links: at every moment a  *)
(* task belongs to one queue or to none, it changes hands in one step, and *)
(* once its exit has swept the queues it never belongs to one again.       *)
(* Scheduler takes this for granted; RunQueue is the code that provides it. *)
(***************************************************************************)
CONSTANTS Tasks, CPU, NoCpu

VARIABLES owner,    \* the queue each task belongs to, or NoCpu
          retired   \* the tasks whose exit has swept every queue

ovars == <<owner, retired>>

OwnerInit == owner = [t \in Tasks |-> NoCpu] /\ retired = {}

(* A waker, a spawner or a mover queues a task that is on no queue.        *)
Insert(t, c) ==
  /\ owner[t] = NoCpu /\ t \notin retired
  /\ owner' = [owner EXCEPT ![t] = c]
  /\ UNCHANGED retired

Remove(t) ==
  /\ owner[t] # NoCpu
  /\ owner' = [owner EXCEPT ![t] = NoCpu]
  /\ UNCHANGED retired

(* A migration is one transition: nobody sees the task on no queue.        *)
Move(t, c) ==
  /\ owner[t] \notin {NoCpu, c} /\ t \notin retired
  /\ owner' = [owner EXCEPT ![t] = c]
  /\ UNCHANGED retired

Retire(t) ==
  /\ owner[t] = NoCpu /\ t \notin retired
  /\ retired' = retired \cup {t}
  /\ UNCHANGED owner

OwnerNext ==
  \E t \in Tasks : \/ Remove(t) \/ Retire(t)
                   \/ \E c \in CPU : Insert(t, c) \/ Move(t, c)

OwnerSpec == OwnerInit /\ [][OwnerNext]_ovars
=============================================================================
