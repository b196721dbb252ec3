----------------------------- MODULE WaitQueue -----------------------------
(***************************************************************************)
(* The wait queues of d-os (waitq_* in kernel/core/task.c, contract in     *)
(* waitq.h) as their callers use them: consumers that loop on a condition  *)
(* under the queue's lock, producers that set it and wake, and killers     *)
(* that must get a parked task out without the condition.                  *)
(*                                                                         *)
(* A producer's critical section is one step.  A consumer holds the lock   *)
(* across several steps, because the killer's first half (kill_pending,    *)
(* then the read of t->wq) takes no lock at all.  What happens to a task   *)
(* between RUNNABLE and running is Scheduler's: here a RUNNABLE task runs. *)
(***************************************************************************)
CONSTANTS Waiters,   \* tasks that block
          Killers,   \* callers of task_kill and task_signal_wake
          Queues,    \* struct waitq
          BlocksOn,  \* the queues each waiter ever blocks on
          Null       \* the null pointer; also "lock free"

ASSUME NullAssumption == Null \notin Waiters /\ Null \notin Queues
ASSUME BlocksOnAssumption == BlocksOn \in [Waiters -> SUBSET Queues]

VARIABLES
  lock,     \* wq->lock: the waiter that holds it across steps, or Null
  ready,    \* the condition the queue guards
  linked,   \* wq->head: the tasks on the queue's list
  wq,       \* task->wq
  state,    \* task->state
  kill_pending,
  pc, at,   \* where the waiter is, and the queue it deals with
  kop, ktgt, kwq  \* what a killer has in hand: step, task, the queue it read

waitVars == <<lock, ready, linked, wq, state, kill_pending, pc, at>>
killVars == <<kop, ktgt, kwq>>
wqVars == <<waitVars, killVars>>

(* The types; and a killer never goes on with a null queue in hand.        *)
WaitTypeOK ==
  /\ lock \in [Queues -> Waiters \cup {Null}]
  /\ ready \in [Queues -> BOOLEAN]
  /\ linked \in [Queues -> SUBSET Waiters]
  /\ wq \in [Waiters -> Queues \cup {Null}]
  /\ state \in [Waiters -> {"runnable", "sleeping"}]
  /\ kill_pending \in [Waiters -> BOOLEAN]
  /\ pc \in [Waiters -> {"idle", "test", "block", "marked", "parked", "gone"}]
  /\ at \in [Waiters -> Queues \cup {Null}]
  /\ kop \in [Killers -> {"idle", "flagged", "wake"}]
  /\ ktgt \in [Killers -> Waiters \cup {Null}]
  /\ kwq \in [Killers -> Queues \cup {Null}]
  /\ \A k \in Killers : kop[k] = "wake" => kwq[k] # Null

WaitInit ==
  /\ lock = [q \in Queues |-> Null]
  /\ ready = [q \in Queues |-> FALSE]
  /\ linked = [q \in Queues |-> {}]
  /\ wq = [t \in Waiters |-> Null]
  /\ state = [t \in Waiters |-> "runnable"]
  /\ kill_pending = [t \in Waiters |-> FALSE]
  /\ pc = [t \in Waiters |-> "idle"]
  /\ at = [t \in Waiters |-> Null]
  /\ kop = [k \in Killers |-> "idle"]
  /\ ktgt = [k \in Killers |-> Null]
  /\ kwq = [k \in Killers |-> Null]

-----------------------------------------------------------------------------
(* A consumer: lock; while (!ready) { if (stop) break; waitq_block; }.     *)

Go(t, p) == pc' = [pc EXCEPT ![t] = p]

Unlock(q) == lock' = [lock EXCEPT ![q] = Null]

(* waitq_lock.                                                             *)
waitq_lock(t, q) ==
  /\ pc[t] = "idle" /\ lock[q] = Null
  /\ lock' = [lock EXCEPT ![q] = t]
  /\ at' = [at EXCEPT ![t] = q]
  /\ Go(t, "test")
  /\ UNCHANGED <<ready, linked, wq, state, kill_pending, killVars>>

(* The loop's test, with the lock held: the condition, task_should_stop(), *)
(* or else the decision to block.                                          *)
TestMutant(t) ==
  /\ pc[t] = "test"
  /\ ~ready[at[t]] /\ ~kill_pending[t]
  /\ Unlock(at[t])
  /\ Go(t, "block")
  /\ UNCHANGED <<ready, linked, wq, state, kill_pending, at, killVars>>

Test(t) ==
  /\ pc[t] = "test"
  /\ ~ready[at[t]] /\ ~kill_pending[t]
  /\ Go(t, "block")
  /\ UNCHANGED <<lock, ready, linked, wq, state, kill_pending, at, killVars>>

Consume(t) ==
  /\ pc[t] = "test" /\ ready[at[t]]
  /\ ready' = [ready EXCEPT ![at[t]] = FALSE]
  /\ Unlock(at[t])
  /\ Go(t, "idle")
  /\ at' = [at EXCEPT ![t] = Null]
  /\ UNCHANGED <<linked, wq, state, kill_pending, killVars>>

Stop(t) ==
  /\ pc[t] = "test" /\ ~ready[at[t]] /\ kill_pending[t]
  /\ Unlock(at[t])
  /\ Go(t, "gone")
  /\ at' = [at EXCEPT ![t] = Null]
  /\ UNCHANGED <<ready, linked, wq, state, kill_pending, killVars>>

(* waitq_block: register and mark ...                                      *)
waitq_block(t) ==
  /\ pc[t] = "block"
  /\ linked' = [linked EXCEPT ![at[t]] = @ \cup {t}]
  /\ wq' = [wq EXCEPT ![t] = at[t]]
  /\ state' = [state EXCEPT ![t] = "sleeping"]
  /\ Go(t, "marked")
  /\ UNCHANGED <<lock, ready, kill_pending, at, killVars>>

(* ... commit by dropping the lock, unless a waker came first: then unlink *)
(* and return to the loop with the lock still held.                        *)
Commit(t) ==
  /\ pc[t] = "marked"
  /\ IF state[t] = "sleeping"
     THEN Go(t, "parked") /\ Unlock(at[t]) /\ UNCHANGED <<linked, wq>>
     ELSE /\ Go(t, "test")
          /\ linked' = [linked EXCEPT ![at[t]] = @ \ {t}]
          /\ wq' = [wq EXCEPT ![t] = Null]
          /\ UNCHANGED lock
  /\ UNCHANGED <<ready, state, kill_pending, at, killVars>>

(* schedule() returns: take the lock again for the loop's re-check.        *)
Resume(t) ==
  /\ pc[t] = "parked" /\ state[t] = "runnable" /\ lock[at[t]] = Null
  /\ lock' = [lock EXCEPT ![at[t]] = t]
  /\ wq' = [wq EXCEPT ![t] = Null]
  /\ Go(t, "test")
  /\ UNCHANGED <<ready, linked, state, kill_pending, at, killVars>>

(* The slot of a task that is gone is used for a new one.                  *)
Respawn(t) ==
  /\ pc[t] = "gone" /\ \A k \in Killers : ktgt[k] # t
  /\ Go(t, "idle")
  /\ kill_pending' = [kill_pending EXCEPT ![t] = FALSE]
  /\ UNCHANGED <<lock, ready, linked, wq, state, at, killVars>>

-----------------------------------------------------------------------------
(* A producer: lock; ready = 1; waitq_wake_all; unlock.                    *)

(* wq_wake_locked(wq, 1): drain the list, wake who sleeps.                 *)
wq_wake_all(q) ==
  /\ linked' = [linked EXCEPT ![q] = {}]
  /\ wq' = [t \in Waiters |-> IF t \in linked[q] THEN Null ELSE wq[t]]
  /\ state' = [t \in Waiters |-> IF t \in linked[q] THEN "runnable" ELSE state[t]]

ProduceMutant(q) ==
  /\ lock[q] = Null
  /\ ready' = [ready EXCEPT ![q] = TRUE]
  /\ UNCHANGED <<lock, linked, wq, state, kill_pending, pc, at, killVars>>

Produce(q) ==
  /\ lock[q] = Null
  /\ ready' = [ready EXCEPT ![q] = TRUE]
  /\ wq_wake_all(q)
  /\ UNCHANGED <<lock, kill_pending, pc, at, killVars>>

-----------------------------------------------------------------------------
(* task_kill, and task_signal_wake, which wakes without the flag.          *)

Hold(k, op, t, q) ==
  /\ kop' = [kop EXCEPT ![k] = op]
  /\ ktgt' = [ktgt EXCEPT ![k] = t]
  /\ kwq' = [kwq EXCEPT ![k] = q]

task_kill(k, t) ==
  /\ kop[k] = "idle" /\ pc[t] # "gone"
  /\ kill_pending' = [kill_pending EXCEPT ![t] = TRUE]
  /\ Hold(k, "flagged", t, Null)
  /\ UNCHANGED <<lock, ready, linked, wq, state, pc, at>>

task_signal_wake(k, t) ==
  /\ kop[k] = "idle" /\ pc[t] # "gone"
  /\ Hold(k, "flagged", t, Null)
  /\ UNCHANGED waitVars

(* wake_waitq_sleeper reads t->wq without a lock; NULL is "not parked".    *)
ReadWq(k) ==
  /\ kop[k] = "flagged"
  /\ IF wq[ktgt[k]] = Null
     THEN Hold(k, "idle", Null, Null)
     ELSE Hold(k, "wake", ktgt[k], wq[ktgt[k]])
  /\ UNCHANGED waitVars

(* ... then locks that queue, unlinks the task if it finds it there, and   *)
(* wakes it if it sleeps.                                                  *)
WakeSleeperMutant(k) ==
  LET t == ktgt[k]
      q == kwq[k] IN
  /\ kop[k] = "wake" /\ lock[q] = Null
  /\ wq' = [wq EXCEPT ![t] = Null]
  /\ state' = [state EXCEPT ![t] = "runnable"]
  /\ Hold(k, "idle", Null, Null)
  /\ UNCHANGED <<lock, ready, linked, kill_pending, pc, at>>

wake_waitq_sleeper(k) ==
  LET t == ktgt[k]
      q == kwq[k] IN
  /\ kop[k] = "wake" /\ lock[q] = Null
  /\ linked' = [linked EXCEPT ![q] = @ \ {t}]
  /\ wq' = [wq EXCEPT ![t] = Null]
  /\ state' = [state EXCEPT ![t] = "runnable"]
  /\ Hold(k, "idle", Null, Null)
  /\ UNCHANGED <<lock, ready, kill_pending, pc, at>>

-----------------------------------------------------------------------------
Inside(t) == Test(t) \/ Consume(t) \/ Stop(t) \/ waitq_block(t) \/ Commit(t) \/ Resume(t)

KillerNext(k) ==
  \/ ReadWq(k) \/ wake_waitq_sleeper(k)
  \/ \E t \in Waiters : task_kill(k, t) \/ task_signal_wake(k, t)

WaitNext ==
  \/ \E t \in Waiters : Inside(t) \/ Respawn(t) \/ \E q \in BlocksOn[t] : waitq_lock(t, q)
  \/ \E q \in Queues : Produce(q)
  \/ \E k \in Killers : KillerNext(k)

WaitSpec == WaitInit /\ [][WaitNext]_wqVars

(* A RUNNABLE task runs and a lock holder proceeds (Scheduler's job); when *)
(* a task waits for a spinlock that is free again and again it gets it     *)
(* some time: test-and-set promises no more than that the contenders are   *)
(* not all starved, so the fairness is on the group of a queue's waiters.  *)
WaitFairness ==
  \A q \in Queues : WF_wqVars(\E t \in Waiters : at[t] = q /\ Inside(t))

WaitLiveSpec == WaitSpec /\ WaitFairness

-----------------------------------------------------------------------------
(* A wake that comes too late: since the killer read t->wq its target has  *)
(* gone to sleep on another queue.                                         *)
StaleWake(k) ==
  wake_waitq_sleeper(k) /\ state[ktgt[k]] = "sleeping" /\ at[ktgt[k]] # kwq[k]

NoStaleWake == [][\A k \in Killers : ~StaleWake(k)]_wqVars

(* The list and the back pointer agree, and name exactly the tasks that    *)
(* sleep in waitq_block on that queue: a kill can find every sleeper, no   *)
(* task is registered twice, and none leaves waitq_block (to exit and be   *)
(* freed) while its structure is still on a list.                          *)
LinkedExact ==
  \A t \in Waiters, q \in Queues :
    /\ t \in linked[q] <=> wq[t] = q
    /\ t \in linked[q] => at[t] = q /\ pc[t] \in {"marked", "parked"} /\ state[t] = "sleeping"
    /\ state[t] = "sleeping" /\ at[t] = q => t \in linked[q]

(* No wake is lost: when nobody is inside the queue's critical section and *)
(* its condition holds, nobody sleeps on it (waitq.h's argument for        *)
(* testing and parking under one lock).                                    *)
NoLostWakeup ==
  \A q \in Queues : ready[q] /\ lock[q] = Null =>
    \A t \in Waiters : pc[t] = "parked" /\ at[t] = q => state[t] = "runnable"

(* A condition that holds while somebody waits for it is taken some time,  *)
(* or everybody who waited is gone.                                        *)
ConditionTaken ==
  \A q \in Queues :
    (ready[q] /\ \E t \in Waiters : at[t] = q) ~> (~ready[q] \/ \A t \in Waiters : at[t] # q)

(* waitq_block's own rule for its early return, which holds for every      *)
(* return: a task that has left waitq_block is on no list, or "the         *)
(* caller's retry [would] register us a SECOND time".                      *)
ReturnsUnlinked ==
  \A t \in Waiters, q \in Queues : t \in linked[q] => pc[t] \in {"marked", "parked"}

(* wake_waitq_sleeper's purpose: a parked task "has to be killable without *)
(* [its event] arriving", so a killed task does not stay asleep once the   *)
(* killer has done its work.                                               *)
KillReachesSleeper ==
  \A t \in Waiters :
    kill_pending[t] /\ pc[t] = "parked" /\ state[t] = "sleeping" =>
      \E k \in Killers : ktgt[k] = t

-----------------------------------------------------------------------------
(* The inductive invariant, as long as no wake is stale.                   *)

(* The lock is held exactly from waitq_lock to the commit or the exit.     *)
LockExact ==
  \A t \in Waiters, q \in Queues :
    lock[q] = t <=> at[t] = q /\ pc[t] \in {"test", "block", "marked"}

(* A waiter deals with a queue of its own exactly while it is in the loop. *)
AtExact ==
  \A t \in Waiters :
    /\ at[t] = Null <=> pc[t] \in {"idle", "gone"}
    /\ at[t] # Null => at[t] \in BlocksOn[t]
    /\ state[t] = "sleeping" => pc[t] \in {"marked", "parked"}

(* A killer has a queue in hand only together with a task.                 *)
KillerExact ==
  \A k \in Killers :
    /\ kop[k] = "idle" <=> ktgt[k] = Null
    /\ kwq[k] # Null => ktgt[k] # Null

(* The condition is false from the test to the wake.                       *)
WaitsForFalse ==
  \A t \in Waiters, q \in Queues : at[t] = q =>
    /\ pc[t] \in {"block", "marked"} => ~ready[q]
    /\ pc[t] = "parked" /\ state[t] = "sleeping" => ~ready[q]

WaitInv == WaitTypeOK /\ LinkedExact /\ LockExact /\ AtExact /\ KillerExact /\ WaitsForFalse
=============================================================================
