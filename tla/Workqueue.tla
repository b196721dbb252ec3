----------------------------- MODULE Workqueue -----------------------------
(***************************************************************************)
(* Deferred work (kernel/core/workqueue.c): work_submit, the worker pool,  *)
(* work_flush.  The FIFO and the workers' wait queue share pending_wq's    *)
(* lock, the completion side has done_wq's; `inflight` is changed under    *)
(* either of the two.  Both are spinlocks taken with interrupts masked, so *)
(* on one CPU a critical section is not interleaved with anything, and on  *)
(* several it is interleaved with everything that takes the other lock.    *)
(*                                                                         *)
(* Parking and waking are WaitQueue's: here a worker tests and parks in    *)
(* one step, and a woken one tests again.                                  *)
(***************************************************************************)
EXTENDS Naturals, Sequences, SequencesExt

CONSTANTS MaxCpus,     \* the largest machine: smp_ncpus() is 1 .. MaxCpus
          Items,       \* struct work
          Submitters,  \* tasks and interrupt handlers
          Flushers,    \* tasks that call work_flush
          Killable,    \* the workers somebody may kill
          None,
          WQ_MAX_WORKERS,
          MaxInflight  \* bound on `inflight`, which a race can make drift up

Workers == 1 .. MaxCpus

ASSUME PoolAssumption ==
  /\ MaxCpus \in Nat \ {0} /\ WQ_MAX_WORKERS \in Nat \ {0} /\ MaxInflight \in Nat
  /\ None \notin Submitters \cup Workers
  /\ Submitters \cap Workers = {} /\ Items \cap Workers = {}
ASSUME KillableAssumption == Killable \subseteq Workers \ {1}

VARIABLES
  ncpus,     \* smp_ncpus(), found at boot
  q,         \* q_head .. q_tail
  queued,    \* work->queued
  inflight,
  plock,     \* the submitter inside pending_wq's critical section, or None
  dlock,     \* the worker inside done_wq's, or None
  seen,      \* the value of `inflight` each party has loaded
  wpc, job,  \* each worker: where it is, and the item it runs
  killed,    \* the workers with a kill pending
  sub,       \* the item each submitter is in the middle of submitting
  fpc,       \* each flusher: idle, waiting on done_wq, or back
  owed       \* what each flush still owes its caller (history variable)

vars == <<ncpus, q, queued, inflight, plock, dlock, seen, wpc, job, killed, sub, fpc, owed>>

TypeOK ==
  /\ ncpus \in 1 .. MaxCpus
  /\ q \in Seq(Items)
  /\ queued \subseteq Items
  /\ inflight \in 0 .. MaxInflight
  /\ plock \in Submitters \cup {None}
  /\ dlock \in Workers \cup {None}
  /\ seen \in [Submitters \cup Workers -> 0 .. MaxInflight]
  /\ wpc \in [Workers -> {"none", "loop", "parked", "run", "account", "store", "exited"}]
  /\ job \in [Workers -> Items \cup {None}]
  /\ killed \subseteq Killable
  /\ sub \in [Submitters -> Items \cup {None}]
  /\ fpc \in [Flushers -> {"idle", "waiting", "parked", "back"}]
  /\ owed \in [Flushers -> SUBSET (Items \cup Workers)]

(* workqueue_init: one worker per CPU, at most WQ_MAX_WORKERS.             *)
Init ==
  /\ ncpus \in 1 .. MaxCpus
  /\ q = <<>> /\ queued = {} /\ inflight = 0
  /\ plock = None /\ dlock = None
  /\ seen = [p \in Submitters \cup Workers |-> 0]
  /\ wpc = [w \in Workers |-> IF w <= ncpus /\ w <= WQ_MAX_WORKERS THEN "loop" ELSE "none"]
  /\ job = [w \in Workers |-> None]
  /\ killed = {}
  /\ sub = [s \in Submitters |-> None]
  /\ fpc = [f \in Flushers |-> "idle"]
  /\ owed = [f \in Flushers |-> {}]

(* Nobody holds a spinlock with interrupts off on the only CPU.            *)
CpuFree == ncpus > 1 \/ (plock = None /\ dlock = None)

-----------------------------------------------------------------------------
(* work_submit.  An item already queued is left as it is (no step).        *)

SubmitMutant(s, i) ==
  /\ CpuFree /\ plock = None
  /\ inflight < MaxInflight /\ Len(q) < MaxInflight
  /\ queued' = queued \cup {i}
  /\ q' = Append(q, i)
  /\ seen' = [seen EXCEPT ![s] = inflight]
  /\ sub' = [sub EXCEPT ![s] = i]
  /\ plock' = s
  /\ UNCHANGED <<ncpus, inflight, dlock, wpc, job, killed, fpc, owed>>

(* Link the item and load the counter ...                                  *)
work_submit(s, i) ==
  /\ CpuFree /\ plock = None
  /\ i \notin queued
  /\ inflight < MaxInflight
  /\ queued' = queued \cup {i}
  /\ q' = Append(q, i)
  /\ seen' = [seen EXCEPT ![s] = inflight]
  /\ sub' = [sub EXCEPT ![s] = i]
  /\ plock' = s
  /\ UNCHANGED <<ncpus, inflight, dlock, wpc, job, killed, fpc, owed>>

(* waitq_wake_one(&pending_wq): one parked worker, if there is one.        *)
wake_one ==
  IF \E w \in Workers : wpc[w] = "parked"
  THEN \E w \in Workers : wpc[w] = "parked" /\ wpc' = [wpc EXCEPT ![w] = "loop"]
  ELSE UNCHANGED wpc

(* ... then store it, wake one worker and unlock.                          *)
SubmitStoreMutant(s) ==
  /\ plock = s
  /\ inflight' = seen[s] + 1
  /\ seen' = [seen EXCEPT ![s] = 0]
  /\ plock' = None
  /\ sub' = [sub EXCEPT ![s] = None]
  /\ UNCHANGED <<ncpus, q, queued, dlock, wpc, job, killed, fpc, owed>>

SubmitStore(s) ==
  /\ plock = s
  /\ inflight' = seen[s] + 1
  /\ wake_one
  /\ seen' = [seen EXCEPT ![s] = 0]
  /\ plock' = None
  /\ sub' = [sub EXCEPT ![s] = None]
  /\ UNCHANGED <<ncpus, q, queued, dlock, job, killed, fpc, owed>>

-----------------------------------------------------------------------------
(* worker_main.                                                            *)

AtLoop(w) == wpc[w] = "loop" /\ CpuFree /\ plock = None

(* q_pop_locked, then out of the lock with the item.  What a flush owes    *)
(* for a queued item it now owes for the worker that runs it.              *)
q_pop(w) ==
  /\ AtLoop(w) /\ q # <<>>
  /\ q' = Tail(q)
  /\ queued' = queued \ {Head(q)}
  /\ job' = [job EXCEPT ![w] = Head(q)]
  /\ wpc' = [wpc EXCEPT ![w] = "run"]
  /\ owed' = [f \in Flushers |-> IF Head(q) \in owed[f]
                                 THEN (owed[f] \ {Head(q)}) \cup {w} ELSE owed[f]]
  /\ UNCHANGED <<ncpus, inflight, plock, dlock, seen, killed, sub, fpc>>

Park(w) ==
  /\ AtLoop(w) /\ q = <<>> /\ w \notin killed
  /\ wpc' = [wpc EXCEPT ![w] = "parked"]
  /\ UNCHANGED <<ncpus, q, queued, inflight, plock, dlock, seen, job, killed, sub, fpc, owed>>

(* Nothing to pop and a kill pending: task_yield exits the worker.         *)
Quit(w) ==
  /\ AtLoop(w) /\ q = <<>> /\ w \in killed
  /\ wpc' = [wpc EXCEPT ![w] = "exited"]
  /\ UNCHANGED <<ncpus, q, queued, inflight, plock, dlock, seen, job, killed, sub, fpc, owed>>

(* w->fn(w) returns: that run is finished.                                 *)
Callback(w) ==
  /\ wpc[w] = "run" /\ CpuFree
  /\ wpc' = [wpc EXCEPT ![w] = "account"]
  /\ job' = [job EXCEPT ![w] = None]
  /\ owed' = [f \in Flushers |-> owed[f] \ {w}]
  /\ UNCHANGED <<ncpus, q, queued, inflight, plock, dlock, seen, killed, sub, fpc>>

(* Account the completion under done_wq's lock: load ...                   *)
Account(w) ==
  /\ wpc[w] = "account" /\ CpuFree /\ dlock = None
  /\ dlock' = w
  /\ seen' = [seen EXCEPT ![w] = inflight]
  /\ wpc' = [wpc EXCEPT ![w] = "store"]
  /\ UNCHANGED <<ncpus, q, queued, inflight, plock, job, killed, sub, fpc, owed>>

(* ... and store; at zero wake every flusher.                              *)
AccountStoreMutant(w) ==
  /\ dlock = w
  /\ inflight' = IF seen[w] > 0 THEN seen[w] - 1 ELSE seen[w]
  /\ seen' = [seen EXCEPT ![w] = 0]
  /\ dlock' = None
  /\ wpc' = [wpc EXCEPT ![w] = "loop"]
  /\ UNCHANGED <<ncpus, q, queued, plock, job, killed, sub, fpc, owed>>

AccountStore(w) ==
  /\ dlock = w
  /\ inflight' = IF seen[w] > 0 THEN seen[w] - 1 ELSE seen[w]
  /\ fpc' = [f \in Flushers |-> IF inflight' = 0 /\ fpc[f] = "parked" THEN "waiting" ELSE fpc[f]]
  /\ seen' = [seen EXCEPT ![w] = 0]
  /\ dlock' = None
  /\ wpc' = [wpc EXCEPT ![w] = "loop"]
  /\ UNCHANGED <<ncpus, q, queued, plock, job, killed, sub, owed>>

(* task_kill of a worker: flag it and get it out of the wait queue.        *)
Kill(w) ==
  /\ w \in Killable \ killed /\ wpc[w] \notin {"none", "exited"} /\ CpuFree /\ plock = None
  /\ killed' = killed \cup {w}
  /\ wpc' = [wpc EXCEPT ![w] = IF @ = "parked" THEN "loop" ELSE @]
  /\ UNCHANGED <<ncpus, q, queued, inflight, plock, dlock, seen, job, sub, fpc, owed>>

-----------------------------------------------------------------------------
(* work_flush.  It owes its caller every item whose submission is over and *)
(* whose run is not.                                                       *)
FlushCall(f) ==
  /\ fpc[f] = "idle" /\ CpuFree
  /\ fpc' = [fpc EXCEPT ![f] = "waiting"]
  /\ owed' = [owed EXCEPT ![f] = {i \in queued : \A s \in Submitters : sub[s] # i}
                                 \cup {w \in Workers : wpc[w] = "run"}]
  /\ UNCHANGED <<ncpus, q, queued, inflight, plock, dlock, seen, wpc, job, killed, sub>>

(* while (inflight > 0) waitq_block(&done_wq);                             *)
FlushTestMutant(f) ==
  /\ fpc[f] = "waiting" /\ CpuFree /\ dlock = None
  /\ fpc' = [fpc EXCEPT ![f] = IF q # <<>> THEN "parked" ELSE "back"]
  /\ UNCHANGED <<ncpus, q, queued, inflight, plock, dlock, seen, wpc, job, killed, sub, owed>>

FlushTest(f) ==
  /\ fpc[f] = "waiting" /\ CpuFree /\ dlock = None
  /\ fpc' = [fpc EXCEPT ![f] = IF inflight > 0 THEN "parked" ELSE "back"]
  /\ UNCHANGED <<ncpus, q, queued, inflight, plock, dlock, seen, wpc, job, killed, sub, owed>>

FlushReturn(f) ==
  /\ fpc[f] = "back" /\ CpuFree
  /\ fpc' = [fpc EXCEPT ![f] = "idle"]
  /\ owed' = [owed EXCEPT ![f] = {}]
  /\ UNCHANGED <<ncpus, q, queued, inflight, plock, dlock, seen, wpc, job, killed, sub>>

-----------------------------------------------------------------------------
Worker(w) == q_pop(w) \/ Park(w) \/ Quit(w) \/ Callback(w) \/ Account(w) \/ AccountStore(w)

Next ==
  \/ \E s \in Submitters : SubmitStore(s) \/ \E i \in Items : work_submit(s, i)
  \/ \E w \in Workers : Worker(w) \/ Kill(w)
  \/ \E f \in Flushers : FlushCall(f) \/ FlushTest(f) \/ FlushReturn(f)

Spec == Init /\ [][Next]_vars

(* Callbacks return, lock holders go on, and the pool as a whole gets each *)
(* lock now and then (an unfair spinlock starves no whole group).          *)
Fairness ==
  /\ \A s \in Submitters : WF_vars(SubmitStore(s))
  /\ \A w \in Workers : WF_vars(Callback(w)) /\ WF_vars(AccountStore(w))
  /\ SF_vars(\E w \in Workers : Account(w))
  /\ SF_vars(\E w \in Workers : q_pop(w))

LiveSpec == Spec /\ Fairness

-----------------------------------------------------------------------------
(* `queued` is exactly membership in the FIFO, which holds no item twice:  *)
(* one pending run is enough, and a running item may be queued again.      *)
OnePendingRun == IsInjective(q) /\ queued = ToSet(q)

(* A wake of one worker is enough: while items wait, somebody who will     *)
(* look at the queue is awake - a worker, or a submitter about to wake     *)
(* one.  No kill of a worker swallows the wake meant for an item.          *)
NoItemForgotten ==
  q # <<>> => plock # None \/ \E w \in Workers : wpc[w] \notin {"none", "parked", "exited"}

(* Every queued item is taken by a worker.                                 *)
EveryItemRuns == \A i \in Items : i \in queued ~> \E w \in Workers : job[w] = i

(* work_flush keeps its promise to "block until everything submitted       *)
(* before this call has finished running".                                 *)
FlushWaitsForAll == \A f \in Flushers : fpc[f] = "back" => owed[f] = {}

(* On one CPU it does.                                                     *)
FlushWaitsOnOneCpu == ncpus = 1 => FlushWaitsForAll

(* Workers between q_pop_locked and the end of their accounting.           *)
Unfinished == {w \in Workers : wpc[w] \in {"run", "account", "store"}}

(* On one CPU a flush that waits is released by the last completion: the   *)
(* counter never drifts from the items that are queued or unfinished, up   *)
(* or down (the loads and stores of `inflight` under two different locks), *)
(* and a flusher is parked only while it is positive.                      *)
FlushReleased ==
  ncpus = 1 =>
    /\ plock = None => inflight = Len(q) + Cardinality(Unfinished)
    /\ \A f \in Flushers : fpc[f] = "parked" => inflight > 0
=============================================================================
