---------------------------- MODULE RoundRobin ----------------------------
(***************************************************************************)
(* The weighted round robin of one CPU (kernel/core/task.c): the order of  *)
(* its ring, the quantum budget (deficit) and the skipped turns            *)
(* (skips_left) of each task, the tick, the wake kick, task_yield,         *)
(* task_set_nice, task_set_affinity, the tasks that come from and go to    *)
(* other CPUs, and the sweep that ends timed sleeps.                       *)
(*                                                                         *)
(* The ring is a sequence with rq_head first; RunQueue shows that the      *)
(* links implement it.  Time is counted in ticks of this CPU.              *)
(***************************************************************************)
EXTENDS Integers, Sequences, FiniteSets, SequencesExt

CONSTANTS Tasks,
          Base,       \* TASK_WEIGHT_BASE: one quantum
          Weights,    \* the weights task_nice_to_weight gives out
          Weight0,    \* the weight each task starts with
          Master,     \* the tasks in the order of the master ring
          Batch,      \* SLEEP_SWEEP_BATCH
          MaxSleep,   \* bound of the model: ticks of a timed sleep
          MaxDebt,    \* bound of the model: where an unpaid debt saturates
          MaxRenice,  \* bound of the model: calls of task_set_nice
          Idle        \* this CPU's idle task

ASSUME BaseAssumption == Base \in Nat \ {0} /\ Weights \subseteq Nat \ {0}
ASSUME WeightAssumption == Weight0 \in [Tasks -> Weights]
ASSUME MasterAssumption ==
  Master \in Seq(Tasks) /\ IsInjective(Master) /\ ToSet(Master) = Tasks
ASSUME BatchAssumption == Batch \in Nat \ {0}
ASSUME IdleAssumption == Idle \notin Tasks
ASSUME BoundAssumption == MaxSleep \in Nat /\ MaxDebt \in Nat /\ MaxRenice \in Nat

VARIABLES
  ring,          \* the ring of this CPU
  current,
  task_state,    \* "runnable", "timed" (task_msleep) or "blocked"
  left,          \* ticks until a timed sleep's deadline, else 0
  weight, deficit, skips_left,
  allowed,       \* the tasks whose cpu_mask has this CPU
  elsewhere,     \* the tasks on another CPU's stack (on_cpu, or its current)
  tick_due, wake_kick, need_resched,
  renices        \* calls of task_set_nice so far

rrVars == <<ring, current, weight, deficit, skips_left>>
flagVars == <<tick_due, wake_kick, need_resched>>
placeVars == <<allowed, elsewhere>>
ringVars == <<rrVars, task_state, left, placeVars, flagVars, renices>>

RingTypeOK ==
  /\ ring \in Seq(Tasks) /\ IsInjective(ring)
  /\ current \in Tasks \cup {Idle}
  /\ task_state \in [Tasks -> {"runnable", "timed", "blocked"}]
  /\ left \in [Tasks -> 0 .. MaxSleep]
  /\ weight \in [Tasks -> Weights]
  /\ deficit \in [Tasks -> Int]
  /\ \A t \in Tasks : deficit[t] \in -MaxDebt .. weight[t]
  /\ skips_left \in [Tasks -> 0 .. Base + MaxDebt]
  /\ allowed \subseteq Tasks /\ elsewhere \subseteq Tasks
  /\ tick_due \in BOOLEAN /\ wake_kick \in BOOLEAN
  /\ need_resched \in BOOLEAN
  /\ renices \in 0 .. MaxRenice

(* Every task blocked, nothing to do yet.                                  *)
RingInit ==
  /\ ring = <<>> /\ current = Idle
  /\ task_state = [t \in Tasks |-> "blocked"]
  /\ left = [t \in Tasks |-> 0]
  /\ weight = Weight0 /\ deficit = Weight0
  /\ skips_left = [t \in Tasks |-> 0]
  /\ allowed = Tasks /\ elsewhere = {}
  /\ tick_due = FALSE /\ wake_kick = FALSE
  /\ need_resched = FALSE
  /\ renices = 0

Queued == ToSet(ring)

(* RUNNABLE and not ours: on another CPU's queue, or running there.        *)
Away == {t \in Tasks : task_state[t] = "runnable" /\ t \notin Queued /\ t # current}

(* What load_steal_one may bring here.                                     *)
Stealable == (Away \cap allowed) \ elsewhere

(* What the walk may return, with the states st.                           *)
Eligible(st) == {t \in allowed \ elsewhere : st[t] = "runnable"}

-----------------------------------------------------------------------------
(* schedule().                                                             *)

(* The budget is spent: a new one, the skips that a weight below the base  *)
(* costs, and the tail of the ring.                                        *)
Spent(p, d) == p \in Queued /\ task_state[p] = "runnable" /\ d[p] <= 0

SkipsDue(p, d) == LET w == weight[p] IN
  IF w < Base THEN ((Base - d[p]) \div w) - 1 ELSE 0

(* The first eligible task without a skip, or else the first eligible one; *)
(* who is passed over on the first walk pays one.                          *)
Lowest(S) == CHOOSE i \in S : \A j \in S : i <= j

PickMutant(r, s, ok) ==
  LET able   == {i \in DOMAIN r : r[i] \in ok}
      ready  == {i \in able : s[r[i]] = 0}
      passed == {r[i] : i \in {j \in able : ready = {} \/ j < Lowest(ready)}}
  IN  [task |-> IF ready = {} THEN Idle ELSE r[Lowest(ready)],
       skips |-> [t \in Tasks |-> IF t \in passed THEN s[t] - 1 ELSE s[t]]]

NoPayMutant(r, s, ok) ==
  LET able   == {i \in DOMAIN r : r[i] \in ok}
      ready  == {i \in able : s[r[i]] = 0}
  IN  [task |-> IF able = {} THEN Idle
                ELSE r[Lowest(IF ready = {} THEN able ELSE ready)],
       skips |-> s]

pick_next_local(r, s, ok) ==
  LET able   == {i \in DOMAIN r : r[i] \in ok}
      ready  == {i \in able : s[r[i]] = 0}
      passed == {r[i] : i \in {j \in able : ready = {} \/ j < Lowest(ready)}}
  IN  [task |-> IF able = {} THEN Idle
                ELSE r[Lowest(IF ready = {} THEN able ELSE ready)],
       skips |-> [t \in Tasks |-> IF t \in passed THEN s[t] - 1 ELSE s[t]]]

(* schedule_locked with deficits d and ring r: replenish and rotate, pick, *)
(* else what a pull from another queue brings, else stay where that is     *)
(* still allowed, else idle.                                               *)
Schedule(d, r) ==
  LET p     == current
      spent == Spent(p, d) /\ p \in ToSet(r)
      d1    == IF spent THEN [d EXCEPT ![p] = weight[p]] ELSE d
      s1    == IF spent THEN [skips_left EXCEPT ![p] = SkipsDue(p, d)] ELSE skips_left
      r1    == IF spent THEN Append(RemoveFirst(r, p), p) ELSE r
      Result(ring1) ==
        LET k == pick_next_local(ring1, s1, Eligible(task_state')) IN
        /\ ring' = ring1
        /\ skips_left' = k.skips
        /\ current' = IF k.task # Idle THEN k.task
                      ELSE IF p \in allowed /\ task_state'[p] = "runnable" THEN p ELSE Idle
  IN  /\ deficit' = d1
      /\ \/ Result(r1)
         \/ /\ Eligible(task_state') \cap ToSet(r1) = {}
            /\ \E t \in Stealable : Result(Append(r1, t))
      /\ UNCHANGED <<weight, placeVars>>

-----------------------------------------------------------------------------
(* Interrupts.                                                             *)

(* schedule_request: the timer interrupt.                                  *)
Tick ==
  /\ tick_due' = TRUE /\ need_resched' = TRUE
  /\ left' = [t \in Tasks |-> IF left[t] > 0 THEN left[t] - 1 ELSE 0]
  /\ UNCHANGED <<rrVars, task_state, placeVars, wake_kick, renices>>

(* sleep_sweep: the first Batch expired sleepers of the master ring go to  *)
(* the tail of some CPU's queue, with the kick of task_enqueue.            *)
Expired == {t \in Tasks : task_state[t] = "timed" /\ left[t] = 0}

Place(t) == CHOOSE i \in DOMAIN Master : Master[i] = t

Before(t) == {u \in Expired : Place(u) < Place(t)}

SweptMutant == {t \in Expired : Cardinality(Before(t)) < Batch - 1}

Swept == {t \in Expired : Cardinality(Before(t)) < Batch}

(* The tasks of S in the order of the master ring.                         *)
InOrder(S) ==
  {q \in BoundedSeq(S, Cardinality(S)) :
     ToSet(q) = S /\ \A i, j \in DOMAIN q : i < j => Place(q[i]) < Place(q[j])}

(* What one tick, and one kick, cost the running task.                     *)
Charged ==
  [t \in Tasks |->
     IF t # current THEN deficit[t]
     ELSE LET d == IF tick_due THEN deficit[t] - Base ELSE deficit[t]
          IN  IF d < -MaxDebt THEN -MaxDebt ELSE IF wake_kick /\ d > 0 THEN 0 ELSE d]

(* schedule_check at the end of an interrupt: charge, sweep, perhaps pull  *)
(* a task (load_balance_tick), schedule.  The sweep sends each task it     *)
(* wakes where the mask, read before the queue's lock, says; its own kicks *)
(* stay set.                                                               *)
(* With preemption disabled it returns at once and need_resched stays: the *)
(* delay between Tick and this step.                                       *)
schedule_check ==
  /\ need_resched
  /\ task_state' = [t \in Tasks |-> IF t \in Swept THEN "runnable" ELSE task_state[t]]
  /\ tick_due' = FALSE
  /\ \E here \in SUBSET Swept : \E q \in InOrder(here \ Queued) :
       /\ wake_kick' = (here # {})
       /\ need_resched' = (here # {})
       /\ \/ Schedule(Charged, ring \o q)
          \/ \E t \in Stealable : Schedule(Charged, Append(ring \o q, t))
  /\ UNCHANGED <<left, renices>>

-----------------------------------------------------------------------------
(* What the running task does.                                             *)

Running(t) == current = t /\ task_state[t] = "runnable"

(* task_yield gives the budget up.                                         *)
task_yield(t) ==
  /\ Running(t)
  /\ UNCHANGED <<task_state, left, flagVars, renices>>
  /\ Schedule([deficit EXCEPT ![t] = 0], ring)

(* The idle loop, after any interrupt.                                     *)
IdleLoop ==
  /\ current = Idle
  /\ UNCHANGED <<task_state, left, flagVars, renices>>
  /\ Schedule(deficit, ring)

(* task_msleep for n ticks, or a wait queue: off the ring, then schedule.  *)
Sleep(t, k, n) ==
  /\ Running(t)
  /\ task_state' = [task_state EXCEPT ![t] = k]
  /\ left' = [left EXCEPT ![t] = n]
  /\ Schedule(deficit, RemoveFirst(ring, t))
  /\ UNCHANGED <<flagVars, renices>>

-----------------------------------------------------------------------------
(* What others do.                                                         *)

(* task_enqueue on this CPU's queue, of a task that is woken or that comes *)
(* from another queue: the tail, and a kick.  It chose this CPU by a mask  *)
(* that task_set_affinity may have changed since; a task that has marked   *)
(* itself and is not yet off our ring stays where it is.                   *)
Enqueue(t) ==
  /\ \/ task_state[t] # "runnable" /\ current # t
     \/ t \in Away
  /\ ring' = IF t \in Queued THEN ring ELSE Append(ring, t)
  /\ task_state' = [task_state EXCEPT ![t] = "runnable"]
  /\ left' = [left EXCEPT ![t] = 0]
  /\ wake_kick' = TRUE /\ need_resched' = TRUE
  /\ UNCHANGED <<current, weight, deficit, skips_left, placeVars, tick_due, renices>>

othersVars == <<current, weight, deficit, skips_left, flagVars, renices>>

(* The balancer of another CPU takes a waiting task.                       *)
StolenAway(t) ==
  /\ t \in Queued /\ t # current /\ t \notin elsewhere /\ task_state[t] = "runnable"
  /\ ring' = RemoveFirst(ring, t)
  /\ UNCHANGED <<othersVars, task_state, left, placeVars>>

(* Another CPU switches to a task, and away from one: the task that took   *)
(* itself off every queue, or one that stays RUNNABLE.                     *)
RunsElsewhere(t) ==
  /\ t \in Away \ elsewhere
  /\ elsewhere' = elsewhere \cup {t}
  /\ UNCHANGED <<othersVars, ring, task_state, left, allowed>>

LeavesElsewhere(t) ==
  /\ t \in elsewhere /\ (t \notin Queued \/ task_state[t] = "runnable")
  /\ elsewhere' = elsewhere \ {t}
  /\ UNCHANGED <<othersVars, ring, task_state, left, allowed>>

(* A task that runs elsewhere, perhaps on our ring, marks itself asleep;   *)
(* then it takes itself off whatever ring has it.                          *)
MarksElsewhere(t, k, n) ==
  /\ t \in elsewhere /\ task_state[t] = "runnable"
  /\ task_state' = [task_state EXCEPT ![t] = k]
  /\ left' = [left EXCEPT ![t] = n]
  /\ UNCHANGED <<othersVars, ring, placeVars>>

DetachedElsewhere(t) ==
  /\ t \in elsewhere \cap Queued
  /\ ring' = RemoveFirst(ring, t)
  /\ UNCHANGED <<othersVars, task_state, left, placeVars>>

(* task_set_affinity: a RUNNABLE task that may no longer be here leaves    *)
(* for another queue; any other is left where it is.                       *)
task_set_affinity(t, here) ==
  /\ allowed' = IF here THEN allowed \cup {t} ELSE allowed \ {t}
  /\ ring' = IF ~here /\ task_state[t] = "runnable" THEN RemoveFirst(ring, t) ELSE ring
  /\ UNCHANGED <<othersVars, task_state, left, elsewhere>>

(* A wake between the running task's mark and its commit queued it on      *)
(* another CPU: it keeps running here, on no ring of ours.                 *)
Rehomed(t) ==
  /\ Running(t) /\ t \in Queued
  /\ ring' = RemoveFirst(ring, t)
  /\ UNCHANGED <<othersVars, task_state, left, placeVars>>

(* task_set_nice.                                                          *)
task_set_nice(t, w) ==
  /\ renices < MaxRenice
  /\ renices' = renices + 1
  /\ weight' = [weight EXCEPT ![t] = w]
  /\ deficit' = [deficit EXCEPT ![t] = w]
  /\ skips_left' = [skips_left EXCEPT ![t] = 0]
  /\ UNCHANGED <<ring, current, task_state, left, placeVars, flagVars>>

RingNext ==
  \/ Tick \/ schedule_check \/ IdleLoop
  \/ \E t \in Tasks :
       \/ task_yield(t) \/ Enqueue(t) \/ StolenAway(t) \/ Rehomed(t)
       \/ Sleep(t, "blocked", 0)
       \/ \E n \in 1 .. MaxSleep : Sleep(t, "timed", n)
       \/ RunsElsewhere(t) \/ LeavesElsewhere(t) \/ DetachedElsewhere(t)
       \/ MarksElsewhere(t, "blocked", 0)
       \/ \E n \in 1 .. MaxSleep : MarksElsewhere(t, "timed", n)
       \/ \E here \in BOOLEAN : task_set_affinity(t, here)
       \/ \E w \in Weights : task_set_nice(t, w)

(* The timer keeps ticking, and a tick that is due is served: preemption   *)
(* is not disabled at every interrupt from some point on.                  *)
TickArrives == ~tick_due /\ tick_due' = TRUE
TickServed == tick_due /\ tick_due' = FALSE

RingFairness == WF_tick_due(TickArrives) /\ WF_tick_due(TickServed)

RingSpec == RingInit /\ [][RingNext]_ringVars /\ RingFairness

-----------------------------------------------------------------------------
(* Properties.                                                             *)

(* A CPU gives up a task for its idle task only when the walk could return *)
(* nobody: tasks that all owe turns still run (the second walk of          *)
(* pick_next_local_locked), and so does the one task whose mask has come   *)
(* back or that has just left another CPU.                                 *)
NoIdleWithWork ==
  [][current # Idle /\ current' = Idle => Queued' \cap Eligible(task_state)' = {}]_ringVars

(* No task starves: a task on this CPU's ring runs again, or leaves the    *)
(* ring, whatever weights, kicks, yields, sleeps and migrations of others  *)
(* come before it, unless it runs on another CPU meanwhile or its mask     *)
(* forbids this one.                                                       *)
QueuedTaskRuns ==
  \A t \in Tasks :
    (t \in Queued) ~> (current = t \/ t \notin Queued \/ t \in elsewhere \/ t \notin allowed)

(* "move it to a CPU that's allowed" (task.c:3371): a queued task whose    *)
(* mask forbids this CPU does not stay on its ring.                        *)
ForbiddenTaskMoves ==
  \A t \in Tasks : (t \in Queued) ~> (t \notin Queued \/ t \in allowed)

(* A timed sleep ends, unless time and again more sleepers have expired    *)
(* than one sweep wakes (sleep_sweep takes the first Batch of the ring).   *)
SleeperWoken ==
  \A t \in Tasks :
    \/ []<>(Cardinality(Expired) > Batch)
    \/ (task_state[t] = "timed") ~> (task_state[t] = "runnable")

(* "Rest wait one more tick" (sleep_sweep): every timed sleep ends, however *)
(* many expire together.                                                   *)
RestIsWokenToo ==
  \A t \in Tasks : (task_state[t] = "timed") ~> (task_state[t] = "runnable")
=============================================================================
