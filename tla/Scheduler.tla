----------------------------- MODULE Scheduler -----------------------------
(***************************************************************************)
(* The SMP scheduler core of d-os (kernel/core/task.c): per-CPU run        *)
(* queues, the switch from one task to the next, the three ways a task     *)
(* takes itself off the queues (waitq_block, task_msleep, stop_self), the  *)
(* wakers that put it back, the balancer, task_set_affinity, exit, and the *)
(* reaper that frees the task.                                             *)
(*                                                                         *)
(* Granularity.  A run-queue critical section that does not span a context *)
(* switch is one step; schedule() keeps its CPU's rq_lock from the pick to *)
(* the release of the task it left, and that stretch (`cpc[c] = "switch"`) *)
(* excludes every other user of the queue.  Everything the code does       *)
(* without a lock - setting a state, clearing on_cpu, deciding to enqueue  *)
(* and enqueueing - is a step of its own.                                  *)
(*                                                                         *)
(* Weights, skips and loads only choose AMONG eligible tasks and CPUs, so  *)
(* here the choice is nondeterministic.                                    *)
(***************************************************************************)
EXTENDS Naturals

CONSTANTS NCPU,     \* smp_ncpus()
          Tasks,    \* task structures (slots: a freed one may be reused)
          Wakers,   \* contexts that wake or move tasks (tasks, IRQs, the tick)
          Reapers,  \* callers of task_reap (init, task_wait, the GUI)
          Masks,    \* Masks[t]: the affinities task_set_affinity gives t
          Sleeps,   \* the ways each task ever takes itself off the queues
          Idle,     \* percpu->idle: one per CPU, on no queue, always RUNNABLE
          None      \* the null task pointer

CPU == 0 .. NCPU - 1
NoCpu == NCPU          \* cpu_home == -1: on no queue

(* The three ways to leave the queues: TASK_SLEEPING on a wait queue, the  *)
(* same in a timed sleep, and TASK_STOPPED.                                *)
Asleep == {"waitq", "timed", "stopped"}

ASSUME NCpuAssumption == NCPU \in Nat \ {0}
ASSUME TaskAssumption == Idle \notin Tasks /\ None \notin Tasks /\ Idle # None
ASSUME MaskAssumption == \A t \in Tasks : \A m \in Masks[t] : m # {} /\ m \subseteq CPU
ASSUME SleepsAssumption == Sleeps \in [Tasks -> SUBSET Asleep]

VARIABLES
  state,     \* task->state; "free" while the slot is not allocated
  cpu_home,  \* task->cpu_home: the queue that owns the task, or NoCpu
  on_cpu,    \* the tasks with task->on_cpu set: a CPU stands on the stack
  cpu_mask,  \* task->cpu_mask
  timed,     \* the tasks with task->timed_sleep set: an unclaimed timed sleep
  tpc,       \* where the task is in its own code
  sweep,     \* the next queue rq_purge_all visits for an exiting task
  held,      \* the tasks their creator has still to enqueue
  rq,        \* percpu->rq_head: the set of tasks linked in each CPU's ring
  current,   \* percpu->current
  leaving,   \* g_leaving: the task the CPU is switching away from
  cpc,       \* where each CPU is in schedule_locked
  wop, wtgt, \* what each waker has in hand: an operation and its task
  rop, rtgt, \* what each reaper has in hand ...
  ridx,      \* ... and the next queue its purge visits
  reaping    \* the tasks with task->reaping set

taskVars == <<state, cpu_home, on_cpu, cpu_mask, timed, tpc, sweep, held>>
cpuVars  == <<rq, current, leaving, cpc>>
wakeVars == <<wop, wtgt>>
reapVars == <<rop, rtgt, ridx, reaping>>
vars     == <<taskVars, cpuVars, wakeVars, reapVars>>

TypeOK ==
  /\ state \in [Tasks -> Asleep \cup {"free", "runnable", "dead"}]
  /\ cpu_home \in [Tasks -> CPU \cup {NoCpu}]
  /\ on_cpu \subseteq Tasks
  /\ cpu_mask \in [Tasks -> SUBSET CPU]
  /\ timed \subseteq Tasks
  /\ tpc \in [Tasks -> {"run", "marked", "detached", "requeue",
                        "parked", "dying", "gone"}]
  /\ sweep \in [Tasks -> 0 .. NCPU]
  /\ held \subseteq Tasks
  /\ rq \in [CPU -> SUBSET Tasks]
  /\ current \in [CPU -> Tasks \cup {Idle}]
  /\ leaving \in [CPU -> Tasks \cup {Idle, None}]
  /\ cpc \in [CPU -> {"run", "pull", "repick", "nopick", "switch"}]
  /\ wop \in [Wakers -> {"idle", "aimed", "claimed", "move", "enq"}]
  /\ wtgt \in [Wakers -> Tasks \cup {None}]
  /\ rop \in [Reapers -> {"idle", "check", "purge"}]
  /\ rtgt \in [Reapers -> Tasks \cup {None}]
  /\ ridx \in [Reapers -> 0 .. NCPU]
  /\ reaping \subseteq Tasks

(* After boot: every CPU on its idle task, every other slot unallocated.   *)
Init ==
  /\ state = [t \in Tasks |-> "free"]
  /\ cpu_home = [t \in Tasks |-> NoCpu]
  /\ on_cpu = {}
  /\ cpu_mask = [t \in Tasks |-> CPU]
  /\ timed = {}
  /\ tpc = [t \in Tasks |-> "gone"]
  /\ sweep = [t \in Tasks |-> 0]
  /\ held = {}
  /\ rq = [c \in CPU |-> {}]
  /\ current = [c \in CPU |-> Idle]
  /\ leaving = [c \in CPU |-> None]
  /\ cpc = [c \in CPU |-> "run"]
  /\ wop = [w \in Wakers |-> "idle"]
  /\ wtgt = [w \in Wakers |-> None]
  /\ rop = [r \in Reapers |-> "idle"]
  /\ rtgt = [r \in Reapers |-> None]
  /\ ridx = [r \in Reapers |-> 0]
  /\ reaping = {}

-----------------------------------------------------------------------------
(* The run queues.                                                         *)

(* schedule_locked holds its rq_lock from the pick to the far side of the  *)
(* context switch; no other step finds an rq_lock held.                    *)
RqLocked(c) == cpc[c] = "switch"

(* task_enqueue and rq_insert_tail_locked under the destination's lock: a  *)
(* DEAD task is refused, and so is one some queue already owns (the CAS on *)
(* cpu_home).  A freed slot still reads DEAD until it is reused.  The      *)
(* destination is pick_lightest_cpu's, from lock-free loads and a mask     *)
(* that may be stale when the lock is taken: any CPU.                      *)
EnqueueMutant(t, c) ==
  /\ ~RqLocked(c)
  /\ IF state[t] = "free" \/ cpu_home[t] # NoCpu
     THEN UNCHANGED <<rq, cpu_home>>
     ELSE /\ rq' = [rq EXCEPT ![c] = @ \cup {t}]
          /\ cpu_home' = [cpu_home EXCEPT ![t] = c]

task_enqueue(t, c) ==
  /\ ~RqLocked(c)
  /\ IF state[t] \in {"dead", "free"} \/ cpu_home[t] # NoCpu
     THEN UNCHANGED <<rq, cpu_home>>
     ELSE /\ rq' = [rq EXCEPT ![c] = @ \cup {t}]
          /\ cpu_home' = [cpu_home EXCEPT ![t] = c]

(* rq_remove_locked: unlink, then release ownership.                       *)
rq_remove(t, c) ==
  /\ rq' = [rq EXCEPT ![c] = @ \ {t}]
  /\ cpu_home' = [cpu_home EXCEPT ![t] = NoCpu]

(* rq_detach_anywhere: the step is the moment it holds the lock of the     *)
(* queue that cpu_home names (64 re-reads bound the chase; none is lost    *)
(* here because the owner cannot change under that lock).                  *)
rq_detach_anywhere(t) ==
  IF cpu_home[t] = NoCpu
  THEN UNCHANGED <<rq, cpu_home>>
  ELSE ~RqLocked(cpu_home[t]) /\ rq_remove(t, cpu_home[t])

(* One queue of rq_purge_all: remove the task if this ring contains it.    *)
rq_purge(t, c) ==
  /\ ~RqLocked(c)
  /\ IF t \in rq[c] THEN rq_remove(t, c) ELSE UNCHANGED <<rq, cpu_home>>

-----------------------------------------------------------------------------
(* schedule().                                                             *)

(* task_running_elsewhere, asked on CPU c.                                 *)
RunningElsewhereMutant(t, c) == \E d \in CPU \ {c} : current[d] = t

task_running_elsewhere(t, c) ==
  \/ t \in on_cpu /\ current[c] # t
  \/ \E d \in CPU \ {c} : current[d] = t

(* pick_next_local_locked: the tasks it may return.                        *)
Eligible(c) ==
  {t \in rq[c] : state[t] = "runnable" /\ c \in cpu_mask[t]
                   /\ ~task_running_elsewhere(t, c)}

(* The task on CPU c is executing its own code.                            *)
Executing(t, c) == current[c] = t /\ cpc[c] = "run"

(* schedule() is entered from ordinary code (yield, preemption), from a    *)
(* committed sleep, from the end of exit, and from the idle loop; between  *)
(* marking itself and committing a task runs with interrupts off.          *)
MayEnterSchedule(c) ==
  cpc[c] = "run" /\ (current[c] \in Tasks => tpc[current[c]] \in {"run", "parked", "gone"})

(* The call returns to (or, later, resumes) the code after schedule().     *)
ReturnFrom(p) ==
  tpc' = [t \in Tasks |-> IF t = p /\ tpc[t] = "parked" THEN "run" ELSE tpc[t]]

Keep(c) ==
  /\ cpc' = [cpc EXCEPT ![c] = "run"]
  /\ ReturnFrom(current[c])
  /\ UNCHANGED <<current, leaving, on_cpu>>

(* Publish the incoming task and swap stacks; both sides are on a CPU.     *)
SwitchTo(c, n) ==
  /\ current' = [current EXCEPT ![c] = n]
  /\ on_cpu' = on_cpu \cup ({n} \cap Tasks)
  /\ leaving' = [leaving EXCEPT ![c] = current[c]]
  /\ cpc' = [cpc EXCEPT ![c] = "switch"]
  /\ ReturnFrom(current[c])

Run(c, n) == IF n = current[c] THEN Keep(c) ELSE SwitchTo(c, n)

(* No candidate: keep a task that may still run here, else idle.           *)
Fallback(c) ==
  LET p == current[c] IN
  IF p \in Tasks /\ state[p] = "runnable" /\ c \in cpu_mask[p]
  THEN Keep(c) ELSE Run(c, Idle)

(* schedule_locked up to its first pick.                                   *)
Schedule(c) ==
  /\ MayEnterSchedule(c)
  /\ \/ \E n \in Eligible(c) : Run(c, n)
     \/ /\ Eligible(c) = {}
        /\ cpc' = [cpc EXCEPT ![c] = "pull"]
        /\ UNCHANGED <<current, leaving, on_cpu, tpc>>
  /\ UNCHANGED <<state, cpu_home, cpu_mask, timed, sweep, held, rq, wakeVars, reapVars>>

(* load_steal_one(victim v, dest c): under both locks, t changes queues.   *)
CanSteal(c, v, t) ==
  /\ c # v /\ ~RqLocked(c) /\ ~RqLocked(v)
  /\ t \in rq[v] /\ state[t] = "runnable" /\ t # current[v] /\ t \notin on_cpu
  /\ c \in cpu_mask[t]

MoveTask(t, v, c) ==
  /\ rq' = [rq EXCEPT ![v] = @ \ {t}, ![c] = @ \cup {t}]
  /\ cpu_home' = [cpu_home EXCEPT ![t] = c]

(* load_balance_pull with the lock dropped in schedule_locked; victim and  *)
(* loads are read without locks, so any candidate, or none, may come back. *)
Pull(c) ==
  /\ cpc[c] = "pull"
  /\ \/ \E v \in CPU, t \in Tasks :
          CanSteal(c, v, t) /\ MoveTask(t, v, c) /\ cpc' = [cpc EXCEPT ![c] = "repick"]
     \/ cpc' = [cpc EXCEPT ![c] = "nopick"] /\ UNCHANGED <<rq, cpu_home>>
  /\ UNCHANGED <<state, on_cpu, cpu_mask, timed, tpc, sweep, held, current, leaving,
                 wakeVars, reapVars>>

(* schedule_locked after it has taken its lock back.                       *)
Repick(c) ==
  /\ \/ cpc[c] = "repick" /\ \E n \in Eligible(c) : Run(c, n)
     \/ cpc[c] = "repick" /\ Eligible(c) = {} /\ Fallback(c)
     \/ cpc[c] = "nopick" /\ Fallback(c)
  /\ UNCHANGED <<state, cpu_home, cpu_mask, timed, sweep, held, rq, wakeVars, reapVars>>

(* sched_release_leaving and the unlock, by the incoming task.             *)
FinishSwitch(c) ==
  /\ cpc[c] = "switch"
  /\ on_cpu' = on_cpu \ {leaving[c]}
  /\ leaving' = [leaving EXCEPT ![c] = None]
  /\ cpc' = [cpc EXCEPT ![c] = "run"]
  /\ UNCHANGED <<state, cpu_home, cpu_mask, timed, tpc, sweep, held, rq, current,
                 wakeVars, reapVars>>

(* load_balance_tick: one pull from the timer interrupt of CPU c.          *)
BalanceTick(c) ==
  /\ MayEnterSchedule(c)
  /\ \E v \in CPU, t \in Tasks : CanSteal(c, v, t) /\ MoveTask(t, v, c)
  /\ UNCHANGED <<state, on_cpu, cpu_mask, timed, tpc, sweep, held, current, leaving, cpc,
                 wakeVars, reapVars>>

-----------------------------------------------------------------------------
(* Life of a task.                                                         *)

(* spawn_common_ex up to the master insert: RUNNABLE, on no queue yet.     *)
Spawn(t) ==
  /\ state[t] = "free" /\ t \notin held
  /\ state' = [state EXCEPT ![t] = "runnable"]
  /\ tpc' = [tpc EXCEPT ![t] = "run"]
  /\ cpu_mask' = [cpu_mask EXCEPT ![t] = CPU]
  /\ held' = held \cup {t}
  /\ UNCHANGED <<cpu_home, on_cpu, timed, sweep, cpuVars, wakeVars, reapVars>>

(* The spawner's own task_enqueue, or task_release of a held task.         *)
task_release(t, c) ==
  /\ t \in held
  /\ task_enqueue(t, c)
  /\ held' = held \ {t}
  /\ UNCHANGED <<state, on_cpu, cpu_mask, timed, tpc, sweep, current, leaving, cpc,
                 wakeVars, reapVars>>

(* The first half of waitq_block, task_msleep or stop_self: say we sleep.  *)
Mark(t, k) ==
  /\ \E c \in CPU : Executing(t, c)
  /\ tpc[t] = "run"
  /\ state' = [state EXCEPT ![t] = k]
  /\ timed' = IF k = "timed" THEN timed \cup {t} ELSE timed
  /\ tpc' = [tpc EXCEPT ![t] = "marked"]
  /\ UNCHANGED <<cpu_home, on_cpu, cpu_mask, sweep, held, cpuVars, wakeVars, reapVars>>

(* ... then leave whichever queue holds us.                                *)
DetachSelf(t) ==
  /\ tpc[t] = "marked"
  /\ rq_detach_anywhere(t)
  /\ tpc' = [tpc EXCEPT ![t] = "detached"]
  /\ UNCHANGED <<state, on_cpu, cpu_mask, timed, sweep, held, current, leaving, cpc,
                 wakeVars, reapVars>>

(* ... then commit, unless a waker came between the two: give the timed    *)
(* claim back if the waker left it, and go back on a queue.                *)
RecheckMutant(t) ==
  /\ tpc[t] = "detached"
  /\ tpc' = [tpc EXCEPT ![t] = "parked"]
  /\ UNCHANGED <<state, cpu_home, on_cpu, cpu_mask, timed, sweep, held, cpuVars, wakeVars, reapVars>>

Recheck(t) ==
  /\ tpc[t] = "detached"
  /\ IF state[t] \in Asleep
     THEN tpc' = [tpc EXCEPT ![t] = "parked"] /\ UNCHANGED timed
     ELSE /\ tpc' = [tpc EXCEPT ![t] = "requeue"]
          /\ timed' = timed \ {t}
  /\ UNCHANGED <<state, cpu_home, on_cpu, cpu_mask, sweep, held, cpuVars, wakeVars, reapVars>>

RequeueSelf(t, c) ==
  /\ tpc[t] = "requeue"
  /\ task_enqueue(t, c)
  /\ tpc' = [tpc EXCEPT ![t] = "run"]
  /\ UNCHANGED <<state, on_cpu, cpu_mask, timed, sweep, held, current, leaving, cpc,
                 wakeVars, reapVars>>

(* task_exit_code past its point of no return: publish DEAD ...            *)
Exit(t) ==
  /\ \E c \in CPU : Executing(t, c)
  /\ tpc[t] = "run"
  /\ state' = [state EXCEPT ![t] = "dead"]
  /\ tpc' = [tpc EXCEPT ![t] = "dying"]
  /\ sweep' = [sweep EXCEPT ![t] = 0]
  /\ UNCHANGED <<cpu_home, on_cpu, cpu_mask, timed, held, cpuVars, wakeVars, reapVars>>

(* ... sweep every queue, one lock at a time, then the last schedule().    *)
ExitSweep(t) ==
  /\ tpc[t] = "dying"
  /\ IF sweep[t] < NCPU
     THEN /\ rq_purge(t, sweep[t])
          /\ sweep' = [sweep EXCEPT ![t] = @ + 1]
          /\ UNCHANGED tpc
     ELSE /\ tpc' = [tpc EXCEPT ![t] = "gone"]
          /\ sweep' = [sweep EXCEPT ![t] = 0]
          /\ UNCHANGED <<rq, cpu_home>>
  /\ UNCHANGED <<state, on_cpu, cpu_mask, timed, held, current, leaving, cpc,
                 wakeVars, reapVars>>

-----------------------------------------------------------------------------
(* Wakers: another task, an interrupt, the tick, a killer.                 *)

Take(w, op, t) ==
  /\ wop' = [wop EXCEPT ![w] = op]
  /\ wtgt' = [wtgt EXCEPT ![w] = t]

(* wq_wake_locked, under the queue's lock, which the sleeper holds until   *)
(* it has committed.  (The lock is kept to the enqueue; without it there   *)
(* are only more interleavings.)                                           *)
WakeWaitq(w, t) ==
  /\ wop[w] = "idle"
  /\ state[t] = "waitq"
  /\ tpc[t] \notin {"marked", "detached", "requeue"}
  /\ state' = [state EXCEPT ![t] = "runnable"]
  /\ Take(w, "enq", t)
  /\ UNCHANGED <<cpu_home, on_cpu, cpu_mask, timed, tpc, sweep, held, cpuVars, reapVars>>

(* wake_waitq_sleeper (a kill or a signal) reads t->wq without a lock ...  *)
ReadWq(w, t) ==
  /\ wop[w] = "idle"
  /\ state[t] = "waitq"
  /\ Take(w, "aimed", t)
  /\ UNCHANGED <<taskVars, cpuVars, reapVars>>

(* ... and later, with that queue locked, wakes the task if it is SLEEPING: *)
(* by now perhaps on another queue, or in a timed sleep.                   *)
WakeAimed(w) ==
  /\ wop[w] = "aimed"
  /\ IF state[wtgt[w]] \in {"waitq", "timed"}
     THEN /\ state' = [state EXCEPT ![wtgt[w]] = "runnable"]
          /\ Take(w, "enq", wtgt[w])
     ELSE UNCHANGED state /\ Take(w, "idle", None)
  /\ UNCHANGED <<cpu_home, on_cpu, cpu_mask, timed, tpc, sweep, held, cpuVars, reapVars>>

(* sleep_sweep or wake_timed_sleeper: take the claim (atomic exchange).    *)
ClaimTimedMutant(w, t) ==
  /\ wop[w] = "idle"
  /\ t \in timed
  /\ Take(w, "claimed", t)
  /\ UNCHANGED <<state, cpu_home, on_cpu, cpu_mask, timed, tpc, sweep, held, cpuVars, reapVars>>

ClaimTimed(w, t) ==
  /\ wop[w] = "idle"
  /\ t \in timed
  /\ timed' = timed \ {t}
  /\ Take(w, "claimed", t)
  /\ UNCHANGED <<state, cpu_home, on_cpu, cpu_mask, tpc, sweep, held, cpuVars, reapVars>>

(* The claim's owner stores RUNNABLE without looking at the state again.   *)
WakeTimed(w) ==
  /\ wop[w] = "claimed"
  /\ state' = [state EXCEPT ![wtgt[w]] = "runnable"]
  /\ Take(w, "enq", wtgt[w])
  /\ UNCHANGED <<cpu_home, on_cpu, cpu_mask, timed, tpc, sweep, held, cpuVars, reapVars>>

(* resume_stopped: the CAS on the state decides who enqueues.              *)
ResumeStopped(w, t) ==
  /\ wop[w] = "idle"
  /\ state[t] = "stopped"
  /\ state' = [state EXCEPT ![t] = "runnable"]
  /\ Take(w, "enq", t)
  /\ UNCHANGED <<cpu_home, on_cpu, cpu_mask, timed, tpc, sweep, held, cpuVars, reapVars>>

(* task_set_affinity reads cpu_home and the state without a lock, and      *)
(* moves a RUNNABLE task off a queue its new mask excludes.                *)
SetAffinity(w, t, m) ==
  /\ wop[w] = "idle" /\ state[t] # "free"
  /\ cpu_mask' = [cpu_mask EXCEPT ![t] = m]
  /\ IF cpu_home[t] \in CPU \ m /\ state[t] = "runnable"
     THEN Take(w, "move", t) ELSE UNCHANGED wakeVars
  /\ UNCHANGED <<state, cpu_home, on_cpu, timed, tpc, sweep, held, cpuVars, reapVars>>

AffinityDetach(w) ==
  /\ wop[w] = "move"
  /\ rq_detach_anywhere(wtgt[w])
  /\ Take(w, "enq", wtgt[w])
  /\ UNCHANGED <<state, on_cpu, cpu_mask, timed, tpc, sweep, held, current, leaving, cpc, reapVars>>

(* The enqueue a waker decided on earlier; the task may have moved on.     *)
WakerEnqueue(w, c) ==
  /\ wop[w] = "enq"
  /\ task_enqueue(wtgt[w], c)
  /\ Take(w, "idle", None)
  /\ UNCHANGED <<state, on_cpu, cpu_mask, timed, tpc, sweep, held, current, leaving, cpc, reapVars>>

-----------------------------------------------------------------------------
(* task_reap.                                                              *)

ReapStep(r, op, t, i) ==
  /\ rop' = [rop EXCEPT ![r] = op]
  /\ rtgt' = [rtgt EXCEPT ![r] = t]
  /\ ridx' = [ridx EXCEPT ![r] = i]

(* Look up and claim under master_lock.                                    *)
ReapClaim(r, t) ==
  /\ rop[r] = "idle"
  /\ state[t] = "dead" /\ t \notin reaping
  /\ reaping' = reaping \cup {t}
  /\ ReapStep(r, "check", t, 0)
  /\ UNCHANGED <<taskVars, cpuVars, wakeVars>>

(* Refuse, giving the claim back, while any CPU stands on the victim.      *)
ReapCheckMutant(r) ==
  /\ rop[r] = "check"
  /\ ReapStep(r, "purge", rtgt[r], 0)
  /\ UNCHANGED <<reaping, taskVars, cpuVars, wakeVars>>

ReapCheck(r) ==
  /\ rop[r] = "check"
  /\ IF rtgt[r] \in on_cpu \/ \E c \in CPU : current[c] = rtgt[r]
     THEN /\ reaping' = reaping \ {rtgt[r]}
          /\ ReapStep(r, "idle", None, 0)
     ELSE UNCHANGED reaping /\ ReapStep(r, "purge", rtgt[r], 0)
  /\ UNCHANGED <<taskVars, cpuVars, wakeVars>>

(* The last line of defence: sweep every queue again.                      *)
ReapPurge(r) ==
  /\ rop[r] = "purge" /\ ridx[r] < NCPU
  /\ rq_purge(rtgt[r], ridx[r])
  /\ ReapStep(r, "purge", rtgt[r], ridx[r] + 1)
  /\ UNCHANGED <<state, on_cpu, cpu_mask, timed, tpc, sweep, held, current, leaving, cpc,
                 wakeVars, reaping>>

(* cpu_home = -1, unlink from the master ring, kfree; a claim left on the  *)
(* task goes with it (nobody finds it any more, and kcalloc clears it).    *)
ReapFree(r) ==
  /\ rop[r] = "purge" /\ ridx[r] = NCPU
  /\ state' = [state EXCEPT ![rtgt[r]] = "free"]
  /\ cpu_home' = [cpu_home EXCEPT ![rtgt[r]] = NoCpu]
  /\ timed' = timed \ {rtgt[r]}
  /\ reaping' = reaping \ {rtgt[r]}
  /\ ReapStep(r, "idle", None, 0)
  /\ UNCHANGED <<on_cpu, cpu_mask, tpc, sweep, held, cpuVars, wakeVars>>

-----------------------------------------------------------------------------
CpuNext(c) ==
  Schedule(c) \/ Pull(c) \/ Repick(c) \/ FinishSwitch(c) \/ BalanceTick(c)

TaskNext(t) ==
  \/ Spawn(t) \/ DetachSelf(t) \/ Recheck(t) \/ Exit(t) \/ ExitSweep(t)
  \/ \E c \in CPU : task_release(t, c) \/ RequeueSelf(t, c)
  \/ \E k \in Sleeps[t] : Mark(t, k)

WakerNext(w) ==
  \/ WakeTimed(w) \/ WakeAimed(w) \/ AffinityDetach(w)
  \/ \E c \in CPU : WakerEnqueue(w, c)
  \/ \E t \in Tasks : WakeWaitq(w, t) \/ ReadWq(w, t) \/ ClaimTimed(w, t) \/ ResumeStopped(w, t)
  \/ \E t \in Tasks : \E m \in Masks[t] : SetAffinity(w, t, m)

ReaperNext(r) ==
  ReapCheck(r) \/ ReapPurge(r) \/ ReapFree(r) \/ \E t \in Tasks : ReapClaim(r, t)

Next ==
  \/ \E c \in CPU : CpuNext(c)
  \/ \E t \in Tasks : TaskNext(t)
  \/ \E w \in Wakers : WakerNext(w)
  \/ \E r \in Reapers : ReaperNext(r)

Spec == Init /\ [][Next]_vars

-----------------------------------------------------------------------------
(* Safety.                                                                 *)

StandsOn(c, t) == current[c] = t \/ leaving[c] = t

(* Two CPUs never stand on one task's stack, whether running it or still   *)
(* leaving it (on_cpu and task_running_elsewhere, against the window       *)
(* between publishing `current` and finishing the stack swap).             *)
OneCpuPerTask ==
  \A c, d \in CPU : \A t \in Tasks : StandsOn(c, t) /\ StandsOn(d, t) => c = d

(* A wake is never lost: a RUNNABLE task that is on no queue and on no CPU *)
(* has somebody on the way to enqueue it (audit rule 5, with its           *)
(* legitimate transients named).                                           *)
NeverLost ==
  \A t \in Tasks :
    state[t] = "runnable" /\ cpu_home[t] = NoCpu /\ t \notin on_cpu =>
      t \in held \/ \E w \in Wakers : wop[w] = "enq" /\ wtgt[w] = t

(* The exit path's sweep is airtight: once the reaper has found the task   *)
(* off every CPU, its own sweep finds the task on no queue, so the "STILL  *)
(* QUEUED" report of task_reap never fires.                                *)
ReapFindsNothingQueued ==
  \A r \in Reapers : rop[r] = "purge" => \A c \in CPU : rtgt[r] \notin rq[c]

(* A freed task is linked in no run queue, is not the current or the       *)
(* outgoing task of a CPU, and is in no reaper's hands: no walk of a queue,*)
(* no switch and no reap follows a pointer into the freed structure.  (A   *)
(* waker in flight may still read it: EnqueueTargetAllocated.)             *)
FreedUnreachable ==
  \A t \in Tasks : state[t] = "free" =>
    /\ \A c \in CPU : t \notin rq[c] /\ ~StandsOn(c, t)
    /\ \A r \in Reapers : rtgt[r] # t

(* A timed sleep has exactly one party entitled to end it: either the      *)
(* claim is still on the task, or exactly one waker holds it (the sweep    *)
(* and a kill cannot both end one sleep).                                  *)
TimedSleepHasOneEnder ==
  \A t \in Tasks :
    /\ t \in timed => state[t] = "timed"
    /\ state[t] = "timed" =>
         LET holders == {w \in Wakers : wop[w] = "claimed" /\ wtgt[w] = t} IN
         IF t \in timed THEN holders = {} ELSE \E w \in Wakers : holders = {w}

(* A task executing ordinary code is RUNNABLE: no late store of a waker    *)
(* and no switch ever leaves a CPU running a sleeping or stopped task.     *)
RunningIsRunnable ==
  \A c \in CPU : \A t \in Tasks :
    Executing(t, c) /\ tpc[t] = "run" => state[t] = "runnable"

(* DEAD is final: although a claim's owner stores RUNNABLE unconditionally *)
(* (sleep_sweep, wake_timed_sleeper), no dead task is ever revived.        *)
DeadIsFinal ==
  [][\A t \in Tasks : state[t] = "dead" => state'[t] \in {"dead", "free"}]_vars

(* wake_waitq_sleeper's comment on its late enqueue: the DEAD re-check     *)
(* inside task_enqueue makes it safe, so the structure it tests is still   *)
(* allocated when the enqueue runs.                                        *)
EnqueueTargetAllocated ==
  \A w \in Wakers : wop[w] = "enq" => state[wtgt[w]] # "free"

(* The two steps the code allows and its comments do not expect.  A stale  *)
(* wake_waitq_sleeper (t->wq read while the task slept on a wait queue)    *)
(* ends a timed sleep without taking its claim ...                         *)
EndsTimedSleep(w) == WakeAimed(w) /\ state[wtgt[w]] = "timed"

(* ... and the claim left behind lets the sweep or a kill store RUNNABLE   *)
(* into a task that has exited since.                                      *)
Revives(w) == WakeTimed(w) /\ state[wtgt[w]] \in {"dead", "free"}

(* The behaviours without the second step, and without the first.          *)
NoRevival == [][\A w \in Wakers : ~Revives(w)]_vars
NoStaleEnd == [][\A w \in Wakers : ~EndsTimedSleep(w)]_vars

-----------------------------------------------------------------------------
(* The inductive invariant behind the safety properties, part by part.     *)

(* cpu_home is an exact ownership token (audit rules 1 and 2).             *)
HomeExact == \A t \in Tasks, c \in CPU : t \in rq[c] <=> cpu_home[t] = c

(* on_cpu says exactly whether some CPU stands on the task.                *)
OnCpuExact == \A t \in Tasks : t \in on_cpu <=> \E c \in CPU : StandsOn(c, t)

(* A CPU has an outgoing task exactly during a switch, and not its own.    *)
SwitchExact ==
  \A c \in CPU : /\ cpc[c] = "switch" <=> leaving[c] # None
                 /\ leaving[c] \in Tasks => leaving[c] # current[c]

(* Where a task can be in its own code, given where the CPUs are.          *)
CodePlaces ==
  \A t \in Tasks :
    /\ tpc[t] \in {"marked", "detached", "requeue", "dying"} => \E c \in CPU : Executing(t, c)
    /\ tpc[t] = "parked" => \E c \in CPU : current[c] = t /\ cpc[c] # "switch"

(* How the state a task publishes follows where it is.                     *)
StateMatchesCode ==
  \A t \in Tasks :
    /\ state[t] \in {"dead", "free"} <=> tpc[t] \in {"dying", "gone"}
    /\ state[t] = "free" => tpc[t] = "gone" /\ t \notin on_cpu /\ cpu_home[t] = NoCpu
    /\ tpc[t] = "requeue" => state[t] = "runnable"
    /\ \A c \in CPU : current[c] = t /\ tpc[t] = "run" => state[t] = "runnable"

(* The timed-sleep claim is in exactly one place.                          *)
ClaimExact ==
  /\ \A t \in Tasks : t \in timed => state[t] = "timed"
  /\ \A t \in Tasks : state[t] = "timed" /\ t \notin timed =>
                        \E w \in Wakers : wop[w] = "claimed" /\ wtgt[w] = t
  /\ \A w \in Wakers : wop[w] = "claimed" =>
       state[wtgt[w]] = "timed" /\ wtgt[w] \notin timed
  /\ \A v, w \in Wakers :
       wop[v] = "claimed" /\ wop[w] = "claimed" /\ wtgt[v] = wtgt[w] => v = w

(* A dead task is only on queues its exit sweep has not reached.           *)
SweepExact ==
  \A t \in Tasks, c \in CPU :
    state[t] = "dead" /\ t \in rq[c] => tpc[t] = "dying" /\ sweep[t] <= c

(* A reaper owns what it works on, and past its check nothing runs it.     *)
ReaperExact ==
  /\ \A r \in Reapers : rop[r] = "idle" <=> rtgt[r] = None
  /\ \A r \in Reapers : rop[r] # "idle" => state[rtgt[r]] = "dead" /\ rtgt[r] \in reaping
  /\ \A r \in Reapers : rop[r] = "purge" => rtgt[r] \notin on_cpu
  /\ \A q, r \in Reapers : rop[r] # "idle" /\ rtgt[q] = rtgt[r] => q = r

WakerExact == \A w \in Wakers : wop[w] = "idle" <=> wtgt[w] = None

(* A RUNNABLE task on no queue is about to be enqueued, by somebody else   *)
(* or by itself.                                                           *)
WakeInFlight ==
  \A t \in Tasks :
    state[t] = "runnable" /\ cpu_home[t] = NoCpu =>
      \/ t \in held \/ tpc[t] \in {"detached", "requeue"}
      \/ \E w \in Wakers : wop[w] = "enq" /\ wtgt[w] = t

(* What a task publishes and where it is, whatever the wakers do: an       *)
(* exited task never leaves exit's code, and one at ordinary code on a CPU *)
(* is RUNNABLE.                                                            *)
RunPlaces ==
  \A t \in Tasks :
    /\ state[t] \in {"dead", "free"} => tpc[t] \in {"dying", "gone"}
    /\ state[t] = "free" => t \notin reaping
    /\ tpc[t] = "requeue" => state[t] = "runnable"
    /\ \A c \in CPU : current[c] = t /\ tpc[t] = "run" => state[t] = "runnable"

(* A reaper alone holds its victim, which has exited.                      *)
ReaperOwns ==
  /\ \A r \in Reapers : rop[r] = "idle" <=> rtgt[r] = None
  /\ \A r \in Reapers : rop[r] # "idle" =>
       rtgt[r] \in reaping /\ tpc[rtgt[r]] \in {"dying", "gone"}
  /\ \A q, r \in Reapers : rop[r] # "idle" /\ rtgt[q] = rtgt[r] => q = r

(* Inductive for every behaviour.                                          *)
SafeInv ==
  /\ TypeOK /\ OneCpuPerTask /\ OnCpuExact /\ SwitchExact /\ CodePlaces
  /\ RunPlaces /\ ReaperOwns /\ WakerExact

(* Inductive where no claim's owner revives a task.                        *)
CoreInv ==
  /\ TypeOK /\ HomeExact /\ OneCpuPerTask /\ OnCpuExact /\ SwitchExact /\ CodePlaces
  /\ StateMatchesCode /\ SweepExact /\ ReaperExact /\ WakerExact /\ WakeInFlight

(* Inductive where no stale wake ends a timed sleep.                       *)
IndInv == CoreInv /\ ClaimExact
=============================================================================
