--------------------------- MODULE SchedulerProof ---------------------------
(* Proofs about Scheduler, for any number of CPUs, tasks, wakers and       *)
(* reapers: one lemma per action, over lemmas on the queue operations.     *)
(* SafeInv holds of every behaviour; CoreInv of those in which no claim's  *)
(* owner revives an exited task (NoRevival); and the claim of a timed      *)
(* sleep is exact in those in which no stale wake ends one (NoStaleEnd).   *)
EXTENDS Scheduler, TLAPS

(* The null queue index names no queue.                                    *)
LEMMA NoCpuFact == NoCpu \notin CPU
BY NCpuAssumption DEF NoCpu, CPU

RqTypes ==
  rq \in [CPU -> SUBSET Tasks] /\ cpu_home \in [Tasks -> CPU \cup {NoCpu}]

(* task_enqueue adds at most the one task to the one queue, never a dead   *)
(* one, and leaves it on some queue unless it was dead.                    *)
LEMMA EnqueueFacts ==
  ASSUME RqTypes, HomeExact, NEW t \in Tasks, NEW c \in CPU, task_enqueue(t, c)
  PROVE  /\ RqTypes' /\ HomeExact'
         /\ \A s \in Tasks, d \in CPU :
              s \in rq'[d] => s \in rq[d] \/ (s = t /\ state[t] \notin {"dead", "free"})
         /\ \A s \in Tasks : s # t => cpu_home'[s] = cpu_home[s]
         /\ cpu_home'[t] = NoCpu => state[t] \in {"dead", "free"} /\ cpu_home[t] = NoCpu
         /\ state[t] \in {"dead", "free"} => cpu_home'[t] = cpu_home[t]
<1>1. CASE state[t] \in {"dead", "free"} \/ cpu_home[t] # NoCpu
  BY <1>1 DEF RqTypes, HomeExact, task_enqueue
<1>2. CASE ~(state[t] \in {"dead", "free"} \/ cpu_home[t] # NoCpu)
  BY <1>2, NoCpuFact DEF RqTypes, HomeExact, task_enqueue
<1> QED BY <1>1, <1>2

(* rq_remove of a task from the queue that owns it.                        *)
LEMMA RemoveFacts ==
  ASSUME RqTypes, HomeExact, NEW t \in Tasks, NEW c \in CPU, t \in rq[c], rq_remove(t, c)
  PROVE  /\ RqTypes' /\ HomeExact'
         /\ \A s \in Tasks, d \in CPU : s \in rq'[d] => s \in rq[d]
         /\ \A s \in Tasks : s # t => cpu_home'[s] = cpu_home[s]
         /\ cpu_home'[t] = NoCpu
BY NoCpuFact DEF RqTypes, HomeExact, rq_remove

(* rq_detach_anywhere leaves the task on no queue and touches no other.    *)
LEMMA DetachFacts ==
  ASSUME RqTypes, HomeExact, NEW t \in Tasks, rq_detach_anywhere(t)
  PROVE  /\ RqTypes' /\ HomeExact'
         /\ \A s \in Tasks, d \in CPU : s \in rq'[d] => s \in rq[d]
         /\ \A s \in Tasks : s # t => cpu_home'[s] = cpu_home[s]
         /\ cpu_home'[t] = NoCpu
<1>1. CASE cpu_home[t] = NoCpu
  BY <1>1 DEF RqTypes, HomeExact, rq_detach_anywhere
<1>2. CASE cpu_home[t] # NoCpu
  <2>1. cpu_home[t] \in CPU /\ t \in rq[cpu_home[t]] /\ rq_remove(t, cpu_home[t])
    BY <1>2 DEF RqTypes, HomeExact, rq_detach_anywhere
  <2> QED BY <2>1, RemoveFacts
<1> QED BY <1>1, <1>2

(* One queue of rq_purge_all: the task is gone from that queue.            *)
LEMMA PurgeFacts ==
  ASSUME RqTypes, HomeExact, NEW t \in Tasks, NEW c \in CPU, rq_purge(t, c)
  PROVE  /\ RqTypes' /\ HomeExact'
         /\ \A s \in Tasks, d \in CPU : s \in rq'[d] => s \in rq[d]
         /\ \A s \in Tasks : s # t => cpu_home'[s] = cpu_home[s]
         /\ t \notin rq'[c]
<1>1. CASE t \in rq[c]
  <2>1. rq_remove(t, c) BY <1>1 DEF rq_purge
  <2>2. t \notin rq'[c] BY <2>1 DEF rq_remove, RqTypes
  <2> QED BY <1>1, <2>1, <2>2, RemoveFacts
<1>2. CASE t \notin rq[c]
  BY <1>2 DEF rq_purge, RqTypes, HomeExact
<1> QED BY <1>1, <1>2

(* A steal moves one task, which ends on a queue.                          *)
LEMMA StealFacts ==
  ASSUME RqTypes, HomeExact, NEW t \in Tasks, NEW c \in CPU, NEW v \in CPU,
         CanSteal(c, v, t), MoveTask(t, v, c)
  PROVE  /\ RqTypes' /\ HomeExact'
         /\ state[t] = "runnable"
         /\ \A s \in Tasks, d \in CPU : s \in rq'[d] => s \in rq[d] \/ s = t
         /\ \A s \in Tasks : s # t => cpu_home'[s] = cpu_home[s]
         /\ cpu_home'[t] # NoCpu
BY NoCpuFact DEF RqTypes, HomeExact, CanSteal, MoveTask

(* A CPU that keeps its task returns from schedule() and disturbs nothing. *)
LEMMA KeepStep ==
  ASSUME CoreInv, NEW c \in CPU, cpc[c] # "switch",
         current[c] \in Tasks => state[current[c]] = "runnable", Keep(c),
         UNCHANGED <<state, cpu_home, cpu_mask, timed, sweep, held, rq, wakeVars, reapVars>>
  PROVE  CoreInv'
<1>1. TypeOK'
  BY DEF CoreInv, TypeOK, Keep, ReturnFrom, wakeVars, reapVars
<1>2. OneCpuPerTask'
  BY DEF CoreInv, OneCpuPerTask, StandsOn, Keep
<1>3. OnCpuExact'
  BY DEF CoreInv, OnCpuExact, StandsOn, Keep
<1>4. SwitchExact'
  BY DEF CoreInv, SwitchExact, Keep
<1>5. CodePlaces'
  BY DEF CoreInv, CodePlaces, Executing, Keep, ReturnFrom
<1>6. StateMatchesCode'
  BY DEF CoreInv, StateMatchesCode, Keep, ReturnFrom
<1>7. SweepExact'
  BY DEF CoreInv, SweepExact, Keep, ReturnFrom
<1>8. ReaperExact'
  BY DEF CoreInv, ReaperExact, Keep, reapVars
<1>9. WakeInFlight'
  BY DEF CoreInv, WakeInFlight, Keep, ReturnFrom, wakeVars
<1>10. HomeExact' /\ WakerExact'
  BY DEF CoreInv, HomeExact, WakerExact, wakeVars
<1> QED BY <1>1, <1>2, <1>3, <1>4, <1>5, <1>6, <1>7, <1>8, <1>9, <1>10 DEF CoreInv

(* Publishing a RUNNABLE task no CPU stands on, with the outgoing one      *)
(* recorded in `leaving`, keeps the invariant.                             *)
LEMMA SwitchToStep ==
  ASSUME CoreInv, NEW c \in CPU, cpc[c] # "switch",
         NEW n \in Tasks \cup {Idle}, n # current[c],
         n \in Tasks => state[n] = "runnable" /\ n \notin on_cpu,
         current[c] \in Tasks => tpc[current[c]] \in {"run", "parked", "gone"},
         SwitchTo(c, n),
         UNCHANGED <<state, cpu_home, cpu_mask, timed, sweep, held, rq, wakeVars, reapVars>>
  PROVE  CoreInv'
<1>1. TypeOK'
  BY DEF CoreInv, TypeOK, SwitchTo, ReturnFrom, wakeVars, reapVars
<1>2. OneCpuPerTask'
  BY DEF CoreInv, OneCpuPerTask, OnCpuExact, StandsOn, SwitchTo
<1>3. OnCpuExact'
  BY TaskAssumption DEF CoreInv, TypeOK, OnCpuExact, SwitchExact, StandsOn, SwitchTo
<1>4. SwitchExact'
  BY TaskAssumption DEF CoreInv, TypeOK, SwitchExact, SwitchTo
<1>5. CodePlaces'
  BY DEF CoreInv, CodePlaces, Executing, SwitchTo, ReturnFrom
<1>6. StateMatchesCode'
  BY DEF CoreInv, TypeOK, StateMatchesCode, OneCpuPerTask, StandsOn, SwitchTo, ReturnFrom
<1>7. SweepExact'
  BY DEF CoreInv, SweepExact, SwitchTo, ReturnFrom
<1>8. ReaperExact'
  BY DEF CoreInv, ReaperExact, SwitchTo, reapVars
<1>9. WakeInFlight'
  BY DEF CoreInv, WakeInFlight, SwitchTo, ReturnFrom, wakeVars
<1>10. HomeExact' /\ WakerExact'
  BY DEF CoreInv, HomeExact, WakerExact, wakeVars
<1> QED BY <1>1, <1>2, <1>3, <1>4, <1>5, <1>6, <1>7, <1>8, <1>9, <1>10 DEF CoreInv

(* A task in the middle of schedule() is at ordinary code, committed to    *)
(* sleep, or past exit.                                                    *)
LEMMA CodeOfCurrent ==
  ASSUME CoreInv, NEW c \in CPU, cpc[c] \in {"pull", "repick", "nopick"}, current[c] \in Tasks
  PROVE  tpc[current[c]] \in {"run", "parked", "gone"}
BY DEF CoreInv, TypeOK, CodePlaces, OneCpuPerTask, StandsOn, Executing

(* Running what pick_next_local_locked returned.                           *)
LEMMA RunStep ==
  ASSUME CoreInv, NEW c \in CPU, cpc[c] # "switch", NEW n \in Eligible(c), Run(c, n),
         current[c] \in Tasks => tpc[current[c]] \in {"run", "parked", "gone"},
         UNCHANGED <<state, cpu_home, cpu_mask, timed, sweep, held, rq, wakeVars, reapVars>>
  PROVE  CoreInv'
<1>1. n \in Tasks /\ state[n] = "runnable" /\ ~task_running_elsewhere(n, c)
  BY DEF Eligible, CoreInv, TypeOK
<1>2. CASE n = current[c]
  BY <1>1, <1>2, KeepStep DEF Run
<1>3. CASE n # current[c]
  <2>1. n \notin on_cpu BY <1>1, <1>3 DEF task_running_elsewhere
  <2> QED BY <1>1, <1>3, <2>1, SwitchToStep DEF Run
<1> QED BY <1>2, <1>3

(* Falling back to the same task, or to the idle task.                     *)
LEMMA FallbackStep ==
  ASSUME CoreInv, NEW c \in CPU, cpc[c] \in {"repick", "nopick"}, Fallback(c),
         UNCHANGED <<state, cpu_home, cpu_mask, timed, sweep, held, rq, wakeVars, reapVars>>
  PROVE  CoreInv'
<1>1. CASE current[c] \in Tasks /\ state[current[c]] = "runnable"
      /\ c \in cpu_mask[current[c]]
  BY <1>1, KeepStep DEF Fallback
<1>2. CASE ~(current[c] \in Tasks /\ state[current[c]] = "runnable"
      /\ c \in cpu_mask[current[c]])
  <2>1. Run(c, Idle) BY <1>2 DEF Fallback
  <2>2. CASE Idle = current[c]
    BY <2>1, <2>2, KeepStep, TaskAssumption DEF Run
  <2>3. CASE Idle # current[c]
    BY <2>1, <2>3, SwitchToStep, CodeOfCurrent, TaskAssumption DEF Run
  <2> QED BY <2>2, <2>3
<1> QED BY <1>1, <1>2

(* schedule_locked up to its first pick.                                   *)
LEMMA ScheduleStep ==
  ASSUME CoreInv, NEW c \in CPU, Schedule(c)
  PROVE  CoreInv'
<1>1. cpc[c] = "run"
      /\ (current[c] \in Tasks => tpc[current[c]] \in {"run", "parked", "gone"})
  BY DEF Schedule, MayEnterSchedule
<1>2. UNCHANGED <<state, cpu_home, cpu_mask, timed, sweep, held, rq, wakeVars, reapVars>>
  BY DEF Schedule
<1>3. CASE \E n \in Eligible(c) : Run(c, n)
  BY <1>1, <1>2, <1>3, RunStep
<1>4. CASE cpc' = [cpc EXCEPT ![c] = "pull"] /\ UNCHANGED <<current, leaving, on_cpu, tpc>>
  <2>1. TypeOK' /\ SwitchExact'
    BY <1>1, <1>2, <1>4 DEF CoreInv, TypeOK, SwitchExact, wakeVars, reapVars
  <2>2. CodePlaces'
    BY <1>1, <1>2, <1>4 DEF CoreInv, TypeOK, CodePlaces, Executing
  <2>3. /\ HomeExact' /\ OneCpuPerTask' /\ OnCpuExact' /\ StateMatchesCode'
        /\ SweepExact' /\ ReaperExact' /\ WakerExact' /\ WakeInFlight'
    BY <1>2, <1>4 DEF CoreInv, HomeExact, OneCpuPerTask, OnCpuExact, StandsOn,
       StateMatchesCode,
       SweepExact, ReaperExact, WakerExact, WakeInFlight, wakeVars, reapVars
  <2> QED BY <2>1, <2>2, <2>3 DEF CoreInv
<1> QED BY <1>3, <1>4 DEF Schedule

(* load_balance_pull inside schedule_locked: a steal is a move under both  *)
(* locks.                                                                  *)
LEMMA PullStep ==
  ASSUME CoreInv, NEW c \in CPU, Pull(c)
  PROVE  CoreInv'
<1>0. RqTypes BY DEF CoreInv, TypeOK, RqTypes
<1>1. TypeOK'
  <2>1. CASE UNCHANGED <<rq, cpu_home>>
    BY <2>1 DEF CoreInv, TypeOK, Pull, wakeVars, reapVars
  <2>2. ASSUME NEW v \in CPU, NEW t \in Tasks, CanSteal(c, v, t), MoveTask(t, v, c)
        PROVE  TypeOK'
    <3>1. RqTypes' BY <1>0, <2>2, StealFacts DEF CoreInv
    <3> QED BY <3>1 DEF CoreInv, TypeOK, RqTypes, Pull, wakeVars, reapVars
  <2> QED BY <2>1, <2>2 DEF Pull
<1>2. HomeExact'
  BY <1>0, StealFacts DEF CoreInv, HomeExact, Pull
<1>3. SwitchExact'
  BY DEF CoreInv, TypeOK, SwitchExact, Pull
<1>4. CodePlaces'
  BY DEF CoreInv, TypeOK, CodePlaces, Pull, Executing
<1>5. StateMatchesCode'
  BY <1>0, StealFacts DEF CoreInv, StateMatchesCode, Pull
<1>6. SweepExact'
  BY <1>0, NCpuAssumption, StealFacts DEF CoreInv, SweepExact, Pull
<1>7. WakeInFlight'
  BY <1>0, StealFacts DEF CoreInv, WakeInFlight, Pull, wakeVars
<1>8. OneCpuPerTask' /\ OnCpuExact' /\ ReaperExact' /\ WakerExact'
  BY DEF CoreInv, OneCpuPerTask, OnCpuExact, ReaperExact, WakerExact, Pull,
     taskVars, cpuVars, wakeVars, reapVars, StandsOn, Executing
<1> QED BY <1>1, <1>2, <1>3, <1>4, <1>5, <1>6, <1>7, <1>8 DEF CoreInv

(* schedule_locked after the pull.                                         *)
LEMMA RepickStep ==
  ASSUME CoreInv, NEW c \in CPU, Repick(c)
  PROVE  CoreInv'
<1>1. UNCHANGED <<state, cpu_home, cpu_mask, timed, sweep, held, rq, wakeVars, reapVars>>
  BY DEF Repick
<1>2. CASE cpc[c] = "repick" /\ \E n \in Eligible(c) : Run(c, n)
  BY <1>1, <1>2, RunStep, CodeOfCurrent
<1>3. CASE cpc[c] \in {"repick", "nopick"} /\ Fallback(c)
  BY <1>1, <1>3, FallbackStep
<1> QED BY <1>2, <1>3 DEF Repick

(* sched_release_leaving: on_cpu is cleared once the CPU is off the old    *)
(* stack.                                                                  *)
LEMMA FinishSwitchStep ==
  ASSUME CoreInv, NEW c \in CPU, FinishSwitch(c)
  PROVE  CoreInv'
<1>1. TypeOK'
  BY DEF CoreInv, TypeOK, FinishSwitch, wakeVars, reapVars
<1>2. OneCpuPerTask'
  BY TaskAssumption DEF CoreInv, OneCpuPerTask, FinishSwitch, StandsOn
<1>3. OnCpuExact'
  BY TaskAssumption DEF CoreInv, TypeOK, OnCpuExact, OneCpuPerTask, SwitchExact,
     FinishSwitch, StandsOn
<1>4. SwitchExact'
  BY TaskAssumption DEF CoreInv, TypeOK, SwitchExact, FinishSwitch
<1>5. CodePlaces'
  BY DEF CoreInv, CodePlaces, FinishSwitch, Executing
<1>6. StateMatchesCode'
  BY DEF CoreInv, StateMatchesCode, FinishSwitch
<1>7. ReaperExact'
  BY DEF CoreInv, ReaperExact, FinishSwitch, reapVars
<1>8. HomeExact' /\ SweepExact' /\ WakerExact' /\ WakeInFlight'
  BY DEF CoreInv, HomeExact, SweepExact, WakerExact, WakeInFlight,
     FinishSwitch, taskVars, cpuVars, wakeVars, reapVars, StandsOn, Executing
<1> QED BY <1>1, <1>2, <1>3, <1>4, <1>5, <1>6, <1>7, <1>8 DEF CoreInv

(* The periodic pull, from the timer interrupt.                            *)
LEMMA BalanceTickStep ==
  ASSUME CoreInv, NEW c \in CPU, BalanceTick(c)
  PROVE  CoreInv'
<1>0. RqTypes BY DEF CoreInv, TypeOK, RqTypes
<1>1. TypeOK'
  BY StealFacts DEF CoreInv, TypeOK, BalanceTick, wakeVars, reapVars, RqTypes
<1>2. HomeExact'
  BY <1>0, StealFacts DEF CoreInv, BalanceTick
<1>3. StateMatchesCode'
  BY <1>0, StealFacts DEF CoreInv, StateMatchesCode, BalanceTick
<1>4. SweepExact'
  BY <1>0, StealFacts DEF CoreInv, SweepExact, BalanceTick
<1>5. WakeInFlight'
  BY <1>0, StealFacts DEF CoreInv, WakeInFlight, BalanceTick, wakeVars
<1>6. OneCpuPerTask' /\ OnCpuExact' /\ SwitchExact' /\ CodePlaces'
      /\ ReaperExact' /\ WakerExact'
  BY DEF CoreInv, OneCpuPerTask, OnCpuExact, SwitchExact, CodePlaces, ReaperExact,
     WakerExact, BalanceTick, wakeVars, reapVars, StandsOn, Executing
<1> QED BY <1>1, <1>2, <1>3, <1>4, <1>5, <1>6 DEF CoreInv

(* A new task is RUNNABLE and in the hands of its creator.                 *)
LEMMA SpawnStep ==
  ASSUME CoreInv, NEW t \in Tasks, Spawn(t)
  PROVE  CoreInv'
<1>1. TypeOK'
  <2>1. cpu_mask' \in [Tasks -> SUBSET CPU] BY DEF CoreInv, TypeOK, Spawn
  <2> QED BY <2>1 DEF CoreInv, TypeOK, Asleep, Spawn, cpuVars, wakeVars, reapVars
<1>2. CodePlaces'
  BY DEF CoreInv, CodePlaces, Spawn, cpuVars, Executing
<1>3. StateMatchesCode'
  BY DEF CoreInv, TypeOK, StateMatchesCode, Spawn, cpuVars
<1>5. SweepExact'
  BY DEF CoreInv, SweepExact, Spawn, cpuVars
<1>6. ReaperExact'
  BY DEF CoreInv, ReaperExact, Spawn, reapVars
<1>7. WakeInFlight'
  BY DEF CoreInv, WakeInFlight, Spawn, wakeVars
<1>8. HomeExact' /\ OneCpuPerTask' /\ OnCpuExact' /\ SwitchExact' /\ WakerExact'
  BY DEF CoreInv, HomeExact, OneCpuPerTask, OnCpuExact, SwitchExact, WakerExact, Spawn,
     taskVars, cpuVars, wakeVars, reapVars, StandsOn, Executing
<1> QED BY <1>1, <1>2, <1>3, <1>5, <1>6, <1>7, <1>8 DEF CoreInv

(* The creator enqueues the task.                                          *)
LEMMA task_releaseStep ==
  ASSUME CoreInv, NEW t \in Tasks, NEW c \in CPU, task_release(t, c)
  PROVE  CoreInv'
<1>0. RqTypes BY DEF CoreInv, TypeOK, RqTypes
<1>1. TypeOK'
  BY EnqueueFacts DEF CoreInv, TypeOK, task_release, wakeVars, reapVars, RqTypes
<1>2. HomeExact'
  BY <1>0, EnqueueFacts DEF CoreInv, task_release
<1>3. StateMatchesCode'
  BY <1>0, EnqueueFacts DEF CoreInv, StateMatchesCode, task_release
<1>4. SweepExact'
  BY <1>0, EnqueueFacts DEF CoreInv, SweepExact, task_release
<1>5. WakeInFlight'
  BY <1>0, EnqueueFacts DEF CoreInv, WakeInFlight, task_release, wakeVars
<1>6. OneCpuPerTask' /\ OnCpuExact' /\ SwitchExact' /\ CodePlaces'
      /\ ReaperExact' /\ WakerExact'
  BY DEF CoreInv, OneCpuPerTask, OnCpuExact, SwitchExact, CodePlaces, ReaperExact,
     WakerExact, task_release, wakeVars, reapVars, StandsOn, Executing
<1> QED BY <1>1, <1>2, <1>3, <1>4, <1>5, <1>6 DEF CoreInv

(* A task says it sleeps while it still executes.                          *)
LEMMA MarkStep ==
  ASSUME CoreInv, NEW t \in Tasks, NEW k \in Asleep, Mark(t, k)
  PROVE  CoreInv'
<1>1. TypeOK'
  BY DEF CoreInv, TypeOK, Mark, cpuVars, wakeVars, reapVars
<1>2. CodePlaces'
  BY DEF CoreInv, CodePlaces, Mark, Executing, cpuVars
<1>3. StateMatchesCode'
  BY DEF CoreInv, TypeOK, StateMatchesCode, Mark, Asleep, cpuVars
<1>5. SweepExact'
  BY DEF CoreInv, SweepExact, Mark, Asleep, cpuVars
<1>6. ReaperExact'
  BY DEF CoreInv, ReaperExact, StateMatchesCode, Mark, reapVars
<1>7. WakeInFlight'
  BY DEF CoreInv, WakeInFlight, Mark, Asleep, wakeVars
<1>8. HomeExact' /\ OneCpuPerTask' /\ OnCpuExact' /\ SwitchExact' /\ WakerExact'
  BY DEF CoreInv, HomeExact, OneCpuPerTask, OnCpuExact, SwitchExact, WakerExact, Mark,
     Executing, Asleep, taskVars, cpuVars, wakeVars, reapVars, StandsOn
<1> QED BY <1>1, <1>2, <1>3, <1>5, <1>6, <1>7, <1>8 DEF CoreInv

(* The sleeper leaves its queue; if a waker came first, the task is still  *)
(* in hand.                                                                *)
LEMMA DetachSelfStep ==
  ASSUME CoreInv, NEW t \in Tasks, DetachSelf(t)
  PROVE  CoreInv'
<1>0. RqTypes BY DEF CoreInv, TypeOK, RqTypes
<1>1. TypeOK'
  BY DetachFacts DEF CoreInv, TypeOK, DetachSelf, wakeVars, reapVars, RqTypes
<1>2. HomeExact'
  BY <1>0, DetachFacts DEF CoreInv, DetachSelf
<1>3. CodePlaces'
  BY DEF CoreInv, CodePlaces, DetachSelf, Executing
<1>4. StateMatchesCode'
  BY <1>0, DetachFacts DEF CoreInv, StateMatchesCode, DetachSelf
<1>5. SweepExact'
  BY <1>0, DetachFacts DEF CoreInv, SweepExact, DetachSelf
<1>6. WakeInFlight'
  BY <1>0, DetachFacts DEF CoreInv, TypeOK, WakeInFlight, DetachSelf, wakeVars
<1>7. OneCpuPerTask' /\ OnCpuExact' /\ SwitchExact' /\ ReaperExact'
      /\ WakerExact'
  BY DEF CoreInv, OneCpuPerTask, OnCpuExact, SwitchExact, ReaperExact,
     WakerExact, DetachSelf, taskVars, cpuVars, wakeVars, reapVars, StandsOn, Executing
<1> QED BY <1>1, <1>2, <1>3, <1>4, <1>5, <1>6, <1>7 DEF CoreInv

(* The re-check: commit, or go back because a waker came between.          *)
LEMMA RecheckStep ==
  ASSUME CoreInv, NEW t \in Tasks, Recheck(t)
  PROVE  CoreInv'
<1>1. TypeOK'
  BY DEF CoreInv, TypeOK, Recheck, cpuVars, wakeVars, reapVars
<1>2. CodePlaces'
  BY NoCpuFact DEF CoreInv, TypeOK, CodePlaces, Recheck, cpuVars, Executing
<1>3. StateMatchesCode'
  BY DEF CoreInv, TypeOK, StateMatchesCode, Recheck, cpuVars
<1>5. SweepExact'
  BY DEF CoreInv, TypeOK, SweepExact, Recheck, cpuVars
<1>6. WakeInFlight'
  BY DEF CoreInv, TypeOK, Asleep, StateMatchesCode, WakeInFlight, Recheck, wakeVars
<1>7. HomeExact' /\ OneCpuPerTask' /\ OnCpuExact' /\ SwitchExact' /\ ReaperExact'
      /\ WakerExact'
  BY DEF CoreInv, HomeExact, OneCpuPerTask, OnCpuExact, SwitchExact, ReaperExact,
     WakerExact, Recheck, taskVars, cpuVars, wakeVars, reapVars, StandsOn, Executing
<1> QED BY <1>1, <1>2, <1>3, <1>5, <1>6, <1>7 DEF CoreInv

(* A task woken before it had slept puts itself back.                      *)
LEMMA RequeueSelfStep ==
  ASSUME CoreInv, NEW t \in Tasks, NEW c \in CPU, RequeueSelf(t, c)
  PROVE  CoreInv'
<1>0. RqTypes BY DEF CoreInv, TypeOK, RqTypes
<1>1. TypeOK'
  BY EnqueueFacts DEF CoreInv, TypeOK, RequeueSelf, wakeVars, reapVars, RqTypes
<1>2. HomeExact'
  BY <1>0, EnqueueFacts DEF CoreInv, RequeueSelf
<1>3. CodePlaces'
  BY DEF CoreInv, CodePlaces, RequeueSelf, Executing
<1>4. StateMatchesCode'
  BY <1>0, EnqueueFacts DEF CoreInv, StateMatchesCode, RequeueSelf
<1>5. SweepExact'
  BY <1>0, EnqueueFacts DEF CoreInv, SweepExact, RequeueSelf
<1>6. WakeInFlight'
  BY <1>0, EnqueueFacts DEF CoreInv, WakeInFlight, RequeueSelf, wakeVars
<1>7. OneCpuPerTask' /\ OnCpuExact' /\ SwitchExact' /\ ReaperExact'
      /\ WakerExact'
  BY DEF CoreInv, OneCpuPerTask, OnCpuExact, SwitchExact, ReaperExact,
     WakerExact, RequeueSelf, taskVars, cpuVars, wakeVars, reapVars, StandsOn, Executing
<1> QED BY <1>1, <1>2, <1>3, <1>4, <1>5, <1>6, <1>7 DEF CoreInv

(* DEAD is published before the sweep starts at queue 0.                   *)
LEMMA ExitStep ==
  ASSUME CoreInv, NEW t \in Tasks, Exit(t)
  PROVE  CoreInv'
<1>1. TypeOK'
  BY NCpuAssumption DEF CoreInv, TypeOK, Exit, cpuVars, wakeVars, reapVars
<1>2. CodePlaces'
  BY DEF CoreInv, CodePlaces, Exit, Executing, cpuVars
<1>3. StateMatchesCode'
  BY DEF CoreInv, TypeOK, StateMatchesCode, Exit, cpuVars
<1>5. SweepExact'
  BY DEF CoreInv, TypeOK, SweepExact, Exit, cpuVars, CPU
<1>6. ReaperExact'
  BY DEF CoreInv, ReaperExact, Exit, reapVars
<1>7. WakeInFlight'
  BY DEF CoreInv, WakeInFlight, Exit, wakeVars
<1>8. HomeExact' /\ OneCpuPerTask' /\ OnCpuExact' /\ SwitchExact' /\ WakerExact'
  BY DEF CoreInv, HomeExact, OneCpuPerTask, OnCpuExact, SwitchExact, WakerExact, Exit,
     Executing, taskVars, cpuVars, wakeVars, reapVars, StandsOn
<1> QED BY <1>1, <1>2, <1>3, <1>5, <1>6, <1>7, <1>8 DEF CoreInv

(* Each visit of the exit sweep clears one more queue, and a DEAD task is  *)
(* never enqueued behind it.                                               *)
LEMMA ExitSweepStep ==
  ASSUME CoreInv, NEW t \in Tasks, ExitSweep(t)
  PROVE  CoreInv'
<1>0. RqTypes BY DEF CoreInv, TypeOK, RqTypes
<1>1. state[t] = "dead" /\ tpc[t] = "dying" /\ sweep[t] \in 0 .. NCPU
  BY DEF CoreInv, TypeOK, StateMatchesCode, ExitSweep
<1>2. CASE sweep[t] < NCPU
  <2>1. sweep[t] \in CPU BY <1>1, <1>2, NCpuAssumption DEF CPU
  <2>2. rq_purge(t, sweep[t]) /\ sweep' = [sweep EXCEPT ![t] = @ + 1] /\ tpc' = tpc
    BY <1>2 DEF ExitSweep
  <2>3. /\ RqTypes' /\ HomeExact'
        /\ \A s \in Tasks, d \in CPU : s \in rq'[d] => s \in rq[d]
        /\ \A s \in Tasks : s # t => cpu_home'[s] = cpu_home[s]
        /\ t \notin rq'[sweep[t]]
    BY <1>0, <2>1, <2>2, PurgeFacts DEF CoreInv
  <2>4. TypeOK'
    <3>1. sweep[t] + 1 \in 0 .. NCPU BY <1>1, <1>2, NCpuAssumption
    <3>2. sweep' \in [Tasks -> 0 .. NCPU] BY <2>2, <3>1 DEF CoreInv, TypeOK
    <3> QED BY <2>2, <2>3, <3>2 DEF CoreInv, TypeOK, RqTypes, ExitSweep, wakeVars, reapVars
  <2>5. SweepExact'
    BY <1>1, <2>1, <2>2, <2>3, NCpuAssumption DEF CoreInv, TypeOK, SweepExact, ExitSweep,
       CPU
  <2>6. StateMatchesCode' /\ WakeInFlight'
    BY <1>1, <2>2, <2>3 DEF CoreInv, StateMatchesCode, WakeInFlight, ExitSweep, wakeVars
  <2>7. /\ OneCpuPerTask' /\ OnCpuExact' /\ SwitchExact' /\ CodePlaces'
        /\ ReaperExact' /\ WakerExact'
    BY <2>2 DEF CoreInv, OneCpuPerTask, OnCpuExact, SwitchExact, CodePlaces, ReaperExact,
       WakerExact, StandsOn, Executing, ExitSweep, wakeVars, reapVars
  <2> QED BY <2>3, <2>4, <2>5, <2>6, <2>7 DEF CoreInv
<1>3. CASE ~(sweep[t] < NCPU)
  <2>1. tpc' = [tpc EXCEPT ![t] = "gone"] /\ sweep' = [sweep EXCEPT ![t] = 0]
        /\ UNCHANGED <<rq, cpu_home>>
    BY <1>3 DEF ExitSweep
  <2>2. \A c \in CPU : t \notin rq[c]
    BY <1>1, <1>3, NCpuAssumption DEF CoreInv, SweepExact, CPU
  <2>3. TypeOK'
    BY <2>1, NCpuAssumption DEF CoreInv, TypeOK, ExitSweep, wakeVars, reapVars
  <2>4. SweepExact'
    BY <1>1, <2>1, <2>2 DEF CoreInv, TypeOK, SweepExact, ExitSweep
  <2>5. StateMatchesCode' /\ WakeInFlight' /\ CodePlaces'
    BY <1>1, <2>1 DEF CoreInv, TypeOK, StateMatchesCode, WakeInFlight, CodePlaces,
       Executing, ExitSweep, wakeVars
  <2>6. /\ HomeExact' /\ OneCpuPerTask' /\ OnCpuExact' /\ SwitchExact'
        /\ ReaperExact' /\ WakerExact'
    BY <2>1 DEF CoreInv, HomeExact, OneCpuPerTask, OnCpuExact, SwitchExact, ReaperExact,
       WakerExact, StandsOn, ExitSweep, wakeVars, reapVars
  <2> QED BY <2>3, <2>4, <2>5, <2>6 DEF CoreInv
<1> QED BY <1>2, <1>3

(* A wait-queue wake decides, then enqueues later.                         *)
LEMMA WakeWaitqStep ==
  ASSUME CoreInv, NEW w \in Wakers, NEW t \in Tasks, WakeWaitq(w, t)
  PROVE  CoreInv'
<1>1. TypeOK'
  BY DEF CoreInv, TypeOK, WakeWaitq, Take, cpuVars, reapVars
<1>2. StateMatchesCode'
  BY DEF CoreInv, StateMatchesCode, WakeWaitq, cpuVars
<1>4. SweepExact'
  BY DEF CoreInv, SweepExact, WakeWaitq, cpuVars
<1>5. ReaperExact'
  BY DEF CoreInv, ReaperExact, WakeWaitq, reapVars
<1>6. WakerExact'
  BY NCpuAssumption, TaskAssumption, MaskAssumption, NoCpuFact DEF CoreInv, TypeOK,
     WakerExact, WakeWaitq, Take, taskVars, cpuVars, wakeVars, reapVars
<1>7. WakeInFlight'
  BY DEF CoreInv, TypeOK, WakeInFlight, WakeWaitq, Take
<1>8. HomeExact' /\ OneCpuPerTask' /\ OnCpuExact' /\ SwitchExact' /\ CodePlaces'
  BY DEF CoreInv, HomeExact, OneCpuPerTask, OnCpuExact, SwitchExact, CodePlaces,
     WakeWaitq, Take, taskVars, cpuVars, wakeVars, reapVars, StandsOn, Executing
<1> QED BY <1>1, <1>2, <1>4, <1>5, <1>6, <1>7, <1>8 DEF CoreInv

(* Reading t->wq changes nothing but the reader.                           *)
LEMMA ReadWqStep ==
  ASSUME CoreInv, NEW w \in Wakers, NEW t \in Tasks, ReadWq(w, t)
  PROVE  CoreInv'
<1>1. TypeOK'
  BY DEF CoreInv, TypeOK, ReadWq, Take, taskVars, cpuVars, reapVars
<1>3. WakerExact'
  BY TaskAssumption DEF CoreInv, TypeOK, WakerExact, ReadWq, Take
<1>4. WakeInFlight'
  BY DEF CoreInv, TypeOK, WakeInFlight, ReadWq, Take, taskVars
<1>5. /\ HomeExact' /\ OneCpuPerTask' /\ OnCpuExact' /\ SwitchExact' /\ CodePlaces'
      /\ StateMatchesCode' /\ SweepExact' /\ ReaperExact'
  BY DEF CoreInv, HomeExact, OneCpuPerTask, OnCpuExact, SwitchExact, CodePlaces,
     StateMatchesCode,
     SweepExact, ReaperExact, ReadWq, taskVars, cpuVars, reapVars, StandsOn, Executing
<1> QED BY <1>1, <1>3, <1>4, <1>5 DEF CoreInv

(* A wake aimed at a wait-queue sleeper earlier wakes whatever sleep it    *)
(* finds, or does nothing.                                                 *)
LEMMA WakeAimedStep ==
  ASSUME CoreInv, NEW w \in Wakers, WakeAimed(w)
  PROVE  CoreInv'
<1> DEFINE t == wtgt[w]
<1>0. t \in Tasks
  BY DEF CoreInv, TypeOK, WakerExact, WakeAimed
<1>1. CASE state[t] \in {"waitq", "timed"}
  <2>0. /\ state' = [state EXCEPT ![t] = "runnable"]
        /\ Take(w, "enq", t)
        /\ UNCHANGED <<cpu_home, on_cpu, cpu_mask, timed, tpc, sweep, held, cpuVars, reapVars>>
    BY <1>1 DEF WakeAimed
  <2> HIDE DEF t
  <2>1. TypeOK'
    BY <1>0, <2>0 DEF CoreInv, TypeOK, Take, cpuVars, reapVars
  <2>2. StateMatchesCode'
    BY <1>0, <1>1, <2>0 DEF CoreInv, TypeOK, StateMatchesCode, Take, cpuVars
  <2>4. SweepExact'
    BY <1>0, <2>0 DEF CoreInv, TypeOK, SweepExact, cpuVars
  <2>5. ReaperExact'
    BY <1>0, <1>1, <2>0 DEF CoreInv, TypeOK, ReaperExact, reapVars
  <2>6. WakerExact'
    BY <1>0, <2>0, TaskAssumption DEF CoreInv, TypeOK, WakerExact, Take
  <2>7. WakeInFlight'
    BY <1>0, <2>0 DEF CoreInv, TypeOK, WakeInFlight, WakeAimed, Take
  <2>8. HomeExact' /\ OneCpuPerTask' /\ OnCpuExact' /\ SwitchExact' /\ CodePlaces'
    BY <2>0 DEF CoreInv, HomeExact, OneCpuPerTask, OnCpuExact, SwitchExact, CodePlaces,
       cpuVars,
       StandsOn, Executing
  <2> QED BY <2>1, <2>2, <2>4, <2>5, <2>6, <2>7, <2>8 DEF CoreInv
<1>2. CASE state[t] \notin {"waitq", "timed"}
  <2>0. /\ Take(w, "idle", None)
        /\ UNCHANGED <<state, cpu_home, on_cpu, cpu_mask, timed, tpc, sweep, held, cpuVars, reapVars>>
    BY <1>0, <1>2 DEF WakeAimed
  <2>1. TypeOK'
    BY <2>0 DEF CoreInv, TypeOK, Take, cpuVars, reapVars
  <2>3. WakerExact'
    BY <2>0 DEF CoreInv, TypeOK, WakerExact, Take
  <2>4. WakeInFlight'
    BY <2>0 DEF CoreInv, TypeOK, WakeInFlight, WakeAimed, Take
  <2>5. /\ HomeExact' /\ OneCpuPerTask' /\ OnCpuExact' /\ SwitchExact' /\ CodePlaces'
        /\ StateMatchesCode' /\ SweepExact' /\ ReaperExact'
    BY <2>0 DEF CoreInv, HomeExact, OneCpuPerTask, OnCpuExact, SwitchExact, CodePlaces,
       StateMatchesCode, SweepExact, ReaperExact, cpuVars, reapVars, StandsOn, Executing
  <2> QED BY <2>1, <2>3, <2>4, <2>5 DEF CoreInv
<1> QED BY <1>1, <1>2

(* The atomic exchange moves the claim from the task to one waker.         *)
LEMMA ClaimTimedStep ==
  ASSUME CoreInv, NEW w \in Wakers, NEW t \in Tasks, ClaimTimed(w, t)
  PROVE  CoreInv'
<1>1. TypeOK'
  BY DEF CoreInv, TypeOK, ClaimTimed, Take, cpuVars, reapVars
<1>3. WakerExact'
  BY TaskAssumption DEF CoreInv, TypeOK, WakerExact, ClaimTimed, Take
<1>4. WakeInFlight'
  BY DEF CoreInv, WakeInFlight, ClaimTimed, Take
<1>5. HomeExact' /\ OneCpuPerTask' /\ OnCpuExact' /\ SwitchExact' /\ CodePlaces'
      /\ StateMatchesCode' /\ SweepExact' /\ ReaperExact'
  BY DEF CoreInv, HomeExact, OneCpuPerTask, OnCpuExact, SwitchExact, CodePlaces,
     StateMatchesCode, SweepExact, ReaperExact, ClaimTimed, Take, taskVars, cpuVars,
     wakeVars, reapVars, StandsOn, Executing
<1> QED BY <1>1, <1>3, <1>4, <1>5 DEF CoreInv

(* The owner of the claim stores RUNNABLE into a task that lives.          *)
LEMMA WakeTimedStep ==
  ASSUME CoreInv, NEW w \in Wakers, WakeTimed(w), ~Revives(w)
  PROVE  CoreInv'
<1>1. TypeOK'
  BY DEF CoreInv, TypeOK, WakeTimed, Take, cpuVars, reapVars
<1>2. StateMatchesCode'
  BY DEF CoreInv, StateMatchesCode, Revives, WakeTimed, cpuVars
<1>4. SweepExact'
  BY DEF CoreInv, SweepExact, WakeTimed, cpuVars
<1>5. ReaperExact'
  BY DEF CoreInv, ReaperExact, Revives, WakeTimed, reapVars
<1>6. WakerExact'
  BY NCpuAssumption, TaskAssumption, MaskAssumption, NoCpuFact DEF CoreInv, TypeOK,
     WakerExact, WakeTimed, Take, taskVars, cpuVars, wakeVars, reapVars
<1>7. WakeInFlight'
  BY DEF CoreInv, TypeOK, WakeInFlight, WakeTimed, Take
<1>8. HomeExact' /\ OneCpuPerTask' /\ OnCpuExact' /\ SwitchExact' /\ CodePlaces'
  BY DEF CoreInv, HomeExact, OneCpuPerTask, OnCpuExact, SwitchExact, CodePlaces,
     WakeTimed, Take, taskVars, cpuVars, wakeVars, reapVars, StandsOn, Executing
<1> QED BY <1>1, <1>2, <1>4, <1>5, <1>6, <1>7, <1>8 DEF CoreInv

(* The CAS from STOPPED picks one resumer.                                 *)
LEMMA ResumeStoppedStep ==
  ASSUME CoreInv, NEW w \in Wakers, NEW t \in Tasks, ResumeStopped(w, t)
  PROVE  CoreInv'
<1>1. TypeOK'
  BY DEF CoreInv, TypeOK, ResumeStopped, Take, cpuVars, reapVars
<1>2. StateMatchesCode'
  BY DEF CoreInv, StateMatchesCode, ResumeStopped, cpuVars
<1>4. SweepExact'
  BY DEF CoreInv, SweepExact, ResumeStopped, cpuVars
<1>5. ReaperExact'
  BY DEF CoreInv, ReaperExact, ResumeStopped, reapVars
<1>6. WakerExact'
  BY TaskAssumption DEF CoreInv, TypeOK, WakerExact, ResumeStopped, Take
<1>7. WakeInFlight'
  BY DEF CoreInv, TypeOK, WakeInFlight, ResumeStopped, Take
<1>8. HomeExact' /\ OneCpuPerTask' /\ OnCpuExact' /\ SwitchExact' /\ CodePlaces'
  BY DEF CoreInv, HomeExact, OneCpuPerTask, OnCpuExact, SwitchExact, CodePlaces,
     ResumeStopped, Take, taskVars, cpuVars, wakeVars, reapVars, StandsOn, Executing
<1> QED BY <1>1, <1>2, <1>4, <1>5, <1>6, <1>7, <1>8 DEF CoreInv

(* A new mask, and the decision to move, change no queue.                  *)
LEMMA SetAffinityStep ==
  ASSUME CoreInv, NEW w \in Wakers, NEW t \in Tasks, NEW m \in Masks[t], SetAffinity(w, t, m)
  PROVE  CoreInv'
<1>1. TypeOK'
  BY TaskAssumption, MaskAssumption DEF CoreInv, TypeOK, SetAffinity, Take, cpuVars,
     wakeVars, reapVars
<1>3. WakerExact'
  BY TaskAssumption DEF CoreInv, TypeOK, WakerExact, SetAffinity, Take, wakeVars
<1>4. WakeInFlight'
  BY DEF CoreInv, TypeOK, WakeInFlight, SetAffinity, Take, wakeVars
<1>5. HomeExact' /\ OneCpuPerTask' /\ OnCpuExact' /\ SwitchExact' /\ CodePlaces'
      /\ StateMatchesCode' /\ SweepExact' /\ ReaperExact'
  BY DEF CoreInv, HomeExact, OneCpuPerTask, OnCpuExact, SwitchExact, CodePlaces,
     StateMatchesCode, SweepExact, ReaperExact, SetAffinity, Take, taskVars, cpuVars,
     wakeVars, reapVars, StandsOn, Executing
<1> QED BY <1>1, <1>3, <1>4, <1>5 DEF CoreInv

(* The move takes the task off its queue and owes it an enqueue.           *)
LEMMA AffinityDetachStep ==
  ASSUME CoreInv, NEW w \in Wakers, AffinityDetach(w)
  PROVE  CoreInv'
<1>0. RqTypes BY DEF CoreInv, TypeOK, RqTypes
<1>1. TypeOK'
  BY DetachFacts DEF CoreInv, TypeOK, WakerExact, AffinityDetach, Take, reapVars, RqTypes
<1>2. HomeExact'
  BY <1>0, DetachFacts DEF CoreInv, TypeOK, WakerExact, AffinityDetach
<1>3. StateMatchesCode'
  BY <1>0, DetachFacts DEF CoreInv, TypeOK, StateMatchesCode, WakerExact, AffinityDetach,
     Take
<1>5. SweepExact'
  <2>1. wtgt[w] \in Tasks BY DEF CoreInv, TypeOK, WakerExact, AffinityDetach
  <2> QED BY <1>0, <2>1, DetachFacts DEF CoreInv, SweepExact, AffinityDetach
<1>6. WakerExact'
  BY DEF CoreInv, WakerExact, AffinityDetach, Take
<1>7. WakeInFlight'
  BY <1>0, DetachFacts DEF CoreInv, TypeOK, WakeInFlight, WakerExact, AffinityDetach, Take
<1>8. OneCpuPerTask' /\ OnCpuExact' /\ SwitchExact' /\ CodePlaces' /\ ReaperExact'
  BY DEF CoreInv, OneCpuPerTask, OnCpuExact, SwitchExact, CodePlaces, ReaperExact,
     AffinityDetach, Take, taskVars, cpuVars, wakeVars, reapVars, StandsOn, Executing
<1> QED BY <1>1, <1>2, <1>3, <1>5, <1>6, <1>7, <1>8 DEF CoreInv

(* A late enqueue is harmless: the DEAD test and the ownership test guard  *)
(* it.                                                                     *)
LEMMA WakerEnqueueStep ==
  ASSUME CoreInv, NEW w \in Wakers, NEW c \in CPU, WakerEnqueue(w, c)
  PROVE  CoreInv'
<1>0. RqTypes BY DEF CoreInv, TypeOK, RqTypes
<1>1. TypeOK'
  BY EnqueueFacts DEF CoreInv, TypeOK, WakerExact, WakerEnqueue, Take, reapVars, RqTypes
<1>2. HomeExact'
  BY <1>0, EnqueueFacts DEF CoreInv, TypeOK, WakerExact, WakerEnqueue
<1>3. StateMatchesCode'
  BY <1>0, EnqueueFacts DEF CoreInv, TypeOK, StateMatchesCode, OnCpuExact, WakerExact,
     WakerEnqueue
<1>5. SweepExact'
  <2>1. wtgt[w] \in Tasks BY DEF CoreInv, TypeOK, WakerExact, WakerEnqueue
  <2> QED BY <1>0, <2>1, EnqueueFacts DEF CoreInv, SweepExact, WakerEnqueue
<1>6. WakerExact'
  BY DEF CoreInv, TypeOK, WakerExact, WakerEnqueue, Take
<1>7. WakeInFlight'
  BY <1>0, NoCpuFact, EnqueueFacts DEF CoreInv, TypeOK, WakeInFlight, WakerExact,
     WakerEnqueue, Take
<1>8. OneCpuPerTask' /\ OnCpuExact' /\ SwitchExact' /\ CodePlaces' /\ ReaperExact'
  BY DEF CoreInv, OneCpuPerTask, OnCpuExact, SwitchExact, CodePlaces, ReaperExact,
     WakerEnqueue, Take, taskVars, cpuVars, wakeVars, reapVars, StandsOn, Executing
<1> QED BY <1>1, <1>2, <1>3, <1>5, <1>6, <1>7, <1>8 DEF CoreInv

(* One reaper per victim.                                                  *)
LEMMA ReapClaimStep ==
  ASSUME CoreInv, NEW r \in Reapers, NEW t \in Tasks, ReapClaim(r, t)
  PROVE  CoreInv'
<1>1. TypeOK'
  BY NCpuAssumption DEF CoreInv, TypeOK, ReapClaim, ReapStep, taskVars, cpuVars, wakeVars
<1>2. ReaperExact'
  BY TaskAssumption DEF CoreInv, TypeOK, ReaperExact, ReapClaim, ReapStep, taskVars
<1>3. HomeExact' /\ OneCpuPerTask' /\ OnCpuExact' /\ SwitchExact' /\ CodePlaces'
      /\ StateMatchesCode' /\ SweepExact' /\ WakerExact' /\ WakeInFlight'
  BY DEF CoreInv, HomeExact, OneCpuPerTask, OnCpuExact, SwitchExact, CodePlaces,
     StateMatchesCode, SweepExact, WakerExact, WakeInFlight, ReapClaim,
     ReapStep, taskVars, cpuVars, wakeVars, reapVars, StandsOn, Executing
<1> QED BY <1>1, <1>2, <1>3 DEF CoreInv

(* Past the check no CPU stands on the victim.                             *)
LEMMA ReapCheckStep ==
  ASSUME CoreInv, NEW r \in Reapers, ReapCheck(r)
  PROVE  CoreInv'
<1>1. TypeOK'
  <2>1. rtgt[r] \in Tasks BY DEF CoreInv, TypeOK, ReaperExact, ReapCheck
  <2>2. CASE reaping' = reaping \ {rtgt[r]} /\ ReapStep(r, "idle", None, 0)
    BY <2>2, NCpuAssumption DEF CoreInv, TypeOK, ReapCheck, ReapStep, taskVars, cpuVars,
       wakeVars
  <2>3. CASE UNCHANGED reaping /\ ReapStep(r, "purge", rtgt[r], 0)
    BY <2>1, <2>3, NCpuAssumption DEF CoreInv, TypeOK, ReapCheck, ReapStep, taskVars,
       cpuVars, wakeVars
  <2> QED BY <2>2, <2>3 DEF ReapCheck
<1>2. ReaperExact'
  <2>1. rtgt[r] \in Tasks /\ rtgt[r] # None /\ state[rtgt[r]] = "dead"
        /\ rtgt[r] \in reaping
    BY TaskAssumption DEF CoreInv, TypeOK, ReaperExact, ReapCheck
  <2>2. UNCHANGED <<state, on_cpu>> BY DEF ReapCheck, taskVars
  <2>3. CASE reaping' = reaping \ {rtgt[r]} /\ ReapStep(r, "idle", None, 0)
    BY <2>1, <2>2, <2>3, TaskAssumption DEF CoreInv, TypeOK, ReaperExact, ReapStep
  <2>4. CASE rtgt[r] \notin on_cpu /\ reaping' = reaping /\ ReapStep(r, "purge", rtgt[r], 0)
    BY <2>1, <2>2, <2>4 DEF CoreInv, TypeOK, ReaperExact, ReapStep, ReapCheck
  <2> QED BY <2>3, <2>4 DEF ReapCheck
<1>3. HomeExact' /\ OneCpuPerTask' /\ OnCpuExact' /\ SwitchExact' /\ CodePlaces'
      /\ StateMatchesCode' /\ SweepExact' /\ WakerExact' /\ WakeInFlight'
  BY DEF CoreInv, HomeExact, OneCpuPerTask, OnCpuExact, SwitchExact, CodePlaces,
     StateMatchesCode, SweepExact, WakerExact, WakeInFlight, ReapCheck,
     ReapStep, taskVars, cpuVars, wakeVars, reapVars, StandsOn, Executing
<1> QED BY <1>1, <1>2, <1>3 DEF CoreInv

(* A victim past the check is on no queue.                                 *)
LEMMA PurgedIsClean ==
  ASSUME CoreInv, NEW r \in Reapers, rop[r] = "purge"
  PROVE  rtgt[r] \in Tasks /\ state[rtgt[r]] = "dead" /\ \A c \in CPU : rtgt[r] \notin rq[c]
<1>1. rtgt[r] \in Tasks /\ state[rtgt[r]] = "dead" /\ rtgt[r] \notin on_cpu
  BY DEF CoreInv, TypeOK, ReaperExact
<1>2. tpc[rtgt[r]] # "dying"
  BY <1>1 DEF CoreInv, OnCpuExact, StandsOn, CodePlaces, Executing
<1> QED BY <1>1, <1>2 DEF CoreInv, SweepExact

(* The second sweep removes nothing that is not the victim.                *)
LEMMA ReapPurgeStep ==
  ASSUME CoreInv, NEW r \in Reapers, ReapPurge(r)
  PROVE  CoreInv'
<1>0. RqTypes BY DEF CoreInv, TypeOK, RqTypes
<1>1. ridx[r] \in CPU /\ rop[r] = "purge"
  BY NCpuAssumption DEF CoreInv, TypeOK, ReapPurge, CPU
<1>2. rtgt[r] \in Tasks /\ state[rtgt[r]] = "dead"
  BY <1>1, PurgedIsClean
<1>3. /\ RqTypes' /\ HomeExact'
      /\ \A s \in Tasks, d \in CPU : s \in rq'[d] => s \in rq[d]
      /\ \A s \in Tasks : s # rtgt[r] => cpu_home'[s] = cpu_home[s]
  BY <1>0, <1>1, <1>2, PurgeFacts DEF CoreInv, ReapPurge
<1>4. rop' = rop /\ rtgt' = rtgt
  BY <1>1 DEF CoreInv, TypeOK, ReapPurge, ReapStep
<1>5. TypeOK'
  BY <1>1, <1>3, <1>4, NCpuAssumption
  DEF CoreInv, TypeOK, RqTypes, ReapPurge, ReapStep, wakeVars
<1>6. SweepExact' /\ StateMatchesCode' /\ WakeInFlight'
  BY <1>2, <1>3 DEF CoreInv, SweepExact, StateMatchesCode, WakeInFlight, ReapPurge, wakeVars
<1>7. /\ OneCpuPerTask' /\ OnCpuExact' /\ SwitchExact' /\ CodePlaces'
      /\ ReaperExact' /\ WakerExact'
  BY <1>4 DEF CoreInv, OneCpuPerTask, OnCpuExact, SwitchExact, CodePlaces, ReaperExact,
     WakerExact, StandsOn, Executing, ReapPurge, wakeVars
<1> QED BY <1>3, <1>5, <1>6, <1>7 DEF CoreInv

(* The slot is freed when nothing points to it.                            *)
LEMMA ReapFreeStep ==
  ASSUME CoreInv, NEW r \in Reapers, ReapFree(r)
  PROVE  CoreInv'
<1>1. TypeOK'
  BY DEF CoreInv, TypeOK, ReaperExact, ReapFree, ReapStep, cpuVars, wakeVars
<1>2. HomeExact'
  BY PurgedIsClean, NoCpuFact DEF CoreInv, TypeOK, HomeExact, ReapFree, cpuVars
<1>3. StateMatchesCode'
  BY DEF CoreInv, TypeOK, StateMatchesCode, OnCpuExact, CodePlaces, ReaperExact, ReapFree,
     cpuVars, Executing, StandsOn
<1>5. SweepExact'
  BY DEF CoreInv, SweepExact, ReapFree, cpuVars
<1>6. ReaperExact'
  BY DEF CoreInv, TypeOK, ReaperExact, ReapFree, ReapStep
<1>7. WakeInFlight'
  BY DEF CoreInv, TypeOK, WakeInFlight, ReapFree, wakeVars
<1>8. OneCpuPerTask' /\ OnCpuExact' /\ SwitchExact' /\ CodePlaces' /\ WakerExact'
  BY DEF CoreInv, OneCpuPerTask, OnCpuExact, SwitchExact, CodePlaces, WakerExact,
     ReapFree, ReapStep, taskVars, cpuVars, wakeVars, reapVars, StandsOn, Executing
<1> QED BY <1>1, <1>2, <1>3, <1>5, <1>6, <1>7, <1>8 DEF CoreInv
-----------------------------------------------------------------------------
(* The state after boot satisfies the invariants.                          *)
LEMMA InitInd == Init => SafeInv /\ CoreInv /\ ClaimExact
<1> SUFFICES ASSUME Init PROVE SafeInv /\ CoreInv /\ ClaimExact
  OBVIOUS
<1>1. TypeOK
  BY NCpuAssumption, TaskAssumption DEF Init, TypeOK, Asleep
<1>2. /\ HomeExact /\ OneCpuPerTask /\ OnCpuExact /\ SwitchExact /\ CodePlaces
      /\ StateMatchesCode
      /\ ClaimExact /\ SweepExact /\ ReaperExact /\ WakerExact /\ WakeInFlight
  BY TaskAssumption, NoCpuFact DEF Init, HomeExact, OneCpuPerTask, OnCpuExact,
     SwitchExact, CodePlaces,
     StateMatchesCode, ClaimExact, SweepExact, ReaperExact, WakerExact, WakeInFlight, StandsOn
<1>3. RunPlaces /\ ReaperOwns
  BY TaskAssumption DEF Init, RunPlaces, ReaperOwns
<1> QED BY <1>1, <1>2, <1>3 DEF SafeInv, CoreInv

(* A step that changes nothing keeps them.                                 *)
LEMMA StutterInd ==
  ASSUME UNCHANGED vars
  PROVE  (SafeInv => SafeInv') /\ (CoreInv => CoreInv') /\ (ClaimExact => ClaimExact')
BY DEF SafeInv, CoreInv, vars, taskVars, cpuVars, wakeVars, reapVars, TypeOK, HomeExact,
   OneCpuPerTask, OnCpuExact, RunPlaces, ReaperOwns,
   SwitchExact, CodePlaces, StateMatchesCode, ClaimExact, SweepExact, ReaperExact, WakerExact,
   WakeInFlight, StandsOn, Executing

(* The claim of a timed sleep moves from the task to one waker, and goes   *)
(* when that waker ends the sleep; only a stale wake of a timed sleeper    *)
(* could leave it behind.                                                  *)
LEMMA ClaimStep ==
  ASSUME CoreInv, ClaimExact, Next, \A w \in Wakers : ~EndsTimedSleep(w)
  PROVE  ClaimExact'
<1> USE DEF CoreInv, TypeOK
<1>1. ASSUME NEW c \in CPU, CpuNext(c) PROVE ClaimExact'
  BY <1>1 DEF CpuNext, Schedule, Pull, Repick, FinishSwitch, BalanceTick, ClaimExact, wakeVars
<1>2. ASSUME NEW t \in Tasks, NEW k \in Asleep, Mark(t, k) PROVE ClaimExact'
  BY <1>2 DEF Mark, Executing, StateMatchesCode, ClaimExact, wakeVars
<1>3. ASSUME NEW t \in Tasks, Spawn(t) \/ Recheck(t) PROVE ClaimExact'
  <2>1. CASE Spawn(t) BY <2>1 DEF Spawn, ClaimExact, wakeVars
  <2>2. CASE Recheck(t) BY <2>2 DEF Recheck, ClaimExact, Asleep, wakeVars
  <2> QED BY <1>3, <2>1, <2>2
<1>4. ASSUME NEW t \in Tasks, Exit(t) PROVE ClaimExact'
  BY <1>4 DEF Exit, Executing, StateMatchesCode, ClaimExact, wakeVars
<1>5. ASSUME NEW t \in Tasks,
             DetachSelf(t) \/ ExitSweep(t) \/ \E c \in CPU : task_release(t, c) \/ RequeueSelf(t, c)
      PROVE  ClaimExact'
  BY <1>5 DEF DetachSelf, ExitSweep, task_release, RequeueSelf, ClaimExact, wakeVars
<1>6. ASSUME NEW w \in Wakers, WakerNext(w) PROVE ClaimExact'
  <2> USE DEF ClaimExact, WakerExact, Take
  <2>1. CASE WakeTimed(w) BY <2>1 DEF WakeTimed
  <2>2. CASE WakeAimed(w)
    <3>1. wtgt[w] \in Tasks /\ state[wtgt[w]] # "timed"
      BY <2>2 DEF EndsTimedSleep, WakeAimed
    <3> QED BY <2>2, <3>1 DEF WakeAimed
  <2>3. CASE AffinityDetach(w) BY <2>3 DEF AffinityDetach
  <2>4. ASSUME NEW c \in CPU, WakerEnqueue(w, c) PROVE ClaimExact'
    BY <2>4 DEF WakerEnqueue
  <2>5. ASSUME NEW t \in Tasks, WakeWaitq(w, t) \/ ResumeStopped(w, t) PROVE ClaimExact'
    <3>1. CASE WakeWaitq(w, t) BY <3>1 DEF WakeWaitq
    <3>2. CASE ResumeStopped(w, t) BY <3>2 DEF ResumeStopped
    <3> QED BY <2>5, <3>1, <3>2
  <2>6. ASSUME NEW t \in Tasks, ClaimTimed(w, t) PROVE ClaimExact'
    BY <2>6 DEF ClaimTimed
  <2>7. ASSUME NEW t \in Tasks, ReadWq(w, t) PROVE ClaimExact'
    BY <2>7 DEF ReadWq, taskVars
  <2>8. ASSUME NEW t \in Tasks, NEW m \in Masks[t], SetAffinity(w, t, m) PROVE ClaimExact'
    BY <2>8 DEF SetAffinity, wakeVars
  <2> QED BY <1>6, <2>1, <2>2, <2>3, <2>4, <2>5, <2>6, <2>7, <2>8 DEF WakerNext
<1>7. ASSUME NEW r \in Reapers, ReaperNext(r) PROVE ClaimExact'
  <2>1. CASE ReapFree(r) BY <2>1 DEF ReapFree, ReaperExact, ClaimExact, wakeVars
  <2>2. CASE ReapCheck(r) \/ ReapPurge(r) \/ \E t \in Tasks : ReapClaim(r, t)
    BY <2>2 DEF ReapCheck, ReapPurge, ReapClaim, ClaimExact, taskVars, wakeVars
  <2> QED BY <1>7, <2>1, <2>2 DEF ReaperNext
<1> QED BY <1>1, <1>2, <1>3, <1>4, <1>5, <1>6, <1>7, SleepsAssumption DEF Next, TaskNext

(* A step in which nobody is revived keeps the core invariant.             *)
LEMMA NextCore ==
  ASSUME CoreInv, Next, \A w \in Wakers : ~Revives(w)
  PROVE  CoreInv'
<1>1. ASSUME NEW c \in CPU, CpuNext(c) PROVE CoreInv'
  BY <1>1, ScheduleStep, PullStep, RepickStep, FinishSwitchStep, BalanceTickStep DEF CpuNext
<1>2. ASSUME NEW t \in Tasks, TaskNext(t) PROVE CoreInv'
  BY <1>2, SpawnStep, DetachSelfStep, RecheckStep, ExitStep, ExitSweepStep,
     task_releaseStep,
     RequeueSelfStep, MarkStep, SleepsAssumption DEF TaskNext
<1>3. ASSUME NEW w \in Wakers, WakerNext(w) PROVE CoreInv'
  BY <1>3, WakeTimedStep, WakeAimedStep, AffinityDetachStep, WakerEnqueueStep,
     WakeWaitqStep,
     ReadWqStep, ClaimTimedStep, ResumeStoppedStep, SetAffinityStep DEF WakerNext
<1>4. ASSUME NEW r \in Reapers, ReaperNext(r) PROVE CoreInv'
  BY <1>4, ReapCheckStep, ReapPurgeStep, ReapFreeStep, ReapClaimStep DEF ReaperNext
<1> QED BY <1>1, <1>2, <1>3, <1>4 DEF Next

-----------------------------------------------------------------------------
(* SafeInv, which no wake can disturb.                                     *)

(* Every queue operation keeps the types of the queues.                    *)
LEMMA RqTypesKept ==
  ASSUME RqTypes, NEW t \in Tasks, NEW c \in CPU,
         \/ task_enqueue(t, c) \/ rq_detach_anywhere(t) \/ rq_purge(t, c)
         \/ \E v \in CPU : MoveTask(t, v, c)
         \/ UNCHANGED <<rq, cpu_home>>
  PROVE  RqTypes'
BY DEF RqTypes, task_enqueue, rq_detach_anywhere, rq_purge, rq_remove, MoveTask

(* The parts that speak only of who stands where and of the reapers.       *)
LEMMA PlacesKept ==
  ASSUME SafeInv, UNCHANGED <<on_cpu, tpc, current, leaving, cpc, reapVars>>
  PROVE  OneCpuPerTask' /\ OnCpuExact' /\ SwitchExact' /\ CodePlaces' /\ ReaperOwns'
BY DEF SafeInv, OneCpuPerTask, OnCpuExact, SwitchExact, CodePlaces, ReaperOwns, StandsOn,
   Executing, reapVars

(* A CPU that keeps its task.                                              *)
LEMMA KeepSafe ==
  ASSUME SafeInv, NEW c \in CPU, cpc[c] # "switch",
         current[c] \in Tasks => state[current[c]] = "runnable", Keep(c),
         UNCHANGED <<state, cpu_home, cpu_mask, timed, sweep, held, rq, wakeVars, reapVars>>
  PROVE  SafeInv'
<1>1. TypeOK'
  BY DEF SafeInv, TypeOK, Keep, ReturnFrom, wakeVars, reapVars
<1>2. OneCpuPerTask' /\ OnCpuExact'
  BY DEF SafeInv, OneCpuPerTask, OnCpuExact, StandsOn, Keep
<1>3. SwitchExact'
  BY DEF SafeInv, SwitchExact, Keep
<1>4. CodePlaces'
  BY DEF SafeInv, CodePlaces, Executing, Keep, ReturnFrom
<1>5. RunPlaces'
  BY DEF SafeInv, RunPlaces, Keep, ReturnFrom, reapVars
<1>6. ReaperOwns'
  BY TaskAssumption DEF SafeInv, TypeOK, ReaperOwns, Keep, ReturnFrom, reapVars
<1>7. WakerExact'
  BY DEF SafeInv, WakerExact, wakeVars
<1> QED BY <1>1, <1>2, <1>3, <1>4, <1>5, <1>6, <1>7 DEF SafeInv

(* A CPU that switches to a RUNNABLE task no CPU stands on.                *)
LEMMA SwitchToSafe ==
  ASSUME SafeInv, NEW c \in CPU, cpc[c] # "switch",
         NEW n \in Tasks \cup {Idle}, n # current[c],
         n \in Tasks => state[n] = "runnable" /\ n \notin on_cpu,
         current[c] \in Tasks => tpc[current[c]] \in {"run", "parked", "gone"},
         SwitchTo(c, n),
         UNCHANGED <<state, cpu_home, cpu_mask, timed, sweep, held, rq, wakeVars, reapVars>>
  PROVE  SafeInv'
<1>1. TypeOK'
  BY DEF SafeInv, TypeOK, SwitchTo, ReturnFrom, wakeVars, reapVars
<1>2. OneCpuPerTask'
  BY DEF SafeInv, OneCpuPerTask, OnCpuExact, StandsOn, SwitchTo
<1>3. OnCpuExact'
  BY TaskAssumption DEF SafeInv, TypeOK, OnCpuExact, SwitchExact, StandsOn, SwitchTo
<1>4. SwitchExact'
  BY TaskAssumption DEF SafeInv, TypeOK, SwitchExact, SwitchTo
<1>5. CodePlaces'
  BY DEF SafeInv, CodePlaces, Executing, SwitchTo, ReturnFrom
<1>6. RunPlaces'
  BY DEF SafeInv, TypeOK, RunPlaces, OneCpuPerTask, StandsOn, SwitchTo, ReturnFrom, reapVars
<1>7. ReaperOwns'
  BY TaskAssumption DEF SafeInv, TypeOK, ReaperOwns, SwitchTo, ReturnFrom, reapVars
<1>8. WakerExact'
  BY DEF SafeInv, WakerExact, wakeVars
<1> QED BY <1>1, <1>2, <1>3, <1>4, <1>5, <1>6, <1>7, <1>8 DEF SafeInv

(* Every outcome of schedule_locked's picks is one of these two.           *)
LEMMA PickSafe ==
  ASSUME SafeInv, NEW c \in CPU,
         cpc[c] = "run" => MayEnterSchedule(c), cpc[c] # "switch",
         (\E n \in Eligible(c) : Run(c, n)) \/ Fallback(c),
         UNCHANGED <<state, cpu_home, cpu_mask, timed, sweep, held, rq, wakeVars, reapVars>>
  PROVE  SafeInv'
<1>1. current[c] \in Tasks => tpc[current[c]] \in {"run", "parked", "gone"}
  BY DEF SafeInv, TypeOK, CodePlaces, OneCpuPerTask, StandsOn, Executing, MayEnterSchedule
<1>2. ASSUME NEW n \in Eligible(c), Run(c, n) PROVE SafeInv'
  <2>1. n \in Tasks /\ state[n] = "runnable" /\ ~task_running_elsewhere(n, c)
    BY DEF Eligible, SafeInv, TypeOK
  <2>2. CASE n = current[c]
    BY <1>2, <2>1, <2>2, KeepSafe DEF Run
  <2>3. CASE n # current[c]
    <3>1. n \notin on_cpu BY <2>1, <2>3 DEF task_running_elsewhere
    <3> QED BY <1>1, <1>2, <2>1, <2>3, <3>1, SwitchToSafe DEF Run
  <2> QED BY <2>2, <2>3
<1>3. ASSUME Fallback(c) PROVE SafeInv'
  <2>1. CASE current[c] \in Tasks /\ state[current[c]] = "runnable"
        /\ c \in cpu_mask[current[c]]
    BY <1>3, <2>1, KeepSafe DEF Fallback
  <2>2. CASE ~(current[c] \in Tasks /\ state[current[c]] = "runnable"
        /\ c \in cpu_mask[current[c]])
    <3>1. Run(c, Idle) BY <1>3, <2>2 DEF Fallback
    <3>2. CASE Idle = current[c]
      BY <3>1, <3>2, KeepSafe, TaskAssumption DEF Run
    <3>3. CASE Idle # current[c]
      BY <1>1, <3>1, <3>3, SwitchToSafe, TaskAssumption DEF Run
    <3> QED BY <3>2, <3>3
  <2> QED BY <2>1, <2>2
<1> QED BY <1>2, <1>3

(* The steps of a CPU.                                                     *)
LEMMA CpuSafe ==
  ASSUME SafeInv, NEW c \in CPU, CpuNext(c)
  PROVE  SafeInv'
<1>0. RqTypes BY DEF SafeInv, TypeOK, RqTypes
<1>1. CASE Schedule(c)
  <2>1. CASE \E n \in Eligible(c) : Run(c, n)
    BY <1>1, <2>1, PickSafe DEF Schedule, MayEnterSchedule
  <2>2. CASE cpc' = [cpc EXCEPT ![c] = "pull"] /\ UNCHANGED <<current, leaving, on_cpu, tpc>>
    <3>1. TypeOK' /\ SwitchExact' /\ CodePlaces'
      BY <1>1, <2>2 DEF SafeInv, TypeOK, SwitchExact, CodePlaces, Executing, Schedule,
         MayEnterSchedule, wakeVars, reapVars
    <3>2. OneCpuPerTask' /\ OnCpuExact' /\ RunPlaces' /\ ReaperOwns' /\ WakerExact'
      BY <1>1, <2>2 DEF SafeInv, OneCpuPerTask, OnCpuExact, StandsOn, RunPlaces, ReaperOwns,
         WakerExact, Schedule, wakeVars, reapVars
    <3> QED BY <3>1, <3>2 DEF SafeInv
  <2> QED BY <1>1, <2>1, <2>2 DEF Schedule
<1>2. CASE Pull(c)
  <2>1. RqTypes'
    BY <1>0, <1>2, RqTypesKept DEF Pull, CanSteal, RqTypes
  <2>2. TypeOK' /\ SwitchExact' /\ CodePlaces'
    BY <1>2, <2>1 DEF SafeInv, TypeOK, SwitchExact, CodePlaces, Executing, Pull, RqTypes,
       wakeVars, reapVars
  <2>3. OneCpuPerTask' /\ OnCpuExact' /\ RunPlaces' /\ ReaperOwns' /\ WakerExact'
    BY <1>2 DEF SafeInv, OneCpuPerTask, OnCpuExact, StandsOn, RunPlaces, ReaperOwns,
       WakerExact, Pull, wakeVars, reapVars
  <2> QED BY <2>2, <2>3 DEF SafeInv
<1>3. CASE Repick(c)
  BY <1>3, PickSafe DEF Repick
<1>4. CASE FinishSwitch(c)
  <2>1. TypeOK' /\ OneCpuPerTask'
    BY <1>4, TaskAssumption
    DEF SafeInv, TypeOK, OneCpuPerTask, StandsOn, FinishSwitch, wakeVars, reapVars
  <2>2. OnCpuExact'
    BY <1>4, TaskAssumption DEF SafeInv, TypeOK, OnCpuExact, OneCpuPerTask, SwitchExact,
       FinishSwitch, StandsOn
  <2>3. SwitchExact' /\ CodePlaces'
    BY <1>4, TaskAssumption DEF SafeInv, TypeOK, SwitchExact, CodePlaces, Executing, FinishSwitch
  <2>4. RunPlaces' /\ ReaperOwns' /\ WakerExact'
    BY <1>4 DEF SafeInv, RunPlaces, ReaperOwns, WakerExact, FinishSwitch, wakeVars, reapVars
  <2> QED BY <2>1, <2>2, <2>3, <2>4 DEF SafeInv
<1>5. CASE BalanceTick(c)
  <2>1. RqTypes'
    BY <1>0, <1>5, RqTypesKept DEF BalanceTick, CanSteal
  <2>2. TypeOK' /\ RunPlaces' /\ WakerExact'
    BY <1>5, <2>1 DEF SafeInv, TypeOK, RunPlaces, WakerExact, BalanceTick, RqTypes,
       wakeVars, reapVars
  <2>3. UNCHANGED <<on_cpu, tpc, current, leaving, cpc, reapVars>>
    BY <1>5 DEF BalanceTick
  <2> QED BY <2>2, <2>3, PlacesKept DEF SafeInv
<1> QED BY <1>1, <1>2, <1>3, <1>4, <1>5 DEF CpuNext

(* A task's own steps move it through its code, on the CPU that runs it.   *)
LEMMA TaskSafe ==
  ASSUME SafeInv, NEW t \in Tasks, TaskNext(t)
  PROVE  SafeInv'
<1>0. RqTypes BY DEF SafeInv, TypeOK, RqTypes
<1>1. UNCHANGED <<on_cpu, current, leaving, cpc, wakeVars, reapVars>>
  BY DEF TaskNext, Spawn, DetachSelf, Recheck, Exit, ExitSweep, task_release, RequeueSelf,
     Mark, cpuVars
<1>2. OneCpuPerTask' /\ OnCpuExact' /\ SwitchExact' /\ WakerExact'
  BY <1>1 DEF SafeInv, OneCpuPerTask, OnCpuExact, SwitchExact, WakerExact, StandsOn, wakeVars
<1>3. CASE Spawn(t)
  <2>1. cpu_mask' \in [Tasks -> SUBSET CPU] BY <1>3 DEF SafeInv, TypeOK, Spawn
  <2>2. TypeOK'
    BY <1>1, <1>3, <2>1 DEF SafeInv, TypeOK, Spawn, cpuVars, wakeVars, reapVars
  <2>3. CodePlaces' /\ RunPlaces'
    BY <1>1, <1>3 DEF SafeInv, TypeOK, CodePlaces, RunPlaces, Executing, Spawn, reapVars
  <2>4. ReaperOwns'
    BY <1>1, <1>3 DEF SafeInv, TypeOK, RunPlaces, ReaperOwns, Spawn, reapVars
  <2> QED BY <1>2, <2>2, <2>3, <2>4 DEF SafeInv
<1>4. ASSUME NEW k \in Asleep, Mark(t, k) PROVE SafeInv'
  <2>1. TypeOK'
    BY <1>1, <1>4 DEF SafeInv, TypeOK, Mark, cpuVars, wakeVars, reapVars
  <2>2. CodePlaces' /\ RunPlaces'
    BY <1>1, <1>4 DEF SafeInv, TypeOK, CodePlaces, RunPlaces, Executing, Mark, Asleep, reapVars
  <2>3. ReaperOwns'
    BY <1>1, <1>4 DEF SafeInv, TypeOK, ReaperOwns, Mark, reapVars
  <2> QED BY <1>2, <2>1, <2>2, <2>3 DEF SafeInv
<1>5. CASE Recheck(t)
  <2>1. TypeOK'
    BY <1>1, <1>5 DEF SafeInv, TypeOK, Recheck, cpuVars, wakeVars, reapVars
  <2>2. CodePlaces'
    BY <1>1, <1>5 DEF SafeInv, TypeOK, CodePlaces, Executing, Recheck
  <2>3. RunPlaces'
    BY <1>1, <1>5 DEF SafeInv, TypeOK, RunPlaces, Recheck, Asleep, reapVars
  <2>4. ReaperOwns'
    BY <1>1, <1>5 DEF SafeInv, TypeOK, ReaperOwns, Recheck, reapVars
  <2> QED BY <1>2, <2>1, <2>2, <2>3, <2>4 DEF SafeInv
<1>6. CASE Exit(t)
  <2>1. TypeOK'
    BY <1>1, <1>6, NCpuAssumption DEF SafeInv, TypeOK, Exit, cpuVars, wakeVars, reapVars
  <2>2. CodePlaces' /\ RunPlaces'
    BY <1>1, <1>6 DEF SafeInv, TypeOK, CodePlaces, RunPlaces, Executing, Exit, reapVars
  <2>3. ReaperOwns'
    BY <1>1, <1>6 DEF SafeInv, TypeOK, ReaperOwns, Exit, reapVars
  <2> QED BY <1>2, <2>1, <2>2, <2>3 DEF SafeInv
<1>7. CASE DetachSelf(t) \/ \E c \in CPU : RequeueSelf(t, c)
  <2>1. RqTypes'
    BY <1>0, <1>7, RqTypesKept, NCpuAssumption DEF DetachSelf, RequeueSelf, CPU
  <2>2. TypeOK'
    BY <1>1, <1>7, <2>1 DEF SafeInv, TypeOK, RqTypes, DetachSelf, RequeueSelf, wakeVars, reapVars
  <2>3. CodePlaces' /\ RunPlaces'
    BY <1>1, <1>7 DEF SafeInv, TypeOK, CodePlaces, RunPlaces, Executing, DetachSelf,
       RequeueSelf, reapVars
  <2>4. ReaperOwns'
    BY <1>1, <1>7 DEF SafeInv, TypeOK, ReaperOwns, DetachSelf, RequeueSelf, reapVars
  <2> QED BY <1>2, <2>2, <2>3, <2>4 DEF SafeInv
<1>8. CASE \E c \in CPU : task_release(t, c)
  <2>1. RqTypes'
    BY <1>0, <1>8, RqTypesKept DEF task_release
  <2>2. TypeOK' /\ RunPlaces'
    BY <1>1, <1>8, <2>1 DEF SafeInv, TypeOK, RqTypes, RunPlaces, task_release, wakeVars, reapVars
  <2>3. UNCHANGED tpc BY <1>8 DEF task_release
  <2> QED BY <1>1, <1>2, <2>2, <2>3, PlacesKept DEF SafeInv
<1>9. CASE ExitSweep(t)
  <2>1. CASE sweep[t] < NCPU
    <3>1. sweep[t] \in CPU /\ sweep[t] + 1 \in 0 .. NCPU
      BY <2>1, NCpuAssumption DEF SafeInv, TypeOK, CPU
    <3>2. rq_purge(t, sweep[t]) /\ sweep' = [sweep EXCEPT ![t] = @ + 1] /\ tpc' = tpc
      BY <1>9, <2>1 DEF ExitSweep
    <3>3. RqTypes' BY <1>0, <3>1, <3>2, RqTypesKept
    <3>4. sweep' \in [Tasks -> 0 .. NCPU] BY <3>1, <3>2 DEF SafeInv, TypeOK
    <3>5. TypeOK' /\ RunPlaces'
      BY <1>1, <1>9, <3>2, <3>3, <3>4
      DEF SafeInv, TypeOK, RqTypes, RunPlaces, ExitSweep, wakeVars, reapVars
    <3> QED BY <1>1, <1>2, <3>2, <3>5, PlacesKept DEF SafeInv
  <2>2. CASE ~(sweep[t] < NCPU)
    <3>1. TypeOK'
      BY <1>1, <1>9, <2>2, NCpuAssumption DEF SafeInv, TypeOK, ExitSweep, wakeVars, reapVars
    <3>2. CodePlaces' /\ RunPlaces'
      BY <1>1, <1>9, <2>2 DEF SafeInv, TypeOK, CodePlaces, RunPlaces, Executing,
         ExitSweep, reapVars
    <3>3. ReaperOwns'
      BY <1>1, <1>9, <2>2 DEF SafeInv, TypeOK, ReaperOwns, ExitSweep, reapVars
    <3> QED BY <1>2, <3>1, <3>2, <3>3 DEF SafeInv
  <2> QED BY <2>1, <2>2
<1> QED BY <1>3, <1>4, <1>5, <1>6, <1>7, <1>8, <1>9, SleepsAssumption DEF TaskNext

(* A waker changes a state only to RUNNABLE, and moves nobody.             *)
LEMMA WakerSafe ==
  ASSUME SafeInv, NEW w \in Wakers, WakerNext(w)
  PROVE  SafeInv'
<1>0. RqTypes BY DEF SafeInv, TypeOK, RqTypes
<1>1. UNCHANGED <<on_cpu, tpc, current, leaving, cpc, reapVars, sweep, held>>
  BY DEF WakerNext, WakeTimed, WakeAimed, AffinityDetach, WakerEnqueue, WakeWaitq, ReadWq,
     ClaimTimed, ResumeStopped, SetAffinity, cpuVars, taskVars
<1>2. wop[w] # "idle" => wtgt[w] \in Tasks
  BY DEF SafeInv, TypeOK, WakerExact
<1>3. RqTypes'
  <2>1. CASE AffinityDetach(w)
    BY <1>0, <1>2, <2>1, RqTypesKept, NCpuAssumption DEF AffinityDetach, CPU
  <2>2. ASSUME NEW c \in CPU, WakerEnqueue(w, c) PROVE RqTypes'
    BY <1>0, <1>2, <2>2, RqTypesKept DEF WakerEnqueue
  <2>3. CASE UNCHANGED <<rq, cpu_home>> BY <1>0, <2>3 DEF RqTypes
  <2> QED BY <2>1, <2>2, <2>3
      DEF WakerNext, WakeTimed, WakeAimed, WakeWaitq, ReadWq, ClaimTimed, ResumeStopped,
          SetAffinity, cpuVars, taskVars
<1>4. state' = state \/ \E t \in Tasks : state' = [state EXCEPT ![t] = "runnable"]
  BY <1>2 DEF WakerNext, WakeTimed, WakeAimed, AffinityDetach, WakerEnqueue, WakeWaitq, ReadWq,
     ClaimTimed, ResumeStopped, SetAffinity, taskVars
<1>5. RunPlaces'
  BY <1>1, <1>4 DEF SafeInv, TypeOK, RunPlaces, reapVars
<1>6. \/ UNCHANGED <<wop, wtgt>>
      \/ Take(w, "idle", None)
      \/ \E t \in Tasks, op \in {"aimed", "claimed", "move", "enq"} : Take(w, op, t)
  BY <1>2 DEF WakerNext, WakeTimed, WakeAimed, AffinityDetach, WakerEnqueue, WakeWaitq, ReadWq,
     ClaimTimed, ResumeStopped, SetAffinity, wakeVars
<1>7. WakerExact' /\ wop' \in [Wakers -> {"idle", "aimed", "claimed", "move", "enq"}]
      /\ wtgt' \in [Wakers -> Tasks \cup {None}]
  BY <1>6, TaskAssumption DEF SafeInv, TypeOK, WakerExact, Take
<1>8. timed' \subseteq Tasks
  BY DEF SafeInv, TypeOK, WakerNext, WakeTimed, WakeAimed, AffinityDetach, WakerEnqueue,
     WakeWaitq, ReadWq, ClaimTimed, ResumeStopped, SetAffinity, taskVars
<1>9. cpu_mask' \in [Tasks -> SUBSET CPU]
  BY MaskAssumption DEF SafeInv, TypeOK, WakerNext, WakeTimed, WakeAimed, AffinityDetach,
     WakerEnqueue,
     WakeWaitq, ReadWq, ClaimTimed, ResumeStopped, SetAffinity, taskVars
<1>10. TypeOK'
  BY <1>1, <1>3, <1>4, <1>7, <1>8, <1>9 DEF SafeInv, TypeOK, RqTypes, reapVars
<1> QED BY <1>1, <1>5, <1>7, <1>10, PlacesKept DEF SafeInv

(* A reaper frees only a task that has exited.                             *)
LEMMA ReaperSafe ==
  ASSUME SafeInv, NEW r \in Reapers, ReaperNext(r)
  PROVE  SafeInv'
<1>0. RqTypes BY DEF SafeInv, TypeOK, RqTypes
<1>1. UNCHANGED <<on_cpu, tpc, current, leaving, cpc, wakeVars, cpu_mask, sweep, held>>
  BY DEF ReaperNext, ReapClaim, ReapCheck, ReapPurge, ReapFree, taskVars, cpuVars
<1>2. OneCpuPerTask' /\ OnCpuExact' /\ SwitchExact' /\ CodePlaces' /\ WakerExact'
  BY <1>1 DEF SafeInv, OneCpuPerTask, OnCpuExact, SwitchExact, CodePlaces, WakerExact,
     StandsOn, Executing, wakeVars
<1>3. rop[r] # "idle" => rtgt[r] \in Tasks
  BY DEF SafeInv, TypeOK, ReaperOwns
<1>4. ASSUME NEW t \in Tasks, ReapClaim(r, t) PROVE SafeInv'
  <2>1. TypeOK'
    BY <1>4, NCpuAssumption DEF SafeInv, TypeOK, ReapClaim, ReapStep, taskVars, cpuVars, wakeVars
  <2>2. RunPlaces'
    BY <1>4 DEF SafeInv, RunPlaces, ReapClaim, taskVars, cpuVars
  <2>3. ReaperOwns'
    BY <1>4, TaskAssumption DEF SafeInv, TypeOK, RunPlaces, ReaperOwns, ReapClaim,
       ReapStep, taskVars
  <2> QED BY <1>2, <2>1, <2>2, <2>3 DEF SafeInv
<1>5. CASE ReapCheck(r)
  <2>1. \/ reaping' = reaping \ {rtgt[r]} /\ ReapStep(r, "idle", None, 0)
        \/ reaping' = reaping /\ ReapStep(r, "purge", rtgt[r], 0)
    BY <1>5 DEF ReapCheck
  <2>2. TypeOK'
    BY <1>3, <1>5, <2>1, NCpuAssumption DEF SafeInv, TypeOK, ReapCheck, ReapStep,
       taskVars, cpuVars, wakeVars
  <2>3. RunPlaces'
    BY <1>5, <2>1 DEF SafeInv, RunPlaces, ReapCheck, taskVars, cpuVars
  <2>4. ReaperOwns'
    BY <1>1, <1>3, <1>5, <2>1, TaskAssumption DEF SafeInv, TypeOK, ReaperOwns, ReapCheck, ReapStep
  <2> QED BY <1>2, <2>2, <2>3, <2>4 DEF SafeInv
<1>6. CASE ReapPurge(r)
  <2>1. ridx[r] \in CPU /\ ridx[r] + 1 \in 0 .. NCPU /\ rtgt[r] \in Tasks
    BY <1>3, <1>6, NCpuAssumption DEF SafeInv, TypeOK, ReapPurge, CPU
  <2>2. RqTypes' BY <1>0, <1>6, <2>1, RqTypesKept DEF ReapPurge
  <2>3. rop' = rop /\ rtgt' = rtgt
    BY <1>6 DEF SafeInv, TypeOK, ReapPurge, ReapStep
  <2>4. TypeOK'
    BY <1>6, <2>1, <2>2, <2>3 DEF SafeInv, TypeOK, RqTypes, ReapPurge, ReapStep, wakeVars
  <2>5. RunPlaces' /\ ReaperOwns'
    BY <1>6, <2>3 DEF SafeInv, RunPlaces, ReaperOwns, ReapPurge
  <2> QED BY <1>2, <2>4, <2>5 DEF SafeInv
<1>7. CASE ReapFree(r)
  <2>1. rtgt[r] \in Tasks BY <1>3, <1>7 DEF ReapFree
  <2>2. TypeOK'
    BY <1>7, <2>1, NCpuAssumption DEF SafeInv, TypeOK, ReapFree, ReapStep, cpuVars, wakeVars
  <2>3. RunPlaces'
    BY <1>7, <2>1 DEF SafeInv, TypeOK, RunPlaces, ReaperOwns, ReapFree, cpuVars
  <2>4. ReaperOwns'
    BY <1>7, <2>1, TaskAssumption DEF SafeInv, TypeOK, ReaperOwns, ReapFree, ReapStep
  <2> QED BY <1>2, <2>2, <2>3, <2>4 DEF SafeInv
<1> QED BY <1>4, <1>5, <1>6, <1>7 DEF ReaperNext

(* Every step keeps SafeInv.                                               *)
LEMMA SafeStep == ASSUME SafeInv, Next PROVE SafeInv'
BY CpuSafe, TaskSafe, WakerSafe, ReaperSafe DEF Next

(* Every behaviour keeps SafeInv.                                          *)
THEOREM SafeInvariance == Spec => []SafeInv
<1>1. SafeInv /\ [Next]_vars => SafeInv' BY SafeStep, StutterInd
<1>2. Init => SafeInv BY InitInd
<1> QED BY <1>1, <1>2, PTL DEF Spec

(* What the scheduler keeps at every step, for any number of CPUs, tasks,  *)
(* wakers and reapers, as long as no claim's owner revives an exited task. *)
THEOREM Invariance == Spec /\ NoRevival => []CoreInv
<1>1. CoreInv /\ [Next]_vars /\ [\A w \in Wakers : ~Revives(w)]_vars => CoreInv'
  BY NextCore, StutterInd
<1>2. Init => CoreInv BY InitInd
<1> QED BY <1>1, <1>2, PTL DEF Spec, NoRevival

(* As long as no stale wake ends a timed sleep, nobody is revived and the  *)
(* claim of every timed sleep is exact.                                    *)
THEOREM ClaimInvariance == Spec /\ NoStaleEnd => []IndInv
<1>1. ASSUME IndInv, [Next]_vars, [\A w \in Wakers : ~EndsTimedSleep(w)]_vars
      PROVE  IndInv'
  <2>1. CASE UNCHANGED vars BY <1>1, <2>1, StutterInd DEF IndInv
  <2>2. CASE Next /\ \A w \in Wakers : ~EndsTimedSleep(w)
    <3>1. \A w \in Wakers : ~Revives(w)
      BY <1>1 DEF IndInv, ClaimExact, Revives, WakeTimed
    <3> QED BY <1>1, <2>2, <3>1, NextCore, ClaimStep DEF IndInv
  <2> QED BY <1>1, <2>1, <2>2
<1>2. Init => IndInv BY InitInd DEF IndInv
<1> QED BY <1>1, <1>2, PTL DEF Spec, NoStaleEnd

(* Every variable keeps its type.                                          *)
THEOREM TypeCorrect == Spec => []TypeOK
<1>1. SafeInv => TypeOK BY DEF SafeInv
<1>2. Spec => []SafeInv BY SafeInvariance
<1> QED BY <1>1, <1>2, PTL

(* No two CPUs ever stand on one task's stack, through the whole switch    *)
(* (schedule_locked, task_running_elsewhere, load_steal_one).              *)
THEOREM MutualExclusion == Spec => []OneCpuPerTask
<1>1. SafeInv => OneCpuPerTask BY DEF SafeInv
<1>2. Spec => []SafeInv BY SafeInvariance
<1> QED BY <1>1, <1>2, PTL

(* A RUNNABLE task on no queue and no CPU has an enqueue on its way: no    *)
(* wake is lost between marking and detaching (waitq_block, task_msleep,   *)
(* stop_self) or to a concurrent move.                                     *)
THEOREM NoLostTask == Spec /\ NoRevival => []NeverLost
<1>1. CoreInv => NeverLost
  BY DEF CoreInv, WakeInFlight, NeverLost, CodePlaces, Executing, OnCpuExact,
     StandsOn
<1>2. Spec /\ NoRevival => []CoreInv BY Invariance
<1> QED BY <1>1, <1>2, PTL

(* task_reap's last sweep finds nothing: the exit sweep and the DEAD test  *)
(* in task_enqueue leave no dead task on a queue.                          *)
THEOREM ExitSweepAirtight == Spec /\ NoRevival => []ReapFindsNothingQueued
<1>1. CoreInv => ReapFindsNothingQueued
  BY PurgedIsClean DEF CoreInv, ReapFindsNothingQueued
<1>2. Spec /\ NoRevival => []CoreInv BY Invariance
<1> QED BY <1>1, <1>2, PTL

(* A freed task is reachable from no queue, no CPU and no reaper.          *)
THEOREM NoUseAfterFree == Spec /\ NoRevival => []FreedUnreachable
<1>1. ASSUME CoreInv PROVE FreedUnreachable
  <2> SUFFICES ASSUME NEW t \in Tasks, state[t] = "free"
               PROVE  /\ \A c \in CPU : t \notin rq[c] /\ ~StandsOn(c, t)
                      /\ \A r \in Reapers : rtgt[r] # t
    BY DEF FreedUnreachable
  <2>1. t \notin on_cpu /\ cpu_home[t] = NoCpu
    BY <1>1 DEF CoreInv, StateMatchesCode
  <2>2. \A c \in CPU : t \notin rq[c] /\ ~StandsOn(c, t)
    BY <1>1, <2>1, NoCpuFact DEF CoreInv, HomeExact, OnCpuExact
  <2>3. \A r \in Reapers : rtgt[r] # t
    BY <1>1, TaskAssumption DEF CoreInv, ReaperExact
  <2> QED BY <2>2, <2>3
<1>2. Spec /\ NoRevival => []CoreInv BY Invariance
<1> QED BY <1>1, <1>2, PTL

(* A timed sleep is ended by exactly one party.                            *)
THEOREM OneEnderPerSleep == Spec /\ NoStaleEnd => []TimedSleepHasOneEnder
<1>1. ASSUME IndInv PROVE TimedSleepHasOneEnder
  <2> SUFFICES ASSUME NEW t \in Tasks
               PROVE  /\ t \in timed => state[t] = "timed"
                      /\ state[t] = "timed" =>
                           LET holders == {w \in Wakers : wop[w] = "claimed" /\ wtgt[w] = t} IN
                           IF t \in timed THEN holders = {} ELSE \E w \in Wakers : holders = {w}
    BY DEF TimedSleepHasOneEnder
  <2>1. t \in timed => {w \in Wakers : wop[w] = "claimed" /\ wtgt[w] = t} = {}
    BY <1>1 DEF IndInv, CoreInv, ClaimExact
  <2>2. ASSUME state[t] = "timed", t \notin timed
        PROVE  \E w \in Wakers : {u \in Wakers : wop[u] = "claimed" /\ wtgt[u] = t} = {w}
    BY <1>1, <2>2 DEF IndInv, CoreInv, ClaimExact
  <2>3. t \in timed => state[t] = "timed"
    BY <1>1 DEF IndInv, CoreInv, ClaimExact
  <2> QED BY <2>1, <2>2, <2>3
<1>2. Spec /\ NoStaleEnd => []IndInv BY ClaimInvariance
<1> QED BY <1>1, <1>2, PTL

(* A task executing ordinary code is RUNNABLE.                             *)
THEOREM NoSleeperRuns == Spec => []RunningIsRunnable
<1>1. SafeInv => RunningIsRunnable
  BY DEF SafeInv, RunPlaces, RunningIsRunnable, Executing
<1>2. Spec => []SafeInv BY SafeInvariance
<1> QED BY <1>1, <1>2, PTL

(* No step brings a dead task back: the unconditional store of RUNNABLE by *)
(* a claim's owner always finds its task asleep.                           *)
THEOREM DeadStaysDead == Spec /\ NoStaleEnd => DeadIsFinal
<1>1. ASSUME IndInv, [Next]_vars
      PROVE  [\A t \in Tasks : state[t] = "dead" => state'[t] \in {"dead", "free"}]_vars
  <2> SUFFICES ASSUME NEW s \in Tasks, state[s] = "dead", Next
               PROVE  state'[s] \in {"dead", "free"}
    BY <1>1
  <2> USE <1>1
  <2>1. ASSUME NEW c \in CPU, CpuNext(c) PROVE state' = state
    BY <2>1 DEF CpuNext, Schedule, Pull, Repick, FinishSwitch, BalanceTick
  <2>2. ASSUME NEW t \in Tasks, TaskNext(t) PROVE state'[s] = "dead"
    <3>1. ASSUME NEW k \in Asleep, Mark(t, k) PROVE state'[s] = "dead"
      BY <3>1 DEF Mark, Executing, IndInv, CoreInv, TypeOK, StateMatchesCode
    <3>2. CASE Exit(t) BY <3>2 DEF Exit, IndInv, CoreInv, TypeOK
    <3>3. CASE Spawn(t) BY <3>3 DEF Spawn, IndInv, CoreInv, TypeOK
    <3>4. ASSUME DetachSelf(t) \/ Recheck(t) \/ ExitSweep(t)
                 \/ \E c \in CPU : task_release(t, c) \/ RequeueSelf(t, c)
          PROVE  state' = state
      BY <3>4 DEF DetachSelf, Recheck, ExitSweep, task_release, RequeueSelf
    <3> QED BY <2>2, <3>1, <3>2, <3>3, <3>4, SleepsAssumption DEF TaskNext
  <2>3. ASSUME NEW w \in Wakers, WakerNext(w) PROVE state'[s] = "dead"
    <3>0. CASE WakeAimed(w) BY <3>0 DEF WakeAimed, IndInv, CoreInv, TypeOK, WakerExact
    <3>1. CASE WakeTimed(w) BY <3>1 DEF WakeTimed, IndInv, CoreInv, TypeOK, ClaimExact
    <3>2. ASSUME NEW t \in Tasks, WakeWaitq(w, t) \/ ResumeStopped(w, t) PROVE state'[s] = "dead"
      BY <3>2 DEF WakeWaitq, ResumeStopped, IndInv, CoreInv, TypeOK
    <3>3. ASSUME \/ AffinityDetach(w) \/ \E c \in CPU : WakerEnqueue(w, c)
                 \/ \E t \in Tasks : ClaimTimed(w, t) \/ ReadWq(w, t)
                 \/ \E t \in Tasks : \E m \in Masks[t] : SetAffinity(w, t, m)
          PROVE  state' = state
      BY <3>3 DEF AffinityDetach, WakerEnqueue, ClaimTimed, ReadWq, SetAffinity, taskVars
    <3> QED BY <2>3, <3>0, <3>1, <3>2, <3>3 DEF WakerNext
  <2>4. ASSUME NEW r \in Reapers, ReaperNext(r) PROVE state'[s] \in {"dead", "free"}
    BY <2>4 DEF ReaperNext, ReapClaim, ReapCheck, ReapPurge, ReapFree, taskVars, IndInv,
       CoreInv, TypeOK
  <2> QED BY <2>1, <2>2, <2>3, <2>4 DEF Next
<1>2. Spec /\ NoStaleEnd => []IndInv BY ClaimInvariance
<1> QED BY <1>1, <1>2, PTL DEF Spec, DeadIsFinal

=============================================================================
