----------------------------- MODULE TimedWait -----------------------------
(***************************************************************************)
(* Deadline timers (kernel/core/ktimer.c) and the two waits built on them  *)
(* with a timer in the caller's stack frame: task_sleep_until_ns, which    *)
(* tests its deadline again before it parks, and futex_wait, which does    *)
(* not.  Time is abstracted to the order of the list and to which of its   *)
(* timers are due: deadlines pass in list order, and a timer armed for the *)
(* future goes somewhere behind those that are due.                        *)
(*                                                                         *)
(* ktimer_expire runs in the tick's interrupt: while a callback runs on a  *)
(* CPU, the task on that CPU stands still.  The timer list and the wait    *)
(* queue each have one lock and critical sections of one step; the waits   *)
(* in ktimer_cancel read g_running one CPU at a time, without a lock.      *)
(***************************************************************************)
EXTENDS Naturals, Sequences, SequencesExt

CONSTANTS NCPU,
          TickCpus,  \* the CPUs whose tick calls ktimer_expire
          Sleepers,  \* tasks in task_sleep_until_ns
          Futexes,   \* tasks in futex_wait with a deadline
          CancelPreemptible,  \* ktimer_cancel's callers can be moved inside it
          None

CPU == 0 .. NCPU - 1
Tasks == Sleepers \cup Futexes  \* a task also names the timer in its frame

ASSUME CpuAssumption == NCPU \in Nat \ {0} /\ TickCpus \subseteq CPU
ASSUME TaskAssumption == Sleepers \cap Futexes = {} /\ None \notin Tasks /\ CancelPreemptible \in BOOLEAN

VARIABLES
  list,       \* g_head: the armed timers, earliest deadline first
  due,        \* the timers whose deadline has passed
  g_running,  \* the timer whose callback each CPU runs
  stage,      \* whether that callback still has to touch its timer
  cpu,        \* the CPU each task is on
  pc,         \* where each task is; "out" when the frame does not exist
  me, idx, busy  \* ktimer_cancel's locals: own CPU, scan position, verdict

timerVars  == <<list, due, g_running, stage>>
cancelVars == <<me, idx, busy>>
vars == <<timerVars, cpu, pc, cancelVars>>

TypeOK ==
  /\ list \in Seq(Tasks) /\ due \subseteq Tasks
  /\ g_running \in [CPU -> Tasks \cup {None}]
  /\ stage \in [CPU -> {"idle", "call", "return"}]
  /\ \A c \in CPU : stage[c] = "idle" <=> g_running[c] = None
  /\ cpu \in [Tasks -> CPU]
  /\ pc \in [Tasks -> {"out", "test", "parked", "cancel", "unlink", "scan"}]
  /\ me \in [Tasks -> CPU] /\ idx \in [Tasks -> 0 .. NCPU] /\ busy \in [Tasks -> BOOLEAN]

Init ==
  /\ list = <<>> /\ due = {}
  /\ g_running = [c \in CPU |-> None]
  /\ stage = [c \in CPU |-> "idle"]
  /\ cpu \in [Tasks -> CPU]
  /\ pc = [t \in Tasks |-> "out"]
  /\ me = [t \in Tasks |-> 0] /\ idx = [t \in Tasks |-> 0] /\ busy = [t \in Tasks |-> FALSE]

-----------------------------------------------------------------------------
(* The tasks.                                                              *)

Go(t, p) == pc' = [pc EXCEPT ![t] = p]

(* The task's CPU executes it, not an interrupt.                           *)
Runs(t) == g_running[cpu[t]] = None

(* A new frame with a zeroed timer, armed for a deadline in the future     *)
(* (unlink_locked first: arming an armed timer moves it).                  *)
ktimer_arm(t) ==
  /\ pc[t] = "out" /\ Runs(t)
  /\ LET rest == RemoveFirst(list, t) IN
     \E i \in 1 .. Len(rest) + 1 :
       /\ \A j \in i .. Len(rest) : rest[j] \notin due
       /\ list' = InsertAt(rest, i, t)
  /\ due' = due \ {t}
  /\ Go(t, "test")
  /\ UNCHANGED <<g_running, stage, cpu, cancelVars>>

(* One pass of task_sleep_until_ns's loop, under the wait queue's lock:    *)
(* the deadline has passed, the task was asked to stop, or it parks.       *)
SleepTestMutant(t) ==
  /\ t \in Sleepers /\ pc[t] = "test" /\ Runs(t)
  /\ Go(t, "cancel") \/ Go(t, "parked")
  /\ UNCHANGED <<timerVars, cpu, cancelVars>>

SleepTest(t) ==
  /\ t \in Sleepers /\ pc[t] = "test" /\ Runs(t)
  /\ \/ Go(t, "cancel")
     \/ t \notin due /\ Go(t, "parked")
  /\ UNCHANGED <<timerVars, cpu, cancelVars>>

(* futex_wait after it has armed: the word has changed (or faults), or the *)
(* task parks.                                                             *)
FutexTest(t) ==
  /\ t \in Futexes /\ pc[t] = "test" /\ Runs(t)
  /\ Go(t, "cancel") \/ Go(t, "parked")
  /\ UNCHANGED <<timerVars, cpu, cancelVars>>

(* Where a wake resumes the task: the sleeper's loop, or futex_wait's end. *)
AfterWake(t) == IF t \in Sleepers THEN "test" ELSE "cancel"

(* A wake that is not the timer's: futex_wake, a signal, a kill.           *)
OtherWake(t) ==
  /\ pc[t] = "parked"
  /\ Go(t, AfterWake(t))
  /\ UNCHANGED <<timerVars, cpu, cancelVars>>

(* Preemption and the balancer may move a task between any two steps.      *)
Migrate(t, c) ==
  /\ pc[t] # "out" /\ Runs(t) /\ c # cpu[t]
  /\ pc[t] \in {"unlink", "scan"} => CancelPreemptible
  /\ cpu' = [cpu EXCEPT ![t] = c]
  /\ UNCHANGED <<timerVars, pc, cancelVars>>

-----------------------------------------------------------------------------
(* ktimer_cancel: note our CPU ...                                         *)
ktimer_cancel(t) ==
  /\ pc[t] = "cancel" /\ Runs(t)
  /\ me' = [me EXCEPT ![t] = cpu[t]]
  /\ Go(t, "unlink")
  /\ UNCHANGED <<timerVars, cpu, idx, busy>>

(* ... take the timer off the list ...                                     *)
CancelMutant(t) ==
  /\ pc[t] = "unlink" /\ Runs(t)
  /\ list' = RemoveFirst(list, t)
  /\ me' = [me EXCEPT ![t] = 0]
  /\ Go(t, "out")
  /\ UNCHANGED <<due, g_running, stage, cpu, idx, busy>>

unlink_locked(t) ==
  /\ pc[t] = "unlink" /\ Runs(t)
  /\ list' = RemoveFirst(list, t)
  /\ idx' = [idx EXCEPT ![t] = 0]
  /\ busy' = [busy EXCEPT ![t] = FALSE]
  /\ Go(t, "scan")
  /\ UNCHANGED <<due, g_running, stage, cpu, me>>

(* ... and look at the other CPUs, one after another, until none runs it.  *)
(* No callback here arms its own timer again, so one round is enough.      *)
Scan(t) ==
  /\ pc[t] = "scan" /\ idx[t] < NCPU /\ Runs(t)
  /\ busy' = [busy EXCEPT ![t] = @ \/ (idx[t] # me[t] /\ g_running[idx[t]] = t)]
  /\ idx' = [idx EXCEPT ![t] = @ + 1]
  /\ UNCHANGED <<timerVars, cpu, pc, me>>

ScanEnd(t) ==
  /\ pc[t] = "scan" /\ idx[t] = NCPU /\ Runs(t)
  /\ idx' = [idx EXCEPT ![t] = 0]
  /\ busy' = [busy EXCEPT ![t] = FALSE]
  /\ IF busy[t]
     THEN UNCHANGED <<pc, me>>
     ELSE Go(t, "out") /\ me' = [me EXCEPT ![t] = 0]
  /\ UNCHANGED <<timerVars, cpu>>

-----------------------------------------------------------------------------
(* The clock and the tick.                                                 *)

Deadline(t) ==
  /\ t \notin due /\ pc[t] # "out"
  /\ \A i, j \in DOMAIN list : i < j /\ list[j] = t => list[i] \in due
  /\ due' = due \cup {t}
  /\ UNCHANGED <<list, g_running, stage, cpu, pc, cancelVars>>

(* ktimer_expire takes the first timer, if due, off the list and notes it  *)
(* in g_running before it drops the lock.                                  *)
ExpireMutant(c) ==
  /\ c \in TickCpus /\ g_running[c] = None
  /\ list # <<>> /\ Head(list) \in due
  /\ g_running' = [g_running EXCEPT ![c] = Head(list)]
  /\ stage' = [stage EXCEPT ![c] = "call"]
  /\ UNCHANGED <<list, due, cpu, pc, cancelVars>>

ktimer_expire(c) ==
  /\ c \in TickCpus /\ g_running[c] = None
  /\ list # <<>> /\ Head(list) \in due
  /\ list' = Tail(list)
  /\ g_running' = [g_running EXCEPT ![c] = Head(list)]
  /\ stage' = [stage EXCEPT ![c] = "call"]
  /\ UNCHANGED <<due, cpu, pc, cancelVars>>

(* sleep_timer_fired, futex_deadline_fired: read the timer, lock the wait  *)
(* queue it names, wake whoever is parked there.                           *)
Callback(c) ==
  LET t == g_running[c] IN
  /\ stage[c] = "call"
  /\ IF pc[t] = "parked" THEN Go(t, AfterWake(t)) ELSE UNCHANGED pc
  /\ stage' = [stage EXCEPT ![c] = "return"]
  /\ UNCHANGED <<list, due, g_running, cpu, cancelVars>>

CallbackDone(c) ==
  /\ stage[c] = "return"
  /\ stage' = [stage EXCEPT ![c] = "idle"]
  /\ g_running' = [g_running EXCEPT ![c] = None]
  /\ UNCHANGED <<list, due, cpu, pc, cancelVars>>

-----------------------------------------------------------------------------
Cancelling(t) == ktimer_cancel(t) \/ unlink_locked(t) \/ Scan(t) \/ ScanEnd(t)
Awake(t) == SleepTest(t) \/ FutexTest(t) \/ Cancelling(t)
Tick(c) == ktimer_expire(c) \/ Callback(c) \/ CallbackDone(c)

Next ==
  \/ \E t \in Tasks : ktimer_arm(t) \/ Awake(t) \/ OtherWake(t) \/ Deadline(t)
                      \/ \E c \in CPU : Migrate(t, c)
  \/ \E c \in CPU : Tick(c)

Spec == Init /\ [][Next]_vars

(* Runnable tasks run, although interrupts come again and again; time      *)
(* passes and the ticks keep coming.  Nobody else is assumed to wake the   *)
(* sleeper, and nobody has to ask it to stop.                              *)
Fairness ==
  /\ \A t \in Tasks : SF_vars(Awake(t)) /\ SF_vars(Deadline(t))
  /\ \A c \in CPU : WF_vars(Tick(c))

LiveSpec == Spec /\ Fairness

-----------------------------------------------------------------------------
(* The step ktimer_cancel does not expect: a caller that was moved since   *)
(* it noted its CPU passes over that CPU while it runs the very callback.  *)
SkipsCallback(t) == Scan(t) /\ idx[t] = me[t] /\ g_running[me[t]] = t

(* The behaviours without that step (with ~CancelPreemptible, all).        *)
NoSkip == [][\A t \in Tasks : ~SkipsCallback(t)]_vars

(* The frame outlives its timer: a timer on the list, or in the hands of a *)
(* callback that still has to read it, belongs to a frame that exists.     *)
(* This is what ktimer_cancel waits for.                                   *)
FrameOutlivesTimer ==
  \A t \in Tasks : pc[t] = "out" =>
    t \notin ToSet(list) /\ \A c \in CPU : g_running[c] = t => stage[c] = "return"

(* A timer is in one place: on the list or in one CPU's callback.          *)
OneCallback ==
  \A t \in Tasks : \A c, d \in CPU :
    g_running[c] = t /\ stage[c] = "call" =>
      t \notin ToSet(list) /\ (g_running[d] = t /\ stage[d] = "call" => c = d)

(* task_sleep_until_ns returns: the timer cannot fire in the window        *)
(* between the deadline's test and the park without waking the sleeper.    *)
SleepEnds == \A t \in Sleepers : pc[t] # "out" ~> pc[t] = "out"

(* futex.h: futex_wait parks until "a wake, an absolute deadline [...] or  *)
(* a signal": once the deadline has passed it returns.                     *)
FutexTimesOut == \A t \in Futexes : pc[t] = "parked" ~> pc[t] = "out"
=============================================================================
