----------------------------- MODULE RunQueue -----------------------------
(***************************************************************************)
(* The run queues of kernel/core/task.c taken apart: the rq_lock of each   *)
(* queue, the ring of rq_next and rq_prev links, the ownership token       *)
(* cpu_home that rq_insert_tail_locked claims with a CAS and               *)
(* rq_remove_locked gives back last, the two locks of load_steal_one, the  *)
(* re-read loop of rq_detach_anywhere and the sweep of rq_purge_all.       *)
(*                                                                         *)
(* A context (a CPU in the balancer, a waker, a task in its own code) runs *)
(* one job at a time.  A step is a lock taken, one look at cpu_home or at  *)
(* a state, the splice of the links, or the unlock: what the code does to  *)
(* the links and counts under a lock is one step, cpu_home is written in a *)
(* step of its own because others read it without that lock.               *)
(***************************************************************************)
EXTENDS Naturals, FiniteSets

CONSTANTS NCPU,      \* smp_ncpus()
          Tasks,     \* the tasks (no idle task: those are on no queue)
          Procs,     \* the contexts that work on the queues
          MaxSpins,  \* rq_detach_anywhere's bound, 64 in the code
          MaxMoves,  \* bound of the model: task_set_affinity moves per task
          Nil        \* the null pointer, and a lock that is free

ASSUME NCpuAssumption == NCPU \in Nat \ {0}
ASSUME SpinsAssumption == MaxSpins \in Nat \ {0} /\ MaxMoves \in Nat
ASSUME FiniteAssumption == IsFiniteSet(Tasks) /\ IsFiniteSet(Procs)
ASSUME NilAssumption == Nil \notin Tasks /\ Nil \notin Procs

CPU == 0 .. NCPU - 1
NoCpu == NCPU          \* cpu_home == -1

VARIABLES
  lock,       \* percpu->rq_lock: the context that holds it, or Nil
  rq_head, rq_count,
  rq_next, rq_prev,
  cpu_home,
  state,      \* task->state
  on_cpu,     \* the tasks with task->on_cpu set
  job,        \* what each context is doing (see NoJob)
  moves,      \* task_set_affinity moves of each task so far
  gaveup,     \* tasks whose own rq_detach_anywhere ran out of rounds
  swept       \* dead tasks whose rq_purge_all is over

ringVars == <<rq_head, rq_count, rq_next, rq_prev>>
pastVars == <<moves, gaveup, swept>>
vars == <<lock, ringVars, cpu_home, state, on_cpu, job, pastVars>>

Kinds == {"wake", "sleep", "exit", "move", "steal"}

(* The jobs a task does on itself.                                         *)
OwnKinds == {"sleep", "exit"}

(* A context's job: where it is, its task, the queue it takes from and the *)
(* one it puts to, and the rounds of rq_detach_anywhere it has used.       *)
NoJob == [pc |-> "idle", kind |-> "none", tgt |-> Nil, from |-> NoCpu, to |-> NoCpu, spins |-> 0]

Jobs ==
  [pc : {"idle", "read", "lockfrom", "verify", "unlink", "release", "lockto",
         "insert", "link", "unlock", "locklo", "lockhi", "choose"},
   kind : Kinds \cup {"none"}, tgt : Tasks \cup {Nil},
   from : CPU \cup {NoCpu}, to : CPU \cup {NoCpu}, spins : 0 .. MaxSpins - 1]

TypeOK ==
  /\ lock \in [CPU -> Procs \cup {Nil}]
  /\ rq_head \in [CPU -> Tasks \cup {Nil}]
  /\ rq_count \in [CPU -> 0 .. Cardinality(Tasks)]
  /\ rq_next \in [Tasks -> Tasks \cup {Nil}]
  /\ rq_prev \in [Tasks -> Tasks \cup {Nil}]
  /\ cpu_home \in [Tasks -> CPU \cup {NoCpu}]
  /\ state \in [Tasks -> {"runnable", "asleep", "dead"}]
  /\ on_cpu \subseteq Tasks
  /\ job \in [Procs -> Jobs]
  /\ moves \in [Tasks -> 0 .. MaxMoves]
  /\ gaveup \subseteq Tasks
  /\ swept \subseteq Tasks

(* New tasks: not yet enqueued by whoever made them.                       *)
Init ==
  /\ lock = [c \in CPU |-> Nil]
  /\ rq_head = [c \in CPU |-> Nil]
  /\ rq_count = [c \in CPU |-> 0]
  /\ rq_next = [t \in Tasks |-> Nil]
  /\ rq_prev = [t \in Tasks |-> Nil]
  /\ cpu_home = [t \in Tasks |-> NoCpu]
  /\ state = [t \in Tasks |-> "asleep"]
  /\ on_cpu = {}
  /\ job = [p \in Procs |-> NoJob]
  /\ moves = [t \in Tasks |-> 0]
  /\ gaveup = {}
  /\ swept = {}

-----------------------------------------------------------------------------
(* The ring.                                                               *)

(* The bounded walk every reader of the ring does, from head along rq_next. *)
Ring(c) ==
  LET walk[i \in 0 .. Cardinality(Tasks)] ==
        IF i = 0 THEN rq_head[c]
        ELSE IF walk[i - 1] = Nil THEN Nil ELSE rq_next[walk[i - 1]]
  IN  {walk[i] : i \in 0 .. Cardinality(Tasks)} \ {Nil}

(* rq_insert_tail_locked past its claim.                                   *)
SpliceIn(t, c) ==
  LET head == rq_head[c]
      tail == rq_prev[head]
  IN  /\ IF head = Nil
         THEN /\ rq_head' = [rq_head EXCEPT ![c] = t]
              /\ rq_next' = [rq_next EXCEPT ![t] = t]
              /\ rq_prev' = [rq_prev EXCEPT ![t] = t]
         ELSE /\ rq_next' = [rq_next EXCEPT ![t] = head, ![tail] = t]
              /\ rq_prev' = [rq_prev EXCEPT ![t] = tail, ![head] = t]
              /\ UNCHANGED rq_head
      /\ rq_count' = [rq_count EXCEPT ![c] = @ + 1]

(* rq_remove_locked up to its release: a task with no links is left alone. *)
SpliceOut(t, c) ==
  LET n == rq_next[t]
      q == rq_prev[t]
  IN  IF n = Nil /\ q = Nil /\ rq_head[c] # t
      THEN UNCHANGED ringVars
      ELSE /\ rq_head' = IF rq_head[c] # t THEN rq_head
                         ELSE [rq_head EXCEPT ![c] = IF n = t THEN Nil ELSE n]
           /\ rq_next' = [rq_next EXCEPT ![q] = n, ![t] = Nil]
           /\ rq_prev' = [rq_prev EXCEPT ![n] = q, ![t] = Nil]
           /\ rq_count' = [rq_count EXCEPT ![c] = IF @ > 0 THEN @ - 1 ELSE @]

-----------------------------------------------------------------------------
(* Steps common to the jobs.                                               *)

Goto(p, l) == job' = [job EXCEPT ![p].pc = l]

Done(p) == job' = [job EXCEPT ![p] = NoJob]

Unlocked(p) == [c \in CPU |-> IF lock[c] = p THEN Nil ELSE lock[c]]

Own(p, t) == job[p].pc # "idle" /\ job[p].kind \in OwnKinds /\ job[p].tgt = t

Start(p, l, k, t, f, d) ==
  /\ job[p] = NoJob
  /\ job' = [job EXCEPT ![p] = [pc |-> l, kind |-> k, tgt |-> t, from |-> f, to |-> d,
                               spins |-> 0]]

(* One rq_lock; nobody waits for it while holding another one.             *)
LockFrom(p) ==
  /\ job[p].pc = "lockfrom" /\ lock[job[p].from] = Nil
  /\ lock' = [lock EXCEPT ![job[p].from] = p]
  /\ Goto(p, "verify")
  /\ UNCHANGED <<ringVars, cpu_home, state, on_cpu, pastVars>>

(* task_enqueue: pick_lightest_cpu reads loads and mask without a lock, so *)
(* any CPU's lock may be the one it waits for.                             *)
LockTo(p) ==
  /\ job[p].pc = "lockto"
  /\ \E c \in CPU : /\ lock[c] = Nil
                    /\ lock' = [lock EXCEPT ![c] = p]
                    /\ job' = [job EXCEPT ![p].pc = "insert", ![p].to = c]
  /\ UNCHANGED <<ringVars, cpu_home, state, on_cpu, pastVars>>

(* The DEAD test and the claim, under the destination's lock.              *)
ClaimMutant(p) ==
  /\ job[p].pc = "insert"
  /\ LET t == job[p].tgt IN
     IF state[t] = "dead" \/ rq_next[t] # Nil \/ rq_prev[t] # Nil
     THEN Goto(p, "unlock") /\ UNCHANGED cpu_home
     ELSE Goto(p, "link") /\ cpu_home' = [cpu_home EXCEPT ![t] = job[p].to]
  /\ UNCHANGED <<lock, ringVars, state, on_cpu, pastVars>>

ClaimDeadMutant(p) ==
  /\ job[p].pc = "insert"
  /\ LET t == job[p].tgt IN
     IF cpu_home[t] # NoCpu
     THEN Goto(p, "unlock") /\ UNCHANGED cpu_home
     ELSE Goto(p, "link") /\ cpu_home' = [cpu_home EXCEPT ![t] = job[p].to]
  /\ UNCHANGED <<lock, ringVars, state, on_cpu, pastVars>>

Claim(p) ==
  /\ job[p].pc = "insert"
  /\ LET t == job[p].tgt IN
     IF state[t] = "dead" \/ cpu_home[t] # NoCpu
     THEN Goto(p, "unlock") /\ UNCHANGED cpu_home
     ELSE Goto(p, "link") /\ cpu_home' = [cpu_home EXCEPT ![t] = job[p].to]
  /\ UNCHANGED <<lock, ringVars, state, on_cpu, pastVars>>

Link(p) ==
  /\ job[p].pc = "link"
  /\ SpliceIn(job[p].tgt, job[p].to)
  /\ Goto(p, "unlock")
  /\ UNCHANGED <<lock, cpu_home, state, on_cpu, pastVars>>

Unlink(p) ==
  /\ job[p].pc = "unlink"
  /\ SpliceOut(job[p].tgt, job[p].from)
  /\ Goto(p, "release")
  /\ UNCHANGED <<lock, cpu_home, state, on_cpu, pastVars>>

(* Ownership is given back last; a steal goes straight on to its insert.   *)
Release(p) ==
  /\ job[p].pc = "release"
  /\ cpu_home' = [cpu_home EXCEPT ![job[p].tgt] = NoCpu]
  /\ Goto(p, IF job[p].kind = "steal" THEN "insert" ELSE "unlock")
  /\ UNCHANGED <<lock, ringVars, state, on_cpu, pastVars>>

-----------------------------------------------------------------------------
(* The jobs.                                                               *)

(* A waker: RUNNABLE, then task_enqueue.  (Also the first enqueue.)        *)
Wake(p, t) ==
  /\ state[t] = "asleep"
  /\ Start(p, "lockto", "wake", t, NoCpu, NoCpu)
  /\ state' = [state EXCEPT ![t] = "runnable"]
  /\ UNCHANGED <<lock, ringVars, cpu_home, on_cpu, pastVars>>

(* A task that runs and is in the middle of no job on itself.              *)
Free(t) == t \in on_cpu /\ state[t] = "runnable" /\ \A p \in Procs : ~Own(p, t)

(* task_msleep, waitq_block, stop_self: not RUNNABLE, then off the queue.  *)
Sleep(p, t) ==
  /\ Free(t)
  /\ Start(p, "read", "sleep", t, NoCpu, NoCpu)
  /\ state' = [state EXCEPT ![t] = "asleep"]
  /\ UNCHANGED <<lock, ringVars, cpu_home, on_cpu, pastVars>>

(* task_exit_code: DEAD, then every queue in turn.                         *)
Exit(p, t) ==
  /\ Free(t)
  /\ Start(p, "lockfrom", "exit", t, 0, NoCpu)
  /\ state' = [state EXCEPT ![t] = "dead"]
  /\ UNCHANGED <<lock, ringVars, cpu_home, on_cpu, pastVars>>

(* task_set_affinity, on an unlocked look at state and queue.              *)
SetAffinity(p, t) ==
  /\ state[t] = "runnable" /\ cpu_home[t] # NoCpu
  /\ moves[t] < MaxMoves
  /\ Start(p, "read", "move", t, NoCpu, NoCpu)
  /\ moves' = [moves EXCEPT ![t] = @ + 1]
  /\ UNCHANGED <<lock, ringVars, cpu_home, state, on_cpu, gaveup, swept>>

(* What follows rq_detach_anywhere: a mover enqueues, and a sleeper whose  *)
(* waker came first goes back on a queue.                                  *)
AfterDetach(p) ==
  IF job[p].kind = "sleep" /\ state[job[p].tgt] = "asleep" THEN Done(p) ELSE Goto(p, "lockto")

(* One round of rq_detach_anywhere.                                        *)
ReadHome(p) ==
  /\ job[p].pc = "read"
  /\ IF cpu_home[job[p].tgt] = NoCpu
     THEN AfterDetach(p)
     ELSE job' = [job EXCEPT ![p].pc = "lockfrom", ![p].from = cpu_home[job[p].tgt]]
  /\ UNCHANGED <<lock, ringVars, cpu_home, state, on_cpu, pastVars>>

(* With the lock: is it (still) this queue that has the task?              *)
Found(p) ==
  IF job[p].kind = "exit" THEN job[p].tgt \in Ring(job[p].from)
  ELSE cpu_home[job[p].tgt] = job[p].from

Verify(p) ==
  /\ job[p].pc = "verify" /\ Found(p)
  /\ Goto(p, "unlink")
  /\ UNCHANGED <<lock, ringVars, cpu_home, state, on_cpu, pastVars>>

(* Re-homed under us: unlock and look again, at most MaxSpins times.       *)
Retry(p) ==
  /\ job[p].pc = "verify" /\ job[p].kind # "exit" /\ ~Found(p)
  /\ lock' = Unlocked(p)
  /\ IF job[p].spins + 1 < MaxSpins
     THEN /\ job' = [job EXCEPT ![p].pc = "read", ![p].spins = @ + 1]
          /\ UNCHANGED gaveup
     ELSE /\ AfterDetach(p)
          /\ gaveup' = IF job[p].kind = "sleep" THEN gaveup \cup {job[p].tgt} ELSE gaveup
  /\ UNCHANGED <<ringVars, cpu_home, state, on_cpu, moves, swept>>

(* rq_purge_all_where moves on to the next queue, or is done.              *)
NextQueue(p) ==
  /\ job[p].kind = "exit"
  /\ job[p].pc = "unlock" \/ (job[p].pc = "verify" /\ ~Found(p))
  /\ lock' = Unlocked(p)
  /\ IF job[p].from + 1 < NCPU
     THEN /\ job' = [job EXCEPT ![p].pc = "lockfrom", ![p].from = @ + 1]
          /\ UNCHANGED swept
     ELSE /\ swept' = swept \cup {job[p].tgt}
          /\ Done(p)
  /\ UNCHANGED <<ringVars, cpu_home, state, on_cpu, moves, gaveup>>

(* The other unlocks: `to` is held after an enqueue, `from` after a detach. *)
Unlock(p) ==
  /\ job[p].pc = "unlock" /\ job[p].kind # "exit"
  /\ lock' = Unlocked(p)
  /\ IF job[p].to = NoCpu THEN AfterDetach(p) ELSE Done(p)
  /\ UNCHANGED <<ringVars, cpu_home, state, on_cpu, pastVars>>

(* load_steal_one: both locks, the lower cpu_index first.                  *)
Steal(p, v, d) ==
  /\ v # d
  /\ Start(p, "locklo", "steal", Nil, v, d)
  /\ UNCHANGED <<lock, ringVars, cpu_home, state, on_cpu, pastVars>>

LowMutant(p) == job[p].from

Low(p) == IF job[p].from < job[p].to THEN job[p].from ELSE job[p].to

High(p) == IF Low(p) = job[p].from THEN job[p].to ELSE job[p].from

LockLow(p) ==
  /\ job[p].pc = "locklo" /\ lock[Low(p)] = Nil
  /\ lock' = [lock EXCEPT ![Low(p)] = p]
  /\ Goto(p, "lockhi")
  /\ UNCHANGED <<ringVars, cpu_home, state, on_cpu, pastVars>>

LockHigh(p) ==
  /\ job[p].pc = "lockhi" /\ lock[High(p)] = Nil
  /\ lock' = [lock EXCEPT ![High(p)] = p]
  /\ Goto(p, "choose")
  /\ UNCHANGED <<ringVars, cpu_home, state, on_cpu, pastVars>>

(* RUNNABLE, current on no CPU and in the middle of no switch; demand and  *)
(* mask only narrow the choice, so nothing at all may be chosen.           *)
StealableMutant(v) == {t \in Ring(v) : state[t] = "runnable"}

Stealable(v) == {t \in Ring(v) : state[t] = "runnable" /\ t \notin on_cpu}

Choose(p) ==
  /\ job[p].pc = "choose"
  /\ \/ \E t \in Stealable(job[p].from) :
          job' = [job EXCEPT ![p].pc = "unlink", ![p].tgt = t]
     \/ Goto(p, "unlock")
  /\ UNCHANGED <<lock, ringVars, cpu_home, state, on_cpu, pastVars>>

-----------------------------------------------------------------------------
(* The scheduler around the queues.                                        *)

(* schedule() with its lock: a task of this queue that runs nowhere.       *)
Dispatch(c, t) ==
  /\ lock[c] = Nil
  /\ t \in Ring(c) /\ state[t] = "runnable" /\ t \notin on_cpu
  /\ on_cpu' = on_cpu \cup {t}
  /\ UNCHANGED <<lock, ringVars, cpu_home, state, job, pastVars>>

(* The switch away from a task is over (sched_release_leaving).            *)
Leave(t) ==
  /\ t \in on_cpu /\ \A p \in Procs : ~Own(p, t)
  /\ on_cpu' = on_cpu \ {t}
  /\ UNCHANGED <<lock, ringVars, cpu_home, state, job, pastVars>>

(* rq_rotate_to_tail_locked, for the task that used up its budget here.    *)
Rotate(c, t) ==
  /\ lock[c] = Nil /\ t \in on_cpu /\ state[t] = "runnable"
  /\ cpu_home[t] = c /\ ~(rq_head[c] = t /\ rq_next[t] = t)
  /\ LET n == rq_next[t]
         q == rq_prev[t]
         head == IF rq_head[c] = t THEN n ELSE rq_head[c]
         next1 == [rq_next EXCEPT ![q] = n]
         prev1 == [rq_prev EXCEPT ![n] = q]
         tail == prev1[head]
     IN  /\ rq_head' = [rq_head EXCEPT ![c] = head]
         /\ rq_next' = [next1 EXCEPT ![t] = head, ![tail] = t]
         /\ rq_prev' = [prev1 EXCEPT ![t] = tail, ![head] = t]
  /\ UNCHANGED <<lock, rq_count, cpu_home, state, on_cpu, job, pastVars>>

Step(p) ==
  \/ LockFrom(p) \/ LockTo(p) \/ Claim(p) \/ Link(p) \/ Unlink(p) \/ Release(p)
  \/ ReadHome(p) \/ Verify(p) \/ Retry(p) \/ NextQueue(p) \/ Unlock(p)
  \/ LockLow(p) \/ LockHigh(p) \/ Choose(p)

Next ==
  \/ \E p \in Procs : \/ Step(p)
                      \/ \E t \in Tasks : \/ Wake(p, t) \/ Sleep(p, t) \/ Exit(p, t)
                                          \/ SetAffinity(p, t)
                      \/ \E v, d \in CPU : Steal(p, v, d)
  \/ \E t \in Tasks : \/ Leave(t)
                      \/ \E c \in CPU : Dispatch(c, t) \/ Rotate(c, t)

Spec == Init /\ [][Next]_vars

-----------------------------------------------------------------------------
(* Properties.                                                             *)

(* Whenever a queue's lock is free its ring is a ring: closed both ways,   *)
(* holding exactly the tasks whose cpu_home names it, and as many as       *)
(* rq_count says.  These are the audit's rules bad_home, orphan_home,      *)
(* bad_count and broken_ring (task_rq_audit), and what lets pick, steal    *)
(* and sweep walk the ring without meeting a stray link.                   *)
RingExact ==
  \A c \in CPU : lock[c] = Nil =>
    /\ Ring(c) = {t \in Tasks : cpu_home[t] = c}
    /\ Cardinality(Ring(c)) = rq_count[c]
    /\ \A t \in Ring(c) : /\ rq_next[t] \in Ring(c) /\ rq_prev[t] \in Ring(c)
                          /\ rq_prev[rq_next[t]] = t /\ rq_next[rq_prev[t]] = t

(* The locks order themselves: whenever contexts have jobs in hand, one of *)
(* them can go on.  load_steal_one is the only holder of two rq_locks.     *)
NotAllWaiting ==
  LET Blocked(p) == \/ job[p].pc = "lockfrom" /\ lock[job[p].from] # Nil
                    \/ job[p].pc = "lockto" /\ \A c \in CPU : lock[c] # Nil
                    \/ job[p].pc = "locklo" /\ lock[Low(p)] # Nil
                    \/ job[p].pc = "lockhi" /\ lock[High(p)] # Nil
  IN  (\E p \in Procs : job[p].pc # "idle") =>
        \E p \in Procs : job[p].pc # "idle" /\ ~Blocked(p)

(* Every failed round of a task's own rq_detach_anywhere is paid for by    *)
(* one task_set_affinity: the balancer never moves a running task, so no   *)
(* amount of stealing exhausts the 64 rounds.                              *)
GivesUpOnlyIfMoved == \A t \in gaveup : moves[t] >= MaxSpins

(* The thieves that have a task in hand between the victim's ring and      *)
(* their own.                                                              *)
Thieves(t) ==
  {p \in Procs : job[p].kind = "steal" /\ job[p].pc = "insert" /\ job[p].tgt = t}

OneOf(ps) == CHOOSE p \in ps : TRUE

(* Who owns a task, seen from outside the locks.                           *)
OwnerView ==
  [t \in Tasks |-> IF cpu_home[t] = NoCpu /\ Thieves(t) # {} THEN job[OneOf(Thieves(t))].from
                   ELSE cpu_home[t]]

Ownership == INSTANCE QueueOwner WITH owner <- OwnerView, retired <- swept

(* The queues with their locks, links and claims implement QueueOwner: a   *)
(* migration is one transition, a task is never on two queues, and a task  *)
(* whose exit has swept the queues is never queued again, however late a   *)
(* decided enqueue arrives.                                                *)
OwnershipHolds == Ownership!OwnerSpec
=============================================================================
