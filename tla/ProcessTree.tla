---------------------------- MODULE ProcessTree ----------------------------
(***************************************************************************)
(* The process tree of kernel/core/task.c: spawning under a parent, exit   *)
(* with the teardown of the subtree, task_wait on the global child_exit_wq, *)
(* the claim / check / unlink protocol of task_reap, adoption of orphans by *)
(* the nearest subreaper or by init, and init's periodic sweep.  master_lock*)
(* and the queue's lock make each critical section one action; what happens *)
(* between two sections of one task is left open to all the others.  Pids   *)
(* are not reused.  The run queues are in Scheduler and RunQueue; here a    *)
(* dead task only stays on its CPU until its last switch.                   *)
(***************************************************************************)
EXTENDS Naturals, FiniteSets

CONSTANTS Procs,       \* pids that can be spawned
          init,        \* g_init_pid: adopter of last resort and reaper
          Root,        \* the process the others descend from
          Spawns,      \* the spawns of a run, as <<parent, child>> pairs
          Named,       \* the spawns under a parent named by its pid
          Linux,       \* processes with linux_abi
          Detaching,   \* processes that may call setsid
          Subreapers,  \* processes with child_subreaper
          Killable,    \* processes that somebody outside the tree may kill
          KillMax,     \* KILLTREE_MAX: children a dying task can note down
          MaxTries     \* bound: refusals after which task_wait_ex2 gives up

ASSUME TreeAssumption ==
  /\ IsFiniteSet(Procs) /\ init \notin Procs /\ Root \in Procs
  /\ Spawns \subseteq Procs \X Procs /\ Named \subseteq Procs \X Procs
  /\ Linux \subseteq Procs /\ Detaching \subseteq Procs
  /\ Subreapers \subseteq Procs /\ Killable \subseteq Procs
  /\ KillMax \in Nat \ {0} /\ MaxTries \in Nat

Agents == Procs \cup {init}
NoTask == "none"

VARIABLES
  state,     \* TASK_DEAD or not; "freed" once task_reap has unlinked it
  ppid,
  birth,     \* history: the parent at spawn
  under,     \* history: how that parent stood at the spawn
  detached,  \* tasks with survives_parent set
  owned,     \* tasks with reap_owned set
  killed,    \* tasks with kill_pending set
  on_cpu,    \* dead tasks whose kernel stack is still in use
  reaping,   \* tasks some reaper has claimed
  delivered, \* history: tasks whose exit code a task_wait has returned
  want,      \* the children a task_wait asks for
  kids,      \* the pids a dying task has noted down to kill
  sent,      \* those of them it has killed so far
  todo,      \* init's list of the current sweep
  tries,     \* refusals this wait has met
  pc, job    \* where each agent is, and the task it is reaping

vars == <<state, ppid, birth, under, detached, owned, killed, on_cpu, reaping,
          delivered, want, kids, sent, todo, tries, pc, job>>

Present(c) == state[c] \in {"alive", "dead"}

TypeOK ==
  /\ state \in [Procs -> {"unborn", "alive", "dead", "freed"}]
  /\ ppid \in [Procs -> Agents]
  /\ birth \in [Procs -> Agents]
  /\ under \in [Procs -> {"living", "dying", "gone"}]
  /\ detached \subseteq Procs
  /\ owned \subseteq Procs /\ killed \subseteq Procs
  /\ on_cpu \subseteq Procs /\ delivered \subseteq Procs
  /\ reaping \subseteq {c \in Procs : Present(c)}
  /\ want \in [Procs -> SUBSET Procs]
  /\ kids \in [Procs -> SUBSET Procs] /\ sent \in [Procs -> SUBSET Procs]
  /\ todo \subseteq Procs
  /\ \A p \in Procs : Cardinality(kids[p]) <= KillMax
  /\ tries \in [Procs -> 0..MaxTries]
  /\ pc \in [Agents -> {"run", "scan", "asleep", "claim", "check", "unlink",
                        "refused", "exit", "killing", "wake", "switch", "gone"}]
  /\ job \in [Agents -> Procs \cup {NoTask}]

Init ==
  /\ state = [p \in Procs |-> IF p = Root THEN "alive" ELSE "unborn"]
  /\ ppid = [p \in Procs |-> init]
  /\ birth = ppid
  /\ under = [p \in Procs |-> "living"]
  /\ detached = {}
  /\ owned = {} /\ killed = {} /\ on_cpu = {} /\ reaping = {}
  /\ delivered = {} /\ todo = {}
  /\ want = [p \in Procs |-> {}]
  /\ kids = [p \in Procs |-> {}]
  /\ sent = [p \in Procs |-> {}]
  /\ tries = [p \in Procs |-> 0]
  /\ pc = [a \in Agents |-> "run"]
  /\ job = [a \in Agents |-> NoTask]

Goto(a, l) == pc' = [pc EXCEPT ![a] = l]

(* A system call returns to ring 3 through the safe point that honours a    *)
(* pending kill.                                                            *)
Ring3(a) == IF a \in killed THEN "exit" ELSE "run"

(***************************************************************************)
(* Spawning.  A forked child is built held, its reap claim set, then        *)
(* released (task_spawn_arg_held, task_release): nobody sees it without the *)
(* claim.  A plain spawn leaves the claim unset: init collects the child.   *)
(***************************************************************************)
spawn(p, c, claim) ==
  /\ pc[p] = "run" /\ state[p] = "alive" /\ state[c] = "unborn"
  /\ <<p, c>> \in Spawns
  /\ state' = [state EXCEPT ![c] = "alive"]
  /\ ppid' = [ppid EXCEPT ![c] = p]
  /\ birth' = [birth EXCEPT ![c] = p]
  /\ under' = [under EXCEPT ![c] = "living"]
  /\ owned' = IF claim THEN owned \cup {c} ELSE owned
  /\ UNCHANGED <<detached, killed, on_cpu, reaping, delivered, want,
                 kids, sent, todo, tries, pc, job>>

(* How the task behind a pid stands: it can still note down its children,   *)
(* it is past that, or it has left the ring.                                *)
Standing(q) ==
  CASE state[q] = "freed" -> "gone"
    [] state[q] = "dead" \/ pc[q] = "killing" -> "dying"
    [] OTHER -> "living"

(***************************************************************************)
(* task_spawn_under, task_spawn_console: the caller names the parent by its *)
(* pid (the session, the supervisor, cron), and nothing looks the pid up:   *)
(* that parent may be dying, dead or gone.  The caller is somebody else.    *)
(***************************************************************************)
task_spawn_under(q, c) ==
  /\ state[q] # "unborn" /\ state[c] = "unborn" /\ q # c
  /\ <<q, c>> \in Named
  /\ state' = [state EXCEPT ![c] = "alive"]
  /\ ppid' = [ppid EXCEPT ![c] = q]
  /\ birth' = [birth EXCEPT ![c] = q]
  /\ under' = [under EXCEPT ![c] = Standing(q)]
  /\ UNCHANGED <<detached, owned, killed, on_cpu, reaping, delivered, want,
                 kids, sent, todo, tries, pc, job>>

(* setsid, setpgid to itself: from now on the process outlives its parent.  *)
setsid(p) ==
  /\ state[p] = "alive" /\ pc[p] = "run" /\ p \in Detaching \ detached
  /\ detached' = detached \cup {p}
  /\ UNCHANGED <<state, ppid, birth, under, owned, killed, on_cpu, reaping,
                 delivered, want, kids, sent, todo, tries, pc, job>>

(***************************************************************************)
(* adopter_for_locked: from the dying task's parent upwards, the first      *)
(* living subreaper; else init.  Ancestors are walked through the ppid of   *)
(* tasks in the ring, at most Cardinality(Procs); a pid not found there ends*)
(* the walk.                                                                *)
(***************************************************************************)
Ancestors(p) ==
  LET up[n \in 0..Cardinality(Procs)] ==
        IF n = 0 THEN ppid[p]
        ELSE IF up[n - 1] = init \/ ~Present(up[n - 1]) THEN init
             ELSE ppid[up[n - 1]]
  IN  up

adopter_for(p) ==
  LET up     == Ancestors(p)
      Keeps(n) == up[n] \in Subreapers /\ state[up[n]] = "alive"
      hits   == {n \in 0..Cardinality(Procs) : Keeps(n)}
  IN  IF hits = {} THEN init
      ELSE up[CHOOSE n \in hits : \A m \in hits : n <= m]

(* Mutant: the orphan keeps its reap claim whoever takes it.                *)
AdoptMutant(cs, a) ==
  /\ ppid' = [c \in Procs |-> IF c \in cs THEN a ELSE ppid[c]]
  /\ owned' = owned

(* adopt_locked, for a set of children: an orphan that init takes loses its *)
(* reap claim if it is a Linux process; a subreaper keeps the claim.        *)
adopt(cs, a) ==
  /\ ppid' = [c \in Procs |-> IF c \in cs THEN a ELSE ppid[c]]
  /\ owned' = IF a = init THEN owned \ (cs \cap Linux) ELSE owned

(***************************************************************************)
(* task_kill: by pid, so a task that is dead or gone is left alone.  A task *)
(* asleep in task_wait is woken and scans again.                            *)
(***************************************************************************)
Woken(ps) == [a \in Agents |-> IF a \in ps /\ pc[a] = "asleep" THEN "scan" ELSE pc[a]]

task_kill(c) ==
  /\ state[c] = "alive" /\ c \notin killed
  /\ killed' = killed \cup {c}
  /\ pc' = Woken({c})
  /\ UNCHANGED <<state, ppid, birth, under, detached, owned, on_cpu, reaping,
                 delivered, want, kids, sent, todo, tries, job>>

(***************************************************************************)
(* task_exit_code.  The exit is voluntary, or a pending kill is honoured at *)
(* a safe point (the return to ring 3, or task_yield).                      *)
(***************************************************************************)
exit(p) ==
  /\ state[p] = "alive" /\ pc[p] = "run"
  /\ Goto(p, "exit")
  /\ UNCHANGED <<state, ppid, birth, under, detached, owned, killed, on_cpu,
                 reaping, delivered, want, kids, sent, todo, tries, job>>

honour_kill(p) == p \in killed /\ exit(p)

Unkept(p) == {c \in Procs : state[c] = "alive" /\ ppid[c] = p} \ detached
Handed(p) == {c \in Procs : state[c] = "alive" /\ ppid[c] = p} \cap detached

(* The lists of at most n entries a walk over these tasks can leave behind. *)
Lists(ts, n) ==
  {ks \in SUBSET ts : Cardinality(ks) = n \/ (ks = ts /\ Cardinality(ks) < n)}

(* Mutant: the bound of the list is off by one.                             *)
NoteKidsMutant(p) ==
  /\ pc[p] = "exit"
  /\ adopt(Handed(p), adopter_for(p))
  /\ \E ks \in Lists(Unkept(p), KillMax - 1) : kids' = [kids EXCEPT ![p] = ks]
  /\ sent' = [sent EXCEPT ![p] = {}]
  /\ Goto(p, "killing")
  /\ UNCHANGED <<state, birth, under, detached, killed, on_cpu, reaping,
                 delivered, want, todo, tries, job>>

(* Under master_lock: detached children are handed on, the others noted.    *)
NoteKids(p) ==
  /\ pc[p] = "exit"
  /\ adopt(Handed(p), adopter_for(p))
  /\ \E ks \in Lists(Unkept(p), KillMax) : kids' = [kids EXCEPT ![p] = ks]
  /\ sent' = [sent EXCEPT ![p] = {}]
  /\ Goto(p, "killing")
  /\ UNCHANGED <<state, birth, under, detached, killed, on_cpu, reaping,
                 delivered, want, todo, tries, job>>

(* One task_kill per noted pid, each with the lock dropped in between.      *)
KillKid(p, c) ==
  /\ pc[p] = "killing" /\ c \in kids[p] \ sent[p]
  /\ sent' = [sent EXCEPT ![p] = @ \cup {c}]
  /\ IF state[c] = "alive"
     THEN killed' = killed \cup {c} /\ pc' = Woken({c})
     ELSE UNCHANGED <<killed, pc>>
  /\ UNCHANGED <<state, ppid, birth, under, detached, owned, on_cpu, reaping,
                 delivered, want, kids, todo, tries, job>>

(* The point of no return: interrupts off, DEAD published under master_lock.*)
(* (Nothing reads the flags of a dead task; they are dropped here.)         *)
PublishDead(p) ==
  /\ pc[p] = "killing" /\ kids[p] \subseteq sent[p]
  /\ sent' = [sent EXCEPT ![p] = {}]
  /\ state' = [state EXCEPT ![p] = "dead"]
  /\ on_cpu' = on_cpu \cup {p}
  /\ killed' = killed \ {p} /\ detached' = detached \ {p}
  /\ Goto(p, "wake")
  /\ UNCHANGED <<ppid, birth, under, owned, reaping, delivered, want,
                 kids, todo, tries, job>>

(* Mutant: waitq_wake_one, although the waiters wait for different children.*)
WakeOneMutant(p) ==
  /\ pc[p] = "wake"
  /\ \E w \in Procs :
       /\ pc[w] = "asleep" \/ \A q \in Procs : pc[q] # "asleep"
       /\ pc' = [Woken({w}) EXCEPT ![p] = "switch"]
  /\ UNCHANGED <<state, ppid, birth, under, detached, owned, killed, on_cpu,
                 reaping, delivered, want, kids, sent, todo, tries, job>>

(* Under the queue's lock every waiter is woken, whoever its children are.  *)
WakeWaiters(p) ==
  /\ pc[p] = "wake"
  /\ pc' = [Woken(Procs) EXCEPT ![p] = "switch"]
  /\ UNCHANGED <<state, ppid, birth, under, detached, owned, killed, on_cpu,
                 reaping, delivered, want, kids, sent, todo, tries, job>>

(* The last switch; on_cpu is cleared by the task that takes the CPU over.  *)
SwitchAway(p) ==
  /\ pc[p] = "switch"
  /\ on_cpu' = on_cpu \ {p}
  /\ Goto(p, "gone")
  /\ UNCHANGED <<state, ppid, birth, under, detached, owned, killed, reaping,
                 delivered, want, kids, sent, todo, tries, job>>

(***************************************************************************)
(* task_wait_ex2.  The scan and the decision to sleep are one critical      *)
(* section of child_exit_wq.                                                *)
(***************************************************************************)
task_wait(p, w) ==
  /\ state[p] = "alive" /\ pc[p] = "run"
  /\ want' = [want EXCEPT ![p] = w]
  /\ Goto(p, "scan")
  /\ UNCHANGED <<state, ppid, birth, under, detached, owned, killed, on_cpu,
                 reaping, delivered, kids, sent, todo, tries, job>>

Children(p) == {c \in want[p] : Present(c) /\ ppid[c] = p}

(* A dead child: its code is captured, then it is reaped outside the lock.  *)
ScanFinds(p, c) ==
  /\ pc[p] = "scan" /\ c \in Children(p) /\ state[c] = "dead"
  /\ delivered' = delivered \cup {c}
  /\ job' = [job EXCEPT ![p] = c]
  /\ Goto(p, "claim")
  /\ UNCHANGED <<state, ppid, birth, under, detached, owned, killed, on_cpu,
                 reaping, want, kids, sent, todo, tries>>

(* No child at all: ECHILD.  Only live ones: sleep on child_exit_wq.        *)
ScanEnds(p) ==
  /\ pc[p] = "scan" /\ \A c \in Children(p) : state[c] = "alive"
  /\ Goto(p, IF Children(p) = {} THEN Ring3(p) ELSE "asleep")
  /\ want' = IF Children(p) = {} THEN [want EXCEPT ![p] = {}] ELSE want
  /\ UNCHANGED <<state, ppid, birth, under, detached, owned, killed, on_cpu,
                 reaping, delivered, kids, sent, todo, tries, job>>

(***************************************************************************)
(* task_reap, by a waiter or by init.                                       *)
(***************************************************************************)
ReapClaim(a) ==
  LET c == job[a]
      free == state[c] = "dead" /\ c \notin reaping
  IN  /\ pc[a] = "claim"
      /\ reaping' = IF free THEN reaping \cup {c} ELSE reaping
      /\ Goto(a, IF free THEN "check" ELSE "refused")
      /\ UNCHANGED <<state, ppid, birth, under, detached, owned, killed,
                     on_cpu, delivered, want, kids, sent, todo, tries, job>>

(* Refused, and the claim given back, while the stack is still in use.      *)
ReapCheck(a) ==
  LET busy == job[a] \in on_cpu
  IN  /\ pc[a] = "check"
      /\ reaping' = IF busy THEN reaping \ {job[a]} ELSE reaping
      /\ Goto(a, IF busy THEN "refused" ELSE "unlink")
      /\ UNCHANGED <<state, ppid, birth, under, detached, owned, killed,
                     on_cpu, delivered, want, kids, sent, todo, tries, job>>

(* The end of an attempt: the waiter is back from the call, or leaves it to *)
(* exit; init takes the next of its list.  The frame of the call is gone.   *)
Leave(a, l) ==
  /\ Goto(a, l)
  /\ job' = [job EXCEPT ![a] = NoTask]
  /\ want' = [p \in Procs |-> IF p = a THEN {} ELSE want[p]]
  /\ tries' = [p \in Procs |-> IF p = a THEN 0 ELSE tries[p]]

(* Mutant: only the children still alive are handed on.                     *)
UnlinkMutant(a) ==
  LET c == job[a]
  IN  /\ pc[a] = "unlink"
      /\ adopt({k \in Procs : state[k] = "alive" /\ ppid[k] = c}, adopter_for(c))
      /\ state' = [state EXCEPT ![c] = "freed"]
      /\ reaping' = reaping \ {c}
      /\ Leave(a, Ring3(a))
      /\ UNCHANGED <<birth, under, detached, killed, on_cpu, delivered, kids,
                     sent, todo>>

(* Under master_lock: every child is handed on, the task leaves the ring.   *)
ReapUnlink(a) ==
  LET c == job[a]
  IN  /\ pc[a] = "unlink"
      /\ adopt({k \in Procs : Present(k) /\ ppid[k] = c}, adopter_for(c))
      /\ state' = [state EXCEPT ![c] = "freed"]
      /\ reaping' = reaping \ {c}
      /\ Leave(a, Ring3(a))
      /\ UNCHANGED <<birth, under, detached, killed, on_cpu, delivered, kids,
                     sent, todo>>

(* The waiter's loop: gone or too many tries, return; else task_yield, which*)
(* ends a task with a pending kill.                                         *)
Refused(p) ==
  /\ pc[p] = "refused"
  /\ \/ /\ state[job[p]] = "freed" \/ tries[p] = MaxTries
        /\ Leave(p, Ring3(p))
     \/ /\ state[job[p]] # "freed" /\ tries[p] < MaxTries
        /\ IF p \in killed THEN Leave(p, "exit")
           ELSE /\ tries' = [tries EXCEPT ![p] = @ + 1]
                /\ Goto(p, "claim")
                /\ UNCHANGED <<job, want>>
  /\ UNCHANGED <<state, ppid, birth, under, detached, owned, killed, on_cpu,
                 reaping, delivered, kids, sent, todo>>

(* Mutant: the sweep takes claimed tasks too.                               *)
CollectMutant ==
  /\ pc[init] = "run" /\ todo = {}
  /\ todo' \in Lists({c \in Procs : state[c] = "dead"}, KillMax)
  /\ todo' # {}
  /\ UNCHANGED <<state, ppid, birth, under, detached, owned, killed, on_cpu,
                 reaping, delivered, want, kids, sent, tries, pc, job>>

(***************************************************************************)
(* init: reaper_pass every 10 ms, a list of at most KILLTREE_MAX taken under*)
(* the lock and then one task_reap per entry, without retry.                *)
(***************************************************************************)
reap_collect ==
  /\ pc[init] = "run" /\ todo = {}
  /\ todo' \in Lists({c \in Procs : state[c] = "dead" /\ c \notin owned}, KillMax)
  /\ todo' # {}
  /\ UNCHANGED <<state, ppid, birth, under, detached, owned, killed, on_cpu,
                 reaping, delivered, want, kids, sent, tries, pc, job>>

SweepNext(c) ==
  /\ pc[init] = "run" /\ c \in todo
  /\ todo' = todo \ {c}
  /\ IF Present(c)
     THEN job' = [job EXCEPT ![init] = c] /\ Goto(init, "claim")
     ELSE UNCHANGED <<job, pc>>
  /\ UNCHANGED <<state, ppid, birth, under, detached, owned, killed, on_cpu,
                 reaping, delivered, want, kids, sent, tries>>

SweepRefused ==
  /\ pc[init] = "refused"
  /\ Leave(init, "run")
  /\ UNCHANGED <<state, ppid, birth, under, detached, owned, killed, on_cpu,
                 reaping, delivered, kids, sent, todo>>

Reap(a) == ReapClaim(a) \/ ReapCheck(a) \/ ReapUnlink(a)

Sweep == reap_collect \/ (\E c \in Procs : SweepNext(c)) \/ SweepRefused \/ Reap(init)

(* What a task does of its own once it is on the way.                       *)
Dying(p) ==
  \/ honour_kill(p) \/ NoteKids(p) \/ (\E c \in Procs : KillKid(p, c))
  \/ PublishDead(p) \/ WakeWaiters(p) \/ SwitchAway(p)

Waiting(p) == (\E c \in Procs : ScanFinds(p, c)) \/ ScanEnds(p) \/ Reap(p) \/ Refused(p)

(* A process asks for any child, or for one it knows by its pid.            *)
Asked(p) == {c \in Procs : birth[c] = p}

Next ==
  \/ Sweep
  \/ \E p \in Procs :
       \/ Dying(p) \/ Waiting(p) \/ exit(p) \/ (p \in Killable /\ task_kill(p))
       \/ \E w \in {Procs} \cup {{c} : c \in Asked(p)} : task_wait(p, w)
       \/ \E c \in Procs, claim \in BOOLEAN : spawn(p, c, claim)
       \/ \E c \in Procs : task_spawn_under(p, c)
       \/ setsid(p)

(* init sleeps 10 ms between sweeps and is scheduled again; a task that is  *)
(* dying, scanning or reaping is runnable.  No task has to exit by itself.  *)
Spec ==
  /\ Init /\ [][Next]_vars
  /\ WF_vars(Sweep)
  /\ \A p \in Procs : WF_vars(Dying(p) \/ Waiting(p))
-----------------------------------------------------------------------------
(* task_reap re-parents children "so their ppid never dangles on a freed or *)
(* re-used pid": the parent of every task in the ring is in the ring, alive *)
(* or still a zombie, or is init.  The one exception is the parent that a   *)
(* task_spawn_under named when it was gone already: no reap, adoption or    *)
(* exit that comes later leaves a second one.                               *)
ParentPresent ==
  \A c \in Procs : Present(c) /\ ppid[c] # init =>
    Present(ppid[c]) \/ (under[c] = "gone" /\ ppid[c] = birth[c])

(* The same without the exception.                                          *)
NoDanglingParent ==
  \A c \in Procs : Present(c) /\ ppid[c] # init => Present(ppid[c])

(* A child whose parent claimed its reap is not freed before a task_wait    *)
(* has returned its exit code, whatever init, a second waiter, a refusal or *)
(* a kill of the waiter does in between.                                    *)
OwnedStatusKept ==
  \A c \in Procs : state[c] = "freed" /\ c \in owned => c \in delivered

(* The wait/exit handshake is "lost-wakeup-free": no task sleeps in         *)
(* task_wait over a dead child that it spawned itself, unless that child's  *)
(* own wake-up is still to come.                                            *)
NoSleepOverZombie ==
  \A p, c \in Procs :
    pc[p] = "asleep" /\ birth[c] = p /\ c \in Children(p) /\ state[c] = "dead"
      => pc[c] = "wake"

(* "A subreaper [...] waits for adopted children as for its own": the same  *)
(* for every child, one that died before it was handed on included.         *)
NoSleepOverAdopted ==
  \A p, c \in Procs :
    pc[p] = "asleep" /\ c \in Children(p) /\ state[c] = "dead" => pc[c] = "wake"

(* "Parent dies, its children go too": once a task is dead, each child it   *)
(* was the parent of from birth and that did not opt to survive is dead or  *)
(* has a kill pending, also after the child was handed on to another        *)
(* parent.  A child escapes in two ways only: it was spawned by pid under a *)
(* parent already past its walk, or the list was full of other children.    *)
Crowded(c) ==
  c \notin kids[birth[c]] /\ Cardinality(kids[birth[c]]) = KillMax

SubtreeGoesDown ==
  \A c \in Procs \ detached :
    state[c] = "alive" /\ birth[c] \in Procs /\ state[birth[c]] # "alive"
      => c \in killed \/ under[c] # "living" \/ Crowded(c)

(* No zombie stays: a dead task nobody claimed is freed, and so is a        *)
(* claimed Linux process once the parent that claimed it is gone, although  *)
(* init's list is short, is stale when used, and its reaps are refused      *)
(* without retry.  Only a subreaper that has taken the orphan in, and is    *)
(* not reaped itself, keeps it: the claim is its own now.                   *)
Abandoned(c) ==
  c \notin owned \/ (c \in Linux /\ birth[c] \in Procs /\ state[birth[c]] = "freed")

TakenIn(c) == c \in owned /\ ppid[c] \in Subreapers /\ Present(ppid[c])

ZombieReaped ==
  \A c \in Procs :
    state[c] = "dead" /\ Abandoned(c) ~> state[c] = "freed" \/ TakenIn(c)

(* "A Linux process blocked in a read/recv/wait must leave the call so the  *)
(* signal can end it" (task_should_stop): a killed task stops being alive.  *)
KilledTaskDies ==
  \A p \in Procs : p \in killed ~> state[p] # "alive"
=============================================================================
