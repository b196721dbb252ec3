---------------------------- MODULE AddressSpace ----------------------------
(***************************************************************************)
(* Who destroys an address space.  The task that created a space owns it    *)
(* (mm_shared = 0); its threads borrow it.  Ownership passes on when the    *)
(* owner is reaped (task_reap), runs another program (proc_execve,          *)
(* task_exec_detach), and the last user destroys the space.  Pressure       *)
(* eviction (swap.c) pins the owner while it works on the space.            *)
(* master_lock makes the searches of the task ring one step each; the       *)
(* stores a new thread makes on its first run, and the steps of execve, are *)
(* separate steps.  A task is reaped only when it has left its CPU.         *)
(***************************************************************************)
CONSTANTS Tasks, Spaces,
          Root, Home,     \* the first task and the space it owns
          Races           \* the orders of events a run admits, of RaceNames

(* Orders the code does not exclude, each admitted by a run of its own:     *)
(*   "unstarted"  a task exits, is reaped or execs while a new thread of    *)
(*                its space has not finished the stores of its first run    *)
(*   "pinned"     a pinned owner exits before its threads                   *)
(*   "exec"       a space is handed on while its heir is inside execve,     *)
(*                between reading mm_shared and replacing the space         *)
RaceNames == {"unstarted", "pinned", "exec"}

None == "none"

ASSUME SpaceAssumption ==
  /\ Root \in Tasks /\ Home \in Spaces /\ None \notin Spaces
  /\ Races \subseteq RaceNames

VARIABLES
  st,        \* where each task is
  mm,        \* the space it runs on, None before its first run
  mm_shared, \* it borrows the space
  user_task,
  arg,       \* the space a thread's start argument names; execve's old space
  owned_old, \* execve: did it own the old space
  kill_pending,
  swap_busy,
  space,     \* "unused", "live", "destroyed"
  victim     \* the <<task, space>> pressure eviction works on, if any

vars == <<st, mm, mm_shared, user_task, arg, owned_old, kill_pending, swap_busy,
          space, victim>>

(* In the task ring, and dead or not.                                       *)
InRing(t) == st[t] \notin {"unborn", "unlinked", "gone"}
(* Running code of its own program or of the kernel.                        *)
Alive(t) == InRing(t) /\ st[t] # "dead"
Owns(t, s) == user_task[t] /\ mm[t] = s /\ ~mm_shared[t]

TypeOK ==
  /\ st \in [Tasks -> {"unborn", "held", "boot_mm", "boot_shared", "user", "exec",
                       "swapped", "pinwait", "handoff", "dead", "unlinked",
                       "gone"}]
  /\ mm \in [Tasks -> Spaces \cup {None}]
  /\ mm_shared \in [Tasks -> BOOLEAN] /\ user_task \in [Tasks -> BOOLEAN]
  /\ arg \in [Tasks -> Spaces \cup {None}]
  /\ owned_old \in [Tasks -> BOOLEAN]
  /\ kill_pending \in [Tasks -> BOOLEAN]
  /\ swap_busy \in [Tasks -> BOOLEAN]
  /\ space \in [Spaces -> {"unused", "live", "destroyed"}]
  /\ victim \subseteq Tasks \X Spaces /\ \A v, w \in victim : v = w

Init ==
  /\ st = [t \in Tasks |-> IF t = Root THEN "user" ELSE "unborn"]
  /\ mm = [t \in Tasks |-> IF t = Root THEN Home ELSE None]
  /\ mm_shared = [t \in Tasks |-> FALSE]
  /\ user_task = [t \in Tasks |-> t = Root]
  /\ arg = [t \in Tasks |-> None]
  /\ owned_old = [t \in Tasks |-> FALSE]
  /\ kill_pending = [t \in Tasks |-> FALSE]
  /\ swap_busy = [t \in Tasks |-> FALSE]
  /\ space = [s \in Spaces |-> IF s = Home THEN "live" ELSE "unused"]
  /\ victim = {}

Goto(t, l) == st' = [st EXCEPT ![t] = l]

(* The other tasks of the ring that run on a space.                         *)
Heirs(t, s) == {c \in Tasks \ {t} : InRing(c) /\ mm[c] = s}

(* No thread of the space is still to make its first run.                   *)
Started(s) == \A c \in Tasks : st[c] \in {"held", "boot_mm", "boot_shared"} => arg[c] # s

-----------------------------------------------------------------------------
(* proc_clone, proc_clone_thread: the child is built held, with mm_shared   *)
(* set; the space itself is only in its start argument.                     *)
proc_clone(p, c) ==
  /\ st[p] = "user" /\ st[c] = "unborn"
  /\ Goto(c, "held")
  /\ mm_shared' = [mm_shared EXCEPT ![c] = TRUE]
  /\ arg' = [arg EXCEPT ![c] = mm[p]]
  /\ UNCHANGED <<mm, user_task, owned_old, kill_pending, swap_busy, space, victim>>

(* clone_bootstrap, the thread's first run: three plain stores.             *)
BootMm(c) ==
  /\ st[c] = "held"
  /\ mm' = [mm EXCEPT ![c] = arg[c]]
  /\ Goto(c, "boot_mm")
  /\ UNCHANGED <<mm_shared, user_task, arg, owned_old, kill_pending, swap_busy,
                 space, victim>>

BootShared(c) ==
  /\ st[c] = "boot_mm"
  /\ mm_shared' = [mm_shared EXCEPT ![c] = TRUE]
  /\ Goto(c, "boot_shared")
  /\ UNCHANGED <<mm, user_task, arg, owned_old, kill_pending, swap_busy, space, victim>>

BootUser(c) ==
  /\ st[c] = "boot_shared"
  /\ user_task' = [user_task EXCEPT ![c] = TRUE]
  /\ arg' = [arg EXCEPT ![c] = None]
  /\ Goto(c, "user")
  /\ UNCHANGED <<mm, mm_shared, owned_old, kill_pending, swap_busy, space, victim>>

-----------------------------------------------------------------------------
(* task_exit_code, of a thread's own will or for a pending kill.            *)
exit(t) ==
  /\ st[t] = "user"
  /\ "unstarted" \in Races \/ Started(mm[t])
  /\ "pinned" \in Races \/ ~swap_busy[t] \/ Heirs(t, mm[t]) = {}
  /\ Goto(t, "dead")
  /\ UNCHANGED <<mm, mm_shared, user_task, arg, owned_old, kill_pending, swap_busy,
                 space, victim>>

(* Mutant: the owner's reap destroys the space, whoever else runs on it.    *)
ReapMutant(t) ==
  /\ st[t] = "dead"
  /\ Goto(t, IF Owns(t, mm[t]) THEN "unlinked" ELSE "gone")
  /\ UNCHANGED <<mm, mm_shared, user_task, arg, owned_old, kill_pending, swap_busy,
                 space, victim>>

(* task_reap from the unlink on.  An owner hands its space to some other    *)
(* task of the ring that runs on it; otherwise it has to destroy the space. *)
ReapUnlink(t) ==
  LET heirs == IF Owns(t, mm[t]) THEN Heirs(t, mm[t]) ELSE {}
  IN  /\ st[t] = "dead"
      /\ "unstarted" \in Races \/ Started(mm[t])
      /\ "exec" \in Races \/ \A c \in heirs : st[c] # "exec"
      /\ Goto(t, IF Owns(t, mm[t]) /\ heirs = {} THEN "unlinked" ELSE "gone")
      /\ IF heirs = {} THEN UNCHANGED mm_shared
         ELSE \E c \in heirs : mm_shared' = [mm_shared EXCEPT ![c] = FALSE]
      /\ UNCHANGED <<mm, user_task, arg, owned_old, kill_pending, swap_busy, space,
                     victim>>

(* Mutant: the reap does not wait for the eviction.                         *)
NoWaitMutant(t) ==
  /\ st[t] = "unlinked"
  /\ space' = [space EXCEPT ![mm[t]] = "destroyed"]
  /\ mm' = [mm EXCEPT ![t] = None]
  /\ Goto(t, "gone")
  /\ UNCHANGED <<mm_shared, user_task, arg, owned_old, kill_pending, swap_busy, victim>>

(* It waits until an eviction that pinned the task is through.              *)
ReapDestroy(t) ==
  /\ st[t] = "unlinked" /\ ~swap_busy[t]
  /\ space' = [space EXCEPT ![mm[t]] = "destroyed"]
  /\ mm' = [mm EXCEPT ![t] = None]
  /\ Goto(t, "gone")
  /\ UNCHANGED <<mm_shared, user_task, arg, owned_old, kill_pending, swap_busy, victim>>

-----------------------------------------------------------------------------
(* proc_execve from the point where the new image is loaded: the ownership  *)
(* of the old space is read, ...                                            *)
ExecRead(t) ==
  /\ st[t] = "user"
  /\ "unstarted" \in Races \/ Started(mm[t])
  /\ owned_old' = [owned_old EXCEPT ![t] = ~mm_shared[t]]
  /\ Goto(t, "exec")
  /\ UNCHANGED <<mm, mm_shared, user_task, arg, kill_pending, swap_busy, space, victim>>

(* ... the space is replaced under master_lock (task_swap_mm), ...          *)
ExecSwap(t, s) ==
  /\ st[t] = "exec" /\ space[s] = "unused"
  /\ space' = [space EXCEPT ![s] = "live"]
  /\ arg' = [arg EXCEPT ![t] = mm[t]]
  /\ mm' = [mm EXCEPT ![t] = s]
  /\ Goto(t, "swapped")
  /\ UNCHANGED <<mm_shared, user_task, owned_old, kill_pending, swap_busy, victim>>

(* Mutant: a thread that ran execve goes on as a borrower.                  *)
ExecOwnMutant(t) ==
  /\ st[t] = "swapped"
  /\ Goto(t, "pinwait")
  /\ UNCHANGED <<mm, mm_shared, user_task, arg, owned_old, kill_pending, swap_busy,
                 space, victim>>

(* ... the new one is this task's own, ...                                  *)
ExecOwn(t) ==
  /\ st[t] = "swapped"
  /\ mm_shared' = [mm_shared EXCEPT ![t] = FALSE]
  /\ Goto(t, "pinwait")
  /\ UNCHANGED <<mm, user_task, arg, owned_old, kill_pending, swap_busy, space, victim>>

(* ... and, once no eviction holds this task, the other threads are killed. *)
ExecKill(t) ==
  /\ st[t] = "pinwait" /\ ~swap_busy[t]
  /\ kill_pending' = [c \in Tasks |-> kill_pending[c]
                        \/ (c # t /\ Alive(c) /\ mm[c] = arg[t])]
  /\ Goto(t, IF owned_old[t] THEN "handoff" ELSE "user")
  /\ arg' = IF owned_old[t] THEN arg ELSE [arg EXCEPT ![t] = None]
  /\ UNCHANGED <<mm, mm_shared, user_task, owned_old, swap_busy, space, victim>>

(* task_exec_detach's second search: hand the old space on, or destroy it.  *)
ExecHandoff(t) ==
  LET heirs == {c \in Heirs(t, arg[t]) : user_task[c]}
  IN  /\ st[t] = "handoff"
      /\ "exec" \in Races \/ \A c \in heirs : st[c] # "exec"
      /\ IF heirs = {}
         THEN space' = [space EXCEPT ![arg[t]] = "destroyed"] /\ UNCHANGED mm_shared
         ELSE /\ \E c \in heirs : mm_shared' = [mm_shared EXCEPT ![c] = FALSE]
              /\ UNCHANGED space
      /\ arg' = [arg EXCEPT ![t] = None]
      /\ owned_old' = [owned_old EXCEPT ![t] = FALSE]
      /\ Goto(t, "user")
      /\ UNCHANGED <<mm, user_task, kill_pending, swap_busy, victim>>

-----------------------------------------------------------------------------
(* swap_pressure: task_swap_pin of an owner, eviction from its space,       *)
(* task_swap_release.                                                       *)
task_swap_pin(t) ==
  /\ victim = {} /\ Alive(t) /\ user_task[t] /\ ~swap_busy[t]
  /\ mm[t] # None /\ ~mm_shared[t]
  /\ swap_busy' = [swap_busy EXCEPT ![t] = TRUE]
  /\ victim' = {<<t, mm[t]>>}
  /\ UNCHANGED <<st, mm, mm_shared, user_task, arg, owned_old, kill_pending, space>>

task_swap_release ==
  /\ victim # {}
  /\ swap_busy' = [t \in Tasks |-> swap_busy[t] /\ \A v \in victim : v[1] # t]
  /\ victim' = {}
  /\ UNCHANGED <<st, mm, mm_shared, user_task, arg, owned_old, kill_pending, space>>

Exec(t) == ExecOwn(t) \/ ExecKill(t) \/ ExecHandoff(t) \/ (\E s \in Spaces : ExecSwap(t, s))
Boot(t) == BootMm(t) \/ BootShared(t) \/ BootUser(t)
Reap(t) == ReapUnlink(t) \/ ReapDestroy(t)

Next ==
  \/ \E t \in Tasks :
       \/ Boot(t) \/ Exec(t) \/ Reap(t) \/ exit(t) \/ ExecRead(t)
       \/ task_swap_pin(t)
       \/ \E c \in Tasks : proc_clone(t, c)
  \/ task_swap_release

Spec == Init /\ [][Next]_vars

-----------------------------------------------------------------------------
(* The steps the promises of the space hang on, for any set of races.       *)
(* A space is handed to a task that is between reading its own mm_shared    *)
(* and replacing its space, or that has not made the stores of its first    *)
(* run: its next read or store does not go with the hand-over.              *)
HandsToBusy ==
  \E c \in Tasks : /\ st[c] \in {"exec", "boot_mm", "boot_shared"}
                   /\ mm_shared[c] /\ ~mm_shared'[c]

(* A space is given up for lack of heirs while a new thread still carries   *)
(* it in its start argument.                                                *)
DropsUnstarted ==
  \E t \in Tasks :
    \/ ReapUnlink(t) /\ st'[t] = "unlinked" /\ ~Started(mm[t])
    \/ ExecHandoff(t) /\ space'[arg[t]] = "destroyed" /\ ~Started(arg[t])

(* A pinned owner is freed at once, its space having gone to an heir.       *)
FreesPinned == \E t \in Tasks : ReapUnlink(t) /\ swap_busy[t] /\ st'[t] = "gone"

(* Behaviours without those steps.                                          *)
NoEarlyHandover == [][~HandsToBusy /\ ~DropsUnstarted]_vars
NoFreePinned == [][~FreesPinned]_vars
-----------------------------------------------------------------------------
(* "Ownership PASSES to another task still using the space; the last one    *)
(* destroys it": no space is destroyed while a task in the ring runs on it, *)
(* or is about to at its first run.                                         *)
SpaceOutlivesUsers ==
  \A t \in Tasks :
    /\ InRing(t) /\ mm[t] # None => space[mm[t]] = "live"
    /\ st[t] = "held" => space[arg[t]] = "live"

(* "What the pin buys is that the address space outlives the eviction": the *)
(* pinned task is not freed and its space not destroyed under the evictor.  *)
PinHolds == \A v \in victim : space[v[2]] = "live" /\ st[v[1]] # "gone"

(* A space in use has exactly one task that will destroy it, except for the *)
(* few steps in which an execve passes it on: two owners destroy it twice,  *)
(* none leaks it.                                                           *)
PassingOn(s) == \E t \in Tasks : arg[t] = s /\ owned_old[t]

OneOwner ==
  \A s \in Spaces :
    LET owners == {t \in Tasks : Owns(t, s) /\ st[t] # "gone"}
    IN  space[s] = "live" =>
          /\ \A t, u \in owners : t = u
          /\ PassingOn(s) => owners = {}
          /\ owners = {} =>
               PassingOn(s) \/ \E t \in Tasks : st[t] = "swapped" /\ mm[t] = s
=============================================================================
