# A verification project for the d-os kernel

d-os is a monolithic SMP kernel for x86 and aarch64 written in C (`src/kernel/`),
with its own scheduler, wait queues, timers, memory manager, file systems, network
stack, GUI and a Linux ABI layer. Its hardest code, by the weight of its own bug
history (the `§M49`, `§M54`, `§M57`, `§M71`, `§M72` notes all over `task.c`), is
the part where CPUs, interrupts and tasks meet: who owns a task, when it may be
run, woken, moved, freed. This project models that part as TLA+ modules, and around
it the process tree, the ownership of address spaces, TCP and the block cache. It
checks them with TLC on small instances, and proves with TLAPS, for any number of
CPUs, tasks, queues, processes, spaces, slots, sectors, bytes and losses, every safety
property that those instances check, and that the run queues implement their abstract
specification. Where the code has an order of steps that breaks a property, the theorem
says so: it holds of every behaviour up to that one step (section 7).

Files: a component's module `X.tla`, its instances `MCX.tla` with one `.cfg` per
question, its theorems in `XProof.tla` (those of `WaitQueue`, `Workqueue` and `RoundRobin`
together in `QueueProof.tla`). Some `.cfg` files are not runs of
`PROJECT.json`: section 5 says what each shows when it is run by hand
(`tlc -config X.cfg MCY`). `PROJECT.json` ties every definition to the
source lines it models and every run, mutant, finding, hazard and theorem together.

## 1. Inventory

| Part | State it keeps | Operations | What makes it hard | What makes it correct |
|---|---|---|---|---|
| Scheduler core (`core/task.c`, `core/percpu.c`) | `task.state`, `cpu_home`, `on_cpu`, `cpu_mask`, `timed_sleep`, `reaping`; per CPU `rq_head`, `current`, `idle`, `g_leaving`, `rq_lock` | `spawn_common_ex`, `task_enqueue`, `schedule`, `load_balance_*`, `task_msleep`, `waitq_block`, `stop_self`, the wakers, `task_set_affinity`, `task_exit_code`, `task_reap` | decisions taken under one lock and acted on after it is dropped; `current` published before the stack is left; two-step sleeps; exit against enqueues in flight | a task is run by one CPU at a time, never lost, never freed while reachable, never revived |
| Weighted round robin (`core/task.c`) | `weight`, `deficit`, `skips_left`, `demand`, `rq_load` | rotation, quantum charging, wake kick, lightest-CPU choice | resets that starve a light task | every runnable task runs again |
| Wait queues (`core/task.c`, `waitq.h`) | `wq->lock`, `wq->head`, `task.wq`, `wq_next` | `waitq_lock/unlock/block/wake_one/wake_all`, `wake_waitq_sleeper` | kills and signals read `task.wq` without a lock | no lost wakeup; list and back pointer agree; nobody returns linked; a kill gets through |
| Deferred work (`core/workqueue.c`) | FIFO, `queued`, `inflight`, two wait queues | `work_submit`, `worker_main`, `work_flush` | one wake per item; a counter under two locks; killed workers | each item runs once per submission; a flush waits for what it must and returns |
| Deadline timers (`core/ktimer.c`) | sorted list, `armed`, `g_running[cpu]` | `ktimer_arm`, `ktimer_cancel`, `ktimer_expire` | timers in stack frames, callbacks on other CPUs | no callback touches a frame that is gone |
| Timed sleeps, futexes (`task.c`, `core/futex.c`) | a wait queue plus a timer | `task_sleep_until_ns`, `futex_wait`, `futex_wake` | the deadline passes between arming and parking | a timed wait ends |
| Sleeping mutex, lock diagnostics (`task.c`, `core/lock.c`) | owner, depth | `kmutex_*` | killed owner, boot owner | mutual exclusion, no waiter forgotten |
| Process tree (`task.c`, `core/proc.c`) | `ppid`, reap claims, stop and swap claims | `task_wait_ex2`, adoption, `task_stop/cont`, `task_swap_*` | parent exits while a child does; waiter against init | every zombie is reaped by exactly one |
| Signals, interval timers (`core/lnx_signal.c`, `core/itimer.c`) | pending and blocked sets | post, deliver, mask | posted while blocking | no signal lost |
| Descriptors, pipes, epoll, eventfd, timerfd, unix sockets (`core/*.c`) | tables with reference counts, buffers | open/dup/close/read/write/poll | close against a blocked read | no use after close, bytes in order |
| Address spaces (`task.c`, `core/proc.c`) | `mm`, `mm_shared`, `swap_busy` | `proc_clone`, `task_reap`, `proc_execve`, `task_swap_pin` | the owner goes before its threads; a thread before its first run | destroyed once, by its one owner, after its last user |
| Memory (`mem/`) | frames, heaps, swap slots | allocate, fault, evict, fork | shared frames, failed allocation | no frame in two places |
| Block cache (`core/block_cache.c`) | slots with device, sector, reference count, dirty mark, age | `bcache_get`, `_get_overwrite`, `_mark_dirty`, `_release`, `_sync`, `_invalidate` | contents and mark written outside the lock; failed requests; crash | one copy of a sector, reads see writes, a sync is a promise |
| Block layer, file systems (`core/block.c`, `fs/`) | requests, on-disk structures, the volume lock | read, write, mount, umount | failure in the middle | a consistent volume |
| TCP (`core/net.c`) | `g_conns`: state, `snd_*`, `rcv_nxt`, buffers, timers, accept queue | connect, listen, accept, send, recv, shutdown, close, `tcp_input`, the sweep | loss, go-back-N, wrapping numbers, FIN against data, orphans | bytes in order, end of stream means all of them, they arrive |
| Rest of the network (`net.c`, `dhcp.c`, ...) | tables, leases | UDP, ARP, DHCP, netlink | loss | - |
| Services, watchdog, cron; configuration and packages | tables, files | restart, save, install | crash between two writes | restart policy; a readable store |
| Linux ABI, namespaces, HAL, drivers, GUI, shell, user programs | - | - | wide, stateless or hardware-bound | not modelled, see section 8 |

Interactions of the modelled parts: everything that blocks ends in `waitq_block`,
`task_msleep` or `stop_self`; everything that wakes ends in `task_enqueue`. Wait
queues take `wq->lock` and then an `rq_lock`. The tick (interrupt context) runs
`ktimer_expire`, whose callbacks wake wait queues, and at its end `schedule_check`,
which sweeps timed sleepers, balances and schedules. `task_kill` and signals reach
a sleeper from outside both locks. Workers of the work queue are ordinary tasks. An
exit kills the task's children, publishes DEAD and wakes `child_exit_wq`; a waiting
parent or init then calls `task_reap`, which hands the address space on or destroys
it. The TCP sweep runs in a timer callback and takes the stack lock that
`tcp_input` and every socket call take. The file systems hold a volume lock around
each operation, under it `bc_lock` for each call of the block cache.

The hazards of this code, each at its line and with the properties that would
catch it, are listed in `PROJECT.json` under `hazards`.

## 2. Plan

Done: `Scheduler`, `RunQueue` (which refines `QueueOwner`), `RoundRobin`,
`WaitQueue`, `Workqueue`, `TimedWait`, `ProcessTree`, `AddressSpace`, `Tcp`,
`BlockCache`; proofs of every safety property the passing runs check, and of `RunQueue`'s
refinement of `QueueOwner`.
Left, in this order:

1. An abstract sleep (asleep, woken, running) that `WaitQueue` and the two halves of
   `TimedWait` implement.
2. Pause and continue in `ProcessTree`; timers that arm themselves again (timerfd)
   in `TimedWait`; `kmutex`.
3. Event sources over the wait queue's contract (pipes, eventfd, epoll); swap slots;
   the crash consistency of the configuration store.

## 3. Modules and the code

### Scheduler
`state`, `cpu_home`, `on_cpu`, `cpu_mask`, `timed` (`timed_sleep`), `reaping`, `rq`
(the ring as a set), `current`, `leaving` (`g_leaving`) are the fields of the same
names. `tpc`, `cpc`, `wop`, `rop` are control points: of a task in its own code, of a
CPU in `schedule_locked`, of a waker and of a reaper. `sweep` and `ridx` are loop
indices of `rq_purge_all`.

A critical section of an `rq_lock` that does not span a context switch is one step.
`schedule()` keeps its lock from the pick to the far side of the stack switch; that
stretch is `cpc = "switch"` and excludes every other user of the queue. All that the
code does without a lock is a step of its own: marking oneself asleep and leaving
the queue (`Mark`, `DetachSelf`, `Recheck`), taking a claim and waking (`ClaimTimed`,
`WakeTimed`), reading `t->wq` and using it (`ReadWq`, `WakeAimed`), deciding to
enqueue and enqueueing (`WakerEnqueue`), changing an affinity and moving the task
(`SetAffinity`, `AffinityDetach`), publishing DEAD and sweeping each queue (`Exit`,
`ExitSweep`), and every stage of `task_reap`.

Abstractions, all of which add behaviour or are stated assumptions:
- weights, skips and loads only choose among eligible tasks and CPUs; the choice is
  nondeterministic, and so is the destination of an enqueue (load and mask are read
  before the lock is taken);
- a freed slot reads DEAD until it is used again, so an enqueue of it is refused;
  what the allocator does with freed memory is outside the model, and
  `EnqueueFreed.cfg` is about exactly that access;
- `Spawn` reuses a slot only when its previous creator is done with it;
- the 64 re-reads of `rq_detach_anywhere` suffice (`RunQueue` says when they do);
- a producer's wake under `wq->lock` cannot fall between a waiter's mark and its
  commit, which hold the same lock (`WakeWaitq`'s guard); a kill or signal through
  another queue's lock can (`WakeAimed`);
- `Exit`'s wake of the parent and the release of resources before the point of no
  return belong to the process tree (`ProcessTree`).

### WaitQueue
The consumer loop of `waitq.h` (`waitq_lock`, `Test`, `waitq_block`, `Commit`,
`Resume`, then `Consume` or `Stop`), producers (`Produce`: set the condition and
`waitq_wake_all` in one critical section) and killers (`task_kill`,
`task_signal_wake`, `ReadWq`, `wake_waitq_sleeper`). The list is a set: order plays no
part in `wake_all`, and a task linked a second time shows up as one that returned
linked (`ReturnsUnlinked`). What happens between RUNNABLE and running is
`Scheduler`'s business: here a runnable task may go on at once.

### Workqueue
`work_submit`, `worker_main`, `work_flush` and kills of workers. `inflight++` and
`inflight--` are under different locks, so each is a load and a store
(`work_submit`/`SubmitStore`, `Account`/`AccountStore`); on one CPU both locks mask
interrupts and nothing comes between (`CpuFree`). The number of CPUs is chosen in
`Init`. `owed` is a history variable: what a flush has promised its caller. Parking
and waking are those of `WaitQueue`, in one step. `MaxInflight` bounds the counter,
which the race can make drift upwards. `FlushReleased` says that on one CPU it does not: it
equals the items that are queued or unfinished.

### TimedWait
The timer list with its expiry in the tick of several CPUs, `ktimer_cancel` with its
scan of `g_running`, one CPU per step, and the two waits with a timer in their frame.
Time is the order of the list plus the set of timers that are due. While a callback
runs on a CPU the task there stands still. On x86 only the boot CPU's tick calls
`ktimer_expire` (`drivers/timer/pit.c`), on aarch64 every CPU's
(`hal/aarch64/timer.c`): `TickCpus`. `CancelPreemptible` says whether a caller of
`ktimer_cancel` can be moved to another CPU inside it; the code does not prevent it.
The passing run assumes it away, `TimedWaitMigrate.cfg` admits it, and the theorems are
about both.

### RunQueue and QueueOwner
`RunQueue` takes apart what is one step in `Scheduler`: the `rq_lock`s, `rq_head`,
`rq_next`, `rq_prev`, `rq_count` and `cpu_home` are variables, and a context (a CPU in
some function) holds a `job` with its control point. The claim of `cpu_home`
(`Claim`), the splice (`Link`), the unlinking (`Unlink`) and the release (`Release`) are
separate stores; `ReadHome`, `Verify`, `Retry` are the loop of `rq_detach_anywhere` with
its bound; `NextQueue` is the sweep of `rq_purge_all`; `LockLow`, `LockHigh`, `Choose`
are `load_steal_one`. `QueueOwner` is the abstract specification: a task is on no
queue or on one, moves in one transition, and after its exit's sweep is never queued
again. The mapping calls a stolen task its victim's until it is linked on the
thief's ring, which is what nobody can tell apart while both locks are held. (With four
CPUs a task can even be in two thieves' hands: between a thief's release and its claim a
mover may queue the task elsewhere and a second thief take it from there. The mapping then
picks one of them, and the refinement holds all the same: a claim finds the task on no
queue or is refused.)

### RoundRobin
One CPU: `ring` (a sequence, head first), `current`, `deficit`, `skips_left`, `weight`,
the flags `tick_due`, `wake_kick`, `need_resched`, and the ticks left of timed sleeps.
`schedule_check` is charge, sweep, pull and schedule in the code's order. The walk
(`pick_next_local`) returns, and charges a skip to, only a task that is RUNNABLE, whose
mask has this CPU (`allowed`) and that no other CPU stands on (`elsewhere`): `Eligible`.
Other CPUs are the tasks `Away`, which come and go as they like (the demand
estimate behind that is left open), and those `elsewhere`: a task may be on our ring
and still on another CPU's stack, because a wake queued it here between its mark and
its commit there (`MarksElsewhere`, `DetachedElsewhere`, `LeavesElsewhere`), and the
reverse (`Rehomed`). `task_set_affinity` moves a RUNNABLE task off a ring it may no longer
be on and leaves any other; `Enqueue` goes by a mask that may have changed since it was
read. `MaxDebt` saturates a debt nobody pays (preemption disabled for many ticks). A
sweep is stated by whom it takes: `Swept` is the expired sleepers with fewer than
`Batch` expired ones before them in the master ring, and `InOrder` the order in which
some of them reach this CPU's queue.

### ProcessTree
Each critical section of `master_lock` or of `child_exit_wq` is a step; between two of
them everybody else may act. A dying task hands its detached children on and notes the
others, at most `KillMax` (`NoteKids`), kills them one by one (`KillKid`), publishes DEAD,
wakes the waiters, switches away. `task_wait` scans, sleeps, finds, and reaps by
`ReapClaim`, `ReapCheck`, `ReapUnlink`; init collects a list of the same length and works it
off (`reap_collect`, `SweepNext`). There are two spawns: `spawn` under the caller, and
`task_spawn_under`, whose caller names the parent by pid. Nothing looks that pid up, so the
parent may be past its walk over the children, dead or reaped; `under` remembers which.
A thread created while its leader exits, and `clone` with CLONE_PARENT, put a child under a
pid in the same way. `setsid` sets `survives_parent`. Pids are not reused, and a process
does not wait in two threads. `MaxTries` stands for the 10000 refusals after which a waiter
gives up. A claim that a supervisor or the GUI makes after the spawn
(`task_set_reap_owned` in `service.c:119`, in `gui.c`) is not modelled, nor is a spawn
under init, which no exit reaches. `NoSleepOverZombie` is about a waiter's own children; for
adopted ones it does not hold (section 5).

### AddressSpace
`mm`, `mm_shared`, `user_task`, `swap_busy` are the task's fields, `arg` the space in a
new thread's start argument. The three stores of `clone_bootstrap` and the steps of
`proc_execve` are separate; the searches of the ring under `master_lock` are one step
each. A task with a kill pending may still clone or call execve until it reaches a safe
point. Three orders of events that the code does not exclude break the properties;
each has a name in `Races` and is admitted only where a run or a reader asks for it:
`unstarted` (finding `thread_unstarted`), `pinned` (a pinned owner exits before its
threads: the space passes on, the pin does not) and `exec` (a space is handed to a
thread that has already read `mm_shared` in execve: nobody owns it afterwards). The
theorems are about every value of `Races`.

### Tcp
One connection between two ends that both run this stack. A `conn` record has the
fields of `struct tcp_conn` that matter; a handler (`tcp_input` by its early returns:
`RxNobody`, `RxReset`, `RxSyn`, `RxSynAck`, `RxSegment`; the sweep; each call) is one
step, as each runs under the stack lock. `net_tcp_send` drops that lock between its
test and its copy and is two (`SendCheck`, `SendCopy`). A non-blocking `net_tcp_recv` that
finds no bytes drops it before it looks at the reset and the FIN (`RecvProbe`,
`RecvProbed`); a blocking one decides in its last section (`Recv`). `told` keeps apart the
end of stream of a drained ring (`eof`) and the 0 of a non-blocking call (`zero`).
`tcp_output` is given a `room`: how many segments the device takes before it refuses one
(queue full, interface down). A refused segment ends the loop, a refused FIN is not marked
sent, and with nothing outstanding no retransmission timer is armed. (A refused ACK or
retransmission is the same as one that is lost: the code does not look at the result.)
`Reclaim` frees an orphan whatever it still has to send, as its ten seconds are shorter
than all retries together; `abandoned` remembers that it did. A byte is its position in
the stream. Sequence numbers are modulo 16 and start just below the wrap. The link keeps
order, as the loopback does, and loses segments. Time is left out: a retransmission
deadline passes when the network is quiet, or early, `MaxEarly` times, and an orphan's
whenever it likes. `Shared` names an end whose program has two threads, so that a send
may race a shutdown; the run excludes it, because a byte copied after the FIN went out
breaks `EofMeansAll` (`Shared = {"client"}` shows it).

### BlockCache
The slots, their order of use, the device with a volatile cache, volumes with their
lock, and tasks that enter, get a sector, change it, mark it, release it and leave.
`bc_lock` covers a get and a sync; the contents and the dirty mark of a held buffer are
written outside it, and so a sync's write and its clearing of the mark are two steps.
The contents of a sector are the number of the write that made them. Every request and
every flush may fail. The code does not look at the result of `blk_flush`
(block_cache.c:307): a sync whose writes succeeded returns 0 all the same. `synced`
therefore covers the syncs whose flush was carried out, and `ZeroIsDurable`, for the
others too, is false (section 5). A drop keeps a volume whose sync failed: that is
`exfat_umount`'s test (exfat.c:1801-1808), since `bcache_invalidate` by itself drops what it
could not write, and every caller of it drops a volume that is unmounted. The syncs that
one umount makes in a row are one here. `LooseSync` is empty in the passing run
(every sync under the volume lock) and `{TRUE}` in `fsync_race`. A mark comes right
after its change, as in all callers.

## 4. Runs that pass

| Run | Instance | Distinct states | Shows |
|---|---|---|---|
| `scheduler` | 2 CPUs, 2 tasks (one sleeps timed, stops and is moved to CPU 0 by its affinity, one blocks on wait queues), 2 wakers, 1 reaper | 3.5 million | `OneCpuPerTask`, `NeverLost`, `ReapFindsNothingQueued`, `FreedUnreachable`, `TimedSleepHasOneEnder`, `DeadIsFinal` |
| `run_queue` | 2 CPUs, 2 tasks, 2 contexts, 2 rounds of `rq_detach_anywhere`, 2 affinity moves per task | 1.4 million | `RingExact`, `NotAllWaiting` (no deadlock of the two-lock steal), `GivesUpOnlyIfMoved`, and `OwnershipHolds`: the refinement of `QueueOwner` |
| `round_robin` | a task of half a quantum, one of two, one renice, a sweep that wakes one sleeper, any affinity changes | 397 thousand | `NoIdleWithWork`, `QueuedTaskRuns`, `SleeperWoken` |
| `waitq` | 2 waiters on one queue, 1 on another, 1 killer | 23 thousand | `LinkedExact`, `NoLostWakeup`, `ConditionTaken` |
| `workqueue` | 1 or 2 CPUs and workers, 2 items, 1 submitter, 1 flusher, 1 killable worker | 28 thousand | `OnePendingRun`, `NoItemForgotten`, `EveryItemRuns`, and on one CPU `FlushWaitsOnOneCpu`, `FlushReleased` |
| `timed_wait` | 1 sleeper, 1 futex waiter, 2 ticking CPUs | 6 thousand | `FrameOutlivesTimer`, `OneCallback`, `SleepEnds` |
| `process_tree` | a subreaper, a child that others may kill, a grandchild, second child or child by pid that may detach itself, lists of one entry, init | 235 thousand | `ParentPresent`, `OwnedStatusKept`, `NoSleepOverZombie`, `SubtreeGoesDown`, `ZombieReaped` |
| `address_space` | 4 tasks, 3 spaces, one evictor | 232 thousand | `SpaceOutlivesUsers`, `PinHolds`, `OneOwner` |
| `tcp` | 2 bytes one way, buffers of 2, segments of 1, one loss, one early timer, one retry, refusals, non-blocking reads | 488 thousand | `StreamPrefix`, `EofMeansAll`, `FinAckedIsTaken`, `StreamArrives` |
| `block_cache` | 2 slots, volumes of 2 and 1 sectors, 2 tasks, 2 writes, one failed request or flush, one crash | 351 thousand | `OneCopy`, `ReadsLatest`, `SyncedSurvives`, `HeldStays` |

Why the bounds are enough to be interesting: two CPUs give every order of a switch
on one against a pick, steal, sweep or reap on the other; two tasks make a CPU
switch between tasks and not only to idle; two wakers give the double claim and the
late enqueue after another wake. Two contexts on two queues give the crossed steal,
and `MaxMoves = MaxSpins` lets a detach really be outrun. A light and a heavy task make
the skips matter and the all-owe case occur; a batch of one is overrun by two
sleepers. Three processes give a child that dies while its parent is waiting, dying
or gone, and an adoption by the subreaper and by init; with two children a list of one
entry overflows, and a child by pid comes before, during and after its parent's exit. Four tasks on one space let
ownership pass twice with a thread to spare. Two bytes in segments of one, with a
loss, give a gap, a roll-back past the FIN and a wrap inside the stream; a device that
takes none or all of an output (`Rooms`) gives the refused first segment and the refused
FIN. Two slots
for three sectors force evictions across volumes. Symmetry is used only in runs
without liveness properties (in `run_queue` the refinement has no fairness).
For the safety properties the proofs remove the bounds.

Larger instances that were checked by hand with the same properties: `run_queue` with
three CPUs (1.9 million), with one task and three contexts, with three tasks and no
moves; `block_cache` with unlocked syncs and four writes (the invariant of the proof, up
to the first `ClearsNewer`); `scheduler` on one task with two reapers and moves to either CPU, with the invariant
of the proof (`SchedulerContend.cfg`).

Deadlock is checked except in `process_tree`, `address_space` and `tcp`, whose worlds
end: all processes are gone, all spaces destroyed, both programs have closed.

The modules have a type invariant (`TypeOK`; `WaitTypeOK` and `RingTypeOK` in `WaitQueue`
and `RoundRobin`), which their proofs prove too. Every property of a run has a
mutant: a small change of one mapped definition (a test dropped, a re-check forgotten, an off-by-one)
under which the run must fail. One fact met on the way: dropping only the `on_cpu`
test of `task_reap` breaks nothing here, because the reaper's sweep takes the
`rq_lock` that the switching CPU holds until it has left the stack; the mutant of
`FreedUnreachable` therefore drops both tests.

## 5. Where comments and code disagree

Two disagreements are runs that must fail; `PROJECT.json` quotes the lines.

| Run | What is said | What the run shows |
|---|---|---|
| `thread_unstarted` | ownership of a space passes to another task still using it | a thread is not found before its first run has stored its `mm`, and the space is destroyed under it |
| `fsync_race` | dirty entries are never silently evicted | a sync without the volume lock clears a mark set after its write; the write is lost at the eviction |

The others are kept as configurations to run by hand; TLC finds each within minutes.

| Configuration | Module, property | What is said | What it shows |
|---|---|---|---|
| `EnqueueFreed.cfg` | `MCScheduler`, `EnqueueTargetAllocated` | the DEAD re-check inside `task_enqueue` closes the window after `wake_waitq_sleeper` drops its lock (task.c:1907-1913) | the re-check reads a structure that may be freed by then |
| `StaleWakeRevives.cfg` | `MCScheduler`, `DeadIsFinal` | the same re-check makes `wake_timed_sleeper` safe (1864-1868) | a signal's stale wake ends a `task_msleep` and leaves its claim; the claim's later owner stores RUNNABLE over DEAD |
| `WaitQueueLostKill.cfg` | `MCWaitQueue`, `KillReachesSleeper` | a parked task is killable without its event (1876-1878) | a kill between the waiter's test and its registration finds `t->wq` null |
| `WaitQueueStaleKill.cfg` | `MCWaitQueue`, `ReturnsUnlinked` | nobody returns from `waitq_block` linked (3124-3127) | a wake through a stale `t->wq` makes it so |
| `WorkqueueFlush.cfg` | `MCWorkqueue`, `FlushWaitsForAll` | `work_flush` waits for everything submitted before (workqueue.h:71) | `inflight` loses an update on SMP |
| `TimedWaitMigrate.cfg` | `MCTimedWait`, `FrameOutlivesTimer` | a cancel waits for a callback on every other CPU (ktimer.c:61-71) | a caller moved inside `ktimer_cancel` skips the wrong one |
| `TimedWaitFutex.cfg` | `MCTimedWait`, `FutexTimesOut` | `futex_wait` parks until a wake, a deadline or a signal (futex.h:4-6) | the timer can fire between arming and parking, and the deadline is not tested again |
| `RoundRobinBatch.cfg` | `MCRoundRobin`, `RestIsWokenToo` | sleepers beyond the batch "wait one more tick" (task.c:1827) | short sleepers at the head of the ring expire again before each sweep and keep the others out |
| `RoundRobinAffinity.cfg` | `MCRoundRobin`, `ForbiddenTaskMoves` | a queued task that its new mask forbids is moved to an allowed CPU (task.c:3370-3371) | an enqueue that chose its CPU by the old mask puts it there after the change, and every walk skips it |
| `ProcessTreeNamed.cfg` | `MCProcessTree`, `NoDanglingParent` | no ppid "dangles on a freed/re-used pid" (task.c:2323-2324) | a spawn under a pid that is reaped already makes one, and nobody adopts that child |
| `ProcessTreeKilled.cfg` | `MCProcessTree`, `KilledTaskDies` | a killed process leaves a blocked wait so that the signal can end it (task.c:1634) | `task_wait_ex2` does not ask `task_should_stop`: it is woken, scans and sleeps again |
| `ProcessTreeAdopted.cfg` | `MCProcessTree`, `NoSleepOverAdopted` | a subreaper waits for adopted children as for its own (task.c:2172, 2993-2998) | the orphan's exit woke the queue before the adoption, and the adoption wakes nobody |
| `TcpNonBlocking.cfg` | `MCTcp`, `CleanEnd` | 0 is "a clean end of stream" (net.c:1982) | data and FIN arrive between a non-blocking call's two looks: 0 with bytes unread |
| `BlockCacheFlush.cfg` | `MCBlockCache`, `ZeroIsDurable` | an fsync does "more than asked, never less" (vfs.c:1384-1385) | the flush fails, its result is ignored, and the sync returns 0 |
| `TcpShutWindow.cfg` | `MCTcp`, `ShutWindowReopens` | "One byte, periodically, is what breaks that" (net.c:1765) | the persist branch is `(void)0`: after a lost window update both ends wait for ever |

Further observations from reading the same code, not stated as properties:
- a claim made after the spawn (`task_set_reap_owned` in `service.c:119`,
  `cmd_task.c:653`, `container.c:117`) comes too late for a child that exits at once;
  the model spawns with the claim, as the held spawn does;
- a claimed child that is not a Linux process is not freed by anybody once its
  claiming parent is dead (2174-2177 keeps the mark);
- a failed eviction fails the get (block_cache.c:244), and the next one meets the same
  victim; `bcache_invalidate` drops what its own sync could not write (`exfat_umount`
  asks first, and the model follows it);
- a device that refuses the first segment, or the FIN, of a connection with nothing
  outstanding leaves it without a timer (net.c:1478): it waits for the next call or the
  peer's next segment (`Stalled`);
- in a simultaneous close the end in FIN_WAIT_1 goes to TIME_WAIT and stops sending
  what is still queued (net.c:1678).

## 6. Fairness

Only for the liveness properties:
- a RUNNABLE task goes on and a lock holder proceeds: `schedule_check` preempts at
  every tick and rotates the queue (which `QueuedTaskRuns` shows). Where ticks
  interrupt a task again and again its fairness is strong (`TimedWait`), as interrupts
  end;
- spinlocks are test-and-set, which promises nothing to a single contender, so the
  fairness is on the group that contends (`WaitQueue`, `Workqueue`);
- callbacks return, ticks keep coming, time passes;
- `RoundRobin`: a tick arrives and a due tick is served, no more: no yield, sleep,
  wake or migration is assumed;
- `ProcessTree`: init's sweep goes on (`task_msleep(10)` ends), and a task that is
  dying, scanning or reaping goes on; nobody has to exit, spawn or wait;
- `Tcp`: for each end, an arrived segment is handled, the sweep runs (its timer arms
  itself in its own callback), and a program that can make a call makes one. Nobody
  has to shut down. At most `MaxLoss` segments are lost.
No wake, kill, signal or submission is assumed to happen. `AddressSpace`, `BlockCache`,
`RunQueue` and `Scheduler` have no fairness and no liveness property.

## 7. Proofs

Some properties are false of the code in one known order of steps, for which a
configuration of section 5 has the counterexample. Their theorems do not restrict the
program to constants under which that order cannot occur. They have the form
`Spec /\ NoX => []P`, where `NoX` is an action formula that excludes the one step at which
things go wrong, in whatever state it is taken, and nothing else. What such a theorem
adds to the counterexample is that there is no second way to the failure: every
behaviour that violates `P` takes that step first.

| Hypothesis | The step it excludes | Counterexample |
|---|---|---|
| `NoStaleEnd` | `wake_waitq_sleeper`, by a stale `t->wq`, ends a `task_msleep` | `StaleWakeRevives.cfg` |
| `NoRevival` | the owner of a claim left behind stores RUNNABLE into an exited task | `StaleWakeRevives.cfg` |
| `NoStaleWake` | a kill wakes, under the lock of the queue it read, a task that sleeps on another | `WaitQueueStaleKill.cfg` |
| `NoSkip` | a cancel that was moved passes over the CPU that runs its callback | `TimedWaitMigrate.cfg` |
| `NoEarlyHandover` | a space goes to a task in the middle of execve or of its first run, or is given up while a thread carries it unstarted | run `thread_unstarted`; `Races <- {"exec"}` |
| `NoFreePinned` | a pinned owner is freed at once, its space having gone to an heir | `Races <- {"pinned"}` |
| `NoStaleClear` | a sync clears a mark of contents it has not written | run `fsync_race` |

`SchedulerProof` proves, for every number of CPUs, tasks, wakers, reapers and masks, and
for tasks that use every kind of sleep: that `Spec` implies `[]TypeOK`, `[]OneCpuPerTask` and
`[]RunningIsRunnable`; that `Spec /\ NoRevival` implies `[]NeverLost`,
`[]ReapFindsNothingQueued` and `[]FreedUnreachable`; and that `Spec /\ NoStaleEnd` implies
`[]TimedSleepHasOneEnder` and the action property `DeadIsFinal`.

Assumptions on the constants: at least one CPU, the idle task and null are not
tasks, the masks of each task are non-empty sets of CPUs, `Sleeps` is a function to sets of sleeps.

None of the properties is inductive. There are three invariants, each for more behaviours
than the next. `SafeInv` holds of all: `OnCpuExact`, `SwitchExact` (`on_cpu` says exactly
whether a CPU stands on a task, through the whole switch - what the picker and the reaper
rely on), `CodePlaces`, `RunPlaces` (where a task can be in its code given where CPUs are)
and `ReaperOwns`. So even a task that has been revived is run by one CPU at a time. `CoreInv`
holds as long as none is, and adds
- `HomeExact`: `cpu_home` is an exact ownership token of the queues - without it an
  insert's refusal or a detach says nothing about the rings;
- `StateMatchesCode`: what a task has published where it is (a parked task is switched
  away from or resumed, a dead one never executes again);
- `SweepExact`: a dead task is only on queues its exit sweep has not reached, since
  `task_enqueue` refuses it under each queue's lock;
- `ReaperExact`, `WakerExact`: what each reaper and waker has in hand;
- `WakeInFlight`: who is runnable and on no queue is about to be enqueued.

`IndInv` holds as long as no stale wake ends a timed sleep, and adds `ClaimExact`: the claim on
such a sleep is in one place, and its owner's target is still asleep - so the
unconditional store of RUNNABLE cannot hit a dead task, and `NoStaleEnd` implies `NoRevival`.

The proof has one lemma per action, in it one step per conjunct the action can
disturb, over lemmas on the queue operations (`EnqueueFacts`, `RemoveFacts`,
`DetachFacts`, `PurgeFacts`, `StealFacts`) and on the switch (`KeepStep`,
`SwitchToStep`, `RunStep`, `FallbackStep`).

`RunQueueProof` proves `TypeOK`, `RingExact`, `NotAllWaiting`, `GivesUpOnlyIfMoved` and
`OwnershipHolds`, the refinement of `QueueOwner`, for any number of CPUs, tasks, contexts,
rounds and moves; it assumes that tasks and contexts are finitely many and that null is
none of them. Its invariant `QueueInv` says
- which job is at which stage and which locks it holds there, exactly (`LocksExact`), and
  that a task being spliced is the locked queue's (`Hands`) - so two contexts never splice
  one task, and nobody walks a ring in the middle of a splice;
- that the links of each queue make one ring of its tasks (`Rings`). A ring is not
  numbered: `IsRing` says that `rq_next` and `rq_prev` are inverse on the set and that no
  proper part of it is closed under `rq_next`. The splices keep that by reasoning about
  sets (`InsertRing`, `RemoveRing`), and the code's walk, bounded by the number of tasks,
  meets the whole set: it must repeat itself, and what it has met until then is closed
  (`WalkMeetsRing`; the least counterexample replaces induction along the walk);
- that an exit's sweep has cleared what it has passed (`Sweeping`): a dead task is on no
  queue behind it, and a thief that has the task in hand took it from a queue the sweep
  has yet to lock - that thief holds the lock, so the sweep cannot overtake it. `Gone` says
  what is left after the sweep: nothing;
- that a lost round is paid for (`Rounds`): the rounds a sleeper has lost, the one it will
  lose because what it read is stale, and the moves that can still take its task off a
  queue are together at most the moves made. A thief costs nothing, since the task runs
  (`OwnJobs`) and a running task is not stolen.

`NotAllWaiting` follows from `LocksExact`: if everybody waits, every lock is held by a thief
that waits for its second one, and the thief whose first lock has the highest index waits for
a lock with a higher one. In the refinement only `Claim`, `Release` and the end of the sweep
are seen, each at one task.

`QueueProof` is about three modules.

For `WaitQueue` it proves `[]LinkedExact` and `[]NoLostWakeup` for any number of
waiters, killers and queues, and tasks that block on many of them, under `NoStaleWake`. The
invariant
`WaitInv` adds `LockExact` (who holds the lock), `AtExact` and `KillerExact` (whose queue
is in hand, and that a killer's is one its task blocks on) and `WaitsForFalse` (from its
test to its wake a waiter's condition is false).

For `Workqueue` it proves `TypeOK`, `OnePendingRun`, `NoItemForgotten`,
`FlushWaitsOnOneCpu` and `FlushReleased` for any number of workers, items, submitters and
flushers, from `WorkInv`. `Pool` says who is in the critical section of the done lock
and that the first worker, which nobody kills, is there. The two flush
properties are about one CPU: with two, `inflight` loses updates (`WorkqueueFlush.cfg`). They need `OneCpu` (there nothing comes between a
load and a store of `inflight`, so it is the length of the list and what
the one worker has in hand) and `OwedKnown` (what a flush has promised is on the list or with a worker).

For `RoundRobin` it proves `NoIdleWithWork` and `RingTypeOK` for any tasks, weights, masks,
batch and bounds. `NoIdleWithWork` needs that a pick finds somebody on every ring with an
eligible task (`PickFinds`: the least eligible index without a skip, or the least
eligible one), and that nobody is queued twice, that only RUNNABLE tasks are queued or
tasks still on another CPU's stack, and that who runs here runs nowhere else (`RingInv`):
otherwise the second copy of a task that went to sleep would be picked, or removing the
sleeper would leave it on the ring. A sweep therefore has to append tasks that are all
different and not queued already, which is why it is stated over sets (`InOrder`). The
types carry the arithmetic: a charge moves a budget down to the saturated debt, a
replenishment sets it to the weight, and the skips that a debt costs are at most
`Base + MaxDebt` (`SkipsDue` divides by a weight of at least one). Assumptions: the idle task
is not one of `Tasks` (the code never queues it), the master ring lists every task once,
weights and quantum are positive, bounds are numbers.

`TimedWaitProof` proves `TypeOK` for any number of waits and CPUs, whether or not a cancel is
moved, and under `NoSkip` `OneCallback` and `FrameOutlivesTimer` from `TimerInv`: a timer is in
one place (`OnePlace`: on the list once, with one CPU's callback, or neither), a frame that
is gone has none (`NoFrameNoTimer`), and a CPU that still runs the callback of a timer being
cancelled is one the scan has noticed or has yet to look at (`Scanning`). Without moved
cancels `NoSkip` holds by itself.

`ProcessTreeProof` proves, of every behaviour, `TypeOK`, `ParentPresent`, `OwnedStatusKept`,
`NoSleepOverZombie` and `SubtreeGoesDown` for any set of processes, any spawns under any pid,
any subreapers, any detached ones and any length of the lists. `TreeInv` says who is at
which stage of its exit and its wait (`Stages`, `Jobs`), who may reap whom (`Entitled`) and
how a process came to its present parent (`Lineage`: still the one of its birth, or adopted
since). For `SubtreeGoesDown` it grows by `Noted`: a child of a task that is killing is on its
list and has yet to be killed, is killed, was spawned too late to be seen, or found the
list full. The exceptions are those the code makes, and are part of the property.

`AddressSpaceProof` proves `TypeOK`, `OneOwner`, `SpaceOutlivesUsers` and `PinHolds` for any number
of tasks, spaces and evictors from `OwnInv` and `PinInv`: a live space has exactly one task
that answers for it (`Answered`), what a task can reach is live (`Reach`), a thread that has
not stored its `mm` included, and nobody else is on a space its reaper is about to destroy
(`ReapedAlone`). `TypeOK` holds of every behaviour, `OneOwner` and `SpaceOutlivesUsers` under
`NoEarlyHandover`, `PinHolds` also under `NoFreePinned`, for every set of `Races`.

`BlockCacheProof` proves, for any number of slots, devices, sectors, tasks and writes,
with failed requests and crashes: `TypeOK`, `OneCopy` and the action property
`HeldStays` from `HoldInv` (who holds `bc_lock` and the volume lock, that a reference count counts the
holders, that no two slots hold one sector), of every behaviour; and under
`NoStaleClear`, with locked and unlocked syncs, `ReadsLatest` and `SyncedSurvives` from
`CacheInv`, which adds where the latest contents of a sector are (`Contents`: in its cached
copy, else on the device), that versions only grow on the way from a write to the
medium (`Order`), that a mark that is gone is of contents the device has
(`Marks`), and that a sync has written what it has passed (`Progress`). When every sync
takes the volume lock `NoStaleClear` holds by itself.

`TcpProof` proves `TypeOK`, `StreamPrefix`, `EofMeansAll` and `FinAckedIsTaken` for all sizes of
buffers, segments and sequence space, all initial sequence numbers, all streams in both
directions, any number of losses, refused segments, retries and early timers, orphans freed
at any time, and non-blocking reads. Assumptions on the
constants (`TcpAssumption`): the sequence space is even and more than twice as large as both
buffers, a SYN and a FIN together, as 2^32 is; sizes are positive. Hypothesis: `Shared = {}`, no connection
is used by two threads at once; without it a byte copied after the FIN went out breaks
`EofMeansAll` (section 3). The argument:
- The invariant (`Fine`) says that there are positions that never wrap: for each end what is
  acknowledged, what is sent next, what it has received of the other's stream, the
  highest it ever sent and where its FIN is (`Ghost`), and for each segment under way where it
  starts and what it acknowledges. The stored and transmitted numbers are their remainders
  (`Pos`).
- A segment under way carries the right bytes for its position, a FIN only behind the last
  byte, and no acknowledgement beyond what its sender had received (`Seg`). Along the link
  (`Chain`) acknowledgements do not go back and no segment starts more than a window before
  the end of an earlier one. A retransmission goes back to what the sender knows
  to be acknowledged, and no further; so an old segment that arrives is at most a window behind the receiver, a new one
  at most a window ahead, and the signed comparison of two remainders
  (`seq_gt`, `seq_leq`) decides as a comparison of the positions would. This
  is where the assumption on `SeqMod` is used.
- `Mid` describes an entry in the middle of a handler with the segments it has emitted so far; each
  step of a handler (`TakeAckGoes`, `TakeDataGoes`, `TakeFinGoes`, `OutputGoes`, `CopyGoes`, ...) leads from
  `Mid` to `Mid`, and `Goes` hides the positions between them. Each action is then a composition,
  put back between the two ends (`Half`, `Duo`, `Both`) by `StepMoves` when it moves
  positions and by `StepRests` when it does not.
- What the program has read and what waits in the ring are together exactly the positions before `rcv`
  (`Counts`), so the next byte taken is the next of the stream: `StreamPrefix`. The position
  behind the FIN is reached only after all others, and reported only with an empty
  ring, or by a non-blocking call with the rest still in the ring: `EofMeansAll`. `FIN_WAIT_2` needs an acknowledgement of that position, which no segment
  carries before the other end has taken it: `FinAckedIsTaken`.

Before the proofs an earlier form of the Tcp invariant was checked
with TLC on the instance of the run `tcp`, and `RingTypeOK` on that of
`round_robin`.

Model-checked only: all liveness (`QueuedTaskRuns`, `SleeperWoken`, `ConditionTaken`,
`EveryItemRuns`, `SleepEnds`, `ZombieReaped`, `StreamArrives`), which is outside the prover's
reach, and all counterexamples.

## 8. Not modelled

Most of the repository by lines: of its more than 150 thousand lines the models stand
for the few thousand in which state is shared and the order of events decides. The rest
is:
- the architecture layer (assembly, page tables, interrupt controllers; masking and
  ticks enter as assumptions) and device drivers (register I/O);
- the Linux system-call translation, namespaces and containers: wide tables, mostly
  stateless above the parts modelled here;
- GUI, consoles, shell and commands (presentation), user programs, scripts,
  third-party code, assets;
- file systems above the block cache: on-disk layout, paths, dentries; memory below
  the address spaces: frames, heap, page tables, swap slots; the network below TCP;
- signals, descriptors, event sources, services, configuration: see the plan;
- inside the modelled parts: thread groups, pid namespaces, SIGCHLD, pause and
  continue; timers that arm themselves again and the eight rounds of `ktimer_cancel`;
  claims made after a spawn and the reuse of pids; the connection table's exhaustion and
  reordering on the link; ring repair, audits and statistics.

Memory is sequentially consistent in all models: the code's plain accesses to `state`
and `cpu_home` outside locks are taken as single, ordered accesses.
