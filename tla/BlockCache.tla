----------------------------- MODULE BlockCache -----------------------------
(***************************************************************************)
(* The write-back buffer cache of kernel/core/block_cache.c, shared by     *)
(* several volumes, under a file system that takes its volume lock around  *)
(* every operation, and with the two sync paths that do not take it (fsync *)
(* and `disk sync`).  bc_lock is held over a whole get and a whole sync;   *)
(* the contents and the dirty mark of a held buffer are written outside    *)
(* it, so a sync is one step to write a slot and one to clear its mark.    *)
(*                                                                         *)
(* The contents of a sector are the number of the write that produced      *)
(* them.  The device (external) may fail MaxFails requests and keeps       *)
(* written sectors in a volatile cache until a flush; a crash keeps any    *)
(* part of that cache.                                                     *)
(***************************************************************************)
EXTENDS Naturals, Sequences

CONSTANTS NSlots,       \* BCACHE_SLOTS
          Vols, VolOf,  \* volumes; VolOf[l]: the one sector l is on
          Procs, On,    \* tasks; On[p]: the volume p uses
          MaxWrites,    \* bound: sector writes
          MaxFails,     \* bound: failed device requests
          MaxCrashes,   \* bound
          LooseSync     \* sync without the volume lock: subset of BOOLEAN

NoProc == "none"
NoVol == "none"

ASSUME CacheAssumption ==
    /\ NSlots \in Nat \ {0}
    /\ NoProc \notin Procs /\ NoVol \notin Vols
    /\ VolOf \in Seq(Vols) /\ On \in [Procs -> Vols]
    /\ {MaxWrites, MaxFails, MaxCrashes} \subseteq Nat
    /\ LooseSync \subseteq BOOLEAN

VARIABLES slot,     \* the slots
          lru,      \* valid slots, least recently used first (lru_tick)
          media,    \* what survives a crash
          pend,     \* what the device has taken and not flushed; None if nothing
          vol,      \* vol[v]: holder of v's lock, or NoProc
          pc, buf,  \* where a task is, and the slot it holds
          sync,     \* the sync under way
          latest,   \* newest contents, by the task that wrote them
          done,     \* newest contents marked dirty
          synced,   \* contents covered by a sync that returned 0 and was flushed
          ver, fails, crashes

vars == <<slot, lru, media, pend, vol, pc, buf, sync, latest, done, synced,
          ver, fails, crashes>>

Slots == 1 .. NSlots
Lbas == 1 .. Len(VolOf)
NoSlot == 0
None == MaxWrites + 1
Zeros == MaxWrites + 2       \* bcache_get_overwrite's empty sector

Empty == [valid |-> FALSE, lba |-> 1, data |-> 0, dirty |-> FALSE, ref |-> 0]
Idle == [dev |-> NoVol, next |-> 1, clear |-> FALSE, failed |-> FALSE,
         drop |-> FALSE, want |-> [l \in Lbas |-> 0]]

Versions == [Lbas -> Nat]
SlotType == [valid : BOOLEAN, lba : Nat, data : Nat, dirty : BOOLEAN, ref : {0, 1}]
SyncType == [dev : Vols \cup {NoVol}, next : 1 .. NSlots + 1, clear : BOOLEAN,
             failed : BOOLEAN, drop : BOOLEAN, want : Versions]

TypeOK ==
    /\ slot \in [Slots -> SlotType] /\ sync \in SyncType
    /\ media \in Versions /\ pend \in Versions
    /\ latest \in Versions /\ done \in Versions /\ synced \in Versions
    /\ vol \in [Vols -> Procs \cup {NoProc}]
    /\ pc \in [Procs -> {"out", "in", "got", "overwrite", "modified", "sync"}]
    /\ buf \in [Procs -> Slots \cup {NoSlot}]
    /\ ver \in Nat /\ fails \in Nat /\ crashes \in Nat

Init ==
    /\ slot = [s \in Slots |-> Empty] /\ lru = <<>>
    /\ media = [l \in Lbas |-> 0] /\ pend = [l \in Lbas |-> None]
    /\ vol = [v \in Vols |-> NoProc]
    /\ pc = [p \in Procs |-> "out"] /\ buf = [p \in Procs |-> NoSlot]
    /\ sync = Idle
    /\ latest = media /\ done = media /\ synced = media
    /\ ver = 0 /\ fails = 0 /\ crashes = 0

(* ------------------------------ the helpers ---------------------------- *)

Cached(l) == \E s \in Slots : slot[s].valid /\ slot[s].lba = l
find_entry(l) == CHOOSE s \in Slots : slot[s].valid /\ slot[s].lba = l

\* The slots of S least recently used.
Oldest(S) ==
    {s \in S : \E i \in DOMAIN lru : lru[i] = s /\ \A j \in 1 .. i - 1 : lru[j] \notin S}

\* Mutant: a slot somebody holds is a victim too.
VictimMutant(pinned) ==
    LET open == Slots \ pinned
        free == {s \in open : ~slot[s].valid}
    IN  IF free # {} THEN {s \in free : \A u \in free : s <= u} ELSE Oldest(open)

\* The first free slot, or else the least recently used one nobody holds.
pick_victim(pinned) ==
    LET open == {s \in Slots : slot[s].ref = 0 /\ s \notin pinned}
        free == {s \in open : ~slot[s].valid}
    IN  IF free # {} THEN {s \in free : \A u \in free : s <= u} ELSE Oldest(open)

Without(seq, S) == SelectSeq(seq, LAMBDA s : s \notin S)
Device(dev, l) == IF dev[l] # None THEN dev[l] ELSE media[l]

\* Whether the device answers the next request; a failure is counted.
Request(ok) == (ok \/ fails < MaxFails) /\ fails' = IF ok THEN fails ELSE fails + 1

locks == <<vol, sync>>
ghosts == <<latest, done, synced, ver, crashes>>

(* --------------------------------- get --------------------------------- *)

BcFree == sync.dev = NoVol

\* A get by an operation that is under way, on its own volume.
Asks(p, l) == pc[p] = "in" /\ BcFree /\ VolOf[l] = On[p]

\* A file system operation holds the volume lock from here to Leave.
Enter(p) ==
    /\ pc[p] = "out" /\ vol[On[p]] = NoProc
    /\ vol' = [vol EXCEPT ![On[p]] = p] /\ pc' = [pc EXCEPT ![p] = "in"]
    /\ UNCHANGED <<slot, lru, media, pend, buf, sync, ghosts, fails>>

Leave(p) ==
    /\ pc[p] = "in"
    /\ vol' = [vol EXCEPT ![On[p]] = NoProc] /\ pc' = [pc EXCEPT ![p] = "out"]
    /\ UNCHANGED <<slot, lru, media, pend, buf, sync, ghosts, fails>>

Holds(p, s, at) == buf' = [buf EXCEPT ![p] = s] /\ pc' = [pc EXCEPT ![p] = at]

GetHit(p, l) ==
    /\ Asks(p, l) /\ Cached(l)
    /\ LET s == find_entry(l)
       IN  /\ slot' = [slot EXCEPT ![s].ref = @ + 1]
           /\ lru' = Append(Without(lru, {s}), s)
           /\ Holds(p, s, "got")
    /\ UNCHANGED <<media, pend, locks, ghosts, fails>>

Filled(l, data, ref) ==
    [valid |-> TRUE, lba |-> l, data |-> data, dirty |-> FALSE, ref |-> ref]

\* A dirty victim is written first, and kept when that fails.
EvictFails(p, l) ==
    /\ Asks(p, l) /\ ~Cached(l)
    /\ \E v \in pick_victim({}) : slot[v].valid /\ slot[v].dirty
    /\ Request(FALSE)
    /\ UNCHANGED <<slot, lru, media, pend, pc, buf, locks, ghosts>>

\* Mutant: a dirty victim is dropped.
WrittenBackMutant(v) == pend

\* The device after the write-back of slot v.
WrittenBack(v) ==
    IF slot[v].valid /\ slot[v].dirty
    THEN [pend EXCEPT ![slot[v].lba] = slot[v].data] ELSE pend

\* Mutant: an overwrite does not look the sector up.
OverwriteMutant(p, l) ==
    /\ Asks(p, l) /\ ver < MaxWrites
    /\ \E v \in pick_victim({}) :
        /\ pend' = WrittenBack(v)
        /\ slot' = [slot EXCEPT ![v] = Filled(l, Zeros, 1)]
        /\ lru' = Append(Without(lru, {v}), v)
        /\ Holds(p, v, "overwrite")
    /\ UNCHANGED <<media, locks, ghosts, fails>>

\* bcache_get_overwrite: the slot is zeroed, not read, and its caller writes.
GetOverwrite(p, l) ==
    /\ Asks(p, l) /\ ~Cached(l) /\ ver < MaxWrites
    /\ \E v \in pick_victim({}) :
        /\ pend' = WrittenBack(v)
        /\ slot' = [slot EXCEPT ![v] = Filled(l, Zeros, 1)]
        /\ lru' = Append(Without(lru, {v}), v)
        /\ Holds(p, v, "overwrite")
    /\ UNCHANGED <<media, locks, ghosts, fails>>

\* bc_readahead parks the next sector, when it is not cached once v is evicted,
\* in a victim that is not dirty.  (BC_PER_FRAME is 2 here.)
Ahead(v, l) ==
    /\ l + 1 \in Lbas /\ VolOf[l + 1] = VolOf[l]
    /\ \A s \in Slots \ {v} : ~(slot[s].valid /\ slot[s].lba = l + 1)

Parks(v, l) ==
    IF Ahead(v, l)
    THEN {w \in pick_victim({v}) : ~(slot[w].valid /\ slot[w].dirty)}
    ELSE {}

\* A failed read-ahead falls back to the one sector.
GetMiss(p, l) ==
    /\ Asks(p, l) /\ ~Cached(l)
    /\ \E v \in pick_victim({}), ahead \in BOOLEAN :
        LET dev == WrittenBack(v)
            filled == [slot EXCEPT ![v] = Filled(l, Device(dev, l), 1)]
        IN  /\ ~ahead => Ahead(v, l)
            /\ Request(ahead)
            /\ pend' = dev
            /\ IF ~ahead \/ Parks(v, l) = {}
               THEN slot' = filled /\ lru' = Append(Without(lru, {v}), v)
               ELSE \E w \in Parks(v, l) :
                      /\ slot' = [filled EXCEPT
                                    ![w] = Filled(l + 1, Device(dev, l + 1), 0)]
                      /\ lru' = Without(lru, {v, w}) \o <<w, v>>
            /\ Holds(p, v, "got")
    /\ UNCHANGED <<media, locks, ghosts>>

\* The read fails: the victim has been written back and dropped.
ReadFails(p, l) ==
    /\ Asks(p, l) /\ ~Cached(l)
    /\ Request(FALSE)
    /\ \E v \in pick_victim({}) :
        /\ pend' = WrittenBack(v)
        /\ slot' = [slot EXCEPT ![v] = [Empty EXCEPT !.lba = slot[v].lba]]
        /\ lru' = Without(lru, {v})
    /\ UNCHANGED <<media, pc, buf, locks, ghosts>>

(* ---------------------- the holder, outside bc_lock --------------------- *)

Modify(p) ==
    /\ pc[p] \in {"got", "overwrite"} /\ ver < MaxWrites
    /\ ver' = ver + 1
    /\ slot' = [slot EXCEPT ![buf[p]].data = ver + 1]
    /\ latest' = [latest EXCEPT ![slot[buf[p]].lba] = ver + 1]
    /\ pc' = [pc EXCEPT ![p] = "modified"]
    /\ UNCHANGED <<lru, media, pend, buf, locks, done, synced, crashes, fails>>

bcache_mark_dirty(p) ==
    /\ pc[p] = "modified"
    /\ slot' = [slot EXCEPT ![buf[p]].dirty = TRUE]
    /\ done' = [done EXCEPT ![slot[buf[p]].lba] = slot[buf[p]].data]
    /\ pc' = [pc EXCEPT ![p] = "got"]
    /\ UNCHANGED <<lru, media, pend, buf, locks, latest, synced, ver, crashes, fails>>

bcache_release(p) ==
    /\ pc[p] = "got" /\ BcFree
    /\ slot' = [slot EXCEPT ![buf[p]].ref = @ - 1]
    /\ Holds(p, NoSlot, "in")
    /\ UNCHANGED <<lru, media, pend, locks, ghosts, fails>>

(* -------------------------------- sync --------------------------------- *)

\* From inside an operation (exfat_close, exfat_umount), or without the
\* volume lock (vfs_fsync_file, storage_sync_all).  A drop follows an umount.
SyncStart ==
    /\ BcFree
    /\ \/ \E p \in Procs, d \in BOOLEAN :
            /\ pc[p] = "in" /\ pc' = [pc EXCEPT ![p] = "sync"]
            /\ sync' = [Idle EXCEPT !.dev = On[p], !.drop = d, !.want = done]
       \/ \E v \in Vols :
            /\ TRUE \in LooseSync
            /\ sync' = [Idle EXCEPT !.dev = v, !.want = done]
            /\ UNCHANGED pc
    /\ UNCHANGED <<slot, lru, media, pend, vol, buf, ghosts, fails>>

Syncing == ~BcFree /\ sync.next \in Slots
OnDev(s) == slot[s].valid /\ VolOf[slot[s].lba] = sync.dev

SyncSkip ==
    /\ Syncing /\ ~sync.clear
    /\ ~(OnDev(sync.next) /\ slot[sync.next].dirty)
    /\ sync' = [sync EXCEPT !.next = @ + 1]
    /\ UNCHANGED <<slot, lru, media, pend, vol, pc, buf, ghosts, fails>>

SyncWrite(ok) ==
    /\ Syncing /\ ~sync.clear
    /\ OnDev(sync.next) /\ slot[sync.next].dirty
    /\ Request(ok)
    /\ IF ok
       THEN /\ pend' = [pend EXCEPT ![slot[sync.next].lba] = slot[sync.next].data]
            /\ sync' = [sync EXCEPT !.clear = TRUE]
       ELSE /\ UNCHANGED pend
            /\ sync' = [sync EXCEPT !.next = @ + 1, !.failed = TRUE]
    /\ UNCHANGED <<slot, lru, media, vol, pc, buf, ghosts>>

SyncClear ==
    /\ Syncing /\ sync.clear
    /\ slot' = [slot EXCEPT ![sync.next].dirty = FALSE]
    /\ sync' = [sync EXCEPT !.next = @ + 1, !.clear = FALSE]
    /\ UNCHANGED <<lru, media, pend, vol, pc, buf, ghosts, fails>>

SyncOver == ~BcFree /\ sync.next = NSlots + 1

\* Mutant: the device is not flushed.
FlushedMutant(ok) == UNCHANGED <<media, pend>>

\* blk_flush: what the device has taken of the volume is on the medium, or
\* else the request has failed and the device keeps it.
Flushed(ok) ==
    /\ media' = [l \in Lbas |-> IF ok /\ VolOf[l] = sync.dev THEN Device(pend, l) ELSE media[l]]
    /\ pend' = [l \in Lbas |-> IF ok /\ VolOf[l] = sync.dev THEN None ELSE pend[l]]

\* exfat_umount keeps a volume whose sync failed.  After one that did not,
\* nothing is dirty and nobody uses the volume: the two syncs that follow
\* write nothing, and bcache_invalidate drops every slot nobody holds.
Dropped ==
    IF sync.drop /\ ~sync.failed THEN {s \in Slots : OnDev(s) /\ slot[s].ref = 0} ELSE {}

\* The flush, whose answer the code does not look at, and the end of the sync.
SyncEnd(ok) ==
    /\ SyncOver /\ Request(ok) /\ Flushed(ok)
    /\ synced' = [l \in Lbas |-> IF VolOf[l] = sync.dev /\ ok /\ ~sync.failed
                                 THEN sync.want[l] ELSE synced[l]]
    /\ slot' = [s \in Slots |-> IF s \in Dropped THEN Empty ELSE slot[s]]
    /\ lru' = Without(lru, Dropped)
    /\ sync' = Idle
    /\ pc' = [p \in Procs |-> IF pc[p] = "sync" THEN "in" ELSE pc[p]]
    /\ UNCHANGED <<vol, buf, latest, done, ver, crashes>>

\* The machine stops; the device has kept some of what it had not flushed.
Crash ==
    /\ crashes < MaxCrashes /\ crashes' = crashes + 1
    /\ \E kept \in SUBSET {l \in Lbas : pend[l] # None} :
        media' = [l \in Lbas |-> IF l \in kept THEN pend[l] ELSE media[l]]
    /\ pend' = [l \in Lbas |-> None]
    /\ slot' = [s \in Slots |-> Empty] /\ lru' = <<>>
    /\ vol' = [v \in Vols |-> NoProc] /\ sync' = Idle
    /\ pc' = [p \in Procs |-> "out"] /\ buf' = [p \in Procs |-> NoSlot]
    /\ latest' = media' /\ done' = media'
    /\ UNCHANGED <<synced, ver, fails>>

Next ==
    \/ \E p \in Procs : \/ Enter(p) \/ Leave(p) \/ Modify(p)
                        \/ bcache_mark_dirty(p) \/ bcache_release(p)
    \/ \E p \in Procs, l \in Lbas :
            \/ GetHit(p, l) \/ GetMiss(p, l) \/ GetOverwrite(p, l)
            \/ EvictFails(p, l) \/ ReadFails(p, l)
    \/ SyncStart \/ SyncSkip \/ SyncClear
    \/ \E ok \in BOOLEAN : SyncWrite(ok) \/ SyncEnd(ok)
    \/ Crash

Spec == Init /\ [][Next]_vars

\* A sync clears a mark its holder made after the sync had written the slot:
\* the mark of contents the device does not have.  Only a sync without the
\* volume lock can do this (BlockCacheLooseSync.cfg).
ClearsNewer ==
    SyncClear /\ done[slot[sync.next].lba] > Device(pend, slot[sync.next].lba)
NoStaleClear == [][~ClearsNewer]_vars

(* ------------------------------ properties ----------------------------- *)

\* At most one slot holds a sector: a miss, a read-ahead or an eviction never
\* leaves two copies that could diverge (block_cache.c:172-203, 229-271).
OneCopy ==
    \A s, t \in Slots :
        slot[s].valid /\ slot[t].valid /\ slot[s].lba = slot[t].lba => s = t

\* Nothing written is lost while the machine runs: the next get of a sector
\* sees its newest contents, from the cache or, once evicted, synced or
\* dropped, from the device, although requests fail.  A sector being
\* overwritten is its holder's (block_cache.c:242-271, 294-334).
ReadsLatest ==
    \A l \in Lbas :
        (\A p \in Procs : ~(pc[p] = "overwrite" /\ slot[buf[p]].lba = l))
        => latest[l] = IF Cached(l) THEN slot[find_entry(l)].data ELSE Device(pend, l)

\* What a sync covered that returned 0, and whose flush the device carried out,
\* is on the medium, whatever fails, is written, evicted or lost in a crash
\* afterwards (block_cache.c:294-309).
SyncedSurvives == \A l \in Lbas : media[l] >= synced[l]

\* The same of every sync that returned 0.  The code ignores the result of
\* blk_flush (block_cache.c:307) and returns 0 when the flush failed, so this
\* is false of it (BlockCacheFlush.cfg).
ZeroIsDurable ==
    [][\A ok \in BOOLEAN : SyncEnd(ok) /\ ~sync.failed
        => \A l \in Lbas : VolOf[l] = sync.dev => media'[l] >= sync.want[l]]_vars

\* A held buffer is never taken away: it stays valid and keeps its sector
\* until the release, through evictions, read-ahead and drops
\* (block_cache.c:131-140, 318-334).
HeldStays ==
    [][\A p \in Procs :
        buf[p] # NoSlot /\ buf'[p] = buf[p]
            => slot'[buf[p]].valid /\ slot'[buf[p]].lba = slot[buf[p]].lba]_vars
=============================================================================
