--------------------------- MODULE BlockCacheProof ---------------------------
(* Proofs about BlockCache, for any number of slots, volumes, sectors and     *)
(* tasks, and for syncs with and without the volume lock.                     *)
EXTENDS BlockCache, TLAPS

Holding == {"got", "overwrite", "modified"}

(* A task inside an operation holds the lock of its volume, and a task inside *)
(* a sync is the one whose volume is synced.                                  *)
Locks ==
  \A p \in Procs :
    /\ pc[p] # "out" <=> vol[On[p]] = p
    /\ pc[p] = "sync" => sync.dev = On[p]

(* A slot has one holder or none; it is held valid, on its holder's volume.   *)
Held ==
  /\ \A p \in Procs :
       /\ buf[p] # NoSlot <=> pc[p] \in Holding
       /\ buf[p] # NoSlot => /\ slot[buf[p]].valid /\ slot[buf[p]].ref = 1
                             /\ VolOf[slot[buf[p]].lba] = On[p]
  /\ \A s \in Slots :
       /\ slot[s].ref = 1 => \E p \in Procs : buf[p] = s
       /\ slot[s].valid => slot[s].lba \in Lbas

HoldInv == TypeOK /\ Locks /\ Held /\ OneCopy

(* A sync that drops is made by a task that holds the volume's lock.          *)
SyncLocked ==
  sync.dev # NoVol /\ sync.drop => \E p \in Procs : pc[p] = "sync" /\ On[p] = sync.dev

Busy(s, at) == \E p \in Procs : pc[p] \in at /\ buf[p] = s
Dev(l) == Device(pend, l)

(* The newest contents are in the cached copy, or else on the device; a clean *)
(* copy nobody is changing agrees with the device, and only real contents are *)
(* marked dirty.                                                              *)
Copy(s) ==
  /\ ~Busy(s, {"overwrite"}) => slot[s].data = latest[slot[s].lba]
  /\ ~slot[s].dirty /\ ~Busy(s, {"overwrite", "modified"}) =>
       slot[s].data = Dev(slot[s].lba)
  /\ slot[s].dirty => ~Busy(s, {"overwrite"})

Contents ==
  /\ \A s \in Slots : slot[s].valid => Copy(s)
  /\ \A l \in Lbas : ~Cached(l) => latest[l] = Dev(l)

(* Versions only grow on the way from a write to the medium.                  *)
Ordered(l) ==
  /\ media[l] <= Dev(l) /\ Dev(l) <= latest[l] /\ latest[l] <= ver
  /\ done[l] <= latest[l] /\ synced[l] <= media[l]

Order == ver <= MaxWrites /\ \A l \in Lbas : Ordered(l)

(* Sector l is in a dirty slot the sync has not reached.                      *)
Pending(l) ==
  \E s \in Slots : /\ slot[s].valid /\ slot[s].lba = l /\ slot[s].dirty
                   /\ sync.next <= s /\ ~(sync.clear /\ sync.next = s)

(* A sync that has not failed has put on the device what it has to cover, or  *)
(* will reach it; one that drops leaves nothing dirty behind it.              *)
Progress ==
  sync.dev # NoVol =>
    /\ \A l \in Lbas : sync.want[l] <= done[l]
    /\ ~sync.failed => \A l \in Lbas : VolOf[l] = sync.dev =>
                          sync.want[l] <= Dev(l) \/ Pending(l)
    /\ sync.drop /\ ~sync.failed =>
         \A s \in Slots : s < sync.next /\ OnDev(s) => ~slot[s].dirty
    /\ sync.clear => sync.next \in Slots /\ OnDev(sync.next)

(* What is not marked is being changed, and a mark that is gone is of         *)
(* contents the device has.                                                   *)
Marks ==
  \A l \in Lbas :
    /\ \/ done[l] = latest[l]
       \/ \E s \in Slots : slot[s].valid /\ slot[s].lba = l /\ Busy(s, {"modified"})
    /\ \/ done[l] <= Dev(l)
       \/ \E s \in Slots : slot[s].valid /\ slot[s].lba = l /\ slot[s].dirty

CacheInv == HoldInv /\ SyncLocked /\ Contents /\ Order /\ Marks /\ Progress

-----------------------------------------------------------------------------
(* Slots.                                                                     *)

(* What the parameters are.                                                   *)
LEMMA Basics ==
  /\ NoSlot \notin Slots /\ Slots \subseteq Nat
  /\ Lbas \subseteq Nat /\ \A l \in Lbas : VolOf[l] \in Vols
  /\ On \in [Procs -> Vols] /\ NoProc \notin Procs /\ NoVol \notin Vols
  /\ NSlots \in Nat /\ MaxWrites \in Nat /\ None \in Nat /\ Zeros \in Nat
BY CacheAssumption DEF NoSlot, Slots, Lbas, None, Zeros

(* pick_victim: never a slot that is held or pinned.                          *)
LEMMA VictimOpen ==
  ASSUME NEW P, NEW v \in pick_victim(P)
  PROVE  v \in Slots /\ slot[v].ref = 0 /\ v \notin P
BY DEF pick_victim, Oldest

(* find_entry: the slot that holds a cached sector.                           *)
LEMMA FindEntry ==
  ASSUME NEW l, Cached(l)
  PROVE  find_entry(l) \in Slots /\ slot[find_entry(l)].valid /\ slot[find_entry(l)].lba = l
BY DEF Cached, find_entry

(* A filled slot.                                                             *)
LEMMA FilledSlot ==
  ASSUME NEW l \in Nat, NEW d \in Nat, NEW n \in {0, 1}
  PROVE  /\ Filled(l, d, n) \in SlotType
         /\ Filled(l, d, n).valid /\ Filled(l, d, n).lba = l /\ Filled(l, d, n).data = d
         /\ ~Filled(l, d, n).dirty /\ Filled(l, d, n).ref = n
BY DEF Filled, SlotType

Keep == UNCHANGED <<media, vol, sync, latest, done, synced, ver, crashes>>

(* A hit: the slot has no other holder, which would be on the same volume.    *)
LEMMA GetHitView ==
  ASSUME NEW p \in Procs, NEW l \in Lbas, HoldInv, GetHit(p, l)
  PROVE  \E v \in Slots, r \in SlotType :
           /\ slot' = [slot EXCEPT ![v] = r] /\ slot[v].valid /\ slot[v].lba = l
           /\ slot[v].ref = 0 /\ r.valid /\ r.lba = l /\ r.data = slot[v].data
           /\ (r.dirty <=> slot[v].dirty) /\ r.ref = 1
           /\ buf' = [buf EXCEPT ![p] = v] /\ pc' = [pc EXCEPT ![p] = "got"]
           /\ pc[p] = "in" /\ sync.dev = NoVol /\ VolOf[l] = On[p]
           /\ pend' = pend /\ fails' = fails /\ Keep
<1> USE Basics DEF HoldInv
<1>1. PICK v \in Slots :
        /\ slot[v].valid /\ slot[v].lba = l
        /\ slot' = [slot EXCEPT ![v].ref = @ + 1]
        /\ buf' = [buf EXCEPT ![p] = v] /\ pc' = [pc EXCEPT ![p] = "got"]
  BY FindEntry DEF GetHit, Holds
<1>2. ASSUME NEW q \in Procs, buf[q] = v PROVE FALSE
  <2>1. On[q] = On[p] /\ pc[q] \in Holding
    BY <1>1, <1>2 DEF Held, GetHit, Asks
  <2>2. vol[On[p]] = p /\ vol[On[q]] = q /\ pc[p] = "in"
    BY <2>1 DEF Locks, GetHit, Asks, Holding
  <2> QED BY <2>1, <2>2 DEF Holding
<1>3. slot[v] \in SlotType /\ slot[v].ref = 0
  BY <1>2 DEF TypeOK, Held, SlotType
<1> DEFINE r == [slot[v] EXCEPT !.ref = slot[v].ref + 1]
<1>4. slot' = [slot EXCEPT ![v] = r]
  BY <1>1 DEF TypeOK
<1>5. /\ r \in SlotType /\ (r.valid <=> slot[v].valid) /\ r.lba = slot[v].lba
      /\ r.data = slot[v].data /\ (r.dirty <=> slot[v].dirty) /\ r.ref = 1
  BY <1>3 DEF SlotType
<1>6. /\ pc[p] = "in" /\ sync.dev = NoVol /\ VolOf[l] = On[p]
      /\ pend' = pend /\ fails' = fails /\ Keep
  BY DEF GetHit, Asks, BcFree, locks, ghosts, Keep
<1> HIDE DEF r
<1> QED BY <1>1, <1>3, <1>4, <1>5, <1>6

(* The device after a write-back.                                             *)
LEMMA WrittenBackType ==
  ASSUME TypeOK, NEW v \in Slots
  PROVE  WrittenBack(v) \in Versions
BY DEF TypeOK, SlotType, Versions, WrittenBack

(* What the device answers is a version.                                      *)
LEMMA DeviceType ==
  ASSUME TypeOK, NEW d \in Versions, NEW l \in Lbas
  PROVE  Device(d, l) \in Nat
BY DEF TypeOK, Versions, Device

(* An overwrite takes a victim nobody holds.                                  *)
LEMMA GetOverwriteView ==
  ASSUME NEW p \in Procs, NEW l \in Lbas, HoldInv, GetOverwrite(p, l)
  PROVE  \E v \in Slots, r \in SlotType :
           /\ slot' = [slot EXCEPT ![v] = r] /\ slot[v].ref = 0
           /\ r.valid /\ r.lba = l /\ r.data = Zeros /\ ~r.dirty /\ r.ref = 1
           /\ buf' = [buf EXCEPT ![p] = v] /\ pc' = [pc EXCEPT ![p] = "overwrite"]
           /\ pc[p] = "in" /\ sync.dev = NoVol /\ VolOf[l] = On[p] /\ ~Cached(l)
           /\ pend' = WrittenBack(v) /\ pend' \in Versions /\ fails' = fails /\ Keep
<1> USE DEF HoldInv
<1>1. PICK v \in Slots :
        /\ slot[v].ref = 0 /\ slot' = [slot EXCEPT ![v] = Filled(l, Zeros, 1)]
        /\ buf' = [buf EXCEPT ![p] = v] /\ pc' = [pc EXCEPT ![p] = "overwrite"]
        /\ pend' = WrittenBack(v)
  BY VictimOpen DEF GetOverwrite, Holds
<1>2. l \in Nat /\ Zeros \in Nat
  BY Basics
<1>3. /\ pc[p] = "in" /\ sync.dev = NoVol /\ VolOf[l] = On[p] /\ ~Cached(l)
      /\ fails' = fails /\ Keep
  BY DEF GetOverwrite, Asks, BcFree, locks, ghosts, Keep
<1>4. pend' \in Versions
  BY <1>1, WrittenBackType
<1> DEFINE r == Filled(l, Zeros, 1)
<1>5. r \in SlotType /\ r.valid /\ r.lba = l /\ r.data = Zeros /\ ~r.dirty /\ r.ref = 1
  BY <1>2, FilledSlot
<1> HIDE DEF r
<1>6. slot' = [slot EXCEPT ![v] = r]
  BY <1>1 DEF r
<1> QED BY <1>1, <1>3, <1>4, <1>5, <1>6

(* No slot but v holds sector l.                                              *)
NotIn(v, l) == \A s \in Slots \ {v} : ~(slot[s].valid /\ slot[s].lba = l)

(* A miss takes a victim nobody holds, and perhaps a second one, clean, for   *)
(* the next sector.                                                           *)
LEMMA GetMissView ==
  ASSUME NEW p \in Procs, NEW l \in Lbas, HoldInv, GetMiss(p, l)
  PROVE  \E v \in Slots, r \in SlotType :
           /\ slot[v].ref = 0
           /\ r.valid /\ r.lba = l /\ r.data = Device(pend', l) /\ ~r.dirty /\ r.ref = 1
           /\ buf' = [buf EXCEPT ![p] = v] /\ pc' = [pc EXCEPT ![p] = "got"]
           /\ pc[p] = "in" /\ sync.dev = NoVol /\ VolOf[l] = On[p] /\ ~Cached(l)
           /\ pend' = WrittenBack(v) /\ pend' \in Versions /\ fails' \in Nat /\ Keep
           /\ \/ slot' = [slot EXCEPT ![v] = r]
              \/ \E w \in Slots \ {v}, t \in SlotType :
                   /\ slot[w].ref = 0 /\ ~(slot[w].valid /\ slot[w].dirty)
                   /\ l + 1 \in Lbas /\ NotIn(v, l + 1)
                   /\ t.valid /\ t.lba = l + 1 /\ t.data = Device(pend', l + 1)
                   /\ ~t.dirty /\ t.ref = 0
                   /\ slot' = [[slot EXCEPT ![v] = r] EXCEPT ![w] = t]
<1> USE DEF HoldInv
<1>1. PICK v \in pick_victim({}), ahead \in BOOLEAN :
        LET dev == WrittenBack(v)
            filled == [slot EXCEPT ![v] = Filled(l, Device(dev, l), 1)]
        IN  /\ Request(ahead)
            /\ pend' = dev
            /\ IF ~ahead \/ Parks(v, l) = {}
               THEN slot' = filled
               ELSE \E w \in Parks(v, l) :
                      slot' = [filled EXCEPT
                                 ![w] = Filled(l + 1, Device(dev, l + 1), 0)]
            /\ Holds(p, v, "got")
  BY DEF GetMiss
<1>2. v \in Slots /\ slot[v].ref = 0
  BY VictimOpen
<1>3. pend' = WrittenBack(v) /\ pend' \in Versions
  BY <1>1, <1>2, WrittenBackType
<1> DEFINE r == Filled(l, Device(pend', l), 1)
<1>4. /\ r \in SlotType /\ r.valid /\ r.lba = l /\ r.data = Device(pend', l)
      /\ ~r.dirty /\ r.ref = 1
  <2>1. l \in Nat /\ Device(pend', l) \in Nat
    BY <1>3, Basics, DeviceType
  <2> QED BY <2>1, FilledSlot
<1>5. /\ pc[p] = "in" /\ sync.dev = NoVol /\ VolOf[l] = On[p] /\ ~Cached(l)
      /\ fails' \in Nat /\ Keep
  <2>1. fails' \in Nat
    BY <1>1 DEF TypeOK, Request
  <2> QED BY <2>1 DEF GetMiss, Asks, BcFree, locks, ghosts, Keep
<1>6. buf' = [buf EXCEPT ![p] = v] /\ pc' = [pc EXCEPT ![p] = "got"]
  BY <1>1 DEF Holds
<1>7. CASE slot' = [slot EXCEPT ![v] = r]
  <2> HIDE DEF r
  <2> QED BY <1>2, <1>3, <1>4, <1>5, <1>6, <1>7
<1>8. ASSUME NEW w \in Parks(v, l),
             slot' = [[slot EXCEPT ![v] = r] EXCEPT ![w] = Filled(l + 1, Device(pend', l + 1), 0)]
      PROVE  \E u \in Slots \ {v}, t \in SlotType :
                   /\ slot[u].ref = 0 /\ ~(slot[u].valid /\ slot[u].dirty)
                   /\ l + 1 \in Lbas /\ NotIn(v, l + 1)
                   /\ t.valid /\ t.lba = l + 1 /\ t.data = Device(pend', l + 1)
                   /\ ~t.dirty /\ t.ref = 0
                   /\ slot' = [[slot EXCEPT ![v] = r] EXCEPT ![u] = t]
  <2> DEFINE t == Filled(l + 1, Device(pend', l + 1), 0)
  <2>1. Ahead(v, l) /\ w \in pick_victim({v}) /\ ~(slot[w].valid /\ slot[w].dirty)
    BY DEF Parks
  <2>2. w \in Slots \ {v} /\ slot[w].ref = 0
    BY <2>1, VictimOpen
  <2>3. l + 1 \in Lbas /\ NotIn(v, l + 1)
    BY <2>1 DEF Ahead, NotIn
  <2>4. l + 1 \in Nat /\ Device(pend', l + 1) \in Nat
    BY <1>3, <2>3, Basics, DeviceType
  <2>5. /\ t \in SlotType /\ t.valid /\ t.lba = l + 1 /\ t.data = Device(pend', l + 1)
        /\ ~t.dirty /\ t.ref = 0
    BY <2>4, FilledSlot
  <2> HIDE DEF t
  <2>6. slot' = [[slot EXCEPT ![v] = r] EXCEPT ![w] = t]
    BY <1>8 DEF t
  <2> QED BY <2>1, <2>2, <2>3, <2>5, <2>6
<1>9. \/ slot' = [slot EXCEPT ![v] = r]
      \/ \E w \in Parks(v, l) :
           slot' = [[slot EXCEPT ![v] = r] EXCEPT ![w] = Filled(l + 1, Device(pend', l + 1), 0)]
  BY <1>1, <1>3
<1>10. CASE \E w \in Parks(v, l) :
           slot' = [[slot EXCEPT ![v] = r] EXCEPT ![w] = Filled(l + 1, Device(pend', l + 1), 0)]
  <2>1. \E u \in Slots \ {v}, t \in SlotType :
                   /\ slot[u].ref = 0 /\ ~(slot[u].valid /\ slot[u].dirty)
                   /\ l + 1 \in Lbas /\ NotIn(v, l + 1)
                   /\ t.valid /\ t.lba = l + 1 /\ t.data = Device(pend', l + 1)
                   /\ ~t.dirty /\ t.ref = 0
                   /\ slot' = [[slot EXCEPT ![v] = r] EXCEPT ![u] = t]
    BY <1>8, <1>10
  <2> HIDE DEF r
  <2> QED BY <1>2, <1>3, <1>4, <1>5, <1>6, <2>1
<1> QED BY <1>7, <1>9, <1>10

(* A failed read drops a victim nobody holds.                                 *)
LEMMA ReadFailsView ==
  ASSUME NEW p \in Procs, NEW l \in Lbas, HoldInv, ReadFails(p, l)
  PROVE  \E v \in Slots, r \in SlotType :
           /\ slot' = [slot EXCEPT ![v] = r] /\ slot[v].ref = 0 /\ ~r.valid /\ r.ref = 0
           /\ sync.dev = NoVol /\ pend' = WrittenBack(v) /\ pend' \in Versions
           /\ fails' \in Nat /\ Keep /\ UNCHANGED <<pc, buf>>
<1> USE DEF HoldInv
<1>1. PICK v \in Slots :
        /\ slot[v].ref = 0 /\ pend' = WrittenBack(v)
        /\ slot' = [slot EXCEPT ![v] = [Empty EXCEPT !.lba = slot[v].lba]]
  BY VictimOpen DEF ReadFails
<1> DEFINE r == [Empty EXCEPT !.lba = slot[v].lba]
<1>2. r \in SlotType /\ ~r.valid /\ r.ref = 0
  BY DEF TypeOK, SlotType, Empty
<1>3. fails' \in Nat /\ pend' \in Versions
  <2>1. fails' \in Nat
    BY DEF TypeOK, ReadFails, Request
  <2> QED BY <1>1, <2>1, WrittenBackType
<1>4. sync.dev = NoVol /\ Keep /\ UNCHANGED <<pc, buf>>
  BY DEF ReadFails, Asks, BcFree, locks, ghosts, Keep
<1> HIDE DEF r
<1>5. slot' = [slot EXCEPT ![v] = r]
  BY <1>1 DEF r
<1> QED BY <1>1, <1>2, <1>3, <1>4, <1>5

(* A change of the dirty mark keeps the rest of the slot.                     *)
LEMMA DirtyChange ==
  ASSUME NEW f \in [Slots -> SlotType], NEW v \in Slots, NEW b \in BOOLEAN
  PROVE  \E r \in SlotType :
           /\ [f EXCEPT ![v].dirty = b] = [f EXCEPT ![v] = r]
           /\ (r.valid <=> f[v].valid) /\ r.lba = f[v].lba /\ r.data = f[v].data
           /\ (r.dirty <=> b) /\ r.ref = f[v].ref
<1> DEFINE r == [f[v] EXCEPT !.dirty = b]
<1>1. f[v] \in SlotType
  OBVIOUS
<1>2. [f EXCEPT ![v].dirty = b] = [f EXCEPT ![v] = r]
  OBVIOUS
<1>3. /\ r \in SlotType /\ (r.valid <=> f[v].valid) /\ r.lba = f[v].lba
      /\ r.data = f[v].data /\ (r.dirty <=> b) /\ r.ref = f[v].ref
  BY <1>1 DEF SlotType
<1> HIDE DEF r
<1> QED BY <1>2, <1>3

(* The same of the reference count.                                           *)
LEMMA RefChange ==
  ASSUME NEW f \in [Slots -> SlotType], NEW v \in Slots, NEW n \in {0, 1}
  PROVE  \E r \in SlotType :
           /\ [f EXCEPT ![v].ref = n] = [f EXCEPT ![v] = r]
           /\ (r.valid <=> f[v].valid) /\ r.lba = f[v].lba /\ r.data = f[v].data
           /\ (r.dirty <=> f[v].dirty) /\ r.ref = n
<1> DEFINE r == [f[v] EXCEPT !.ref = n]
<1>1. f[v] \in SlotType
  OBVIOUS
<1>2. [f EXCEPT ![v].ref = n] = [f EXCEPT ![v] = r]
  OBVIOUS
<1>3. /\ r \in SlotType /\ (r.valid <=> f[v].valid) /\ r.lba = f[v].lba
      /\ r.data = f[v].data /\ (r.dirty <=> f[v].dirty) /\ r.ref = n
  BY <1>1 DEF SlotType
<1> HIDE DEF r
<1> QED BY <1>2, <1>3

(* The holder's write: its slot's contents, and nothing else of the slot.     *)
LEMMA ModifyView ==
  ASSUME NEW p \in Procs, HoldInv, Modify(p)
  PROVE  \E v \in Slots, r \in SlotType :
           /\ v = buf[p] /\ slot[v].valid /\ slot[v].lba \in Lbas
           /\ slot' = [slot EXCEPT ![v] = r]
           /\ r.valid /\ r.lba = slot[v].lba /\ r.data = ver + 1
           /\ (r.dirty <=> slot[v].dirty) /\ r.ref = slot[v].ref
           /\ pc[p] \in {"got", "overwrite"} /\ ver < MaxWrites /\ ver' = ver + 1
           /\ latest' = [latest EXCEPT ![slot[v].lba] = ver + 1] /\ latest' \in Versions
           /\ pc' = [pc EXCEPT ![p] = "modified"]
           /\ UNCHANGED <<media, pend, buf, vol, sync, done, synced, crashes, fails>>
<1> USE Basics DEF HoldInv, Holding
<1>1. PICK v \in Slots : v = buf[p] /\ slot[v].valid /\ slot[v].lba \in Lbas
  BY DEF TypeOK, Held, Modify
<1>2. slot \in [Slots -> SlotType]
  BY DEF TypeOK
<1>3. PICK d \in Nat : d = ver + 1
  BY DEF TypeOK
<1> DEFINE r == [slot[v] EXCEPT !.data = d]
<1>4. /\ r \in SlotType /\ (r.valid <=> slot[v].valid) /\ r.lba = slot[v].lba
      /\ r.data = d /\ (r.dirty <=> slot[v].dirty) /\ r.ref = slot[v].ref
  <2>1. slot[v] \in SlotType
    BY <1>2
  <2> QED BY <2>1 DEF SlotType
<1>5. slot' = [slot EXCEPT ![v] = r]
  BY <1>1, <1>3 DEF Modify
<1> HIDE DEF r
<1>6. latest' = [latest EXCEPT ![slot[v].lba] = ver + 1] /\ latest' \in Versions
  BY <1>1, <1>3 DEF Modify, TypeOK, Versions
<1>7. /\ pc[p] \in {"got", "overwrite"} /\ ver < MaxWrites /\ ver' = ver + 1
      /\ pc' = [pc EXCEPT ![p] = "modified"]
      /\ UNCHANGED <<media, pend, buf, vol, sync, done, synced, crashes, fails>>
  BY DEF Modify, locks
<1> QED BY <1>1, <1>3, <1>4, <1>5, <1>6, <1>7

(* The holder's mark.                                                         *)
LEMMA MarkView ==
  ASSUME NEW p \in Procs, HoldInv, bcache_mark_dirty(p)
  PROVE  \E v \in Slots, r \in SlotType :
           /\ v = buf[p] /\ slot[v].valid /\ slot[v].lba \in Lbas
           /\ slot' = [slot EXCEPT ![v] = r]
           /\ r.valid /\ r.lba = slot[v].lba /\ r.data = slot[v].data
           /\ r.dirty /\ r.ref = slot[v].ref
           /\ done' = [done EXCEPT ![slot[v].lba] = slot[v].data] /\ done' \in Versions
           /\ pc[p] = "modified" /\ pc' = [pc EXCEPT ![p] = "got"]
           /\ UNCHANGED <<media, pend, buf, vol, sync, latest, synced, ver, crashes, fails>>
<1> USE Basics DEF HoldInv, Holding
<1>1. PICK v \in Slots : v = buf[p] /\ slot[v].valid /\ slot[v].lba \in Lbas
  BY DEF TypeOK, Held, bcache_mark_dirty
<1>2. slot \in [Slots -> SlotType] /\ TRUE \in BOOLEAN /\ slot[v].data \in Nat
  BY DEF TypeOK, SlotType
<1>3. slot' = [slot EXCEPT ![v].dirty = TRUE]
  BY <1>1 DEF bcache_mark_dirty
<1>4. PICK r \in SlotType :
        /\ [slot EXCEPT ![v].dirty = TRUE] = [slot EXCEPT ![v] = r]
        /\ (r.valid <=> slot[v].valid) /\ r.lba = slot[v].lba /\ r.data = slot[v].data
        /\ (r.dirty <=> TRUE) /\ r.ref = slot[v].ref
  BY <1>2, DirtyChange
<1>5. done' = [done EXCEPT ![slot[v].lba] = slot[v].data] /\ done' \in Versions
  BY <1>1, <1>2 DEF bcache_mark_dirty, TypeOK, Versions
<1>6. /\ pc[p] = "modified" /\ pc' = [pc EXCEPT ![p] = "got"]
      /\ UNCHANGED <<media, pend, buf, vol, sync, latest, synced, ver, crashes, fails>>
  BY DEF bcache_mark_dirty, locks
<1>7. slot' = [slot EXCEPT ![v] = r]
  BY <1>3, <1>4
<1> QED BY <1>1, <1>4, <1>5, <1>6, <1>7

(* The release of the only reference.                                         *)
LEMMA ReleaseView ==
  ASSUME NEW p \in Procs, HoldInv, bcache_release(p)
  PROVE  \E v \in Slots, r \in SlotType :
           /\ v = buf[p] /\ slot[v].valid /\ slot[v].ref = 1
           /\ slot' = [slot EXCEPT ![v] = r]
           /\ r.valid /\ r.lba = slot[v].lba /\ r.data = slot[v].data
           /\ (r.dirty <=> slot[v].dirty) /\ r.ref = 0
           /\ pc[p] = "got" /\ pc' = [pc EXCEPT ![p] = "in"]
           /\ buf' = [buf EXCEPT ![p] = NoSlot]
           /\ sync.dev = NoVol /\ pend' = pend /\ fails' = fails /\ Keep
<1> USE Basics DEF HoldInv, Holding
<1>1. PICK v \in Slots : v = buf[p] /\ slot[v].valid /\ slot[v].ref = 1
  BY DEF TypeOK, Held, bcache_release
<1>2. slot \in [Slots -> SlotType] /\ 0 \in {0, 1}
  BY DEF TypeOK
<1>3. slot' = [slot EXCEPT ![v].ref = 0]
  BY <1>1, <1>2 DEF bcache_release
<1>4. PICK r \in SlotType :
        /\ [slot EXCEPT ![v].ref = 0] = [slot EXCEPT ![v] = r]
        /\ (r.valid <=> slot[v].valid) /\ r.lba = slot[v].lba /\ r.data = slot[v].data
        /\ (r.dirty <=> slot[v].dirty) /\ r.ref = 0
  BY <1>2, RefChange
<1>5. /\ pc[p] = "got" /\ pc' = [pc EXCEPT ![p] = "in"]
      /\ buf' = [buf EXCEPT ![p] = NoSlot]
      /\ sync.dev = NoVol /\ pend' = pend /\ fails' = fails /\ Keep
  BY DEF bcache_release, BcFree, Holds, locks, ghosts, Keep
<1>6. slot' = [slot EXCEPT ![v] = r]
  BY <1>3, <1>4
<1> QED BY <1>1, <1>4, <1>5, <1>6

(* The clearing of a mark.                                                    *)
LEMMA SyncClearView ==
  ASSUME HoldInv, SyncClear
  PROVE  \E v \in Slots, r \in SlotType :
           /\ v = sync.next /\ sync.clear /\ sync.dev # NoVol
           /\ slot' = [slot EXCEPT ![v] = r]
           /\ (r.valid <=> slot[v].valid) /\ r.lba = slot[v].lba /\ r.data = slot[v].data
           /\ ~r.dirty /\ r.ref = slot[v].ref
           /\ sync' \in SyncType /\ sync'.dev = sync.dev /\ sync'.next = v + 1 /\ ~sync'.clear
           /\ (sync'.failed <=> sync.failed) /\ sync'.want = sync.want /\ (sync'.drop <=> sync.drop)
           /\ UNCHANGED <<media, pend, vol, pc, buf, latest, done, synced, ver, crashes, fails>>
<1> USE Basics DEF HoldInv, Holding
<1>1. PICK v \in Slots : v = sync.next /\ sync.clear /\ sync.dev # NoVol
  BY DEF SyncClear, Syncing, BcFree
<1>2. slot \in [Slots -> SlotType] /\ FALSE \in BOOLEAN
  BY DEF TypeOK
<1>3. slot' = [slot EXCEPT ![v].dirty = FALSE]
  BY <1>1 DEF SyncClear
<1>4. PICK r \in SlotType :
        /\ [slot EXCEPT ![v].dirty = FALSE] = [slot EXCEPT ![v] = r]
        /\ (r.valid <=> slot[v].valid) /\ r.lba = slot[v].lba /\ r.data = slot[v].data
        /\ (r.dirty <=> FALSE) /\ r.ref = slot[v].ref
  BY <1>2, DirtyChange
<1>5. /\ sync' \in SyncType /\ sync'.dev = sync.dev /\ sync'.next = v + 1 /\ ~sync'.clear
      /\ (sync'.failed <=> sync.failed) /\ sync'.want = sync.want /\ (sync'.drop <=> sync.drop)
  <2>1. v + 1 \in 1 .. NSlots + 1
    BY DEF Slots
  <2>2. sync \in SyncType /\ sync' = [sync EXCEPT !.next = v + 1, !.clear = FALSE]
    BY <1>1 DEF TypeOK, SyncClear
  <2> QED BY <2>1, <2>2 DEF SyncType
<1>6. UNCHANGED <<media, pend, vol, pc, buf, latest, done, synced, ver, crashes, fails>>
  BY DEF SyncClear, ghosts
<1>7. slot' = [slot EXCEPT ![v] = r]
  BY <1>3, <1>4
<1> QED BY <1>1, <1>4, <1>5, <1>6, <1>7

(* The start of a sync.                                                       *)
LEMMA SyncStartView ==
  ASSUME HoldInv, SyncStart
  PROVE  /\ sync.dev = NoVol /\ sync' \in SyncType /\ sync'.dev \in Vols /\ sync'.next = 1
         /\ ~sync'.clear /\ ~sync'.failed /\ sync'.want = done
         /\ \/ \E p \in Procs : /\ pc[p] = "in" /\ pc' = [pc EXCEPT ![p] = "sync"]
                                /\ sync'.dev = On[p]
            \/ ~sync'.drop /\ pc' = pc
         /\ UNCHANGED <<slot, media, pend, vol, buf, latest, done, synced, ver, crashes, fails>>
<1> USE Basics DEF HoldInv
<1>1. 1 \in 1 .. NSlots + 1 /\ done \in Versions
  BY DEF TypeOK
<1>2. /\ sync.dev = NoVol
      /\ UNCHANGED <<slot, media, pend, vol, buf, latest, done, synced, ver, crashes, fails>>
  BY DEF SyncStart, BcFree, ghosts
<1>3. CASE \E p \in Procs, d \in BOOLEAN :
             /\ pc[p] = "in" /\ pc' = [pc EXCEPT ![p] = "sync"]
             /\ sync' = [Idle EXCEPT !.dev = On[p], !.drop = d, !.want = done]
  <2>1. PICK p \in Procs, d \in BOOLEAN :
          /\ pc[p] = "in" /\ pc' = [pc EXCEPT ![p] = "sync"]
          /\ sync' = [Idle EXCEPT !.dev = On[p], !.drop = d, !.want = done]
    BY <1>3
  <2>2. On[p] \in Vols
    OBVIOUS
  <2>3. /\ sync' \in SyncType /\ sync'.dev = On[p] /\ sync'.next = 1
        /\ ~sync'.clear /\ ~sync'.failed /\ sync'.want = done
    BY <1>1, <2>1, <2>2 DEF Idle, SyncType
  <2> QED BY <1>2, <2>1, <2>2, <2>3
<1>4. CASE \E u \in Vols :
             /\ TRUE \in LooseSync /\ sync' = [Idle EXCEPT !.dev = u, !.want = done]
             /\ UNCHANGED pc
  <2>1. PICK u \in Vols :
          /\ TRUE \in LooseSync /\ sync' = [Idle EXCEPT !.dev = u, !.want = done]
          /\ UNCHANGED pc
    BY <1>4
  <2>2. /\ sync' \in SyncType /\ sync'.dev = u /\ sync'.next = 1 /\ ~sync'.drop
        /\ ~sync'.clear /\ ~sync'.failed /\ sync'.want = done
    BY <1>1, <2>1 DEF Idle, SyncType
  <2> QED BY <1>2, <2>1, <2>2
<1> QED BY <1>3, <1>4 DEF SyncStart

(* A slot that is passed.                                                     *)
LEMMA SyncSkipView ==
  ASSUME HoldInv, SyncSkip
  PROVE  \E v \in Slots :
           /\ v = sync.next /\ ~sync.clear /\ sync.dev # NoVol /\ ~(OnDev(v) /\ slot[v].dirty)
           /\ sync' \in SyncType /\ sync'.dev = sync.dev /\ sync'.next = v + 1 /\ ~sync'.clear
           /\ (sync'.failed <=> sync.failed) /\ sync'.want = sync.want /\ (sync'.drop <=> sync.drop)
           /\ UNCHANGED <<slot, media, pend, vol, pc, buf, latest, done, synced, ver, crashes,
                          fails>>
<1> USE Basics DEF HoldInv
<1>1. PICK v \in Slots :
        v = sync.next /\ ~sync.clear /\ sync.dev # NoVol /\ ~(OnDev(v) /\ slot[v].dirty)
  BY DEF SyncSkip, Syncing, BcFree
<1>2. /\ sync' \in SyncType /\ sync'.dev = sync.dev /\ sync'.next = v + 1 /\ ~sync'.clear
      /\ (sync'.failed <=> sync.failed) /\ sync'.want = sync.want /\ (sync'.drop <=> sync.drop)
  <2>1. v + 1 \in 1 .. NSlots + 1
    BY DEF Slots
  <2>2. sync \in SyncType /\ sync' = [sync EXCEPT !.next = v + 1]
    BY <1>1 DEF TypeOK, SyncSkip
  <2> QED BY <1>1, <2>1, <2>2 DEF SyncType
<1>3. UNCHANGED <<slot, media, pend, vol, pc, buf, latest, done, synced, ver, crashes, fails>>
  BY DEF SyncSkip, ghosts
<1> QED BY <1>1, <1>2, <1>3

(* A slot that is written, or whose write fails.                              *)
LEMMA SyncWriteView ==
  ASSUME NEW ok \in BOOLEAN, HoldInv, SyncWrite(ok)
  PROVE  \E v \in Slots :
           /\ v = sync.next /\ ~sync.clear /\ sync.dev # NoVol /\ OnDev(v) /\ slot[v].dirty
           /\ sync' \in SyncType /\ sync'.dev = sync.dev /\ sync'.want = sync.want /\ (sync'.drop <=> sync.drop)
           /\ \/ /\ pend' = [pend EXCEPT ![slot[v].lba] = slot[v].data]
                 /\ sync'.next = v /\ sync'.clear /\ (sync'.failed <=> sync.failed)
              \/ pend' = pend /\ sync'.next = v + 1 /\ ~sync'.clear /\ sync'.failed
           /\ pend' \in Versions /\ fails' \in Nat
           /\ UNCHANGED <<slot, media, vol, pc, buf, latest, done, synced, ver, crashes>>
<1> USE Basics DEF HoldInv
<1>1. PICK v \in Slots :
        v = sync.next /\ ~sync.clear /\ sync.dev # NoVol /\ OnDev(v) /\ slot[v].dirty
  BY DEF SyncWrite, Syncing, BcFree
<1>2. slot[v] \in SlotType /\ slot[v].data \in Nat /\ sync \in SyncType /\ pend \in Versions
  BY DEF TypeOK, SlotType
<1>3. /\ fails' \in Nat
      /\ UNCHANGED <<slot, media, vol, pc, buf, latest, done, synced, ver, crashes>>
  BY DEF SyncWrite, Request, ghosts, TypeOK
<1>4. CASE ok
  <2>1. /\ pend' = [pend EXCEPT ![slot[v].lba] = slot[v].data]
        /\ sync' = [sync EXCEPT !.clear = TRUE]
    BY <1>1, <1>4 DEF SyncWrite
  <2>2. pend' \in Versions
    BY <1>2, <2>1 DEF Versions
  <2>3. /\ sync' \in SyncType /\ sync'.dev = sync.dev /\ sync'.want = sync.want /\ (sync'.drop <=> sync.drop)
        /\ sync'.next = v /\ sync'.clear /\ (sync'.failed <=> sync.failed)
    BY <1>1, <1>2, <2>1 DEF SyncType
  <2> QED BY <1>1, <1>3, <2>1, <2>2, <2>3
<1>5. CASE ~ok
  <2>1. sync' = [sync EXCEPT !.next = v + 1, !.failed = TRUE] /\ pend' = pend
    BY <1>1, <1>5 DEF SyncWrite
  <2>2. v + 1 \in 1 .. NSlots + 1
    BY DEF Slots
  <2>3. /\ sync' \in SyncType /\ sync'.dev = sync.dev /\ sync'.want = sync.want /\ (sync'.drop <=> sync.drop)
        /\ sync'.next = v + 1 /\ ~sync'.clear /\ sync'.failed
    BY <1>1, <1>2, <2>1, <2>2 DEF SyncType
  <2> QED BY <1>1, <1>2, <1>3, <2>1, <2>3
<1> QED BY <1>4, <1>5

(* The state no sync is under way in.                                         *)
LEMMA IdleType == Idle \in SyncType /\ Idle.dev = NoVol
<1>1. 1 \in 1 .. NSlots + 1
  BY Basics
<1> QED BY <1>1 DEF Idle, SyncType, Versions

(* The end of a sync: what the device had taken is on the medium.             *)
LEMMA SyncEndView ==
  ASSUME NEW ok \in BOOLEAN, HoldInv, SyncEnd(ok)
  PROVE  /\ sync.dev # NoVol /\ sync.next = NSlots + 1
         /\ slot' \in [Slots -> SlotType]
         /\ \A s \in Slots :
              \/ slot'[s] = slot[s]
              \/ /\ ~slot'[s].valid /\ slot'[s].ref = 0 /\ slot[s].ref = 0 /\ OnDev(s)
                 /\ sync.drop /\ ~sync.failed
         /\ sync' \in SyncType /\ sync'.dev = NoVol
         /\ media' = [l \in Lbas |-> IF ok /\ VolOf[l] = sync.dev THEN Device(pend, l)
                                    ELSE media[l]]
         /\ pend' = [l \in Lbas |-> IF ok /\ VolOf[l] = sync.dev THEN None ELSE pend[l]]
         /\ synced' = [l \in Lbas |-> IF VolOf[l] = sync.dev /\ ok /\ ~sync.failed
                                      THEN sync.want[l] ELSE synced[l]]
         /\ media' \in Versions /\ pend' \in Versions /\ synced' \in Versions
         /\ pc' = [p \in Procs |-> IF pc[p] = "sync" THEN "in" ELSE pc[p]]
         /\ fails' \in Nat /\ UNCHANGED <<vol, buf, latest, done, ver, crashes>>
<1> USE Basics DEF HoldInv
<1>1. sync.dev # NoVol /\ sync.next = NSlots + 1
  BY DEF SyncEnd, SyncOver, BcFree
<1>2. /\ slot' \in [Slots -> SlotType]
      /\ \A s \in Slots :
           \/ slot'[s] = slot[s]
           \/ /\ ~slot'[s].valid /\ slot'[s].ref = 0 /\ slot[s].ref = 0 /\ OnDev(s)
              /\ sync.drop /\ ~sync.failed
  <2>1. Empty \in SlotType /\ ~Empty.valid /\ Empty.ref = 0
    BY DEF Empty, SlotType
  <2>2. slot' = [s \in Slots |-> IF s \in Dropped THEN Empty ELSE slot[s]]
    BY DEF SyncEnd
  <2>3. \A s \in Dropped : OnDev(s) /\ slot[s].ref = 0 /\ sync.drop /\ ~sync.failed
    BY DEF Dropped
  <2> HIDE DEF Empty
  <2> QED BY <2>1, <2>2, <2>3 DEF TypeOK
<1>3. /\ sync' \in SyncType /\ sync'.dev = NoVol
      /\ media' = [l \in Lbas |-> IF ok /\ VolOf[l] = sync.dev THEN Device(pend, l)
                                 ELSE media[l]]
      /\ pend' = [l \in Lbas |-> IF ok /\ VolOf[l] = sync.dev THEN None ELSE pend[l]]
      /\ synced' = [l \in Lbas |-> IF VolOf[l] = sync.dev /\ ok /\ ~sync.failed
                                   THEN sync.want[l] ELSE synced[l]]
      /\ pc' = [p \in Procs |-> IF pc[p] = "sync" THEN "in" ELSE pc[p]]
      /\ UNCHANGED <<vol, buf, latest, done, ver, crashes>>
  BY IdleType DEF SyncEnd, Flushed
<1>4. media' \in Versions
  <2>1. pend \in Versions /\ media \in Versions
    BY DEF TypeOK
  <2>2. \A l \in Lbas : Device(pend, l) \in Nat
    BY <2>1, DeviceType
  <2> QED BY <1>3, <2>1, <2>2 DEF Versions
<1>5. pend' \in Versions
  BY <1>3 DEF TypeOK, Versions
<1>6. synced' \in Versions
  <2>1. sync.want \in Versions
    BY DEF TypeOK, SyncType
  <2> QED BY <1>3, <2>1 DEF TypeOK, Versions
<1>7. fails' \in Nat
  BY DEF SyncEnd, Request, TypeOK
<1> QED BY <1>1, <1>2, <1>3, <1>4, <1>5, <1>6, <1>7

(* A crash: the medium keeps some of what the device had taken.               *)
LEMMA CrashView ==
  ASSUME HoldInv, Crash
  PROVE  /\ sync' \in SyncType /\ sync'.dev = NoVol
         /\ slot' \in [Slots -> SlotType]
         /\ \A s \in Slots : ~slot'[s].valid /\ slot'[s].ref = 0
         /\ crashes' = crashes + 1 /\ pend' = [l \in Lbas |-> None] /\ pend' \in Versions
         /\ vol' = [u \in Vols |-> NoProc]
         /\ pc' = [p \in Procs |-> "out"] /\ buf' = [p \in Procs |-> NoSlot]
         /\ media' \in Versions
         /\ \A l \in Lbas : media'[l] = media[l] \/ (pend[l] # None /\ media'[l] = pend[l])
         /\ latest' = media' /\ done' = media' /\ UNCHANGED <<synced, ver, fails>>
<1> USE Basics DEF HoldInv
<1>1. Empty \in SlotType /\ ~Empty.valid /\ Empty.ref = 0
  BY DEF Empty, SlotType
<1>2. /\ sync' \in SyncType /\ sync'.dev = NoVol
      /\ slot' = [s \in Slots |-> Empty]
      /\ crashes' = crashes + 1 /\ pend' = [l \in Lbas |-> None]
      /\ vol' = [u \in Vols |-> NoProc]
      /\ pc' = [p \in Procs |-> "out"] /\ buf' = [p \in Procs |-> NoSlot]
      /\ latest' = media' /\ done' = media' /\ UNCHANGED <<synced, ver, fails>>
  BY IdleType DEF Crash
<1>3. pend' \in Versions
  BY <1>2 DEF Versions
<1>4. PICK kept \in SUBSET {l \in Lbas : pend[l] # None} :
        media' = [l \in Lbas |-> IF l \in kept THEN pend[l] ELSE media[l]]
  BY DEF Crash
<1>5. media' \in Versions
  BY <1>4 DEF TypeOK, Versions
<1>6. \A l \in Lbas : media'[l] = media[l] \/ (pend[l] # None /\ media'[l] = pend[l])
  BY <1>4
<1>7. slot' \in [Slots -> SlotType] /\ \A s \in Slots : ~slot'[s].valid /\ slot'[s].ref = 0
  <2> HIDE DEF Empty
  <2> QED BY <1>1, <1>2
<1> QED BY <1>2, <1>3, <1>5, <1>6, <1>7

(* A task takes its volume's lock.                                            *)
LEMMA EnterView ==
  ASSUME NEW p \in Procs, HoldInv, Enter(p)
  PROVE  /\ pc[p] = "out" /\ vol[On[p]] = NoProc
         /\ vol' = [vol EXCEPT ![On[p]] = p] /\ pc' = [pc EXCEPT ![p] = "in"]
         /\ UNCHANGED <<slot, media, pend, buf, sync, latest, done, synced, ver, crashes, fails>>
BY DEF Enter, ghosts

(* A task gives it back.                                                      *)
LEMMA LeaveView ==
  ASSUME NEW p \in Procs, HoldInv, Leave(p)
  PROVE  /\ pc[p] = "in"
         /\ vol' = [vol EXCEPT ![On[p]] = NoProc] /\ pc' = [pc EXCEPT ![p] = "out"]
         /\ UNCHANGED <<slot, media, pend, buf, sync, latest, done, synced, ver, crashes, fails>>
BY DEF Leave, ghosts

(* An eviction whose write fails.                                             *)
LEMMA EvictFailsView ==
  ASSUME NEW p \in Procs, NEW l \in Lbas, HoldInv, EvictFails(p, l)
  PROVE  /\ fails' \in Nat
         /\ UNCHANGED <<slot, media, pend, vol, pc, buf, sync, latest, done, synced, ver, crashes>>
BY DEF EvictFails, Request, locks, ghosts, TypeOK, HoldInv

-----------------------------------------------------------------------------
(* Steps: locks, holders and copies.                                          *)

(* A task takes the lock of its volume.                                       *)
LEMMA EnterHold ==
  ASSUME NEW p \in Procs, HoldInv, Enter(p)
  PROVE  HoldInv'
<1>0. /\ pc[p] = "out" /\ vol[On[p]] = NoProc
      /\ vol' = [vol EXCEPT ![On[p]] = p] /\ pc' = [pc EXCEPT ![p] = "in"]
      /\ UNCHANGED <<slot, media, pend, buf, sync, latest, done, synced, ver, crashes, fails>>
  BY EnterView
<1> USE Basics DEF HoldInv, Holding, Keep
<1>1. TypeOK'
  BY <1>0 DEF TypeOK
<1>2. Locks'
  <2> SUFFICES ASSUME NEW q \in Procs
               PROVE  /\ pc'[q] # "out" <=> vol'[On[q]] = q
                      /\ pc'[q] = "sync" => sync'.dev = On[q]
    BY DEF Locks
  <2>1. CASE q = p
    BY <1>0, <2>1 DEF TypeOK, Locks
  <2>2. CASE q # p
    <3>1. pc'[q] = pc[q] /\ (vol'[On[q]] = q <=> vol[On[q]] = q) /\ sync' = sync
      BY <1>0, <2>2 DEF TypeOK
    <3> QED BY <3>1 DEF Locks
  <2> QED BY <2>1, <2>2
<1>3. Held'
  BY <1>0 DEF TypeOK, Locks, Held
<1>4. OneCopy'
  BY <1>0 DEF TypeOK, Held, OneCopy, Cached
<1> QED BY <1>1, <1>2, <1>3, <1>4

(* A task gives the lock back; it holds no slot.                              *)
LEMMA LeaveHold ==
  ASSUME NEW p \in Procs, HoldInv, Leave(p)
  PROVE  HoldInv'
<1>0. /\ pc[p] = "in"
      /\ vol' = [vol EXCEPT ![On[p]] = NoProc] /\ pc' = [pc EXCEPT ![p] = "out"]
      /\ UNCHANGED <<slot, media, pend, buf, sync, latest, done, synced, ver, crashes, fails>>
  BY LeaveView
<1> USE Basics DEF HoldInv, Holding, Keep
<1>1. TypeOK'
  BY <1>0 DEF TypeOK
<1>2. Locks'
  BY <1>0 DEF TypeOK, Locks
<1>3. Held'
  BY <1>0 DEF TypeOK, Locks, Held
<1>4. OneCopy'
  BY <1>0 DEF TypeOK, Held, OneCopy, Cached
<1> QED BY <1>1, <1>2, <1>3, <1>4

(* A hit: the slot gets its only holder.                                      *)
LEMMA GetHitHold ==
  ASSUME NEW p \in Procs, NEW l \in Lbas, HoldInv, GetHit(p, l)
  PROVE  HoldInv'
<1>0. PICK v \in Slots, r \in SlotType :
        /\ slot' = [slot EXCEPT ![v] = r] /\ slot[v].valid /\ slot[v].lba = l
        /\ slot[v].ref = 0 /\ r.valid /\ r.lba = l /\ r.data = slot[v].data
        /\ (r.dirty <=> slot[v].dirty) /\ r.ref = 1
        /\ buf' = [buf EXCEPT ![p] = v] /\ pc' = [pc EXCEPT ![p] = "got"]
        /\ pc[p] = "in" /\ sync.dev = NoVol /\ VolOf[l] = On[p]
        /\ pend' = pend /\ fails' = fails /\ Keep
  BY GetHitView
<1> USE Basics DEF HoldInv, Holding, Keep
<1>1. TypeOK'
  BY <1>0 DEF TypeOK
<1>2. Locks'
  BY <1>0 DEF TypeOK, Locks
<1>3. Held'
  BY <1>0 DEF TypeOK, Locks, Held
<1>4. OneCopy'
  BY <1>0 DEF TypeOK, Held, OneCopy, Cached
<1> QED BY <1>1, <1>2, <1>3, <1>4

(* A failed eviction changes nothing.                                         *)
LEMMA EvictFailsHold ==
  ASSUME NEW p \in Procs, NEW l \in Lbas, HoldInv, EvictFails(p, l)
  PROVE  HoldInv'
<1>0. /\ fails' \in Nat
      /\ UNCHANGED <<slot, media, pend, vol, pc, buf, sync, latest, done, synced, ver, crashes>>
  BY EvictFailsView
<1> USE Basics DEF HoldInv, Holding, Keep
<1>1. TypeOK'
  BY <1>0 DEF TypeOK
<1>2. Locks'
  BY <1>0 DEF TypeOK, Locks
<1>3. Held'
  BY <1>0 DEF TypeOK, Locks, Held
<1>4. OneCopy'
  BY <1>0 DEF TypeOK, Held, OneCopy, Cached
<1> QED BY <1>1, <1>2, <1>3, <1>4

(* A victim nobody holds is filled with a sector no slot has.                 *)
LEMMA GetOverwriteHold ==
  ASSUME NEW p \in Procs, NEW l \in Lbas, HoldInv, GetOverwrite(p, l)
  PROVE  HoldInv'
<1>0. PICK v \in Slots, r \in SlotType :
        /\ slot' = [slot EXCEPT ![v] = r] /\ slot[v].ref = 0
        /\ r.valid /\ r.lba = l /\ r.data = Zeros /\ ~r.dirty /\ r.ref = 1
        /\ buf' = [buf EXCEPT ![p] = v] /\ pc' = [pc EXCEPT ![p] = "overwrite"]
        /\ pc[p] = "in" /\ sync.dev = NoVol /\ VolOf[l] = On[p] /\ ~Cached(l)
        /\ pend' = WrittenBack(v) /\ pend' \in Versions /\ fails' = fails /\ Keep
  BY GetOverwriteView
<1> USE Basics DEF HoldInv, Holding, Keep
<1>1. TypeOK'
  BY <1>0 DEF TypeOK
<1>2. Locks'
  BY <1>0 DEF TypeOK, Locks
<1>3. Held'
  BY <1>0 DEF TypeOK, Locks, Held
<1>4. OneCopy'
  BY <1>0 DEF TypeOK, Held, OneCopy, Cached
<1> QED BY <1>1, <1>2, <1>3, <1>4

(* A victim, and perhaps a second one for the next sector, is filled with a   *)
(* sector no slot has.                                                        *)
LEMMA GetMissHold ==
  ASSUME NEW p \in Procs, NEW l \in Lbas, HoldInv, GetMiss(p, l)
  PROVE  HoldInv'
<1>0. PICK v \in Slots, r \in SlotType :
        /\ slot[v].ref = 0
        /\ r.valid /\ r.lba = l /\ r.data = Device(pend', l) /\ ~r.dirty /\ r.ref = 1
        /\ buf' = [buf EXCEPT ![p] = v] /\ pc' = [pc EXCEPT ![p] = "got"]
        /\ pc[p] = "in" /\ sync.dev = NoVol /\ VolOf[l] = On[p] /\ ~Cached(l)
        /\ pend' = WrittenBack(v) /\ pend' \in Versions /\ fails' \in Nat /\ Keep
        /\ \/ slot' = [slot EXCEPT ![v] = r]
           \/ \E w \in Slots \ {v}, t \in SlotType :
                /\ slot[w].ref = 0 /\ ~(slot[w].valid /\ slot[w].dirty)
                /\ l + 1 \in Lbas /\ NotIn(v, l + 1)
                /\ t.valid /\ t.lba = l + 1 /\ t.data = Device(pend', l + 1)
                /\ ~t.dirty /\ t.ref = 0
                /\ slot' = [[slot EXCEPT ![v] = r] EXCEPT ![w] = t]
  BY GetMissView
<1> USE Basics DEF HoldInv, Holding, Keep
<1>1. TypeOK'
  BY <1>0 DEF TypeOK
<1>2. Locks'
  BY <1>0 DEF TypeOK, Locks
<1>3. Held'
  BY <1>0 DEF TypeOK, Locks, Held
<1>4. OneCopy'
  BY <1>0 DEF TypeOK, Held, OneCopy, Cached, NotIn
<1> QED BY <1>1, <1>2, <1>3, <1>4

(* A victim nobody holds is dropped.                                          *)
LEMMA ReadFailsHold ==
  ASSUME NEW p \in Procs, NEW l \in Lbas, HoldInv, ReadFails(p, l)
  PROVE  HoldInv'
<1>0. PICK v \in Slots, r \in SlotType :
        /\ slot' = [slot EXCEPT ![v] = r] /\ slot[v].ref = 0 /\ ~r.valid /\ r.ref = 0
        /\ sync.dev = NoVol /\ pend' = WrittenBack(v) /\ pend' \in Versions
        /\ fails' \in Nat /\ Keep /\ UNCHANGED <<pc, buf>>
  BY ReadFailsView
<1> USE Basics DEF HoldInv, Holding, Keep
<1>1. TypeOK'
  BY <1>0 DEF TypeOK
<1>2. Locks'
  BY <1>0 DEF TypeOK, Locks
<1>3. Held'
  BY <1>0 DEF TypeOK, Locks, Held
<1>4. OneCopy'
  BY <1>0 DEF TypeOK, Held, OneCopy, Cached
<1> QED BY <1>1, <1>2, <1>3, <1>4

(* The holder changes its slot's contents.                                    *)
LEMMA ModifyHold ==
  ASSUME NEW p \in Procs, HoldInv, Modify(p)
  PROVE  HoldInv'
<1>0. PICK v \in Slots, r \in SlotType :
        /\ v = buf[p] /\ slot[v].valid /\ slot[v].lba \in Lbas
        /\ slot' = [slot EXCEPT ![v] = r]
        /\ r.valid /\ r.lba = slot[v].lba /\ r.data = ver + 1
        /\ (r.dirty <=> slot[v].dirty) /\ r.ref = slot[v].ref
        /\ pc[p] \in {"got", "overwrite"} /\ ver < MaxWrites /\ ver' = ver + 1
        /\ latest' = [latest EXCEPT ![slot[v].lba] = ver + 1] /\ latest' \in Versions
        /\ pc' = [pc EXCEPT ![p] = "modified"]
        /\ UNCHANGED <<media, pend, buf, vol, sync, done, synced, crashes, fails>>
  BY ModifyView
<1> USE Basics DEF HoldInv, Holding, Keep
<1>1. TypeOK'
  BY <1>0 DEF TypeOK
<1>2. Locks'
  BY <1>0 DEF TypeOK, Locks
<1>3. Held'
  BY <1>0 DEF TypeOK, Locks, Held
<1>4. OneCopy'
  BY <1>0 DEF TypeOK, Held, OneCopy, Cached
<1> QED BY <1>1, <1>2, <1>3, <1>4

(* The holder marks its slot.                                                 *)
LEMMA bcache_mark_dirtyHold ==
  ASSUME NEW p \in Procs, HoldInv, bcache_mark_dirty(p)
  PROVE  HoldInv'
<1>0. PICK v \in Slots, r \in SlotType :
        /\ v = buf[p] /\ slot[v].valid /\ slot[v].lba \in Lbas
        /\ slot' = [slot EXCEPT ![v] = r]
        /\ r.valid /\ r.lba = slot[v].lba /\ r.data = slot[v].data
        /\ r.dirty /\ r.ref = slot[v].ref
        /\ done' = [done EXCEPT ![slot[v].lba] = slot[v].data] /\ done' \in Versions
        /\ pc[p] = "modified" /\ pc' = [pc EXCEPT ![p] = "got"]
        /\ UNCHANGED <<media, pend, buf, vol, sync, latest, synced, ver, crashes, fails>>
  BY MarkView
<1> USE Basics DEF HoldInv, Holding, Keep
<1>1. TypeOK'
  BY <1>0 DEF TypeOK
<1>2. Locks'
  BY <1>0 DEF TypeOK, Locks
<1>3. Held'
  BY <1>0 DEF TypeOK, Locks, Held
<1>4. OneCopy'
  BY <1>0 DEF TypeOK, Held, OneCopy, Cached
<1> QED BY <1>1, <1>2, <1>3, <1>4

(* The only holder lets go.                                                   *)
LEMMA bcache_releaseHold ==
  ASSUME NEW p \in Procs, HoldInv, bcache_release(p)
  PROVE  HoldInv'
<1>0. PICK v \in Slots, r \in SlotType :
        /\ v = buf[p] /\ slot[v].valid /\ slot[v].ref = 1
        /\ slot' = [slot EXCEPT ![v] = r]
        /\ r.valid /\ r.lba = slot[v].lba /\ r.data = slot[v].data
        /\ (r.dirty <=> slot[v].dirty) /\ r.ref = 0
        /\ pc[p] = "got" /\ pc' = [pc EXCEPT ![p] = "in"]
        /\ buf' = [buf EXCEPT ![p] = NoSlot]
        /\ sync.dev = NoVol /\ pend' = pend /\ fails' = fails /\ Keep
  BY ReleaseView
<1> USE Basics DEF HoldInv, Holding, Keep
<1>1. TypeOK'
  BY <1>0 DEF TypeOK
<1>2. Locks'
  BY <1>0 DEF TypeOK, Locks
<1>3. Held'
  BY <1>0 DEF TypeOK, Locks, Held
<1>4. OneCopy'
  BY <1>0 DEF TypeOK, Held, OneCopy, Cached
<1> QED BY <1>1, <1>2, <1>3, <1>4

(* A sync starts when none is under way.                                      *)
LEMMA SyncStartHold ==
  ASSUME HoldInv, SyncStart
  PROVE  HoldInv'
<1>0. /\ sync.dev = NoVol /\ sync' \in SyncType /\ sync'.dev \in Vols /\ sync'.next = 1
      /\ ~sync'.clear /\ ~sync'.failed /\ sync'.want = done
      /\ \/ \E p \in Procs : /\ pc[p] = "in" /\ pc' = [pc EXCEPT ![p] = "sync"]
                             /\ sync'.dev = On[p]
         \/ ~sync'.drop /\ pc' = pc
      /\ UNCHANGED <<slot, media, pend, vol, buf, latest, done, synced, ver, crashes, fails>>
  BY SyncStartView
<1> USE Basics DEF HoldInv, Holding, Keep
<1>1. TypeOK'
  BY <1>0 DEF TypeOK
<1>2. Locks'
  <2>1. CASE pc' = pc
    BY <1>0, <2>1 DEF TypeOK, Locks
  <2>2. ASSUME NEW p \in Procs, pc[p] = "in", pc' = [pc EXCEPT ![p] = "sync"], sync'.dev = On[p]
        PROVE  Locks'
    BY <1>0, <2>2 DEF TypeOK, Locks
  <2> QED BY <1>0, <2>1, <2>2
<1>3. Held'
  <2>1. CASE pc' = pc
    BY <1>0, <2>1 DEF Held
  <2>2. ASSUME NEW p \in Procs, pc[p] = "in", pc' = [pc EXCEPT ![p] = "sync"]
        PROVE  Held'
    <3>1. \A q \in Procs : pc'[q] \in Holding <=> pc[q] \in Holding
      BY <2>2 DEF TypeOK
    <3> HIDE DEF Holding
    <3> QED BY <1>0, <3>1 DEF Held
  <2> QED BY <1>0, <2>1, <2>2
<1>4. OneCopy'
  BY <1>0 DEF TypeOK, Held, OneCopy, Cached
<1> QED BY <1>1, <1>2, <1>3, <1>4

(* A sync passes a slot that is not dirty.                                    *)
LEMMA SyncSkipHold ==
  ASSUME HoldInv, SyncSkip
  PROVE  HoldInv'
<1>0. PICK v \in Slots :
        /\ v = sync.next /\ ~sync.clear /\ sync.dev # NoVol /\ ~(OnDev(v) /\ slot[v].dirty)
        /\ sync' \in SyncType /\ sync'.dev = sync.dev /\ sync'.next = v + 1 /\ ~sync'.clear
        /\ (sync'.failed <=> sync.failed) /\ sync'.want = sync.want
        /\ UNCHANGED <<slot, media, pend, vol, pc, buf, latest, done, synced, ver, crashes,
                       fails>>
  BY SyncSkipView
<1> USE Basics DEF HoldInv, Holding, Keep
<1>1. TypeOK'
  BY <1>0 DEF TypeOK
<1>2. Locks'
  BY <1>0 DEF TypeOK, Locks
<1>3. Held'
  BY <1>0 DEF TypeOK, Locks, Held
<1>4. OneCopy'
  BY <1>0 DEF TypeOK, Held, OneCopy, Cached
<1> QED BY <1>1, <1>2, <1>3, <1>4

(* A sync writes a slot.                                                      *)
LEMMA SyncWriteHold ==
  ASSUME NEW ok \in BOOLEAN, HoldInv, SyncWrite(ok)
  PROVE  HoldInv'
<1>0. PICK v \in Slots :
        /\ v = sync.next /\ ~sync.clear /\ sync.dev # NoVol /\ OnDev(v) /\ slot[v].dirty
        /\ sync' \in SyncType /\ sync'.dev = sync.dev /\ sync'.want = sync.want
        /\ \/ /\ pend' = [pend EXCEPT ![slot[v].lba] = slot[v].data]
              /\ sync'.next = v /\ sync'.clear /\ (sync'.failed <=> sync.failed)
           \/ pend' = pend /\ sync'.next = v + 1 /\ ~sync'.clear /\ sync'.failed
        /\ pend' \in Versions /\ fails' \in Nat
        /\ UNCHANGED <<slot, media, vol, pc, buf, latest, done, synced, ver, crashes>>
  BY SyncWriteView
<1> USE Basics DEF HoldInv, Holding, Keep
<1>1. TypeOK'
  BY <1>0 DEF TypeOK
<1>2. Locks'
  BY <1>0 DEF TypeOK, Locks
<1>3. Held'
  BY <1>0 DEF TypeOK, Locks, Held
<1>4. OneCopy'
  BY <1>0 DEF TypeOK, Held, OneCopy, Cached
<1> QED BY <1>1, <1>2, <1>3, <1>4

(* A sync clears a mark.                                                      *)
LEMMA SyncClearHold ==
  ASSUME HoldInv, SyncClear
  PROVE  HoldInv'
<1>0. PICK v \in Slots, r \in SlotType :
        /\ v = sync.next /\ sync.clear /\ sync.dev # NoVol
        /\ slot' = [slot EXCEPT ![v] = r]
        /\ (r.valid <=> slot[v].valid) /\ r.lba = slot[v].lba /\ r.data = slot[v].data
        /\ ~r.dirty /\ r.ref = slot[v].ref
        /\ sync' \in SyncType /\ sync'.dev = sync.dev /\ sync'.next = v + 1 /\ ~sync'.clear
        /\ (sync'.failed <=> sync.failed) /\ sync'.want = sync.want
        /\ UNCHANGED <<media, pend, vol, pc, buf, latest, done, synced, ver, crashes, fails>>
  BY SyncClearView
<1> USE Basics DEF HoldInv, Holding, Keep
<1>1. TypeOK'
  BY <1>0 DEF TypeOK
<1>2. Locks'
  BY <1>0 DEF TypeOK, Locks
<1>3. Held'
  BY <1>0 DEF TypeOK, Locks, Held
<1>4. OneCopy'
  BY <1>0 DEF TypeOK, Held, OneCopy, Cached
<1> QED BY <1>1, <1>2, <1>3, <1>4

(* The end of a sync drops no slot that is held.                              *)
LEMMA SyncEndHold ==
  ASSUME NEW ok \in BOOLEAN, HoldInv, SyncEnd(ok)
  PROVE  HoldInv'
<1>0. /\ sync.dev # NoVol /\ sync.next = NSlots + 1
      /\ slot' \in [Slots -> SlotType]
      /\ \A s \in Slots :
           \/ slot'[s] = slot[s]
           \/ /\ ~slot'[s].valid /\ slot'[s].ref = 0 /\ slot[s].ref = 0 /\ OnDev(s)
              /\ sync.drop /\ ~sync.failed
      /\ sync' \in SyncType /\ sync'.dev = NoVol
      /\ media' = [l \in Lbas |-> IF ok /\ VolOf[l] = sync.dev THEN Device(pend, l)
                                 ELSE media[l]]
      /\ pend' = [l \in Lbas |-> IF ok /\ VolOf[l] = sync.dev THEN None ELSE pend[l]]
      /\ synced' = [l \in Lbas |-> IF VolOf[l] = sync.dev /\ ok /\ ~sync.failed
                                   THEN sync.want[l] ELSE synced[l]]
      /\ media' \in Versions /\ pend' \in Versions /\ synced' \in Versions
      /\ pc' = [p \in Procs |-> IF pc[p] = "sync" THEN "in" ELSE pc[p]]
      /\ fails' \in Nat /\ UNCHANGED <<vol, buf, latest, done, ver, crashes>>
  BY SyncEndView
<1> USE Basics DEF HoldInv, Holding, Keep
<1>1. TypeOK'
  BY <1>0 DEF TypeOK
<1>2. Locks'
  BY <1>0 DEF TypeOK, Locks
<1>3. Held'
  <2>1. ASSUME NEW p \in Procs
        PROVE  /\ buf'[p] # NoSlot <=> pc'[p] \in Holding
               /\ buf'[p] # NoSlot => /\ slot'[buf'[p]].valid /\ slot'[buf'[p]].ref = 1
                                      /\ VolOf[slot'[buf'[p]].lba] = On[p]
    <3>1. buf'[p] = buf[p] /\ (pc'[p] \in Holding <=> pc[p] \in Holding)
      BY <1>0 DEF TypeOK
    <3>2. CASE buf[p] = NoSlot
      BY <3>1, <3>2 DEF Held
    <3>3. CASE buf[p] # NoSlot
      <4>1. buf[p] \in Slots /\ slot[buf[p]].ref = 1
        BY <3>3 DEF TypeOK, Held
      <4>2. PICK s \in Slots : s = buf[p]
        BY <4>1
      <4>3. slot'[s] = slot[s]
        BY <1>0, <4>1, <4>2
      <4> QED BY <3>1, <3>3, <4>2, <4>3 DEF Held
    <3> QED BY <3>2, <3>3
  <2>2. ASSUME NEW s \in Slots
        PROVE  /\ slot'[s].ref = 1 => \E p \in Procs : buf'[p] = s
               /\ slot'[s].valid => slot'[s].lba \in Lbas
    BY <1>0, <2>2 DEF Held
  <2> QED BY <2>1, <2>2 DEF Held
<1>4. OneCopy'
  BY <1>0 DEF TypeOK, Held, OneCopy, Cached
<1> QED BY <1>1, <1>2, <1>3, <1>4

(* After a crash nothing is held.                                             *)
LEMMA CrashHold ==
  ASSUME HoldInv, Crash
  PROVE  HoldInv'
<1>0. /\ sync' \in SyncType /\ sync'.dev = NoVol
      /\ slot' \in [Slots -> SlotType]
      /\ \A s \in Slots : ~slot'[s].valid /\ slot'[s].ref = 0
      /\ crashes' = crashes + 1 /\ pend' = [l \in Lbas |-> None] /\ pend' \in Versions
      /\ vol' = [u \in Vols |-> NoProc]
      /\ pc' = [p \in Procs |-> "out"] /\ buf' = [p \in Procs |-> NoSlot]
      /\ media' \in Versions
      /\ \A l \in Lbas : media'[l] = media[l] \/ (pend[l] # None /\ media'[l] = pend[l])
      /\ latest' = media' /\ done' = media' /\ UNCHANGED <<synced, ver, fails>>
  BY CrashView
<1> USE Basics DEF HoldInv, Holding, Keep
<1>1. TypeOK'
  BY <1>0 DEF TypeOK
<1>2. Locks'
  BY <1>0 DEF TypeOK, Locks
<1>3. Held'
  BY <1>0 DEF TypeOK, Locks, Held
<1>4. OneCopy'
  BY <1>0 DEF TypeOK, Held, OneCopy, Cached
<1> QED BY <1>1, <1>2, <1>3, <1>4

-----------------------------------------------------------------------------
(* Contents, when every sync is made under the volume lock.                   *)

(* A slot has one holder: two would be on one volume, whose lock one has.     *)
LEMMA OneHolder ==
  ASSUME HoldInv, NEW p \in Procs, NEW q \in Procs, buf[p] = buf[q], buf[p] # NoSlot
  PROVE  p = q
<1>1. On[p] = On[q] /\ pc[p] # "out" /\ pc[q] # "out"
  BY DEF HoldInv, Held, Holding
<1> QED BY <1>1 DEF HoldInv, Locks

(* A slot is not changed while its volume is synced to be dropped.            *)
LEMMA NotSynced ==
  ASSUME HoldInv, SyncLocked, sync.dev # NoVol, sync.drop, NEW p \in Procs, pc[p] \in Holding
  PROVE  sync.dev # On[p]
<1>1. SUFFICES ASSUME sync.dev = On[p] PROVE FALSE
  OBVIOUS
<1>2. PICK q \in Procs : pc[q] = "sync" /\ On[q] = sync.dev
  BY DEF SyncLocked
<1>3. vol[On[p]] = p /\ vol[On[q]] = q
  BY <1>2 DEF HoldInv, Locks, Holding
<1> QED BY <1>1, <1>2, <1>3 DEF Holding

(* A slot without a reference is nobody's.                                    *)
LEMMA FreeSlot ==
  ASSUME HoldInv, NEW s \in Slots, slot[s].ref = 0, NEW at
  PROVE  ~Busy(s, at)
BY Basics DEF HoldInv, Held, Busy

(* What the device answers stays, when it is not written.                     *)
LEMMA DevKept ==
  ASSUME pend' = pend, media' = media
  PROVE  \A l \in Lbas : Dev(l)' = Dev(l)
BY DEF Dev, Device

(* What the device answers after a slot with the newest contents is written.  *)
LEMMA DevPut ==
  ASSUME HoldInv, Order, NEW v \in Slots, slot[v].valid,
         slot[v].data = latest[slot[v].lba], media' = media,
         pend' = [pend EXCEPT ![slot[v].lba] = slot[v].data]
  PROVE  \A l \in Lbas : Dev(l)' = IF l = slot[v].lba THEN slot[v].data ELSE Dev(l)
<1>1. slot[v].lba \in Lbas
  BY DEF HoldInv, Held
<1>2. slot[v].data # None
  <2>1. latest[slot[v].lba] <= ver /\ ver <= MaxWrites /\ latest[slot[v].lba] \in Nat /\ ver \in Nat
    BY <1>1 DEF HoldInv, TypeOK, Versions, Order, Ordered
  <2> QED BY <2>1, Basics DEF None
<1>3. pend \in [Lbas -> Nat]
  BY DEF HoldInv, TypeOK, Versions
<1> QED BY <1>1, <1>2, <1>3 DEF Dev, Device

(* After the write-back of a slot nobody holds, the device has its contents,  *)
(* which are the newest.                                                      *)
LEMMA WriteBack ==
  ASSUME CacheInv, NEW v \in Slots, slot[v].ref = 0, pend' = WrittenBack(v), media' = media
  PROVE  /\ slot[v].valid => slot[v].data = latest[slot[v].lba]
         /\ \A l \in Lbas : Dev(l)' = IF slot[v].valid /\ l = slot[v].lba
                                      THEN slot[v].data ELSE Dev(l)
<1> USE DEF CacheInv
<1>1. ~Busy(v, {"overwrite"}) /\ ~Busy(v, {"overwrite", "modified"})
  BY FreeSlot
<1>2. ASSUME slot[v].valid
      PROVE  /\ slot[v].lba \in Lbas /\ slot[v].data = latest[slot[v].lba]
             /\ ~slot[v].dirty => slot[v].data = Dev(slot[v].lba)
  BY <1>1, <1>2 DEF HoldInv, Held, Contents, Copy
<1>3. CASE slot[v].valid /\ slot[v].dirty
  <2>1. pend' = [pend EXCEPT ![slot[v].lba] = slot[v].data]
    BY <1>3 DEF WrittenBack
  <2>2. \A l \in Lbas : Dev(l)' = IF l = slot[v].lba THEN slot[v].data ELSE Dev(l)
    BY <1>2, <1>3, <2>1, DevPut
  <2> QED BY <1>2, <1>3, <2>2
<1>4. CASE ~(slot[v].valid /\ slot[v].dirty)
  <2>1. \A l \in Lbas : Dev(l)' = Dev(l)
    BY <1>4, DevKept DEF WrittenBack
  <2> QED BY <1>2, <1>4, <2>1
<1> QED BY <1>3, <1>4

(* What the device answers is a version, and so is all that is compared.      *)
LEMMA Numbers ==
  ASSUME HoldInv, NEW l \in Lbas
  PROVE  {media[l], Dev(l), latest[l], ver, done[l], synced[l], sync.want[l]} \subseteq Nat
<1>1. Dev(l) \in Nat
  BY DeviceType DEF Dev, HoldInv, TypeOK
<1> QED BY <1>1 DEF HoldInv, TypeOK, Versions, SyncType

(* Steps that change no contents.                                             *)
LEMMA SameContents ==
  ASSUME CacheInv,
         \A s \in Slots : /\ slot'[s].valid <=> slot[s].valid
                          /\ slot'[s].lba = slot[s].lba /\ slot'[s].data = slot[s].data
                          /\ slot'[s].dirty <=> slot[s].dirty,
         UNCHANGED <<media, pend, latest, done, synced, ver>>,
         \A s \in Slots : Busy(s, {"overwrite"})' <=> Busy(s, {"overwrite"}),
         \A s \in Slots : Busy(s, {"overwrite", "modified"})' <=> Busy(s, {"overwrite", "modified"}),
         \A s \in Slots : Busy(s, {"modified"})' <=> Busy(s, {"modified"})
  PROVE  Contents' /\ Order' /\ Marks'
<1> USE DEF CacheInv
<1>1. \A l \in Lbas : Dev(l)' = Dev(l)
  BY DevKept
<1>2. \A l \in Lbas : Cached(l)' <=> Cached(l)
  BY DEF Cached
<1>3. ASSUME NEW s \in Slots, slot'[s].valid
      PROVE  Copy(s)'
  <2>1. slot[s].lba \in Lbas /\ Copy(s)
    BY <1>3 DEF HoldInv, Held, Contents
  <2> QED BY <1>1, <2>1 DEF Copy
<1>4. Contents'
  BY <1>1, <1>2, <1>3 DEF Contents
<1>5. Order'
  BY <1>1 DEF Order, Ordered
<1>6. Marks'
  BY <1>1 DEF Marks
<1> QED BY <1>4, <1>5, <1>6

(* Steps that change neither the sync, the device nor a slot's sector and     *)
(* mark.                                                                      *)
LEMMA SameProgress ==
  ASSUME CacheInv, sync' = sync, UNCHANGED <<media, pend>>,
         \A l \in Lbas : done[l] <= done'[l], done' \in Versions,
         \A s \in Slots : (slot'[s].valid <=> slot[s].valid) /\ slot'[s].lba = slot[s].lba,
         \A s \in Slots : slot[s].dirty => slot'[s].dirty,
         sync.dev # NoVol /\ sync.drop =>
           \A s \in Slots : OnDev(s) /\ slot'[s].dirty => slot[s].dirty
  PROVE  Progress'
<1> USE DEF CacheInv
<1>1. \A l \in Lbas : Dev(l)' = Dev(l)
  BY DevKept
<1>2. \A s \in Slots : OnDev(s)' <=> OnDev(s)
  BY DEF OnDev
<1>3. \A l \in Lbas : Pending(l) => Pending(l)'
  BY DEF Pending
<1> SUFFICES ASSUME sync.dev # NoVol PROVE Progress'
  BY DEF Progress
<1>4. \A l \in Lbas : sync'.want[l] <= done'[l]
  <2>1. ASSUME NEW l \in Lbas PROVE sync.want[l] <= done'[l]
    <3>1. sync.want[l] <= done[l] /\ done[l] <= done'[l]
      BY DEF Progress
    <3>2. {sync.want[l], done[l], done'[l]} \subseteq Nat
      BY Numbers DEF Versions
    <3> QED BY <3>1, <3>2
  <2> QED BY <2>1
<1>5. ~sync'.failed => \A l \in Lbas : VolOf[l] = sync'.dev =>
                          sync'.want[l] <= Dev(l)' \/ Pending(l)'
  BY <1>1, <1>3 DEF Progress
<1>6. sync'.drop /\ ~sync'.failed =>
         \A s \in Slots : s < sync'.next /\ OnDev(s)' => ~slot'[s].dirty
  BY <1>2 DEF Progress
<1>7. sync'.clear => sync'.next \in Slots /\ OnDev(sync.next)'
  BY <1>2 DEF Progress, OnDev
<1> QED BY <1>4, <1>5, <1>6, <1>7 DEF Progress

(* The lock changes hands: nothing in the cache does.                         *)
LEMMA EnterCache ==
  ASSUME NEW p \in Procs, CacheInv, Enter(p)
  PROVE  CacheInv'
<1> USE DEF CacheInv
<1>0. /\ pc[p] = "out" /\ pc' = [pc EXCEPT ![p] = "in"]
      /\ UNCHANGED <<slot, media, pend, buf, sync, latest, done, synced, ver>>
  BY EnterView
<1>1. HoldInv'
  BY EnterHold
<1>2. SyncLocked'
  BY <1>0 DEF SyncLocked, HoldInv, TypeOK
<1>3. /\ \A s \in Slots : Busy(s, {"overwrite"})' <=> Busy(s, {"overwrite"})
      /\ \A s \in Slots : Busy(s, {"overwrite", "modified"})' <=> Busy(s, {"overwrite", "modified"})
      /\ \A s \in Slots : Busy(s, {"modified"})' <=> Busy(s, {"modified"})
  BY <1>0 DEF Busy, HoldInv, TypeOK
<1>4. Contents' /\ Order' /\ Marks'
  BY <1>0, <1>3, SameContents
<1>5. Progress'
  <2>1. done' \in Versions /\ \A l \in Lbas : done[l] <= done'[l]
    BY <1>0, Numbers DEF HoldInv, TypeOK
  <2> QED BY <1>0, <2>1, SameProgress
<1> QED BY <1>1, <1>2, <1>4, <1>5

(* The lock is given back: nothing in the cache changes.                      *)
LEMMA LeaveCache ==
  ASSUME NEW p \in Procs, CacheInv, Leave(p)
  PROVE  CacheInv'
<1> USE DEF CacheInv
<1>0. /\ pc[p] = "in" /\ pc' = [pc EXCEPT ![p] = "out"]
      /\ UNCHANGED <<slot, media, pend, buf, sync, latest, done, synced, ver>>
  BY LeaveView
<1>1. HoldInv'
  BY LeaveHold
<1>2. SyncLocked'
  BY <1>0 DEF SyncLocked, HoldInv, TypeOK
<1>3. /\ \A s \in Slots : Busy(s, {"overwrite"})' <=> Busy(s, {"overwrite"})
      /\ \A s \in Slots : Busy(s, {"overwrite", "modified"})' <=> Busy(s, {"overwrite", "modified"})
      /\ \A s \in Slots : Busy(s, {"modified"})' <=> Busy(s, {"modified"})
  BY <1>0 DEF Busy, HoldInv, TypeOK
<1>4. Contents' /\ Order' /\ Marks'
  BY <1>0, <1>3, SameContents
<1>5. Progress'
  <2>1. done' \in Versions /\ \A l \in Lbas : done[l] <= done'[l]
    BY <1>0, Numbers DEF HoldInv, TypeOK
  <2> QED BY <1>0, <2>1, SameProgress
<1> QED BY <1>1, <1>2, <1>4, <1>5

(* A hit changes no contents.                                                 *)
LEMMA GetHitCache ==
  ASSUME NEW p \in Procs, NEW l \in Lbas, CacheInv, GetHit(p, l)
  PROVE  CacheInv'
<1> USE DEF CacheInv
<1>0. PICK v \in Slots, r \in SlotType :
        /\ slot' = [slot EXCEPT ![v] = r] /\ slot[v].valid /\ slot[v].lba = l
        /\ slot[v].ref = 0 /\ r.valid /\ r.lba = l /\ r.data = slot[v].data
        /\ (r.dirty <=> slot[v].dirty) /\ r.ref = 1
        /\ buf' = [buf EXCEPT ![p] = v] /\ pc' = [pc EXCEPT ![p] = "got"]
        /\ pc[p] = "in" /\ sync.dev = NoVol /\ VolOf[l] = On[p]
        /\ pend' = pend /\ fails' = fails /\ Keep
  BY GetHitView
<1>1. HoldInv'
  BY GetHitHold
<1>2. SyncLocked' /\ Progress'
  BY <1>0 DEF SyncLocked, Progress, Keep
<1>3. /\ \A s \in Slots : Busy(s, {"overwrite"})' <=> Busy(s, {"overwrite"})
      /\ \A s \in Slots : Busy(s, {"overwrite", "modified"})' <=> Busy(s, {"overwrite", "modified"})
      /\ \A s \in Slots : Busy(s, {"modified"})' <=> Busy(s, {"modified"})
  BY <1>0 DEF Busy, HoldInv, TypeOK
<1>4. \A s \in Slots : /\ slot'[s].valid <=> slot[s].valid
                       /\ slot'[s].lba = slot[s].lba /\ slot'[s].data = slot[s].data
                       /\ slot'[s].dirty <=> slot[s].dirty
  BY <1>0 DEF HoldInv, TypeOK
<1>5. Contents' /\ Order' /\ Marks'
  BY <1>0, <1>3, <1>4, SameContents DEF Keep
<1> QED BY <1>1, <1>2, <1>5

(* A failed eviction changes nothing.                                         *)
LEMMA EvictFailsCache ==
  ASSUME NEW p \in Procs, NEW l \in Lbas, CacheInv, EvictFails(p, l)
  PROVE  CacheInv'
<1> USE DEF CacheInv
<1>0. /\ fails' \in Nat
      /\ UNCHANGED <<slot, media, pend, vol, pc, buf, sync, latest, done, synced, ver, crashes>>
  BY EvictFailsView
<1>1. HoldInv'
  BY EvictFailsHold
<1>2. SyncLocked' /\ Progress'
  <2>1. done' \in Versions /\ \A m \in Lbas : done[m] <= done'[m]
    BY <1>0, Numbers DEF HoldInv, TypeOK
  <2> QED BY <1>0, <2>1, SameProgress DEF SyncLocked
<1>3. \A s \in Slots : /\ Busy(s, {"overwrite"})' <=> Busy(s, {"overwrite"})
                       /\ Busy(s, {"overwrite", "modified"})' <=> Busy(s, {"overwrite", "modified"})
                       /\ Busy(s, {"modified"})' <=> Busy(s, {"modified"})
  BY <1>0 DEF Busy
<1>4. Contents' /\ Order' /\ Marks'
  BY <1>0, <1>3, SameContents
<1> QED BY <1>1, <1>2, <1>4

(* A release changes no contents.                                             *)
LEMMA bcache_releaseCache ==
  ASSUME NEW p \in Procs, CacheInv, bcache_release(p)
  PROVE  CacheInv'
<1> USE DEF CacheInv
<1>0. PICK v \in Slots, r \in SlotType :
        /\ v = buf[p] /\ slot[v].valid /\ slot[v].ref = 1
        /\ slot' = [slot EXCEPT ![v] = r]
        /\ r.valid /\ r.lba = slot[v].lba /\ r.data = slot[v].data
        /\ (r.dirty <=> slot[v].dirty) /\ r.ref = 0
        /\ pc[p] = "got" /\ pc' = [pc EXCEPT ![p] = "in"]
        /\ buf' = [buf EXCEPT ![p] = NoSlot]
        /\ sync.dev = NoVol /\ pend' = pend /\ fails' = fails /\ Keep
  BY ReleaseView
<1>1. HoldInv'
  BY bcache_releaseHold
<1>2. SyncLocked' /\ Progress'
  BY <1>0 DEF SyncLocked, Progress, Keep
<1>3. /\ \A s \in Slots : Busy(s, {"overwrite"})' <=> Busy(s, {"overwrite"})
      /\ \A s \in Slots : Busy(s, {"overwrite", "modified"})' <=> Busy(s, {"overwrite", "modified"})
      /\ \A s \in Slots : Busy(s, {"modified"})' <=> Busy(s, {"modified"})
  BY <1>0 DEF Busy, HoldInv, TypeOK
<1>4. \A s \in Slots : /\ slot'[s].valid <=> slot[s].valid
                       /\ slot'[s].lba = slot[s].lba /\ slot'[s].data = slot[s].data
                       /\ slot'[s].dirty <=> slot[s].dirty
  BY <1>0 DEF HoldInv, TypeOK
<1>5. Contents' /\ Order' /\ Marks'
  BY <1>0, <1>3, <1>4, SameContents DEF Keep
<1> QED BY <1>1, <1>2, <1>5

(* A sync starts with nothing passed and the marks of now to cover: each is   *)
(* still there, or of contents the device has.                                *)
LEMMA SyncStartCache ==
  ASSUME CacheInv, SyncStart
  PROVE  CacheInv'
<1> USE DEF CacheInv
<1>0. /\ sync.dev = NoVol /\ sync'.dev \in Vols /\ sync'.next = 1
      /\ ~sync'.clear /\ sync'.want = done
      /\ UNCHANGED <<slot, media, pend, vol, buf, latest, done, synced, ver>>
  BY SyncStartView
<1>1. \/ \E p \in Procs : /\ pc[p] = "in" /\ pc' = [pc EXCEPT ![p] = "sync"]
                          /\ sync'.dev = On[p]
      \/ ~sync'.drop /\ pc' = pc
  BY SyncStartView
<1>2. HoldInv'
  BY SyncStartHold
<1>3. SyncLocked'
  BY <1>1 DEF SyncLocked, HoldInv, TypeOK
<1>4. /\ \A s \in Slots : Busy(s, {"overwrite"})' <=> Busy(s, {"overwrite"})
      /\ \A s \in Slots : Busy(s, {"overwrite", "modified"})' <=> Busy(s, {"overwrite", "modified"})
      /\ \A s \in Slots : Busy(s, {"modified"})' <=> Busy(s, {"modified"})
  BY <1>0, <1>1 DEF Busy, HoldInv, TypeOK
<1>5. Contents' /\ Order' /\ Marks'
  BY <1>0, <1>4, SameContents
<1>6. Progress'
  <2>1. \A s \in Slots : ~(s < 1) /\ 1 <= s
    BY CacheAssumption DEF Slots
  <2>2. ASSUME NEW l \in Lbas PROVE sync'.want[l] <= done'[l]
    BY <1>0, Numbers
  <2>3. ASSUME NEW l \in Lbas PROVE sync'.want[l] <= Dev(l)' \/ Pending(l)'
    <3>1. Dev(l)' = Dev(l) /\ sync'.want[l] = done[l]
      BY <1>0, DevKept
    <3>2. CASE \E s \in Slots : slot[s].valid /\ slot[s].lba = l /\ slot[s].dirty
      BY <1>0, <2>1, <3>2 DEF Pending
    <3>3. CASE ~\E s \in Slots : slot[s].valid /\ slot[s].lba = l /\ slot[s].dirty
      BY <3>1, <3>3 DEF Marks
    <3> QED BY <3>2, <3>3
  <2> QED BY <1>0, <2>1, <2>2, <2>3 DEF Progress
<1> QED BY <1>2, <1>3, <1>5, <1>6

(* A sync passes a slot that is not dirty.                                    *)
LEMMA SyncSkipCache ==
  ASSUME CacheInv, SyncSkip
  PROVE  CacheInv'
<1> USE DEF CacheInv
<1>0. PICK v \in Slots :
        /\ v = sync.next /\ ~sync.clear /\ sync.dev # NoVol /\ ~(OnDev(v) /\ slot[v].dirty)
        /\ sync' \in SyncType /\ sync'.dev = sync.dev /\ sync'.next = v + 1 /\ ~sync'.clear
        /\ (sync'.failed <=> sync.failed) /\ sync'.want = sync.want /\ (sync'.drop <=> sync.drop)
        /\ UNCHANGED <<slot, media, pend, vol, pc, buf, latest, done, synced, ver, crashes,
                       fails>>
  BY SyncSkipView
<1>1. HoldInv'
  BY SyncSkipHold
<1>2. SyncLocked'
  BY <1>0 DEF SyncLocked
<1>3. \A s \in Slots : /\ Busy(s, {"overwrite"})' <=> Busy(s, {"overwrite"})
                       /\ Busy(s, {"overwrite", "modified"})' <=> Busy(s, {"overwrite", "modified"})
                       /\ Busy(s, {"modified"})' <=> Busy(s, {"modified"})
  BY <1>0 DEF Busy
<1>4. Contents' /\ Order' /\ Marks'
  BY <1>0, <1>3, SameContents
<1>5. Progress'
  <2>1. \A s \in Slots : OnDev(s)' <=> OnDev(s)
    BY <1>0 DEF OnDev
  <2>2. \A s \in Slots : (s < v + 1 => s < v \/ s = v) /\ (v <= s => v + 1 <= s \/ s = v)
    BY Basics
  <2>3. ASSUME NEW l \in Lbas, VolOf[l] = sync.dev, Pending(l) PROVE Pending(l)'
    <3>1. PICK s \in Slots : /\ slot[s].valid /\ slot[s].lba = l /\ slot[s].dirty
                            /\ v <= s
      BY <1>0, <2>3 DEF Pending
    <3>2. s # v
      BY <1>0, <2>3, <3>1 DEF OnDev
    <3> QED BY <1>0, <2>2, <3>1, <3>2 DEF Pending
  <2>4. \A l \in Lbas : Dev(l)' = Dev(l)
    BY <1>0, DevKept
  <2> QED BY <1>0, <2>1, <2>2, <2>3, <2>4 DEF Progress
<1> QED BY <1>1, <1>2, <1>4, <1>5

(* A sync writes a slot, whose contents are the newest, or has failed.        *)
LEMMA SyncWriteCache ==
  ASSUME NEW ok \in BOOLEAN, CacheInv, SyncWrite(ok)
  PROVE  CacheInv'
<1> USE DEF CacheInv
<1>0. PICK v \in Slots :
        /\ v = sync.next /\ ~sync.clear /\ sync.dev # NoVol /\ OnDev(v) /\ slot[v].dirty
        /\ sync' \in SyncType /\ sync'.dev = sync.dev /\ sync'.want = sync.want /\ (sync'.drop <=> sync.drop)
        /\ \/ /\ pend' = [pend EXCEPT ![slot[v].lba] = slot[v].data]
              /\ sync'.next = v /\ sync'.clear /\ (sync'.failed <=> sync.failed)
           \/ pend' = pend /\ sync'.next = v + 1 /\ ~sync'.clear /\ sync'.failed
        /\ pend' \in Versions /\ fails' \in Nat
        /\ UNCHANGED <<slot, media, vol, pc, buf, latest, done, synced, ver, crashes>>
  BY SyncWriteView
<1>1. HoldInv'
  BY SyncWriteHold
<1>2. SyncLocked'
  BY <1>0 DEF SyncLocked
<1>3. \A s \in Slots : /\ Busy(s, {"overwrite"})' <=> Busy(s, {"overwrite"})
                       /\ Busy(s, {"overwrite", "modified"})' <=> Busy(s, {"overwrite", "modified"})
                       /\ Busy(s, {"modified"})' <=> Busy(s, {"modified"})
  BY <1>0 DEF Busy
<1>4. \A s \in Slots : OnDev(s)' <=> OnDev(s)
  BY <1>0 DEF OnDev
<1>5. CASE pend' = pend /\ sync'.next = v + 1 /\ ~sync'.clear /\ sync'.failed
  <2>1. Contents' /\ Order' /\ Marks'
    BY <1>0, <1>3, <1>5, SameContents
  <2>2. Progress'
    BY <1>0, <1>5 DEF Progress
  <2> QED BY <1>1, <1>2, <2>1, <2>2
<1>6. CASE /\ pend' = [pend EXCEPT ![slot[v].lba] = slot[v].data]
           /\ sync'.next = v /\ sync'.clear /\ (sync'.failed <=> sync.failed)
  <2>1. slot[v].valid /\ slot[v].lba \in Lbas /\ slot[v].data = latest[slot[v].lba]
    BY <1>0 DEF OnDev, Contents, Copy, HoldInv, Held
  <2>2. \A l \in Lbas : Dev(l)' = IF l = slot[v].lba THEN slot[v].data ELSE Dev(l)
    BY <1>0, <1>6, <2>1, DevPut
  <2>3. Contents'
    <3>1. \A l \in Lbas : Cached(l)' <=> Cached(l)
      BY <1>0 DEF Cached
    <3>2. ASSUME NEW s \in Slots, slot[s].valid PROVE Copy(s)'
      <4>1. slot[s].lba \in Lbas /\ Copy(s) /\ slot' = slot /\ latest' = latest
        BY <1>0, <3>2 DEF HoldInv, Held, Contents
      <4>2. s # v => slot[s].lba # slot[v].lba
        BY <2>1, <3>2 DEF HoldInv, OneCopy
      <4> QED BY <1>0, <1>3, <2>1, <2>2, <4>1, <4>2 DEF Copy
    <3>3. ASSUME NEW l \in Lbas, ~Cached(l) PROVE latest[l] = Dev(l)'
      <4>1. l # slot[v].lba
        BY <2>1, <3>3 DEF Cached
      <4> QED BY <2>2, <3>3, <4>1 DEF Contents
    <3> QED BY <1>0, <3>1, <3>2, <3>3 DEF Contents
  <2>4. Order'
    <3>1. ASSUME NEW l \in Lbas PROVE Ordered(l)'
      <4>1. Ordered(l) /\ {media[l], Dev(l), latest[l], ver, done[l], synced[l]} \subseteq Nat
        <5>1. Dev(l) \in Nat
          BY DeviceType DEF Dev, HoldInv, TypeOK
        <5> QED BY <5>1 DEF Order, HoldInv, TypeOK, Versions
      <4> QED BY <1>0, <2>1, <2>2, <4>1 DEF Ordered
    <3> QED BY <1>0, <3>1 DEF Order
  <2>5. ASSUME NEW l \in Lbas
        PROVE  Dev(l) <= Dev(l)' /\ (l = slot[v].lba => done[l] <= Dev(l)')
    BY <2>1, <2>2, Numbers DEF Order, Ordered
  <2>6. Marks'
    <3>1. ASSUME NEW l \in Lbas, done[l] <= Dev(l) PROVE done[l] <= Dev(l)'
      <4>1. Dev(l) <= Dev(l)' /\ {Dev(l), Dev(l)', done[l]} \subseteq Nat
        BY <2>1, <2>2, <2>5, Numbers
      <4> QED BY <3>1, <4>1
    <3> QED BY <1>0, <1>3, <3>1 DEF Marks
  <2>7. Progress'
    <3>1. sync'.next \in Slots /\ OnDev(sync.next)'
      BY <1>0, <1>4, <1>6 DEF OnDev
    <3>2. ASSUME NEW l \in Lbas PROVE sync.want[l] <= done[l]
      BY <1>0 DEF Progress
    <3>3. ASSUME NEW l \in Lbas, VolOf[l] = sync.dev, ~sync.failed
          PROVE  sync.want[l] <= Dev(l)' \/ Pending(l)'
      <4>1. /\ {Dev(l), Dev(l)', done[l], sync.want[l]} \subseteq Nat
            /\ Dev(l) <= Dev(l)' /\ sync.want[l] <= done[l]
            /\ l = slot[v].lba => done[l] <= Dev(l)'
        BY <2>1, <2>2, <2>5, <3>2, Numbers
      <4>2. CASE l = slot[v].lba
        BY <4>1, <4>2
      <4>3. CASE sync.want[l] <= Dev(l)
        BY <4>1, <4>3
      <4>4. CASE Pending(l) /\ l # slot[v].lba
        <5>1. PICK s \in Slots : /\ slot[s].valid /\ slot[s].lba = l /\ slot[s].dirty
                                /\ v <= s /\ s # v
          BY <1>0, <4>4 DEF Pending
        <5> QED BY <1>0, <1>6, <5>1 DEF Pending
      <4> QED BY <1>0, <3>3, <4>2, <4>3, <4>4 DEF Progress
    <3> QED BY <1>0, <1>4, <1>6, <3>1, <3>2, <3>3 DEF Progress
  <2> QED BY <1>1, <1>2, <2>3, <2>4, <2>6, <2>7
<1> QED BY <1>0, <1>5, <1>6

(* A sync clears the mark of contents the device has.                         *)
LEMMA SyncClearCache ==
  ASSUME CacheInv, SyncClear, ~ClearsNewer
  PROVE  CacheInv'
<1> USE DEF CacheInv
<1>0. PICK v \in Slots, r \in SlotType :
        /\ v = sync.next /\ sync.clear /\ sync.dev # NoVol
        /\ slot' = [slot EXCEPT ![v] = r]
        /\ (r.valid <=> slot[v].valid) /\ r.lba = slot[v].lba /\ r.data = slot[v].data
        /\ ~r.dirty /\ r.ref = slot[v].ref
        /\ sync' \in SyncType /\ sync'.dev = sync.dev /\ sync'.next = v + 1 /\ ~sync'.clear
        /\ (sync'.failed <=> sync.failed) /\ sync'.want = sync.want /\ (sync'.drop <=> sync.drop)
        /\ UNCHANGED <<media, pend, vol, pc, buf, latest, done, synced, ver, crashes, fails>>
  BY SyncClearView
<1>1. HoldInv'
  BY SyncClearHold
<1>2. SyncLocked'
  BY <1>0 DEF SyncLocked
<1>3. slot[v].valid /\ slot[v].lba \in Lbas /\ done[slot[v].lba] <= Dev(slot[v].lba)
  <2>1. slot[v].valid /\ slot[v].lba \in Lbas
    BY <1>0 DEF Progress, OnDev, HoldInv, Held
  <2>2. ~(done[slot[v].lba] > Dev(slot[v].lba))
    BY <1>0 DEF ClearsNewer, Dev
  <2> QED BY <2>1, <2>2, Numbers
<1>4. \A s \in Slots : /\ Busy(s, {"overwrite"})' <=> Busy(s, {"overwrite"})
                       /\ Busy(s, {"overwrite", "modified"})' <=> Busy(s, {"overwrite", "modified"})
                       /\ Busy(s, {"modified"})' <=> Busy(s, {"modified"})
  BY <1>0 DEF Busy
<1>5. /\ slot'[v] = r
      /\ \A s \in Slots : /\ (slot'[s].valid <=> slot[s].valid) /\ slot'[s].lba = slot[s].lba
                          /\ slot'[s].data = slot[s].data /\ (s # v => slot'[s] = slot[s])
  BY <1>0 DEF HoldInv, TypeOK
<1>6. \A l \in Lbas : Dev(l)' = Dev(l)
  BY <1>0, DevKept
<1>7. Contents'
  <2>1. \A l \in Lbas : Cached(l)' <=> Cached(l)
    BY <1>5 DEF Cached
  <2>2. ASSUME NEW s \in Slots, slot'[s].valid PROVE Copy(s)'
    <3>1. slot[s].lba \in Lbas /\ Copy(s) /\ latest' = latest
      BY <1>0, <1>5, <2>2 DEF HoldInv, Held, Contents
    <3>2. ASSUME s = v, ~Busy(v, {"overwrite", "modified"})
          PROVE  slot[v].data = Dev(slot[v].lba)
      <4>1. PICK l \in Lbas : l = slot[v].lba
        BY <1>3
      <4>2. \A t \in Slots : slot[t].valid /\ slot[t].lba = l => t = v
        BY <1>3, <4>1 DEF HoldInv, OneCopy
      <4>3. ~Busy(v, {"overwrite"}) /\ ~Busy(v, {"modified"})
        BY <3>2 DEF Busy
      <4>4. done[l] = latest[l] /\ slot[v].data = latest[l]
        BY <1>3, <3>1, <3>2, <4>1, <4>2, <4>3 DEF Marks, Copy
      <4>5. Dev(l) <= latest[l] /\ done[l] <= Dev(l) /\ {Dev(l), latest[l], done[l]} \subseteq Nat
        BY <1>3, <4>1, Numbers DEF Order, Ordered
      <4>6. latest[l] = Dev(l)
        BY <4>4, <4>5
      <4> QED BY <4>1, <4>4, <4>6
    <3> QED BY <1>0, <1>4, <1>5, <1>6, <3>1, <3>2 DEF Copy
  <2> QED BY <1>0, <1>6, <2>1, <2>2 DEF Contents
<1>8. Order'
  BY <1>0, <1>6 DEF Order, Ordered
<1>9. Progress'
  <2>1. \A s \in Slots : OnDev(s)' <=> OnDev(s)
    BY <1>0, <1>5 DEF OnDev
  <2>2. \A s \in Slots : (s < v + 1 => s < v \/ s = v) /\ (v <= s => v + 1 <= s \/ s = v)
    BY Basics
  <2>3. ASSUME NEW l \in Lbas, Pending(l) PROVE Pending(l)'
    <3>1. PICK s \in Slots : /\ slot[s].valid /\ slot[s].lba = l /\ slot[s].dirty
                            /\ v <= s /\ s # v
      BY <1>0, <2>3 DEF Pending
    <3>2. slot'[s] = slot[s] /\ v + 1 <= s
      BY <1>5, <2>2, <3>1
    <3> QED BY <1>0, <3>1, <3>2 DEF Pending
  <2> QED BY <1>0, <1>5, <1>6, <2>1, <2>2, <2>3 DEF Progress
<1>10. Marks'
  <2>1. ASSUME NEW l \in Lbas, NEW s \in Slots, slot[s].valid, slot[s].lba = l, slot[s].dirty
        PROVE  \/ done[l] <= Dev(l)
               \/ \E t \in Slots : slot'[t].valid /\ slot'[t].lba = l /\ slot'[t].dirty
    <3>1. CASE s = v
      BY <1>3, <2>1, <3>1
    <3>2. CASE s # v
      BY <1>5, <2>1, <3>2
    <3> QED BY <3>1, <3>2
  <2> QED BY <1>0, <1>4, <1>5, <1>6, <2>1 DEF Marks
<1> QED BY <1>1, <1>2, <1>7, <1>8, <1>9, <1>10

(* The holder's write is the newest.                                          *)
LEMMA ModifyCache ==
  ASSUME NEW p \in Procs, CacheInv, Modify(p)
  PROVE  CacheInv'
<1> USE DEF CacheInv
<1>0. PICK v \in Slots, r \in SlotType :
        /\ v = buf[p] /\ slot[v].valid /\ slot[v].lba \in Lbas
        /\ slot' = [slot EXCEPT ![v] = r]
        /\ r.valid /\ r.lba = slot[v].lba /\ r.data = ver + 1
        /\ (r.dirty <=> slot[v].dirty) /\ r.ref = slot[v].ref
        /\ pc[p] \in {"got", "overwrite"} /\ ver < MaxWrites /\ ver' = ver + 1
        /\ latest' = [latest EXCEPT ![slot[v].lba] = ver + 1] /\ latest' \in Versions
        /\ pc' = [pc EXCEPT ![p] = "modified"]
        /\ UNCHANGED <<media, pend, buf, vol, sync, done, synced, crashes, fails>>
  BY ModifyView
<1>1. HoldInv'
  BY ModifyHold
<1>2. SyncLocked'
  BY <1>0 DEF SyncLocked, HoldInv, TypeOK
<1>4. \A q \in Procs : buf[q] = v => q = p
  BY <1>0, OneHolder, Basics
<1>5. /\ slot'[v] = r /\ slot[v] \in SlotType
      /\ \A s \in Slots \ {v} : slot'[s] = slot[s]
      /\ \A s \in Slots : (slot'[s].valid <=> slot[s].valid) /\ slot'[s].lba = slot[s].lba
  BY <1>0 DEF HoldInv, TypeOK
<1>6. \A l \in Lbas : Dev(l)' = Dev(l)
  BY <1>0, DevKept
<1>7. /\ \A s \in Slots \ {v} :
           /\ Busy(s, {"overwrite"})' <=> Busy(s, {"overwrite"})
           /\ Busy(s, {"overwrite", "modified"})' <=> Busy(s, {"overwrite", "modified"})
           /\ Busy(s, {"modified"})' <=> Busy(s, {"modified"})
      /\ Busy(v, {"overwrite", "modified"})' /\ ~Busy(v, {"overwrite"})'
      /\ Busy(v, {"modified"})'
  <2>1. pc'[p] = "modified" /\ buf' = buf /\ \A q \in Procs \ {p} : pc'[q] = pc[q]
    BY <1>0 DEF HoldInv, TypeOK
  <2> QED BY <1>0, <1>4, <2>1 DEF Busy
<1>8. Contents'
  <2>1. \A l \in Lbas : Cached(l)' <=> Cached(l)
    BY <1>5 DEF Cached
  <2>2. latest'[slot[v].lba] = ver + 1 /\ \A l \in Lbas \ {slot[v].lba} : latest'[l] = latest[l]
    BY <1>0 DEF HoldInv, TypeOK, Versions
  <2>3. Copy(v)'
    BY <1>0, <1>5, <1>7, <2>2 DEF Copy
  <2>4. ASSUME NEW s \in Slots \ {v}, slot'[s].valid PROVE Copy(s)'
    <3>1. slot[s].lba \in Lbas /\ Copy(s) /\ slot[s].lba # slot[v].lba
      BY <1>0, <1>5, <2>4 DEF HoldInv, Held, Contents, OneCopy
    <3> QED BY <1>5, <1>6, <1>7, <2>2, <3>1 DEF Copy
  <2>5. ASSUME NEW l \in Lbas, ~Cached(l) PROVE latest'[l] = Dev(l)'
    <3>1. l # slot[v].lba
      BY <1>0, <2>5 DEF Cached
    <3> QED BY <1>6, <2>2, <2>5, <3>1 DEF Contents
  <2> QED BY <2>1, <2>3, <2>4, <2>5 DEF Contents
<1>9. Order'
  <2>1. ASSUME NEW l \in Lbas PROVE Ordered(l)'
    <3>1. Ordered(l) /\ {media[l], Dev(l), latest[l], ver, done[l], synced[l]} \subseteq Nat
      <4>1. Dev(l) \in Nat
        BY DeviceType DEF Dev, HoldInv, TypeOK
      <4> QED BY <4>1 DEF Order, HoldInv, TypeOK, Versions
    <3>2. latest'[l] = IF l = slot[v].lba THEN ver + 1 ELSE latest[l]
      BY <1>0 DEF HoldInv, TypeOK, Versions
    <3> QED BY <1>0, <1>6, <3>1, <3>2 DEF Ordered
  <2>2. ver + 1 <= MaxWrites
    BY <1>0, Basics DEF HoldInv, TypeOK
  <2> QED BY <1>0, <2>1, <2>2 DEF Order
<1>10. Progress'
  <2>1. \A s \in Slots : slot[s].dirty <=> slot'[s].dirty
    BY <1>0, <1>5
  <2>2. done' \in Versions /\ \A l \in Lbas : done[l] <= done'[l]
    BY <1>0, Numbers DEF HoldInv, TypeOK
  <2> QED BY <1>0, <1>5, <2>1, <2>2, SameProgress
<1>11. Marks'
  <2>1. ASSUME NEW l \in Lbas
        PROVE  \/ done'[l] = latest'[l]
               \/ \E s \in Slots : slot'[s].valid /\ slot'[s].lba = l /\ Busy(s, {"modified"})'
    <3>1. CASE l = slot[v].lba
      BY <1>0, <1>5, <1>7, <3>1
    <3>2. CASE l # slot[v].lba
      <4>1. latest'[l] = latest[l] /\ done'[l] = done[l]
        BY <1>0, <3>2 DEF HoldInv, TypeOK, Versions
      <4>2. \A s \in Slots : slot[s].lba = l => s # v
        BY <3>2
      <4> QED BY <1>5, <1>7, <4>1, <4>2 DEF Marks
    <3> QED BY <3>1, <3>2
  <2>2. \A s \in Slots : slot[s].dirty <=> slot'[s].dirty
    BY <1>0, <1>5
  <2> QED BY <1>0, <1>5, <1>6, <2>1, <2>2 DEF Marks
<1> QED BY <1>1, <1>2, <1>8, <1>9, <1>10, <1>11

(* The mark is of the newest contents, and no sync that drops is under way.   *)
LEMMA bcache_mark_dirtyCache ==
  ASSUME NEW p \in Procs, CacheInv, bcache_mark_dirty(p)
  PROVE  CacheInv'
<1> USE DEF CacheInv
<1>0. PICK v \in Slots, r \in SlotType :
        /\ v = buf[p] /\ slot[v].valid /\ slot[v].lba \in Lbas
        /\ slot' = [slot EXCEPT ![v] = r]
        /\ r.valid /\ r.lba = slot[v].lba /\ r.data = slot[v].data
        /\ r.dirty /\ r.ref = slot[v].ref
        /\ done' = [done EXCEPT ![slot[v].lba] = slot[v].data] /\ done' \in Versions
        /\ pc[p] = "modified" /\ pc' = [pc EXCEPT ![p] = "got"]
        /\ UNCHANGED <<media, pend, buf, vol, sync, latest, synced, ver, crashes, fails>>
  BY MarkView
<1>1. HoldInv'
  BY bcache_mark_dirtyHold
<1>2. SyncLocked'
  BY <1>0 DEF SyncLocked, HoldInv, TypeOK
<1>3. sync.dev # NoVol /\ sync.drop => ~OnDev(v)
  <2>1. VolOf[slot[v].lba] = On[p]
    BY <1>0, Basics DEF HoldInv, Held
  <2> QED BY <1>0, <2>1, NotSynced DEF Holding, OnDev
<1>4. \A q \in Procs : buf[q] = v => q = p
  BY <1>0, OneHolder, Basics
<1>5. /\ slot'[v] = r /\ slot[v] \in SlotType
      /\ \A s \in Slots \ {v} : slot'[s] = slot[s]
      /\ \A s \in Slots : (slot'[s].valid <=> slot[s].valid) /\ slot'[s].lba = slot[s].lba
  BY <1>0 DEF HoldInv, TypeOK
<1>6. \A l \in Lbas : Dev(l)' = Dev(l)
  BY <1>0, DevKept
<1>7. /\ \A s \in Slots \ {v} :
           /\ Busy(s, {"overwrite"})' <=> Busy(s, {"overwrite"})
           /\ Busy(s, {"overwrite", "modified"})' <=> Busy(s, {"overwrite", "modified"})
           /\ Busy(s, {"modified"})' <=> Busy(s, {"modified"})
      /\ ~Busy(v, {"overwrite"})' /\ ~Busy(v, {"overwrite"})
  <2>1. pc'[p] = "got" /\ buf' = buf /\ \A q \in Procs \ {p} : pc'[q] = pc[q]
    BY <1>0 DEF HoldInv, TypeOK
  <2> QED BY <1>0, <1>4, <2>1 DEF Busy
<1>8. slot[v].data = latest[slot[v].lba]
  BY <1>0, <1>7 DEF Contents, Copy
<1>9. Contents'
  <2>1. \A l \in Lbas : Cached(l)' <=> Cached(l)
    BY <1>5 DEF Cached
  <2>2. Copy(v)'
    BY <1>0, <1>5, <1>7, <1>8 DEF Copy
  <2>3. ASSUME NEW s \in Slots \ {v}, slot'[s].valid PROVE Copy(s)'
    <3>1. slot[s].lba \in Lbas /\ Copy(s) /\ latest' = latest
      BY <1>0, <1>5, <2>3 DEF HoldInv, Held, Contents
    <3> QED BY <1>5, <1>6, <1>7, <3>1 DEF Copy
  <2> QED BY <1>0, <1>6, <2>1, <2>2, <2>3 DEF Contents
<1>10. Order'
  <2>1. ASSUME NEW l \in Lbas PROVE Ordered(l)'
    <3>1. Ordered(l) /\ {media[l], Dev(l), latest[l], ver, done[l], synced[l]} \subseteq Nat
      <4>1. Dev(l) \in Nat
        BY DeviceType DEF Dev, HoldInv, TypeOK
      <4> QED BY <4>1 DEF Order, HoldInv, TypeOK, Versions
    <3>2. done'[l] = IF l = slot[v].lba THEN slot[v].data ELSE done[l]
      BY <1>0 DEF HoldInv, TypeOK, Versions
    <3> QED BY <1>0, <1>6, <1>8, <3>1, <3>2 DEF Ordered
  <2> QED BY <1>0, <2>1 DEF Order
<1>11. Progress'
  <2>1. \A l \in Lbas : done[l] <= done'[l]
    <3>1. ASSUME NEW l \in Lbas PROVE done[l] <= done'[l]
      <4>1. done'[l] = done[l] \/ done'[l] = latest[l]
        BY <1>0, <1>8 DEF HoldInv, TypeOK, Versions
      <4>2. done[l] <= latest[l] /\ {done[l], latest[l]} \subseteq Nat
        BY Numbers DEF Order, Ordered
      <4> QED BY <4>1, <4>2
    <3> QED BY <3>1
  <2>2. /\ \A s \in Slots : slot[s].dirty => slot'[s].dirty
        /\ sync.dev # NoVol /\ sync.drop =>
             \A s \in Slots : OnDev(s) /\ slot'[s].dirty => slot[s].dirty
    BY <1>0, <1>3, <1>5
  <2> QED BY <1>0, <1>5, <2>1, <2>2, SameProgress
<1>12. Marks'
  <2>1. ASSUME NEW l \in Lbas, l # slot[v].lba
        PROVE  /\ \/ done'[l] = latest'[l]
                  \/ \E s \in Slots : /\ slot'[s].valid /\ slot'[s].lba = l
                                      /\ Busy(s, {"modified"})'
               /\ \/ done'[l] <= Dev(l)'
                  \/ \E s \in Slots : slot'[s].valid /\ slot'[s].lba = l /\ slot'[s].dirty
    <3>1. latest'[l] = latest[l] /\ done'[l] = done[l] /\ Dev(l)' = Dev(l)
      BY <1>0, <1>6, <2>1 DEF HoldInv, TypeOK, Versions
    <3>2. \A s \in Slots : slot[s].lba = l => s # v
      BY <2>1
    <3> QED BY <1>5, <1>7, <3>1, <3>2 DEF Marks
  <2>2. ASSUME NEW l \in Lbas, l = slot[v].lba
        PROVE  done'[l] = latest'[l] /\ slot'[v].valid /\ slot'[v].lba = l /\ slot'[v].dirty
    BY <1>0, <1>5, <1>8, <2>2 DEF HoldInv, TypeOK, Versions
  <2> QED BY <2>1, <2>2 DEF Marks
<1> QED BY <1>1, <1>2, <1>9, <1>10, <1>11, <1>12

(* A write-back keeps the versions in order.                                  *)
LEMMA WriteBackOrder ==
  ASSUME CacheInv, NEW v \in Slots, slot[v].ref = 0, pend' = WrittenBack(v), Keep
  PROVE  Order'
<1> USE DEF CacheInv, Keep
<1>1. ASSUME NEW l \in Lbas PROVE Ordered(l)'
  <2>1. Ordered(l) /\ {media[l], Dev(l), latest[l], ver, done[l], synced[l]} \subseteq Nat
    BY Numbers DEF Order
  <2>2. Dev(l)' = Dev(l) \/ Dev(l)' = latest[l]
    BY WriteBack
  <2> QED BY <2>1, <2>2 DEF Ordered
<1> QED BY <1>1 DEF Order

(* A slot with a reference is valid.                                          *)
LEMMA HeldValid ==
  ASSUME HoldInv, NEW s \in Slots, slot[s].ref = 1
  PROVE  slot[s].valid
BY Basics DEF HoldInv, Held

(* A write-back, and slots taken that are not dirty, lose no mark.            *)
LEMMA WriteBackMarks ==
  ASSUME CacheInv, NEW v \in Slots, slot[v].ref = 0, pend' = WrittenBack(v), Keep,
         \A s \in Slots : slot[s].ref = 1 => slot'[s].valid /\ slot'[s].lba = slot[s].lba,
         \A s \in Slots \ {v} : slot[s].valid /\ slot[s].dirty =>
                             slot'[s].valid /\ slot'[s].lba = slot[s].lba /\ slot'[s].dirty,
         \A s \in Slots : Busy(s, {"modified"}) => Busy(s, {"modified"})'
  PROVE  Marks'
<1> USE DEF CacheInv, Keep
<1>1. ASSUME NEW l \in Lbas
      PROVE  \/ done'[l] = latest'[l]
             \/ \E s \in Slots : slot'[s].valid /\ slot'[s].lba = l /\ Busy(s, {"modified"})'
  <2>1. ASSUME NEW s \in Slots, Busy(s, {"modified"}) PROVE slot[s].ref = 1
    BY <2>1, Basics DEF Busy, HoldInv, Held, Holding
  <2> QED BY <2>1 DEF Marks
<1>2. ASSUME NEW l \in Lbas
      PROVE  \/ done'[l] <= Dev(l)'
             \/ \E s \in Slots : slot'[s].valid /\ slot'[s].lba = l /\ slot'[s].dirty
  <2>1. /\ done'[l] = done[l] /\ done[l] <= latest[l] /\ Dev(l) <= latest[l]
        /\ {done[l], latest[l], Dev(l)} \subseteq Nat
    BY Numbers DEF Order, Ordered
  <2>2. Dev(l)' = Dev(l) \/ Dev(l)' = latest[l]
    BY WriteBack
  <2>3. CASE done[l] <= Dev(l)
    BY <2>1, <2>2, <2>3
  <2>4. ASSUME NEW s \in Slots, slot[s].valid, slot[s].lba = l, slot[s].dirty
        PROVE  \/ done'[l] <= Dev(l)'
               \/ \E t \in Slots : slot'[t].valid /\ slot'[t].lba = l /\ slot'[t].dirty
    <3>1. CASE s = v
      <4>1. Dev(l)' = latest[l]
        BY <2>4, <3>1, WriteBack
      <4> QED BY <2>1, <4>1
    <3>2. CASE s # v
      BY <2>4, <3>2
    <3> QED BY <3>1, <3>2
  <2> QED BY <2>3, <2>4 DEF Marks
<1> QED BY <1>1, <1>2 DEF Marks

(* The victim's contents are on the device before its slot is taken.          *)
LEMMA GetOverwriteCache ==
  ASSUME NEW p \in Procs, NEW l \in Lbas, CacheInv, GetOverwrite(p, l)
  PROVE  CacheInv'
<1> USE DEF CacheInv
<1>0. PICK v \in Slots, r \in SlotType :
        /\ slot' = [slot EXCEPT ![v] = r] /\ slot[v].ref = 0
        /\ r.valid /\ r.lba = l /\ r.data = Zeros /\ ~r.dirty /\ r.ref = 1
        /\ buf' = [buf EXCEPT ![p] = v] /\ pc' = [pc EXCEPT ![p] = "overwrite"]
        /\ pc[p] = "in" /\ sync.dev = NoVol /\ VolOf[l] = On[p] /\ ~Cached(l)
        /\ pend' = WrittenBack(v) /\ pend' \in Versions /\ fails' = fails /\ Keep
  BY GetOverwriteView
<1>1. HoldInv'
  BY GetOverwriteHold
<1>2. SyncLocked' /\ Progress'
  BY <1>0 DEF SyncLocked, Progress, Keep
<1>3. Order'
  BY <1>0, WriteBackOrder
<1>4. slot'[v] = r /\ \A s \in Slots \ {v} : slot'[s] = slot[s]
  BY <1>0 DEF HoldInv, TypeOK
<1>5. /\ slot[v].valid => slot[v].data = latest[slot[v].lba]
      /\ \A m \in Lbas : Dev(m)' = IF slot[v].valid /\ m = slot[v].lba
                                   THEN slot[v].data ELSE Dev(m)
  BY <1>0, WriteBack DEF Keep
<1>6. /\ \A s \in Slots \ {v} :
           /\ Busy(s, {"overwrite"})' <=> Busy(s, {"overwrite"})
           /\ Busy(s, {"overwrite", "modified"})' <=> Busy(s, {"overwrite", "modified"})
           /\ Busy(s, {"modified"})' <=> Busy(s, {"modified"})
      /\ Busy(v, {"overwrite"})' /\ Busy(v, {"overwrite", "modified"})'
      /\ ~Busy(v, {"modified"})
  <2>1. /\ pc'[p] = "overwrite" /\ buf'[p] = v /\ pc[p] = "in"
        /\ \A q \in Procs \ {p} : pc'[q] = pc[q] /\ buf'[q] = buf[q]
    BY <1>0 DEF HoldInv, TypeOK
  <2>2. ~Busy(v, {"modified"})
    BY <1>0, FreeSlot
  <2> QED BY <2>1, <2>2 DEF Busy
<1>7. Contents'
  <2>1. Copy(v)'
    BY <1>0, <1>4, <1>6 DEF Copy
  <2>2. ASSUME NEW s \in Slots \ {v}, slot'[s].valid PROVE Copy(s)'
    <3>1. /\ slot[s].lba \in Lbas /\ Copy(s) /\ latest' = latest
          /\ slot[v].valid => slot[s].lba # slot[v].lba
      BY <1>0, <1>4, <2>2 DEF HoldInv, Held, Contents, OneCopy, Keep
    <3> QED BY <1>4, <1>5, <1>6, <3>1 DEF Copy
  <2>3. ASSUME NEW m \in Lbas, ~Cached(m)' PROVE latest'[m] = Dev(m)'
    <3>1. CASE slot[v].valid /\ m = slot[v].lba
      BY <1>0, <1>5, <3>1 DEF Keep
    <3>2. CASE ~(slot[v].valid /\ m = slot[v].lba)
      <4>1. ~Cached(m)
        BY <1>4, <2>3, <3>2 DEF Cached
      <4> QED BY <1>0, <1>5, <3>2, <4>1 DEF Contents, Keep
    <3> QED BY <3>1, <3>2
  <2> QED BY <2>1, <2>2, <2>3 DEF Contents
<1>8. Marks'
  <2>1. \A s \in Slots : slot[s].ref = 1 => s # v
    BY <1>0
  <2> QED BY <1>0, <1>4, <1>6, <2>1, HeldValid, WriteBackMarks
<1> QED BY <1>1, <1>2, <1>3, <1>7, <1>8

(* The victim's contents are on the device before it is dropped.              *)
LEMMA ReadFailsCache ==
  ASSUME NEW p \in Procs, NEW l \in Lbas, CacheInv, ReadFails(p, l)
  PROVE  CacheInv'
<1> USE DEF CacheInv
<1>0. PICK v \in Slots, r \in SlotType :
        /\ slot' = [slot EXCEPT ![v] = r] /\ slot[v].ref = 0 /\ ~r.valid /\ r.ref = 0
        /\ sync.dev = NoVol /\ pend' = WrittenBack(v) /\ pend' \in Versions
        /\ fails' \in Nat /\ Keep /\ UNCHANGED <<pc, buf>>
  BY ReadFailsView
<1>1. HoldInv'
  BY ReadFailsHold
<1>2. SyncLocked' /\ Progress'
  BY <1>0 DEF SyncLocked, Progress, Keep
<1>3. Order'
  BY <1>0, WriteBackOrder
<1>4. slot'[v] = r /\ \A s \in Slots \ {v} : slot'[s] = slot[s]
  BY <1>0 DEF HoldInv, TypeOK
<1>5. /\ slot[v].valid => slot[v].data = latest[slot[v].lba]
      /\ \A m \in Lbas : Dev(m)' = IF slot[v].valid /\ m = slot[v].lba
                                   THEN slot[v].data ELSE Dev(m)
  BY <1>0, WriteBack DEF Keep
<1>6. \A s \in Slots : /\ Busy(s, {"overwrite"})' <=> Busy(s, {"overwrite"})
                       /\ Busy(s, {"overwrite", "modified"})' <=> Busy(s, {"overwrite", "modified"})
                       /\ Busy(s, {"modified"})' <=> Busy(s, {"modified"})
  BY <1>0 DEF Busy
<1>7. Contents'
  <2>1. ASSUME NEW s \in Slots, slot'[s].valid PROVE Copy(s)'
    <3>1. /\ s # v /\ slot[s].lba \in Lbas /\ Copy(s) /\ latest' = latest
          /\ slot[v].valid => slot[s].lba # slot[v].lba
      BY <1>0, <1>4, <2>1 DEF HoldInv, Held, Contents, OneCopy, Keep
    <3> QED BY <1>4, <1>5, <1>6, <3>1 DEF Copy
  <2>2. ASSUME NEW m \in Lbas, ~Cached(m)' PROVE latest'[m] = Dev(m)'
    <3>1. CASE slot[v].valid /\ m = slot[v].lba
      BY <1>0, <1>5, <3>1 DEF Keep
    <3>2. CASE ~(slot[v].valid /\ m = slot[v].lba)
      <4>1. ~Cached(m)
        BY <1>4, <2>2, <3>2 DEF Cached
      <4> QED BY <1>0, <1>5, <3>2, <4>1 DEF Contents, Keep
    <3> QED BY <3>1, <3>2
  <2> QED BY <2>1, <2>2 DEF Contents
<1>8. Marks'
  <2>1. \A s \in Slots : slot[s].ref = 1 => s # v
    BY <1>0
  <2> QED BY <1>0, <1>4, <1>6, <2>1, HeldValid, WriteBackMarks
<1> QED BY <1>1, <1>2, <1>3, <1>7, <1>8

(* The victim's contents are on the device, and the new ones come from there. *)
LEMMA GetMissCache ==
  ASSUME NEW p \in Procs, NEW l \in Lbas, CacheInv, GetMiss(p, l)
  PROVE  CacheInv'
<1> USE DEF CacheInv
<1>0. PICK v \in Slots, r \in SlotType :
        /\ slot[v].ref = 0
        /\ r.valid /\ r.lba = l /\ r.data = Device(pend', l) /\ ~r.dirty /\ r.ref = 1
        /\ buf' = [buf EXCEPT ![p] = v] /\ pc' = [pc EXCEPT ![p] = "got"]
        /\ pc[p] = "in" /\ sync.dev = NoVol /\ VolOf[l] = On[p] /\ ~Cached(l)
        /\ pend' = WrittenBack(v) /\ pend' \in Versions /\ fails' \in Nat /\ Keep
        /\ \/ slot' = [slot EXCEPT ![v] = r]
           \/ \E w \in Slots \ {v}, t \in SlotType :
                /\ slot[w].ref = 0 /\ ~(slot[w].valid /\ slot[w].dirty)
                /\ l + 1 \in Lbas /\ NotIn(v, l + 1)
                /\ t.valid /\ t.lba = l + 1 /\ t.data = Device(pend', l + 1)
                /\ ~t.dirty /\ t.ref = 0
                /\ slot' = [[slot EXCEPT ![v] = r] EXCEPT ![w] = t]
  BY GetMissView
<1>1. HoldInv'
  BY GetMissHold
<1>2. SyncLocked' /\ Progress'
  BY <1>0 DEF SyncLocked, Progress, Keep
<1>3. Order'
  BY <1>0, WriteBackOrder
<1>4. /\ slot[v].valid => slot[v].data = latest[slot[v].lba]
      /\ \A m \in Lbas : Dev(m)' = IF slot[v].valid /\ m = slot[v].lba
                                   THEN slot[v].data ELSE Dev(m)
  BY <1>0, WriteBack DEF Keep
<1>5. \A s \in Slots : /\ Busy(s, {"overwrite"})' <=> Busy(s, {"overwrite"})
                       /\ Busy(s, {"overwrite", "modified"})' <=> Busy(s, {"overwrite", "modified"})
                       /\ Busy(s, {"modified"})' <=> Busy(s, {"modified"})
  <2>1. /\ pc'[p] = "got" /\ pc[p] = "in"
        /\ \A q \in Procs \ {p} : pc'[q] = pc[q] /\ buf'[q] = buf[q]
    BY <1>0 DEF HoldInv, TypeOK
  <2> QED BY <2>1 DEF Busy
<1>6. ASSUME NEW m \in Lbas, NotIn(v, m)
      PROVE  Device(pend', m) = Dev(m)' /\ latest'[m] = Dev(m)'
  <2>1. Device(pend', m) = Dev(m)'
    BY <1>0 DEF Dev, Device, Keep
  <2>2. CASE slot[v].valid /\ m = slot[v].lba
    BY <1>0, <1>4, <2>1, <2>2 DEF Keep
  <2>3. CASE ~(slot[v].valid /\ m = slot[v].lba)
    <3>1. ~Cached(m)
      BY <1>6, <2>3 DEF Cached, NotIn
    <3> QED BY <1>0, <1>4, <2>1, <2>3, <3>1 DEF Contents, Keep
  <2> QED BY <2>2, <2>3
<1>7. ASSUME NEW s \in Slots, slot[s].valid, s # v, slot'[s] = slot[s] PROVE Copy(s)'
  <2>1. /\ slot[s].lba \in Lbas /\ Copy(s) /\ latest' = latest
        /\ slot[v].valid => slot[s].lba # slot[v].lba
    BY <1>0, <1>7 DEF HoldInv, Held, Contents, OneCopy, Keep
  <2> QED BY <1>4, <1>5, <1>7, <2>1 DEF Copy
<1>8. slot'[v] = r => Copy(v)'
  <2>1. NotIn(v, l)
    BY <1>0 DEF NotIn, Cached
  <2> QED BY <1>0, <1>6, <2>1 DEF Copy
<1>9. ASSUME NEW m \in Lbas, ~Cached(m)',
             \A s \in Slots : slot[s].valid /\ slot[s].lba = m =>
               s = v \/ (slot[s].ref = 0 /\ ~slot[s].dirty) \/ slot'[s] = slot[s]
      PROVE  latest'[m] = Dev(m)'
  <2>1. CASE slot[v].valid /\ m = slot[v].lba
    BY <1>0, <1>4, <2>1 DEF Keep
  <2>2. CASE ~(slot[v].valid /\ m = slot[v].lba)
    <3>1. CASE ~Cached(m)
      BY <1>6, <3>1 DEF Cached, NotIn
    <3>2. ASSUME NEW s \in Slots, slot[s].valid, slot[s].lba = m PROVE latest[m] = Dev(m)
      <4>1. slot'[s] # slot[s]
        BY <1>9, <3>2 DEF Cached
      <4>2. slot[s].ref = 0 /\ ~slot[s].dirty
        BY <1>9, <2>2, <3>2, <4>1
      <4>3. ~Busy(s, {"overwrite"}) /\ ~Busy(s, {"overwrite", "modified"})
        BY <4>2, FreeSlot
      <4> QED BY <3>2, <4>2, <4>3 DEF Contents, Copy
    <3> QED BY <1>0, <1>4, <2>2, <3>1, <3>2 DEF Cached, Keep
  <2> QED BY <2>1, <2>2
<1>10. CASE slot' = [slot EXCEPT ![v] = r]
  <2>1. slot'[v] = r /\ \A s \in Slots \ {v} : slot'[s] = slot[s]
    BY <1>10 DEF HoldInv, TypeOK
  <2>2. Contents'
    BY <1>7, <1>8, <1>9, <2>1 DEF Contents
  <2>3. \A s \in Slots : slot[s].ref = 1 => s # v
    BY <1>0
  <2>4. Marks'
    BY <1>0, <1>5, <2>1, <2>3, HeldValid, WriteBackMarks
  <2> QED BY <1>1, <1>2, <1>3, <2>2, <2>4
<1>11. ASSUME NEW w \in Slots \ {v}, NEW t \in SlotType,
              slot[w].ref = 0, ~(slot[w].valid /\ slot[w].dirty),
              l + 1 \in Lbas, NotIn(v, l + 1),
              t.valid, t.lba = l + 1, t.data = Device(pend', l + 1), ~t.dirty, t.ref = 0,
              slot' = [[slot EXCEPT ![v] = r] EXCEPT ![w] = t]
       PROVE  CacheInv'
  <2>1. slot'[v] = r /\ slot'[w] = t /\ \A s \in Slots \ {v, w} : slot'[s] = slot[s]
    BY <1>11 DEF HoldInv, TypeOK
  <2>2. Copy(w)'
    <3>1. PICK k \in Lbas : k = l + 1
      BY <1>11
    <3>2. Device(pend', k) = Dev(k)' /\ latest'[k] = Dev(k)'
      BY <1>6, <1>11, <3>1
    <3> QED BY <1>11, <2>1, <3>1, <3>2 DEF Copy
  <2>3. Contents'
    BY <1>7, <1>8, <1>9, <1>11, <2>1, <2>2 DEF Contents
  <2>4. \A s \in Slots : slot[s].ref = 1 => s # v /\ s # w
    BY <1>0, <1>11
  <2>5. \A s \in Slots \ {v} : slot[s].valid /\ slot[s].dirty => s # w
    BY <1>11
  <2>6. Marks'
    BY <1>0, <1>5, <2>1, <2>4, <2>5, HeldValid, WriteBackMarks
  <2> QED BY <1>1, <1>2, <1>3, <2>3, <2>6
<1> QED BY <1>0, <1>10, <1>11

(* When a sync ends without a failure, the device has what it has to cover.   *)
LEMMA AllWritten ==
  ASSUME CacheInv, sync.dev # NoVol, sync.next = NSlots + 1, ~sync.failed,
         NEW l \in Lbas, VolOf[l] = sync.dev
  PROVE  sync.want[l] <= Dev(l)
<1>1. ASSUME NEW s \in Slots PROVE ~(sync.next <= s)
  BY Basics DEF Slots
<1>2. ~Pending(l)
  BY <1>1 DEF Pending
<1> QED BY <1>2 DEF CacheInv, Progress

(* When it drops a slot, the slot is clean and the device has its contents.   *)
LEMMA CleanDrop ==
  ASSUME CacheInv, sync.dev # NoVol, sync.next = NSlots + 1, sync.drop, ~sync.failed,
         NEW s \in Slots, slot[s].ref = 0, OnDev(s)
  PROVE  ~slot[s].dirty /\ latest[slot[s].lba] = Dev(slot[s].lba)
<1> USE DEF CacheInv
<1>1. s < sync.next
  BY Basics DEF Slots
<1>2. ~slot[s].dirty
  BY <1>1 DEF Progress
<1>3. ~Busy(s, {"overwrite"}) /\ ~Busy(s, {"overwrite", "modified"})
  BY FreeSlot
<1> QED BY <1>2, <1>3 DEF OnDev, Contents, Copy

(* The end of a sync drops slots the device has, and what it promises is on   *)
(* the medium.                                                                *)
LEMMA SyncEndCache ==
  ASSUME NEW ok \in BOOLEAN, CacheInv, SyncEnd(ok)
  PROVE  CacheInv'
<1> USE DEF CacheInv
<1>0. /\ sync.dev # NoVol /\ sync.next = NSlots + 1
      /\ slot' \in [Slots -> SlotType]
      /\ \A s \in Slots :
           \/ slot'[s] = slot[s]
           \/ /\ ~slot'[s].valid /\ slot'[s].ref = 0 /\ slot[s].ref = 0 /\ OnDev(s)
              /\ sync.drop /\ ~sync.failed
      /\ sync' \in SyncType /\ sync'.dev = NoVol
      /\ media' = [l \in Lbas |-> IF ok /\ VolOf[l] = sync.dev THEN Device(pend, l)
                                 ELSE media[l]]
      /\ pend' = [l \in Lbas |-> IF ok /\ VolOf[l] = sync.dev THEN None ELSE pend[l]]
      /\ synced' = [l \in Lbas |-> IF VolOf[l] = sync.dev /\ ok /\ ~sync.failed
                                   THEN sync.want[l] ELSE synced[l]]
      /\ media' \in Versions /\ pend' \in Versions /\ synced' \in Versions
      /\ pc' = [p \in Procs |-> IF pc[p] = "sync" THEN "in" ELSE pc[p]]
      /\ fails' \in Nat /\ UNCHANGED <<vol, buf, latest, done, ver, crashes>>
  BY SyncEndView
<1>1. HoldInv'
  BY SyncEndHold
<1>2. SyncLocked' /\ Progress'
  BY <1>0 DEF SyncLocked, Progress
<1>3. \A l \in Lbas : Dev(l)' = Dev(l)
  <2>1. ASSUME NEW l \in Lbas PROVE Dev(l)' = Dev(l)
    <3>1. CASE ok /\ VolOf[l] = sync.dev
      BY <1>0, <3>1 DEF Dev, Device
    <3>2. CASE ~(ok /\ VolOf[l] = sync.dev)
      BY <1>0, <3>2 DEF Dev, Device
    <3> QED BY <3>1, <3>2
  <2> QED BY <2>1
<1>4. \A s \in Slots : /\ Busy(s, {"overwrite"})' <=> Busy(s, {"overwrite"})
                       /\ Busy(s, {"overwrite", "modified"})' <=> Busy(s, {"overwrite", "modified"})
                       /\ Busy(s, {"modified"})' <=> Busy(s, {"modified"})
  <2>1. \A q \in Procs : /\ pc'[q] \in {"overwrite"} <=> pc[q] \in {"overwrite"}
                         /\ pc'[q] \in {"overwrite", "modified"}
                              <=> pc[q] \in {"overwrite", "modified"}
                         /\ pc'[q] \in {"modified"} <=> pc[q] \in {"modified"}
    BY <1>0
  <2> QED BY <1>0, <2>1 DEF Busy
<1>5. Contents'
  <2>1. ASSUME NEW s \in Slots, slot'[s].valid PROVE Copy(s)'
    <3>1. slot'[s] = slot[s]
      BY <1>0, <2>1
    <3>2. slot[s].lba \in Lbas /\ Copy(s) /\ latest' = latest
      BY <1>0, <2>1, <3>1 DEF HoldInv, Held, Contents
    <3> QED BY <1>3, <1>4, <3>1, <3>2 DEF Copy
  <2>2. ASSUME NEW l \in Lbas, ~Cached(l)' PROVE latest'[l] = Dev(l)'
    <3>1. CASE ~Cached(l)
      BY <1>0, <1>3, <3>1 DEF Contents
    <3>2. CASE Cached(l)
      <4>1. PICK s \in Slots : slot[s].valid /\ slot[s].lba = l
        BY <3>2 DEF Cached
      <4>2. slot'[s] # slot[s]
        BY <2>2, <4>1 DEF Cached
      <4>3. OnDev(s) /\ sync.drop /\ ~sync.failed /\ slot[s].ref = 0
        BY <1>0, <4>2
      <4>4. Dev(l) = latest[l]
        BY <1>0, <4>1, <4>3, CleanDrop
      <4> QED BY <1>0, <1>3, <4>4
    <3> QED BY <3>1, <3>2
  <2> QED BY <2>1, <2>2 DEF Contents
<1>6. Order'
  <2>1. ASSUME NEW l \in Lbas PROVE Ordered(l)'
    <3>1. Ordered(l) /\ {media[l], Dev(l), latest[l], ver, done[l], synced[l]} \subseteq Nat
      BY Numbers DEF Order
    <3>2. media'[l] = IF ok /\ VolOf[l] = sync.dev THEN Dev(l) ELSE media[l]
      BY <1>0 DEF Dev
    <3>3. synced'[l] <= media'[l]
      <4>1. CASE VolOf[l] = sync.dev /\ ok /\ ~sync.failed
        <5>1. synced'[l] = sync.want[l] /\ sync.want[l] <= Dev(l)
          BY <1>0, <4>1, AllWritten
        <5> QED BY <3>2, <4>1, <5>1
      <4>2. CASE ~(VolOf[l] = sync.dev /\ ok /\ ~sync.failed)
        <5>1. synced'[l] = synced[l]
          BY <1>0, <4>2
        <5> QED BY <3>1, <3>2, <5>1 DEF Ordered
      <4> QED BY <4>1, <4>2
    <3>4. /\ Dev(l)' = Dev(l) /\ latest'[l] = latest[l] /\ done'[l] = done[l] /\ ver' = ver
          /\ media'[l] <= Dev(l)
      BY <1>0, <1>3, <3>1, <3>2 DEF Ordered
    <3> QED BY <3>1, <3>3, <3>4 DEF Ordered
  <2> QED BY <1>0, <2>1 DEF Order
<1>7. Marks'
  <2>1. ASSUME NEW s \in Slots, slot[s].valid, Busy(s, {"modified"}) PROVE slot'[s] = slot[s]
    BY <1>0, <2>1, FreeSlot
  <2>2. ASSUME NEW s \in Slots, slot[s].valid, slot[s].dirty PROVE slot'[s] = slot[s]
    BY <1>0, <2>2, CleanDrop
  <2> QED BY <1>0, <1>3, <1>4, <2>1, <2>2 DEF Marks
<1> QED BY <1>1, <1>2, <1>5, <1>6, <1>7

(* After a crash the medium is all there is.                                  *)
LEMMA CrashCache ==
  ASSUME CacheInv, Crash
  PROVE  CacheInv'
<1> USE DEF CacheInv
<1>0. /\ sync' \in SyncType /\ sync'.dev = NoVol
      /\ slot' \in [Slots -> SlotType]
      /\ \A s \in Slots : ~slot'[s].valid /\ slot'[s].ref = 0
      /\ crashes' = crashes + 1 /\ pend' = [l \in Lbas |-> None] /\ pend' \in Versions
      /\ vol' = [u \in Vols |-> NoProc]
      /\ pc' = [p \in Procs |-> "out"] /\ buf' = [p \in Procs |-> NoSlot]
      /\ media' \in Versions
      /\ \A l \in Lbas : media'[l] = media[l] \/ (pend[l] # None /\ media'[l] = pend[l])
      /\ latest' = media' /\ done' = media' /\ UNCHANGED <<synced, ver, fails>>
  BY CrashView
<1>1. HoldInv'
  BY CrashHold
<1>2. SyncLocked' /\ Progress'
  BY <1>0 DEF SyncLocked, Progress
<1>3. \A l \in Lbas : Dev(l)' = media'[l]
  BY <1>0 DEF Dev, Device
<1>4. Contents'
  BY <1>0, <1>3 DEF Contents
<1>5. Order'
  <2>1. ASSUME NEW l \in Lbas PROVE Ordered(l)'
    <3>1. Ordered(l) /\ {media[l], Dev(l), latest[l], ver, done[l], synced[l]} \subseteq Nat
      BY Numbers DEF Order
    <3>2. media'[l] = media[l] \/ media'[l] = Dev(l)
      BY <1>0 DEF Dev, Device
    <3> QED BY <1>0, <1>3, <3>1, <3>2 DEF Ordered
  <2> QED BY <1>0, <2>1 DEF Order
<1>6. Marks'
  <2>1. \A l \in Lbas : done'[l] = latest'[l] /\ done'[l] <= Dev(l)'
    BY <1>0, <1>3 DEF Versions
  <2> QED BY <2>1 DEF Marks
<1> QED BY <1>1, <1>2, <1>4, <1>5, <1>6

-----------------------------------------------------------------------------
(* The invariants and what follows.                                           *)

(* The empty cache.                                                           *)
LEMMA InitCache == Init => CacheInv
<1> SUFFICES ASSUME Init PROVE CacheInv
  OBVIOUS
<1> USE Basics
<1>1. Empty \in SlotType /\ ~Empty.valid /\ Empty.ref = 0
  BY DEF Empty, SlotType
<1> HIDE DEF Empty
<1>2. TypeOK
  <2>1. media \in Versions /\ pend \in Versions
    BY DEF Init, Versions
  <2> QED BY <1>1, <2>1, IdleType DEF Init, TypeOK
<1>3. \A s \in Slots : ~slot[s].valid /\ slot[s].ref = 0
  BY <1>1 DEF Init
<1>4. Locks /\ Held /\ OneCopy
  BY <1>3 DEF Init, Locks, Held, OneCopy, Holding
<1>5. SyncLocked /\ Progress
  BY IdleType DEF Init, SyncLocked, Progress
<1>6. \A l \in Lbas : Dev(l) = 0 /\ latest[l] = 0
  BY DEF Init, Dev, Device
<1>7. Contents
  BY <1>3, <1>6 DEF Contents
<1>8. Order
  BY <1>6 DEF Init, Order, Ordered
<1>9. Marks
  <2>1. \A l \in Lbas : done[l] = latest[l] /\ done[l] <= Dev(l)
    BY <1>6 DEF Init
  <2> QED BY <2>1 DEF Marks
<1> QED BY <1>2, <1>4, <1>5, <1>7, <1>8, <1>9 DEF CacheInv, HoldInv

(* Every step keeps locks, holders and copies, whoever syncs.                 *)
LEMMA NextHold == HoldInv /\ [Next]_vars => HoldInv'
<1> SUFFICES ASSUME HoldInv, [Next]_vars PROVE HoldInv'
  OBVIOUS
<1>1. CASE UNCHANGED vars
  BY <1>1 DEF vars, HoldInv, TypeOK, Locks, Held, OneCopy
<1>2. ASSUME NEW p \in Procs,
             \/ Enter(p) \/ Leave(p) \/ Modify(p)
             \/ bcache_mark_dirty(p) \/ bcache_release(p)
      PROVE  HoldInv'
  BY <1>2, EnterHold, LeaveHold, ModifyHold, bcache_mark_dirtyHold,
     bcache_releaseHold
<1>3. ASSUME NEW p \in Procs, NEW l \in Lbas,
             \/ GetHit(p, l) \/ GetMiss(p, l) \/ GetOverwrite(p, l)
             \/ EvictFails(p, l) \/ ReadFails(p, l)
      PROVE  HoldInv'
  BY <1>3, GetHitHold, GetMissHold, GetOverwriteHold, EvictFailsHold,
     ReadFailsHold
<1>4. CASE SyncStart \/ SyncSkip \/ SyncClear \/ Crash
  BY <1>4, SyncStartHold, SyncSkipHold, SyncClearHold, CrashHold
<1>5. ASSUME NEW ok \in BOOLEAN, SyncWrite(ok) \/ SyncEnd(ok) PROVE HoldInv'
  BY <1>5, SyncWriteHold, SyncEndHold
<1> QED BY <1>1, <1>2, <1>3, <1>4, <1>5 DEF Next

(* Every step keeps the contents, except one that clears a newer mark.        *)
LEMMA NextCache ==
  ASSUME CacheInv, [Next]_vars, [~ClearsNewer]_vars
  PROVE  CacheInv'
<1>1. CASE UNCHANGED vars
  <2>1. HoldInv'
    BY NextHold DEF CacheInv
  <2>2. /\ \A s \in Slots : Busy(s, {"overwrite"})' <=> Busy(s, {"overwrite"})
        /\ \A s \in Slots : Busy(s, {"overwrite", "modified"})' <=> Busy(s, {"overwrite", "modified"})
        /\ \A s \in Slots : Busy(s, {"modified"})' <=> Busy(s, {"modified"})
    BY <1>1 DEF vars, Busy
  <2>3. Contents' /\ Order' /\ Marks'
    BY <1>1, <2>2, SameContents DEF vars
  <2>4. SyncLocked' /\ Progress'
    <3>1. done' \in Versions /\ \A m \in Lbas : done[m] <= done'[m]
      BY <1>1, Numbers DEF vars, CacheInv, HoldInv, TypeOK
    <3> QED BY <1>1, <3>1, SameProgress DEF vars, CacheInv, SyncLocked
  <2> QED BY <2>1, <2>3, <2>4 DEF CacheInv
<1>2. ASSUME NEW p \in Procs,
             \/ Enter(p) \/ Leave(p) \/ Modify(p)
             \/ bcache_mark_dirty(p) \/ bcache_release(p)
      PROVE  CacheInv'
  BY <1>2, EnterCache, LeaveCache, ModifyCache, bcache_mark_dirtyCache,
     bcache_releaseCache
<1>3. ASSUME NEW p \in Procs, NEW l \in Lbas,
             \/ GetHit(p, l) \/ GetMiss(p, l) \/ GetOverwrite(p, l)
             \/ EvictFails(p, l) \/ ReadFails(p, l)
      PROVE  CacheInv'
  BY <1>3, GetHitCache, GetMissCache, GetOverwriteCache, EvictFailsCache,
     ReadFailsCache
<1>4. CASE SyncStart \/ SyncSkip \/ Crash
  BY <1>4, SyncStartCache, SyncSkipCache, CrashCache
<1>5. ASSUME NEW ok \in BOOLEAN, SyncWrite(ok) \/ SyncEnd(ok) PROVE CacheInv'
  BY <1>5, SyncWriteCache, SyncEndCache
<1>6. CASE SyncClear /\ vars' # vars
  BY <1>6, SyncClearCache
<1> QED BY <1>1, <1>2, <1>3, <1>4, <1>5, <1>6 DEF Next

(* HoldInv is an invariant.                                                   *)
THEOREM HoldInvariance == Spec => []HoldInv
<1>1. Init => HoldInv
  BY InitCache DEF CacheInv
<1> QED BY <1>1, NextHold, PTL DEF Spec

(* Every variable keeps its type (block_cache.c).                             *)
THEOREM CacheTypes == Spec => []TypeOK
<1>1. HoldInv => TypeOK
  BY DEF HoldInv
<1> QED BY <1>1, HoldInvariance, PTL

(* A sector is in one slot at most, with or without unlocked syncs: a miss, a *)
(* read-ahead or an eviction leaves no second copy (block_cache.c:172-203,    *)
(* 229-271).                                                                  *)
THEOREM OneCopyHolds == Spec => []OneCopy
<1>1. HoldInv => OneCopy
  BY DEF HoldInv
<1> QED BY <1>1, HoldInvariance, PTL

(* A held buffer keeps its sector until its release, through evictions,       *)
(* read-ahead and drops, with or without unlocked syncs                       *)
(* (block_cache.c:131-140, 318-334).                                          *)
THEOREM HeldStaysHolds == Spec => HeldStays
<1> DEFINE Stays ==
      \A p \in Procs :
        buf[p] # NoSlot /\ buf'[p] = buf[p]
            => slot'[buf[p]].valid /\ slot'[buf[p]].lba = slot[buf[p]].lba
<1>1. HoldInv /\ HoldInv' /\ [Next]_vars => [Stays]_vars
  <2> SUFFICES ASSUME HoldInv, HoldInv', Next, NEW p \in Procs,
                      buf[p] # NoSlot, buf'[p] = buf[p]
               PROVE  slot'[buf[p]].valid /\ slot'[buf[p]].lba = slot[buf[p]].lba
    OBVIOUS
  <2>1. slot'[buf[p]].valid
    BY DEF HoldInv, Held
  <2>2. PICK s \in Slots : s = buf[p] /\ slot[s].ref = 1
    BY DEF HoldInv, TypeOK, Held
  <2>3. slot'[s].lba = slot[s].lba
    <3>1. ASSUME NEW q \in Procs, NEW l \in Lbas, GetHit(q, l) PROVE slot'[s].lba = slot[s].lba
      BY <3>1, GetHitView DEF HoldInv, TypeOK
    <3>2. ASSUME NEW q \in Procs, NEW l \in Lbas, GetMiss(q, l) PROVE slot'[s].lba = slot[s].lba
      BY <2>2, <3>2, GetMissView DEF HoldInv, TypeOK
    <3>3. ASSUME NEW q \in Procs, NEW l \in Lbas, GetOverwrite(q, l)
          PROVE  slot'[s].lba = slot[s].lba
      BY <2>2, <3>3, GetOverwriteView DEF HoldInv, TypeOK
    <3>4. ASSUME NEW q \in Procs, NEW l \in Lbas, ReadFails(q, l) PROVE slot'[s].lba = slot[s].lba
      BY <2>2, <3>4, ReadFailsView DEF HoldInv, TypeOK
    <3>5. ASSUME NEW q \in Procs, Modify(q) PROVE slot'[s].lba = slot[s].lba
      BY <3>5, ModifyView DEF HoldInv, TypeOK
    <3>6. ASSUME NEW q \in Procs, bcache_mark_dirty(q) PROVE slot'[s].lba = slot[s].lba
      BY <3>6, MarkView DEF HoldInv, TypeOK
    <3>7. ASSUME NEW q \in Procs, bcache_release(q) PROVE slot'[s].lba = slot[s].lba
      BY <3>7, ReleaseView DEF HoldInv, TypeOK
    <3>8. CASE SyncClear
      BY <3>8, SyncClearView DEF HoldInv, TypeOK
    <3>9. ASSUME NEW ok \in BOOLEAN, SyncEnd(ok) PROVE slot'[s].lba = slot[s].lba
      BY <2>2, <3>9, SyncEndView
    <3>10. CASE Crash
      BY <3>10, CrashView, <2>1, <2>2
    <3>11. ASSUME slot' = slot PROVE slot'[s].lba = slot[s].lba
      BY <3>11
    <3> QED
      BY <3>1, <3>2, <3>3, <3>4, <3>5, <3>6, <3>7, <3>8, <3>9, <3>10, <3>11
      DEF Next, Enter, Leave, EvictFails, SyncStart, SyncSkip, SyncWrite
  <2> QED BY <2>1, <2>2, <2>3
<1> HIDE DEF Stays
<1>2. Spec => [][Stays]_vars
  BY <1>1, HoldInvariance, PTL DEF Spec
<1> QED BY <1>2 DEF Stays, HeldStays

(* CacheInv is an invariant of every behaviour in which no sync clears a mark *)
(* made after it wrote the slot, whether the syncs take the volume lock       *)
(* (exfat.c:999, 1801) or not (vfs.c:1397, storage.c:192).                    *)
THEOREM CacheInvariance == Spec /\ NoStaleClear => []CacheInv
<1>1. CacheInv /\ [Next]_vars /\ [~ClearsNewer]_vars => CacheInv'
  BY NextCache
<1> QED BY <1>1, InitCache, PTL DEF Spec, NoStaleClear

(* Nothing written is lost while the machine runs: a get sees the newest      *)
(* contents, from the cache or the device, although requests fail and fsync   *)
(* runs beside the writer, unless a sync clears a mark made after it wrote    *)
(* the slot (block_cache.c:242-271, 294-334).                                 *)
THEOREM ReadsLatestHolds == Spec /\ NoStaleClear => []ReadsLatest
<1>1. ASSUME CacheInv PROVE ReadsLatest
  <2> USE <1>1 DEF CacheInv
  <2> SUFFICES ASSUME NEW l \in Lbas,
                      \A p \in Procs : ~(pc[p] = "overwrite" /\ slot[buf[p]].lba = l)
               PROVE  latest[l] = IF Cached(l) THEN slot[find_entry(l)].data
                                  ELSE Device(pend, l)
    BY DEF ReadsLatest
  <2>1. CASE ~Cached(l)
    BY <2>1 DEF Contents, Dev
  <2>2. CASE Cached(l)
    <3>1. PICK s \in Slots : s = find_entry(l) /\ slot[s].valid /\ slot[s].lba = l
      BY <2>2, FindEntry
    <3>2. ~Busy(s, {"overwrite"})
      BY <3>1 DEF Busy
    <3> QED BY <2>2, <3>1, <3>2 DEF Contents, Copy
  <2> QED BY <2>1, <2>2
<1> QED BY <1>1, CacheInvariance, PTL

(* What a sync covered that returned 0, and whose flush was carried out, is   *)
(* on the medium, whatever is written, evicted or lost in a crash afterwards, *)
(* unless a sync clears a mark made after it wrote the slot                   *)
(* (block_cache.c:294-309).                                                   *)
THEOREM SyncedSurvivesHolds == Spec /\ NoStaleClear => []SyncedSurvives
<1>1. CacheInv => SyncedSurvives
  <2> SUFFICES ASSUME CacheInv, NEW l \in Lbas PROVE media[l] >= synced[l]
    BY DEF SyncedSurvives
  <2>1. Ordered(l) /\ {media[l], synced[l]} \subseteq Nat
    BY Numbers DEF CacheInv, Order
  <2> QED BY <2>1 DEF Ordered
<1> QED BY <1>1, CacheInvariance, PTL

=============================================================================
