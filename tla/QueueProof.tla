----------------------------- MODULE QueueProof -----------------------------
(* Proofs about the queues that tasks and work items wait on: WaitQueue (any *)
(* number of waiters, killers and queues, until a killer wakes through a     *)
(* stale t->wq), Workqueue (any number of CPUs, items, submitters and        *)
(* flushers) and RoundRobin (any tasks, weights, batch and bounds).          *)
EXTENDS WaitQueue, Workqueue, RoundRobin, FiniteSetTheorems, SequenceTheorems,
        WellFoundedInduction, TLAPS

-----------------------------------------------------------------------------
(* Sequences.                                                               *)

(* A nonempty set of naturals has a least member, which Min names.          *)
LEMMA MinNat ==
  ASSUME NEW S \in SUBSET Nat, S # {}
  PROVE  Min(S) \in S /\ \A n \in S : Min(S) <= n
<1>1. PICK m \in S : \A n \in S : ~(<<n, m>> \in OpToRel(<, Nat))
  BY NatLessThanWellFounded, WFMin
<1>2. \A n \in S : ~(n < m)
  BY <1>1 DEF OpToRel
<1>3. \A n \in S : m <= n
  BY <1>2
<1> QED BY <1>3 DEF Min

(* A list without repetitions loses the item at a position and nothing      *)
(* else.                                                                    *)
LEMMA RemoveAtList ==
  ASSUME NEW S, NEW s \in Seq(S), IsInjective(s), NEW k \in 1 .. Len(s)
  PROVE  /\ RemoveAt(s, k) \in Seq(S) /\ IsInjective(RemoveAt(s, k))
         /\ ToSet(RemoveAt(s, k)) = ToSet(s) \ {s[k]}
<1> DEFINE a == SubSeq(s, 1, k - 1)
           b == SubSeq(s, k + 1, Len(s))
           r == a \o b
<1>1. /\ a \in Seq(S) /\ Len(a) = k - 1 /\ \A j \in 1 .. k - 1 : a[j] = s[j]
      /\ b \in Seq(S) /\ Len(b) = Len(s) - k /\ \A j \in 1 .. Len(s) - k : b[j] = s[k + j]
  <2>1. (\A j \in 1 .. k - 1 : s[j] \in S) /\ (\A j \in k + 1 .. Len(s) : s[j] \in S)
    OBVIOUS
  <2>2. a \in Seq(S) /\ Len(a) = k - 1 /\ \A j \in 1 .. k - 1 : a[j] = s[j]
    BY <2>1, SubSeqProperties
  <2>3. /\ b \in Seq(S) /\ Len(b) = Len(s) - (k + 1) + 1
        /\ \A j \in 1 .. Len(s) - (k + 1) + 1 : b[j] = s[k + 1 + j - 1]
    BY <2>1, SubSeqProperties
  <2> HIDE DEF b
  <2>4. Len(s) - (k + 1) + 1 = Len(s) - k /\ \A j \in Nat : k + 1 + j - 1 = k + j
    OBVIOUS
  <2> QED BY <2>2, <2>3, <2>4
<1>2. r = RemoveAt(s, k)
  BY DEF RemoveAt
<1> HIDE DEF a, b
<1>3. /\ r \in Seq(S) /\ Len(r) = Len(a) + Len(b)
      /\ \A j \in 1 .. Len(a) + Len(b) : r[j] = IF j <= Len(a) THEN a[j] ELSE b[j - Len(a)]
  BY <1>1, ConcatProperties
<1> HIDE DEF r
<1>4. Len(r) = Len(s) - 1 /\ DOMAIN r = 1 .. Len(s) - 1
  BY <1>1, <1>3
<1>5. ASSUME NEW j \in 1 .. Len(s) - 1
      PROVE  r[j] = IF j < k THEN s[j] ELSE s[j + 1]
  <2>1. CASE j < k
    <3>1. j \in 1 .. Len(a) + Len(b) /\ j <= Len(a) /\ j \in 1 .. k - 1
      BY <1>1, <2>1
    <3>2. r[j] = a[j] /\ a[j] = s[j]
      BY <1>1, <1>3, <3>1
    <3> QED BY <2>1, <3>2
  <2>2. CASE ~(j < k)
    <3>0. PICK n \in Nat : n = Len(a) /\ n = k - 1
      BY <1>1
    <3>1. r[j] = b[j - (k - 1)]
      <4>1. j \in 1 .. Len(a) + Len(b) /\ ~(j <= Len(a))
        BY <1>1, <2>2
      <4>2. r[j] = b[j - Len(a)]
        BY <1>3, <4>1
      <4> QED BY <3>0, <4>2
    <3>2. j - (k - 1) \in 1 .. Len(s) - k /\ k + (j - (k - 1)) = j + 1
      BY <2>2
    <3> QED BY <1>1, <2>2, <3>1, <3>2
  <2> QED BY <2>1, <2>2
<1>6. \A m, n \in 1 .. Len(s) : s[m] = s[n] => m = n
  BY DEF IsInjective
<1>7. IsInjective(r)
  <2> SUFFICES ASSUME NEW i \in 1 .. Len(s) - 1, NEW j \in 1 .. Len(s) - 1, r[i] = r[j]
               PROVE  i = j
    BY <1>4 DEF IsInjective
  <2>1. CASE i < k
    BY <1>5, <1>6, <2>1
  <2>2. CASE ~(i < k)
    BY <1>5, <1>6, <2>2
  <2> QED BY <2>1, <2>2
<1>8. ASSUME NEW x \in ToSet(r) PROVE x \in ToSet(s) /\ x # s[k]
  <2>1. PICK j \in 1 .. Len(s) - 1 : r[j] = x
    BY <1>4 DEF ToSet
  <2>2. r[j] = IF j < k THEN s[j] ELSE s[j + 1]
    BY <1>5
  <2>3. CASE j < k
    BY <1>6, <2>1, <2>2, <2>3 DEF ToSet
  <2>4. CASE ~(j < k)
    <3>1. j + 1 \in 1 .. Len(s) /\ j + 1 # k /\ x = s[j + 1]
      BY <2>1, <2>2, <2>4
    <3> QED BY <1>6, <3>1 DEF ToSet
  <2> QED BY <2>3, <2>4
<1>9. ASSUME NEW x \in ToSet(s), x # s[k] PROVE x \in ToSet(r)
  <2>1. PICK j \in 1 .. Len(s) : s[j] = x /\ j # k
    BY <1>9 DEF ToSet
  <2>2. CASE j < k
    BY <1>4, <1>5, <2>1, <2>2 DEF ToSet
  <2>3. CASE j > k
    <3>1. j - 1 \in 1 .. Len(s) - 1 /\ r[j - 1] = s[j - 1 + 1] /\ j - 1 + 1 = j
      BY <1>5, <2>1, <2>3
    <3> QED BY <1>4, <2>1, <3>1 DEF ToSet
  <2> QED BY <2>1, <2>2, <2>3
<1>10. ToSet(r) = ToSet(s) \ {s[k]}
  BY <1>8, <1>9
<1> QED BY <1>2, <1>3, <1>7, <1>10

(* rq_remove_locked: a ring without repetitions loses the task and nothing  *)
(* else.                                                                    *)
LEMMA RemoveFirstList ==
  ASSUME NEW S, NEW s \in Seq(S), IsInjective(s), NEW e
  PROVE  /\ RemoveFirst(s, e) \in Seq(S) /\ IsInjective(RemoveFirst(s, e))
         /\ ToSet(RemoveFirst(s, e)) = ToSet(s) \ {e}
<1>1. CASE \E i \in 1 .. Len(s) : s[i] = e
  <2> DEFINE I == {i \in 1 .. Len(s) : s[i] = e}
             k == SelectInSeq(s, LAMBDA x : x = e)
  <2>1. I \in SUBSET Nat /\ I # {}
    BY <1>1
  <2>2. k = Min(I)
    BY <2>1 DEF SelectInSeq
  <2>3. k \in 1 .. Len(s) /\ s[k] = e
    BY <2>1, <2>2, MinNat
  <2>4. RemoveFirst(s, e) = RemoveAt(s, k)
    BY <1>1 DEF RemoveFirst
  <2> HIDE DEF k
  <2>5. /\ RemoveAt(s, k) \in Seq(S) /\ IsInjective(RemoveAt(s, k))
        /\ ToSet(RemoveAt(s, k)) = ToSet(s) \ {s[k]}
    BY <2>3, RemoveAtList
  <2> QED BY <2>3, <2>4, <2>5
<1>2. CASE \A i \in 1 .. Len(s) : s[i] # e
  <2>1. RemoveFirst(s, e) = s
    BY <1>2 DEF RemoveFirst
  <2>2. e \notin ToSet(s)
    BY <1>2 DEF ToSet
  <2> QED BY <2>1, <2>2
<1> QED BY <1>1, <1>2

(* work_submit, task_enqueue: a new item goes to the tail, once.            *)
LEMMA AppendQueue ==
  ASSUME NEW S, NEW s \in Seq(S), IsInjective(s), NEW e \in S, e \notin ToSet(s)
  PROVE  /\ Append(s, e) \in Seq(S) /\ IsInjective(Append(s, e))
         /\ ToSet(Append(s, e)) = ToSet(s) \cup {e} /\ Len(Append(s, e)) = Len(s) + 1
<1> DEFINE r == Append(s, e)
<1>1. /\ r \in Seq(S) /\ Len(r) = Len(s) + 1 /\ r[Len(s) + 1] = e
      /\ \A j \in 1 .. Len(s) : r[j] = s[j]
  BY AppendProperties
<1> HIDE DEF r
<1>2. DOMAIN r = 1 .. Len(s) + 1 /\ DOMAIN s = 1 .. Len(s) /\ Len(s) \in Nat
  BY <1>1
<1>3. \A j \in 1 .. Len(s) : s[j] # e
  BY DEF ToSet
<1>4. \A j \in 1 .. Len(s) + 1 : j \in 1 .. Len(s) \/ j = Len(s) + 1
  BY <1>2
<1>5. IsInjective(r)
  BY <1>1, <1>2, <1>3, <1>4 DEF IsInjective
<1>6. ToSet(r) \subseteq ToSet(s) \cup {e}
  BY <1>1, <1>2, <1>4 DEF ToSet
<1>7. ASSUME NEW x \in ToSet(s) \cup {e} PROVE x \in ToSet(r)
  <2>1. CASE x = e
    BY <1>1, <1>2, <2>1 DEF ToSet
  <2>2. CASE x # e
    <3>1. PICK j \in 1 .. Len(s) : s[j] = x
      BY <1>2, <2>2 DEF ToSet
    <3>2. j \in DOMAIN r /\ r[j] = x
      BY <1>1, <1>2, <3>1
    <3> QED BY <3>2 DEF ToSet
  <2> QED BY <2>1, <2>2
<1> QED BY <1>1, <1>5, <1>6, <1>7 DEF r

(* sleep_sweep: what it wakes goes behind the ring.                         *)
LEMMA ConcatRing ==
  ASSUME NEW S, NEW s \in Seq(S), IsInjective(s), NEW u \in Seq(S), IsInjective(u),
         ToSet(s) \cap ToSet(u) = {}
  PROVE  /\ s \o u \in Seq(S) /\ IsInjective(s \o u)
         /\ ToSet(s \o u) \subseteq ToSet(s) \cup ToSet(u)
<1> DEFINE r == s \o u
<1>1. /\ r \in Seq(S) /\ Len(r) = Len(s) + Len(u)
      /\ \A j \in 1 .. Len(s) + Len(u) : r[j] = IF j <= Len(s) THEN s[j] ELSE u[j - Len(s)]
  BY ConcatProperties
<1> HIDE DEF r
<1>2. /\ DOMAIN r = 1 .. Len(s) + Len(u) /\ DOMAIN s = 1 .. Len(s) /\ DOMAIN u = 1 .. Len(u)
      /\ Len(s) \in Nat /\ Len(u) \in Nat
  BY <1>1
<1>3. ASSUME NEW j \in DOMAIN r
      PROVE  \/ j \in DOMAIN s /\ r[j] = s[j]
             \/ ~(j <= Len(s)) /\ j - Len(s) \in DOMAIN u /\ r[j] = u[j - Len(s)]
  BY <1>1, <1>2
<1>4. ToSet(r) \subseteq ToSet(s) \cup ToSet(u)
  BY <1>3 DEF ToSet
<1>5. ASSUME NEW i \in DOMAIN r, NEW j \in DOMAIN r, r[i] = r[j] PROVE i = j
  <2>1. CASE i \in DOMAIN s /\ j \in DOMAIN s
    BY <1>2, <1>3, <1>5, <2>1 DEF IsInjective
  <2>2. CASE ~(i \in DOMAIN s) /\ ~(j \in DOMAIN s)
    <3>1. /\ i - Len(s) \in DOMAIN u /\ j - Len(s) \in DOMAIN u
          /\ u[i - Len(s)] = u[j - Len(s)]
      BY <1>3, <1>5, <2>2
    <3>2. i - Len(s) = j - Len(s)
      BY <3>1 DEF IsInjective
    <3> QED BY <1>2, <3>2
  <2>3. CASE i \in DOMAIN s /\ ~(j \in DOMAIN s)
    <3>1. r[i] \in ToSet(s)
      BY <1>2, <1>3, <2>3 DEF ToSet
    <3>2. r[j] \in ToSet(u)
      BY <1>3, <2>3 DEF ToSet
    <3> QED BY <1>5, <3>1, <3>2
  <2>4. CASE ~(i \in DOMAIN s) /\ j \in DOMAIN s
    <3>1. r[j] \in ToSet(s)
      BY <1>2, <1>3, <2>4 DEF ToSet
    <3>2. r[i] \in ToSet(u)
      BY <1>3, <2>4 DEF ToSet
    <3> QED BY <1>5, <3>1, <3>2
  <2> QED BY <2>1, <2>2, <2>3, <2>4
<1>6. IsInjective(r)
  BY <1>5 DEF IsInjective
<1> QED BY <1>1, <1>4, <1>6 DEF r

-----------------------------------------------------------------------------
(* WaitQueue.                                                               *)

(* Entering the loop takes a free lock and nothing else.                   *)
LEMMA waitq_lockStep ==
  ASSUME WaitInv, NEW t \in Waiters, NEW x \in BlocksOn[t], waitq_lock(t, x)
  PROVE  WaitInv'
<1>0. x \in Queues /\ x # Null /\ at' = [at EXCEPT ![t] = x]
  BY NullAssumption, BlocksOnAssumption DEF waitq_lock
<1>1. WaitTypeOK'
  BY <1>0 DEF WaitInv, WaitTypeOK, waitq_lock, Go, killVars
<1>2. LinkedExact'
  BY DEF WaitInv, LinkedExact, AtExact, waitq_lock, Go
<1>3. LockExact'
  BY NullAssumption DEF WaitInv, WaitTypeOK, LockExact, waitq_lock, Go
<1>4. AtExact'
  BY <1>0, NullAssumption DEF WaitInv, WaitTypeOK, AtExact, waitq_lock, Go
<1>5. KillerExact'
  BY DEF WaitInv, KillerExact, waitq_lock, killVars
<1>6. WaitsForFalse'
  BY DEF WaitInv, WaitsForFalse, waitq_lock, Go
<1> QED BY <1>1, <1>2, <1>3, <1>4, <1>5, <1>6 DEF WaitInv

(* Deciding to block: the condition is false, and stays so under the lock. *)
LEMMA TestStep ==
  ASSUME WaitInv, NEW t \in Waiters, Test(t)
  PROVE  WaitInv'
<1>1. WaitTypeOK'
  BY DEF WaitInv, WaitTypeOK, Test, Go, killVars
<1>2. LinkedExact'
  BY DEF WaitInv, LinkedExact, Test, Go
<1>3. LockExact'
  BY DEF WaitInv, LockExact, Test, Go
<1>4. AtExact'
  BY DEF WaitInv, AtExact, Test, Go
<1>5. KillerExact'
  BY DEF WaitInv, KillerExact, Test, killVars
<1>6. WaitsForFalse'
  BY DEF WaitInv, WaitsForFalse, Test, Go
<1> QED BY <1>1, <1>2, <1>3, <1>4, <1>5, <1>6 DEF WaitInv

(* Taking the condition and leaving.                                       *)
LEMMA ConsumeStep ==
  ASSUME WaitInv, NEW t \in Waiters, Consume(t)
  PROVE  WaitInv'
<1>1. WaitTypeOK'
  BY DEF WaitInv, WaitTypeOK, Consume, Go, Unlock, killVars
<1>2. LinkedExact'
  BY DEF WaitInv, LinkedExact, AtExact, Consume, Go
<1>3. LockExact'
  BY NullAssumption DEF WaitInv, WaitTypeOK, LockExact, Consume, Go, Unlock
<1>4. AtExact'
  BY DEF WaitInv, WaitTypeOK, AtExact, Consume, Go
<1>5. KillerExact'
  BY DEF WaitInv, KillerExact, Consume, killVars
<1>6. WaitsForFalse'
  BY DEF WaitInv, WaitsForFalse, Consume, Go
<1> QED BY <1>1, <1>2, <1>3, <1>4, <1>5, <1>6 DEF WaitInv

(* Leaving because of a kill; the task is on no list.                      *)
LEMMA StopStep ==
  ASSUME WaitInv, NEW t \in Waiters, Stop(t)
  PROVE  WaitInv'
<1>1. WaitTypeOK'
  BY DEF WaitInv, WaitTypeOK, Stop, Go, Unlock, killVars
<1>2. LinkedExact'
  BY DEF WaitInv, LinkedExact, AtExact, Stop, Go
<1>3. LockExact'
  BY NullAssumption DEF WaitInv, WaitTypeOK, LockExact, Stop, Go, Unlock
<1>4. AtExact'
  BY DEF WaitInv, WaitTypeOK, AtExact, Stop, Go
<1>5. KillerExact'
  BY DEF WaitInv, KillerExact, Stop, killVars
<1>6. WaitsForFalse'
  BY DEF WaitInv, WaitsForFalse, Stop, Go
<1> QED BY <1>1, <1>2, <1>3, <1>4, <1>5, <1>6 DEF WaitInv

(* Register, mark and publish the back pointer under the lock.             *)
LEMMA waitq_blockStep ==
  ASSUME WaitInv, NEW t \in Waiters, waitq_block(t)
  PROVE  WaitInv'
<1>1. WaitTypeOK'
  BY NullAssumption DEF WaitInv, WaitTypeOK, AtExact, waitq_block, Go, killVars
<1>2. LinkedExact'
  BY DEF WaitInv, WaitTypeOK, LinkedExact, waitq_block, Go
<1>3. LockExact'
  BY DEF WaitInv, LockExact, waitq_block, Go
<1>4. AtExact'
  BY DEF WaitInv, WaitTypeOK, AtExact, waitq_block, Go
<1>5. KillerExact'
  BY DEF WaitInv, KillerExact, waitq_block, killVars
<1>6. WaitsForFalse'
  BY DEF WaitInv, WaitsForFalse, waitq_block, Go
<1> QED BY <1>1, <1>2, <1>3, <1>4, <1>5, <1>6 DEF WaitInv

(* Commit to sleep; nobody woke the task under our lock.                   *)
LEMMA CommitStep ==
  ASSUME WaitInv, NEW t \in Waiters, Commit(t)
  PROVE  WaitInv'
<1>1. WaitTypeOK'
  BY NullAssumption DEF WaitInv, WaitTypeOK, AtExact, Commit, Go, Unlock, killVars
<1>2. LinkedExact'
  BY DEF WaitInv, WaitTypeOK, LinkedExact, Commit, Go
<1>3. LockExact'
  BY NullAssumption DEF WaitInv, WaitTypeOK, LockExact, Commit, Go, Unlock
<1>4. AtExact'
  BY DEF WaitInv, WaitTypeOK, AtExact, Commit, Go
<1>5. KillerExact'
  BY DEF WaitInv, KillerExact, Commit, killVars
<1>6. WaitsForFalse'
  BY DEF WaitInv, WaitTypeOK, WaitsForFalse, Commit, Go
<1> QED BY <1>1, <1>2, <1>3, <1>4, <1>5, <1>6 DEF WaitInv

(* A woken task takes the lock again; the waker has unlinked it.           *)
LEMMA ResumeStep ==
  ASSUME WaitInv, NEW t \in Waiters, Resume(t)
  PROVE  WaitInv'
<1>1. WaitTypeOK'
  BY NullAssumption DEF WaitInv, WaitTypeOK, AtExact, Resume, Go, killVars
<1>2. LinkedExact'
  BY DEF WaitInv, WaitTypeOK, LinkedExact, Resume, Go
<1>3. LockExact'
  BY NullAssumption DEF WaitInv, WaitTypeOK, LockExact, Resume, Go
<1>4. AtExact'
  BY DEF WaitInv, AtExact, Resume, Go
<1>5. KillerExact'
  BY DEF WaitInv, KillerExact, Resume, killVars
<1>6. WaitsForFalse'
  BY DEF WaitInv, WaitsForFalse, Resume, Go
<1> QED BY <1>1, <1>2, <1>3, <1>4, <1>5, <1>6 DEF WaitInv

(* A new task in the slot.                                                 *)
LEMMA RespawnStep ==
  ASSUME WaitInv, NEW t \in Waiters, Respawn(t)
  PROVE  WaitInv'
<1>1. WaitTypeOK'
  BY DEF WaitInv, WaitTypeOK, Respawn, Go, killVars
<1>2. LinkedExact'
  BY DEF WaitInv, LinkedExact, Respawn, Go
<1>3. LockExact'
  BY DEF WaitInv, LockExact, Respawn, Go
<1>4. AtExact'
  BY DEF WaitInv, AtExact, Respawn, Go
<1>5. KillerExact'
  BY DEF WaitInv, KillerExact, Respawn, killVars
<1>6. WaitsForFalse'
  BY DEF WaitInv, WaitsForFalse, Respawn, Go
<1> QED BY <1>1, <1>2, <1>3, <1>4, <1>5, <1>6 DEF WaitInv

(* The producer wakes everybody on the list it drains.                     *)
LEMMA ProduceStep ==
  ASSUME WaitInv, NEW x \in Queues, Produce(x)
  PROVE  WaitInv'
<1>1. WaitTypeOK'
  BY DEF WaitInv, WaitTypeOK, Produce, killVars, wq_wake_all
<1>2. LinkedExact'
  BY NullAssumption DEF WaitInv, WaitTypeOK, LinkedExact, Produce, wq_wake_all
<1>3. LockExact'
  BY DEF WaitInv, LockExact, Produce
<1>4. AtExact'
  BY DEF WaitInv, AtExact, Produce, wq_wake_all
<1>5. KillerExact'
  BY DEF WaitInv, KillerExact, Produce, killVars
<1>6. WaitsForFalse'
  BY NullAssumption DEF WaitInv, LinkedExact, LockExact, WaitsForFalse, Produce, wq_wake_all
<1> QED BY <1>1, <1>2, <1>3, <1>4, <1>5, <1>6 DEF WaitInv

(* A killer sets the flag.                                                 *)
LEMMA task_killStep ==
  ASSUME WaitInv, NEW k \in Killers, NEW t \in Waiters, task_kill(k, t)
  PROVE  WaitInv'
<1>1. WaitTypeOK'
  BY DEF WaitInv, WaitTypeOK, task_kill, Hold
<1>2. LinkedExact'
  BY DEF WaitInv, LinkedExact, task_kill
<1>3. LockExact'
  BY DEF WaitInv, LockExact, task_kill
<1>4. AtExact'
  BY DEF WaitInv, AtExact, task_kill
<1>5. KillerExact'
  BY NullAssumption DEF WaitInv, WaitTypeOK, KillerExact, task_kill, Hold
<1>6. WaitsForFalse'
  BY DEF WaitInv, WaitsForFalse, task_kill
<1> QED BY <1>1, <1>2, <1>3, <1>4, <1>5, <1>6 DEF WaitInv

(* A signal only takes its target in hand.                                 *)
LEMMA task_signal_wakeStep ==
  ASSUME WaitInv, NEW k \in Killers, NEW t \in Waiters, task_signal_wake(k, t)
  PROVE  WaitInv'
<1>1. WaitTypeOK'
  BY DEF WaitInv, WaitTypeOK, task_signal_wake, Hold, waitVars
<1>2. LinkedExact'
  BY DEF WaitInv, LinkedExact, task_signal_wake, waitVars
<1>3. LockExact'
  BY DEF WaitInv, LockExact, task_signal_wake, waitVars
<1>4. AtExact'
  BY DEF WaitInv, AtExact, task_signal_wake, waitVars
<1>5. KillerExact'
  BY NullAssumption DEF WaitInv, WaitTypeOK, KillerExact, task_signal_wake, Hold
<1>6. WaitsForFalse'
  BY DEF WaitInv, WaitsForFalse, task_signal_wake, waitVars
<1> QED BY <1>1, <1>2, <1>3, <1>4, <1>5, <1>6 DEF WaitInv

(* The back pointer names the one queue the task blocks on.                *)
LEMMA ReadWqStep ==
  ASSUME WaitInv, NEW k \in Killers, ReadWq(k)
  PROVE  WaitInv'
<1>1. WaitTypeOK'
  BY NullAssumption DEF WaitInv, WaitTypeOK, KillerExact, ReadWq, Hold, waitVars
<1>2. LinkedExact'
  BY DEF WaitInv, LinkedExact, ReadWq, waitVars
<1>3. LockExact'
  BY DEF WaitInv, LockExact, ReadWq, waitVars
<1>4. AtExact'
  BY DEF WaitInv, AtExact, ReadWq, waitVars
<1>5. KillerExact'
  BY BlocksOnAssumption DEF WaitInv, WaitTypeOK, LinkedExact, AtExact, KillerExact,
     WaitsForFalse, ReadWq, Hold
<1>6. WaitsForFalse'
  BY DEF WaitInv, WaitsForFalse, ReadWq, waitVars
<1> QED BY <1>1, <1>2, <1>3, <1>4, <1>5, <1>6 DEF WaitInv

(* The queue read earlier is the right one, or the target is awake and on   *)
(* no list.                                                                 *)
LEMMA wake_waitq_sleeperStep ==
  ASSUME WaitInv, NEW k \in Killers, wake_waitq_sleeper(k), ~StaleWake(k)
  PROVE  WaitInv'
<1>1. WaitTypeOK'
  BY DEF WaitInv, WaitTypeOK, wake_waitq_sleeper, Hold
<1>2. LinkedExact'
  <2>0. PICK t, x : t = ktgt[k] /\ x = kwq[k]
    OBVIOUS
  <2>1. t \in Waiters /\ x \in Queues
    BY <2>0 DEF WaitInv, WaitTypeOK, KillerExact, wake_waitq_sleeper
  <2>2. state[t] = "sleeping" => at[t] = x
    BY <2>0 DEF StaleWake
  <2>3. /\ linked' = [linked EXCEPT ![x] = @ \ {t}] /\ wq' = [wq EXCEPT ![t] = Null]
        /\ state' = [state EXCEPT ![t] = "runnable"] /\ pc' = pc /\ at' = at
    BY <2>0 DEF wake_waitq_sleeper
  <2> QED BY <2>1, <2>2, <2>3, NullAssumption DEF WaitInv, WaitTypeOK, LinkedExact
<1>3. LockExact'
  BY DEF WaitInv, LockExact, wake_waitq_sleeper
<1>4. AtExact'
  BY DEF WaitInv, AtExact, wake_waitq_sleeper
<1>5. KillerExact'
  BY DEF WaitInv, WaitTypeOK, KillerExact, wake_waitq_sleeper, Hold
<1>6. WaitsForFalse'
  BY DEF WaitInv, WaitsForFalse, wake_waitq_sleeper
<1> QED BY <1>1, <1>2, <1>3, <1>4, <1>5, <1>6 DEF WaitInv

(* The initial state satisfies the invariant.                              *)
LEMMA WaitInitInv == WaitInit => WaitInv
BY NullAssumption, BlocksOnAssumption
DEF WaitInit, WaitInv, WaitTypeOK, LinkedExact, LockExact, AtExact, KillerExact, WaitsForFalse

(* Every step keeps it.                                                    *)
LEMMA WaitNextInv ==
  WaitInv /\ [WaitNext]_wqVars /\ [\A k \in Killers : ~StaleWake(k)]_wqVars => WaitInv'
<1> SUFFICES ASSUME WaitInv, [WaitNext]_wqVars,
                    [\A k \in Killers : ~StaleWake(k)]_wqVars, ~UNCHANGED wqVars
             PROVE  WaitInv'
  BY DEF wqVars, waitVars, killVars, WaitInv, WaitTypeOK, LinkedExact, LockExact, AtExact,
     KillerExact, WaitsForFalse
<1>0. \A k \in Killers : ~StaleWake(k)
  OBVIOUS
<1>1. ASSUME NEW t \in Waiters, Inside(t) PROVE WaitInv'
  BY <1>1, TestStep, ConsumeStep, StopStep, waitq_blockStep, CommitStep, ResumeStep DEF
     Inside
<1>2. ASSUME NEW t \in Waiters, NEW x \in BlocksOn[t], waitq_lock(t, x) PROVE WaitInv'
  BY <1>2, waitq_lockStep
<1>3. ASSUME NEW t \in Waiters, Respawn(t) PROVE WaitInv'
  BY <1>3, RespawnStep
<1>4. ASSUME NEW x \in Queues, Produce(x) PROVE WaitInv'
  BY <1>4, ProduceStep
<1>5. ASSUME NEW k \in Killers, KillerNext(k) PROVE WaitInv'
  BY <1>0, <1>5, ReadWqStep, wake_waitq_sleeperStep, task_killStep, task_signal_wakeStep DEF
     KillerNext
<1> QED BY <1>1, <1>2, <1>3, <1>4, <1>5 DEF WaitNext

(* The invariant holds as long as no wake is stale.                         *)
THEOREM WaitInvariant == WaitSpec /\ NoStaleWake => []WaitInv
<1>1. WaitInit => WaitInv BY WaitInitInv
<1>2. WaitInv /\ [WaitNext]_wqVars /\ [\A k \in Killers : ~StaleWake(k)]_wqVars => WaitInv'
  BY WaitNextInv
<1> QED BY <1>1, <1>2, PTL DEF WaitSpec, NoStaleWake

(* However many queues a task uses, a kill finds every sleeper and no task  *)
(* returns from waitq_block while it is on a list, as long as no killer     *)
(* wakes through a t->wq that has become another queue since it was read    *)
(* (wake_waitq_sleeper): nothing else in the wait queues breaks it.         *)
THEOREM ListAndBackPointerAgree == WaitSpec /\ NoStaleWake => []LinkedExact
<1>1. WaitSpec /\ NoStaleWake => []WaitInv BY WaitInvariant
<1>2. WaitInv => LinkedExact BY DEF WaitInv
<1> QED BY <1>1, <1>2, PTL

(* waitq.h's argument: testing and parking under one lock loses no wake,    *)
(* on any number of queues per task, as long as no wake is stale.           *)
THEOREM WakesAreDelivered == WaitSpec /\ NoStaleWake => []NoLostWakeup
<1>1. WaitSpec /\ NoStaleWake => []WaitInv BY WaitInvariant
<1>2. WaitInv => NoLostWakeup
  BY DEF WaitInv, WaitTypeOK, WaitsForFalse, NoLostWakeup
<1> QED BY <1>1, <1>2, PTL

-----------------------------------------------------------------------------
(* Workqueue.                                                               *)

(* Worker 1 exists on every machine and nobody kills it; the worker inside  *)
(* done_wq's critical section is about to store.                            *)
Pool ==
  /\ wpc[1] \notin {"none", "exited"}
  /\ \A w \in Workers : dlock = w <=> wpc[w] = "store"
  /\ \A s \in Submitters : plock = s => seen[s] < MaxInflight

(* What a flush owes is queued or runs.                                     *)
OwedKnown ==
  \A f \in Flushers : owed[f] \subseteq ToSet(q) \cup {w \in Workers : wpc[w] = "run"}

Held == IF plock = None THEN 0 ELSE 1
FirstRuns == IF wpc[1] \in {"run", "account", "store"} THEN 1 ELSE 0

(* One CPU: a single worker, one critical section at a time, so nothing     *)
(* comes between the load and the store of `inflight`.                      *)
OneCpu ==
  ncpus = 1 =>
    /\ \A w \in Workers \ {1} : wpc[w] = "none"
    /\ plock = None \/ dlock = None
    /\ plock # None => seen[plock] = inflight
    /\ dlock # None => seen[dlock] = inflight
    /\ inflight + Held = Len(q) + FirstRuns

FlushCounted == \A f \in Flushers : ncpus = 1 /\ fpc[f] = "parked" => inflight > 0

WorkInv ==
  /\ TypeOK /\ Pool /\ OnePendingRun /\ NoItemForgotten
  /\ OwedKnown /\ OneCpu /\ FlushWaitsOnOneCpu /\ FlushCounted

(* q_pop_locked: the queue loses its head and nothing else.                 *)
LEMMA TailQueue ==
  ASSUME NEW S, NEW s \in Seq(S), IsInjective(s), s # <<>>
  PROVE  /\ Head(s) \in ToSet(s) /\ Head(s) \in S
         /\ Tail(s) \in Seq(S) /\ IsInjective(Tail(s))
         /\ ToSet(Tail(s)) = ToSet(s) \ {Head(s)} /\ Len(Tail(s)) = Len(s) - 1
<1>1. /\ Len(s) \in Nat \ {0} /\ Head(s) = s[1] /\ Len(Tail(s)) = Len(s) - 1
      /\ \A j \in 1 .. Len(s) - 1 : Tail(s)[j] = s[j + 1]
  OBVIOUS
<1>2. Head(s) \in ToSet(s) /\ Head(s) \in S /\ Tail(s) \in Seq(S)
  BY <1>1 DEF ToSet
<1>3. IsInjective(Tail(s))
  BY <1>1, <1>2 DEF IsInjective
<1>4. ToSet(Tail(s)) \subseteq ToSet(s) \ {Head(s)}
  BY <1>1, <1>2 DEF ToSet, IsInjective
<1>5. ASSUME NEW x \in ToSet(s) \ {Head(s)} PROVE x \in ToSet(Tail(s))
  <2>1. PICK j \in 1 .. Len(s) : s[j] = x /\ j # 1
    BY <1>1 DEF ToSet
  <2>2. j - 1 \in DOMAIN Tail(s) /\ Tail(s)[j - 1] = x
    BY <1>1, <2>1
  <2> QED BY <2>2 DEF ToSet
<1> QED BY <1>1, <1>2, <1>3, <1>4, <1>5

-----------------------------------------------------------------------------
(* Steps.                                                                   *)

(* The item is linked, the counter loaded and the lock held.                *)
LEMMA work_submitKeeps ==
  ASSUME NEW p \in Submitters, NEW i \in Items, WorkInv, work_submit(p, i)
  PROVE  WorkInv'
<1> USE PoolAssumption, KillableAssumption DEF WorkInv, Workers, work_submit,
    CpuFree
<1>0. /\ q' \in Seq(Items) /\ IsInjective(q') /\ ToSet(q') = ToSet(q) \cup {i}
      /\ Len(q') = Len(q) + 1 /\ Len(q) \in Nat
  BY AppendQueue DEF TypeOK, OnePendingRun
<1>1. TypeOK'
  BY <1>0 DEF TypeOK, Pool
<1>2. Pool'
  BY <1>0 DEF TypeOK, Pool
<1>3. OnePendingRun'
  BY <1>0 DEF TypeOK, OnePendingRun
<1>4. NoItemForgotten'
  BY <1>0 DEF TypeOK, Pool, NoItemForgotten
<1>5. OwedKnown'
  BY <1>0 DEF TypeOK, OnePendingRun, OwedKnown
<1>6. OneCpu'
  BY <1>0 DEF TypeOK, Pool, OneCpu, Held, FirstRuns
<1>7. FlushWaitsOnOneCpu'
  BY <1>0 DEF TypeOK, Pool, OneCpu, Held, FirstRuns, OwedKnown,
     FlushWaitsOnOneCpu, FlushWaitsForAll
<1>8. FlushCounted'
  BY <1>0 DEF TypeOK, Pool, OneCpu, Held, FirstRuns, FlushCounted
<1> QED BY <1>1, <1>2, <1>3, <1>4, <1>5, <1>6, <1>7, <1>8

(* The counter is stored and a parked worker woken; if none is parked,      *)
(* worker 1 is awake.                                                       *)
LEMMA SubmitStoreKeeps ==
  ASSUME NEW p \in Submitters, WorkInv, SubmitStore(p)
  PROVE  WorkInv'
<1> USE PoolAssumption, KillableAssumption DEF WorkInv, Workers, SubmitStore
<1>0. /\ wpc' \in [Workers -> {"none", "loop", "parked", "run", "account", "store", "exited"}]
      /\ \A w \in Workers : wpc'[w] = wpc[w] \/ (wpc[w] = "parked" /\ wpc'[w] = "loop")
      /\ \E w \in Workers : wpc'[w] \notin {"none", "parked", "exited"}
  <2>1. CASE \E w \in Workers : wpc[w] = "parked"
    <3>1. PICK w \in Workers : wpc[w] = "parked" /\ wpc' = [wpc EXCEPT ![w] = "loop"]
      BY <2>1 DEF wake_one
    <3> QED BY <3>1 DEF TypeOK
  <2>2. CASE \A w \in Workers : wpc[w] # "parked"
    BY <2>2 DEF TypeOK, wake_one, Pool
  <2> QED BY <2>1, <2>2
<1>1. TypeOK'
  BY <1>0 DEF TypeOK, Pool
<1>2. Pool'
  BY <1>0 DEF TypeOK, Pool
<1>3. OnePendingRun'
  BY <1>0 DEF TypeOK, OnePendingRun
<1>4. NoItemForgotten'
  BY <1>0 DEF TypeOK, Pool, NoItemForgotten
<1>5. OwedKnown'
  BY <1>0 DEF TypeOK, OnePendingRun, OwedKnown
<1>6. OneCpu'
  BY <1>0 DEF TypeOK, Pool, OneCpu, Held, FirstRuns
<1>7. FlushWaitsOnOneCpu'
  BY <1>0 DEF TypeOK, Pool, OneCpu, Held, FirstRuns, OwedKnown,
     FlushWaitsOnOneCpu, FlushWaitsForAll
<1>8. FlushCounted'
  BY <1>0 DEF TypeOK, Pool, OneCpu, Held, FirstRuns, FlushCounted
<1> QED BY <1>1, <1>2, <1>3, <1>4, <1>5, <1>6, <1>7, <1>8

(* An item goes from the queue to the worker that runs it, and what is owed *)
(* for it goes along.                                                       *)
LEMMA q_popKeeps ==
  ASSUME NEW k \in Workers, WorkInv, q_pop(k)
  PROVE  WorkInv'
<1> USE PoolAssumption, KillableAssumption DEF WorkInv, Workers, q_pop,
    AtLoop, CpuFree
<1>0. /\ q' \in Seq(Items) /\ IsInjective(q') /\ ToSet(q') = ToSet(q) \ {Head(q)}
      /\ Len(q') = Len(q) - 1 /\ Len(q) \in Nat \ {0}
      /\ Head(q) \in ToSet(q) /\ Head(q) \in Items
  BY TailQueue DEF TypeOK, OnePendingRun
<1>1. TypeOK'
  BY <1>0 DEF TypeOK, Pool
<1>2. Pool'
  BY <1>0 DEF TypeOK, Pool
<1>3. OnePendingRun'
  BY <1>0 DEF TypeOK, OnePendingRun
<1>4. NoItemForgotten'
  BY <1>0 DEF TypeOK, Pool, NoItemForgotten
<1>5. OwedKnown'
  BY <1>0 DEF TypeOK, OnePendingRun, OwedKnown
<1>6. OneCpu'
  <2> SUFFICES ASSUME ncpus = 1 PROVE OneCpu'
    BY DEF OneCpu
  <2>1. k = 1 /\ wpc'[1] = "run" /\ wpc[1] = "loop"
    BY DEF TypeOK, OneCpu
  <2>2. \A w \in Workers \ {1} : wpc'[w] = "none"
    BY <2>1 DEF TypeOK, OneCpu
  <2>3. inflight' + Held' = Len(q') + FirstRuns'
    <3>1. FirstRuns = 0 /\ FirstRuns' = 1 /\ Held' = Held /\ inflight' = inflight
      BY <2>1 DEF Held, FirstRuns
    <3>2. inflight \in Nat /\ Held \in Nat /\ inflight + Held = Len(q) + FirstRuns
      BY DEF TypeOK, OneCpu, Held
    <3>3. inflight + Held = (Len(q) - 1) + 1
      <4> HIDE DEF q_pop, WorkInv
      <4>1. \A m, h, n \in Nat : m + h = n + 0 => m + h = (n - 1) + 1
        OBVIOUS
      <4> QED BY <1>0, <3>1, <3>2, <4>1
    <3> QED BY <1>0, <3>1, <3>3
  <2> QED BY <2>2, <2>3 DEF OneCpu
<1>7. FlushWaitsOnOneCpu'
  BY <1>0 DEF TypeOK, Pool, OneCpu, Held, FirstRuns, OwedKnown,
     FlushWaitsOnOneCpu, FlushWaitsForAll
<1>8. FlushCounted'
  BY <1>0 DEF TypeOK, Pool, OneCpu, Held, FirstRuns, FlushCounted
<1> QED BY <1>1, <1>2, <1>3, <1>4, <1>5, <1>6, <1>7, <1>8

(* A worker parks only over an empty queue.                                 *)
LEMMA ParkKeeps ==
  ASSUME NEW k \in Workers, WorkInv, Park(k)
  PROVE  WorkInv'
<1> USE PoolAssumption, KillableAssumption DEF WorkInv, Workers, Park, AtLoop,
    CpuFree
<1>1. TypeOK'
  BY DEF TypeOK, Pool
<1>2. Pool'
  BY DEF TypeOK, Pool
<1>3. OnePendingRun'
  BY DEF TypeOK, OnePendingRun
<1>4. NoItemForgotten'
  BY DEF TypeOK, Pool, NoItemForgotten
<1>5. OwedKnown'
  BY DEF TypeOK, OnePendingRun, OwedKnown
<1>6. OneCpu'
  BY DEF TypeOK, Pool, OneCpu, Held, FirstRuns
<1>7. FlushWaitsOnOneCpu'
  BY DEF TypeOK, Pool, OneCpu, Held, FirstRuns, OwedKnown, FlushWaitsOnOneCpu,
     FlushWaitsForAll
<1>8. FlushCounted'
  BY DEF TypeOK, Pool, OneCpu, Held, FirstRuns, FlushCounted
<1> QED BY <1>1, <1>2, <1>3, <1>4, <1>5, <1>6, <1>7, <1>8

(* A killed worker, never the first, quits over an empty queue.             *)
LEMMA QuitKeeps ==
  ASSUME NEW k \in Workers, WorkInv, Quit(k)
  PROVE  WorkInv'
<1> USE PoolAssumption, KillableAssumption DEF WorkInv, Workers, Quit, AtLoop,
    CpuFree
<1>1. TypeOK'
  BY DEF TypeOK, Pool
<1>2. Pool'
  BY DEF TypeOK, Pool
<1>3. OnePendingRun'
  BY DEF TypeOK, OnePendingRun
<1>4. NoItemForgotten'
  BY DEF TypeOK, Pool, NoItemForgotten
<1>5. OwedKnown'
  BY DEF TypeOK, OnePendingRun, OwedKnown
<1>6. OneCpu'
  BY DEF TypeOK, Pool, OneCpu, Held, FirstRuns
<1>7. FlushWaitsOnOneCpu'
  BY DEF TypeOK, Pool, OneCpu, Held, FirstRuns, OwedKnown, FlushWaitsOnOneCpu,
     FlushWaitsForAll
<1>8. FlushCounted'
  BY DEF TypeOK, Pool, OneCpu, Held, FirstRuns, FlushCounted
<1> QED BY <1>1, <1>2, <1>3, <1>4, <1>5, <1>6, <1>7, <1>8

(* A run ends, and nobody is owed it any more.                              *)
LEMMA CallbackKeeps ==
  ASSUME NEW k \in Workers, WorkInv, Callback(k)
  PROVE  WorkInv'
<1> USE PoolAssumption, KillableAssumption DEF WorkInv, Workers, Callback,
    CpuFree
<1>1. TypeOK'
  BY DEF TypeOK, Pool
<1>2. Pool'
  BY DEF TypeOK, Pool
<1>3. OnePendingRun'
  BY DEF TypeOK, OnePendingRun
<1>4. NoItemForgotten'
  BY DEF TypeOK, Pool, NoItemForgotten
<1>5. OwedKnown'
  BY DEF TypeOK, OnePendingRun, OwedKnown
<1>6. OneCpu'
  BY DEF TypeOK, Pool, OneCpu, Held, FirstRuns
<1>7. FlushWaitsOnOneCpu'
  BY DEF TypeOK, Pool, OneCpu, Held, FirstRuns, OwedKnown, FlushWaitsOnOneCpu,
     FlushWaitsForAll
<1>8. FlushCounted'
  BY DEF TypeOK, Pool, OneCpu, Held, FirstRuns, FlushCounted
<1> QED BY <1>1, <1>2, <1>3, <1>4, <1>5, <1>6, <1>7, <1>8

(* A worker enters done_wq's critical section and loads the counter.        *)
LEMMA AccountKeeps ==
  ASSUME NEW k \in Workers, WorkInv, Account(k)
  PROVE  WorkInv'
<1> USE PoolAssumption, KillableAssumption DEF WorkInv, Workers, Account,
    CpuFree
<1>1. TypeOK'
  BY DEF TypeOK, Pool
<1>2. Pool'
  <2>1. wpc'[1] \notin {"none", "exited"}
    BY DEF TypeOK, Pool
  <2>2. ASSUME NEW w \in Workers PROVE dlock' = w <=> wpc'[w] = "store"
    BY DEF TypeOK, Pool
  <2>3. ASSUME NEW p \in Submitters, plock' = p PROVE seen'[p] < MaxInflight
    BY <2>3 DEF TypeOK, Pool
  <2> QED BY <2>1, <2>2, <2>3 DEF Pool
<1>3. OnePendingRun'
  BY DEF TypeOK, OnePendingRun
<1>4. NoItemForgotten'
  BY DEF TypeOK, Pool, NoItemForgotten
<1>5. OwedKnown'
  BY DEF TypeOK, OnePendingRun, OwedKnown
<1>6. OneCpu'
  BY DEF TypeOK, Pool, OneCpu, Held, FirstRuns
<1>7. FlushWaitsOnOneCpu'
  BY DEF TypeOK, Pool, OneCpu, Held, FirstRuns, OwedKnown, FlushWaitsOnOneCpu,
     FlushWaitsForAll
<1>8. FlushCounted'
  BY DEF TypeOK, Pool, OneCpu, Held, FirstRuns, FlushCounted
<1> QED BY <1>1, <1>2, <1>3, <1>4, <1>5, <1>6, <1>7, <1>8

(* The worker stores the counter; at zero nobody stays parked.              *)
LEMMA AccountStoreKeeps ==
  ASSUME NEW k \in Workers, WorkInv, AccountStore(k)
  PROVE  WorkInv'
<1> USE PoolAssumption, KillableAssumption DEF WorkInv, Workers, AccountStore
<1>1. TypeOK'
  <2>1. inflight' \in 0 .. MaxInflight
    BY DEF TypeOK
  <2>2. fpc' \in [Flushers -> {"idle", "waiting", "parked", "back"}]
    BY DEF TypeOK
  <2>3. /\ wpc' \in [Workers -> {"none", "loop", "parked", "run", "account", "store", "exited"}]
        /\ seen' \in [Submitters \cup Workers -> 0 .. MaxInflight]
    BY DEF TypeOK
  <2> QED BY <2>1, <2>2, <2>3 DEF TypeOK
<1>2. Pool'
  BY DEF TypeOK, Pool
<1>3. OnePendingRun'
  BY DEF TypeOK, OnePendingRun
<1>4. NoItemForgotten'
  BY DEF TypeOK, Pool, NoItemForgotten
<1>5. OwedKnown'
  BY DEF TypeOK, Pool, OwedKnown
<1>6. OneCpu'
  BY DEF TypeOK, Pool, OneCpu, Held, FirstRuns
<1>7. FlushWaitsOnOneCpu'
  BY DEF TypeOK, Pool, OneCpu, Held, FirstRuns, OwedKnown, FlushWaitsOnOneCpu,
     FlushWaitsForAll
<1>8. FlushCounted'
  BY DEF TypeOK, Pool, OneCpu, Held, FirstRuns, FlushCounted
<1> QED BY <1>1, <1>2, <1>3, <1>4, <1>5, <1>6, <1>7, <1>8

(* A kill takes a parked worker, never the first, out of the wait queue.    *)
LEMMA KillKeeps ==
  ASSUME NEW k \in Workers, WorkInv, Kill(k)
  PROVE  WorkInv'
<1> USE PoolAssumption, KillableAssumption DEF WorkInv, Workers, Kill, CpuFree
<1>1. TypeOK'
  BY DEF TypeOK, Pool
<1>2. Pool'
  BY DEF TypeOK, Pool
<1>3. OnePendingRun'
  BY DEF TypeOK, OnePendingRun
<1>4. NoItemForgotten'
  BY DEF TypeOK, Pool, NoItemForgotten
<1>5. OwedKnown'
  BY DEF TypeOK, OnePendingRun, OwedKnown
<1>6. OneCpu'
  BY DEF TypeOK, Pool, OneCpu, Held, FirstRuns
<1>7. FlushWaitsOnOneCpu'
  BY DEF TypeOK, Pool, OneCpu, Held, FirstRuns, OwedKnown, FlushWaitsOnOneCpu,
     FlushWaitsForAll
<1>8. FlushCounted'
  BY DEF TypeOK, Pool, OneCpu, Held, FirstRuns, FlushCounted
<1> QED BY <1>1, <1>2, <1>3, <1>4, <1>5, <1>6, <1>7, <1>8

(* A flush owes what is queued and what runs.                               *)
LEMMA FlushCallKeeps ==
  ASSUME NEW g \in Flushers, WorkInv, FlushCall(g)
  PROVE  WorkInv'
<1> USE PoolAssumption, KillableAssumption DEF WorkInv, Workers, FlushCall,
    CpuFree
<1>1. TypeOK'
  BY DEF TypeOK, Pool
<1>2. Pool'
  BY DEF TypeOK, Pool
<1>3. OnePendingRun'
  BY DEF TypeOK, OnePendingRun
<1>4. NoItemForgotten'
  BY DEF TypeOK, Pool, NoItemForgotten
<1>5. OwedKnown'
  BY DEF TypeOK, OnePendingRun, OwedKnown
<1>6. OneCpu'
  BY DEF TypeOK, Pool, OneCpu, Held, FirstRuns
<1>7. FlushWaitsOnOneCpu'
  BY DEF TypeOK, Pool, OneCpu, Held, FirstRuns, OwedKnown, FlushWaitsOnOneCpu,
     FlushWaitsForAll
<1>8. FlushCounted'
  BY DEF TypeOK, Pool, OneCpu, Held, FirstRuns, FlushCounted
<1> QED BY <1>1, <1>2, <1>3, <1>4, <1>5, <1>6, <1>7, <1>8

(* A flush goes back when the counter is zero: on one CPU nothing is then   *)
(* queued and nothing runs.                                                 *)
LEMMA FlushTestKeeps ==
  ASSUME NEW g \in Flushers, WorkInv, FlushTest(g)
  PROVE  WorkInv'
<1> USE PoolAssumption, KillableAssumption DEF WorkInv, Workers, FlushTest,
    CpuFree
<1>1. TypeOK'
  BY DEF TypeOK, Pool
<1>2. Pool'
  BY DEF TypeOK, Pool
<1>3. OnePendingRun'
  BY DEF TypeOK, OnePendingRun
<1>4. NoItemForgotten'
  BY DEF TypeOK, Pool, NoItemForgotten
<1>5. OwedKnown'
  BY DEF TypeOK, OnePendingRun, OwedKnown
<1>6. OneCpu'
  BY DEF TypeOK, Pool, OneCpu, Held, FirstRuns
<1>7. FlushWaitsOnOneCpu'
  <2> SUFFICES ASSUME ncpus = 1, NEW f \in Flushers, fpc'[f] = "back"
               PROVE  owed[f] = {}
    BY DEF FlushWaitsOnOneCpu, FlushWaitsForAll
  <2>1. CASE f # g
    BY <2>1 DEF TypeOK, FlushWaitsOnOneCpu, FlushWaitsForAll
  <2>2. CASE f = g
    <3>1. inflight = 0 /\ plock = None
      BY <2>2 DEF TypeOK
    <3>2. Len(q) = 0 /\ wpc[1] # "run"
      BY <3>1 DEF TypeOK, OneCpu, Held, FirstRuns
    <3>3. ToSet(q) = {}
      BY <3>2 DEF TypeOK, ToSet
    <3>4. \A w \in Workers : wpc[w] # "run"
      BY <3>2 DEF OneCpu
    <3> QED BY <3>3, <3>4 DEF OwedKnown
  <2> QED BY <2>1, <2>2
<1>8. FlushCounted'
  BY DEF TypeOK, Pool, OneCpu, Held, FirstRuns, FlushCounted
<1> QED BY <1>1, <1>2, <1>3, <1>4, <1>5, <1>6, <1>7, <1>8

(* A flush that returns owes nothing.                                       *)
LEMMA FlushReturnKeeps ==
  ASSUME NEW g \in Flushers, WorkInv, FlushReturn(g)
  PROVE  WorkInv'
<1> USE PoolAssumption, KillableAssumption DEF WorkInv, Workers, FlushReturn,
    CpuFree
<1>1. TypeOK'
  BY DEF TypeOK, Pool
<1>2. Pool'
  BY DEF TypeOK, Pool
<1>3. OnePendingRun'
  BY DEF TypeOK, OnePendingRun
<1>4. NoItemForgotten'
  BY DEF TypeOK, Pool, NoItemForgotten
<1>5. OwedKnown'
  BY DEF TypeOK, OnePendingRun, OwedKnown
<1>6. OneCpu'
  BY DEF TypeOK, Pool, OneCpu, Held, FirstRuns
<1>7. FlushWaitsOnOneCpu'
  BY DEF TypeOK, Pool, OneCpu, Held, FirstRuns, OwedKnown, FlushWaitsOnOneCpu,
     FlushWaitsForAll
<1>8. FlushCounted'
  BY DEF TypeOK, Pool, OneCpu, Held, FirstRuns, FlushCounted
<1> QED BY <1>1, <1>2, <1>3, <1>4, <1>5, <1>6, <1>7, <1>8

(* The initial state: an empty queue, every worker of the machine in its    *)
(* loop.                                                                    *)
LEMMA InitWork == Init => WorkInv
<1> SUFFICES ASSUME Init PROVE WorkInv
  OBVIOUS
<1> USE PoolAssumption, KillableAssumption DEF Init, Workers
<1>1. ToSet(q) = {} /\ IsInjective(q) /\ Len(q) = 0
  BY DEF ToSet, IsInjective
<1>2. TypeOK
  BY DEF TypeOK
<1>3. Pool
  BY DEF Pool
<1>4. OneCpu
  BY <1>1 DEF OneCpu, Held, FirstRuns
<1>5. OwedKnown /\ OnePendingRun /\ NoItemForgotten
  BY <1>1 DEF OwedKnown, OnePendingRun, NoItemForgotten
<1>6. FlushWaitsOnOneCpu /\ FlushCounted
  BY DEF FlushWaitsOnOneCpu, FlushWaitsForAll, FlushCounted
<1> QED BY <1>2, <1>3, <1>4, <1>5, <1>6 DEF WorkInv

(* Every step keeps WorkInv.                                                *)
LEMMA NextWork == WorkInv /\ [Next]_vars => WorkInv'
<1> SUFFICES ASSUME WorkInv, [Next]_vars PROVE WorkInv'
  OBVIOUS
<1>1. ASSUME NEW p \in Submitters, SubmitStore(p) PROVE WorkInv'
  BY <1>1, SubmitStoreKeeps
<1>2. ASSUME NEW p \in Submitters, NEW i \in Items, work_submit(p, i) PROVE WorkInv'
  BY <1>2, work_submitKeeps
<1>3. ASSUME NEW k \in Workers, Worker(k) \/ Kill(k) PROVE WorkInv'
  BY <1>3, q_popKeeps, ParkKeeps, QuitKeeps, CallbackKeeps, AccountKeeps,
     AccountStoreKeeps, KillKeeps DEF Worker
<1>4. ASSUME NEW g \in Flushers, FlushCall(g) \/ FlushTest(g) \/ FlushReturn(g)
      PROVE  WorkInv'
  BY <1>4, FlushCallKeeps, FlushTestKeeps, FlushReturnKeeps
<1>5. CASE UNCHANGED vars
  BY <1>5 DEF vars, WorkInv, TypeOK, Pool, OnePendingRun, NoItemForgotten,
     OwedKnown,
     OneCpu, Held, FirstRuns, FlushWaitsOnOneCpu, FlushWaitsForAll, FlushCounted
<1> QED BY <1>1, <1>2, <1>3, <1>4, <1>5 DEF Next

(* WorkInv is an invariant of the work queue.                               *)
THEOREM WorkInvariance == Spec => []WorkInv
BY InitWork, NextWork, PTL DEF Spec

(* Type correctness; `inflight` in particular never falls below zero and    *)
(* never passes the bound at which work_submit stops.                       *)
THEOREM WorkTypes == Spec => []TypeOK
<1>1. WorkInv => TypeOK
  BY DEF WorkInv
<1> QED BY <1>1, WorkInvariance, PTL

(* work->queued is membership in the FIFO, and the FIFO holds no item       *)
(* twice, whoever submits what and when.                                    *)
THEOREM OnePendingRunHolds == Spec => []OnePendingRun
<1>1. WorkInv => OnePendingRun
  BY DEF WorkInv
<1> QED BY <1>1, WorkInvariance, PTL

(* work_submit's single wake is enough: items never wait for a pool that    *)
(* sleeps.                                                                  *)
THEOREM NoItemForgottenHolds == Spec => []NoItemForgotten
<1>1. WorkInv => NoItemForgotten
  BY DEF WorkInv
<1> QED BY <1>1, WorkInvariance, PTL

(* On one CPU work_flush returns only when everything submitted before the  *)
(* call has run.                                                            *)
THEOREM FlushWaits == Spec => []FlushWaitsOnOneCpu
<1>1. WorkInv => FlushWaitsOnOneCpu
  BY DEF WorkInv
<1> QED BY <1>1, WorkInvariance, PTL

(* On one CPU `inflight` counts exactly what is queued or unfinished, and   *)
(* no flusher stays parked once it is zero (work_submit, worker_main,       *)
(* work_flush).                                                             *)
THEOREM FlushNotForgotten == Spec => []FlushReleased
<1>1. WorkInv => FlushReleased
  <2> SUFFICES ASSUME WorkInv, ncpus = 1
               PROVE  /\ plock = None => inflight = Len(q) + Cardinality(Unfinished)
                      /\ \A f \in Flushers : fpc[f] = "parked" => inflight > 0
    BY DEF FlushReleased
  <2>1. \A w \in Workers \ {1} : wpc[w] = "none"
    BY DEF WorkInv, OneCpu
  <2>2. 1 \in Workers
    BY PoolAssumption DEF Workers
  <2>3. Unfinished = IF wpc[1] \in {"run", "account", "store"} THEN {1} ELSE {}
    BY <2>1, <2>2 DEF Unfinished
  <2>4. Cardinality({}) = 0 /\ Cardinality({1}) = 1
    BY FS_EmptySet, FS_Singleton
  <2>5. Cardinality(Unfinished) = FirstRuns
    BY <2>3, <2>4 DEF FirstRuns
  <2>6. inflight \in Nat /\ Len(q) \in Nat
    BY PoolAssumption DEF WorkInv, TypeOK
  <2>7. plock = None => inflight = Len(q) + FirstRuns
    BY <2>6 DEF WorkInv, OneCpu, Held
  <2>8. \A f \in Flushers : fpc[f] = "parked" => inflight > 0
    BY DEF WorkInv, FlushCounted
  <2> QED BY <2>5, <2>7, <2>8
<1> QED BY <1>1, WorkInvariance, PTL

-----------------------------------------------------------------------------
(* RoundRobin.                                                              *)

(* The ring holds no task twice, and one that is not RUNNABLE only while it *)
(* stands on another CPU's stack, about to take itself off; the running     *)
(* task is on no other CPU's stack.                                         *)
RingInv ==
  /\ ring \in Seq(Tasks) /\ IsInjective(ring)
  /\ current \in Tasks \cup {Idle}
  /\ task_state \in [Tasks -> {"runnable", "timed", "blocked"}]
  /\ allowed \subseteq Tasks /\ elsewhere \subseteq Tasks
  /\ \A t \in ToSet(ring) : task_state[t] = "runnable" \/ t \in elsewhere
  /\ current \notin elsewhere

LEMMA LowestIs ==
  ASSUME NEW S, S \in SUBSET Nat, S # {}
  PROVE  Lowest(S) \in S /\ \A j \in S : Lowest(S) <= j
BY MinNat DEF Lowest

(* pick_next_local_locked finds a task on every ring that has an eligible   *)
(* one: the second walk takes the first of them when all owe turns.         *)
LEMMA PickFinds ==
  ASSUME NEW r, r \in Seq(Tasks), NEW s, NEW ok
  PROVE  /\ ToSet(r) \cap ok = {} => pick_next_local(r, s, ok).task = Idle
         /\ ToSet(r) \cap ok # {} => /\ pick_next_local(r, s, ok).task \in Tasks
                                     /\ pick_next_local(r, s, ok).task \in ok
<1> DEFINE able == {i \in DOMAIN r : r[i] \in ok}
           rdy  == {i \in able : s[r[i]] = 0}
           best == IF rdy = {} THEN able ELSE rdy
<1>1. pick_next_local(r, s, ok).task = IF able = {} THEN Idle ELSE r[Lowest(best)]
  BY DEF pick_next_local
<1>2. able = {} <=> ToSet(r) \cap ok = {}
  BY DEF ToSet
<1>3. able \in SUBSET Nat /\ best \subseteq able /\ (able # {} => best # {})
  OBVIOUS
<1>4. \A i \in able : r[i] \in Tasks /\ r[i] \in ok
  OBVIOUS
<1> HIDE DEF able, best
<1>5. CASE able # {}
  <2>1. best \in SUBSET Nat /\ best # {}
    BY <1>3, <1>5
  <2>2. Lowest(best) \in able
    BY <1>3, <2>1, LowestIs
  <2> QED BY <1>1, <1>2, <1>4, <1>5, <2>2
<1> QED BY <1>1, <1>2, <1>5

(* What schedule() leaves behind, whatever ring it begins with: a task runs *)
(* unless no task of the ring is eligible.                                  *)
LEMMA ScheduleKeeps ==
  ASSUME RingInv, NEW d, NEW r, r \in Seq(Tasks), IsInjective(r), Schedule(d, r),
         \A t \in Stealable : task_state'[t] = "runnable",
         \A t \in ToSet(r) : task_state'[t] = "runnable" \/ t \in elsewhere
  PROVE  /\ ring' \in Seq(Tasks) /\ IsInjective(ring')
         /\ allowed' = allowed /\ elsewhere' = elsewhere
         /\ current' \in Tasks \cup {Idle} /\ current' \notin elsewhere
         /\ \A t \in ToSet(ring') : task_state'[t] = "runnable" \/ t \in elsewhere
         /\ current' = Idle => ToSet(ring') \cap Eligible(task_state') = {}
<1> DEFINE p     == current
           spent == Spent(p, d) /\ p \in ToSet(r)
           s1    == IF spent THEN [skips_left EXCEPT ![p] = SkipsDue(p, d)] ELSE skips_left
           r1    == IF spent THEN Append(RemoveFirst(r, p), p) ELSE r
           k(z)  == pick_next_local(z, s1, Eligible(task_state')).task
           Picks(z) == /\ ring' = z
                       /\ current' = IF k(z) # Idle THEN k(z)
                                     ELSE IF p \in allowed /\ task_state'[p] = "runnable"
                                     THEN p ELSE Idle
<1>1. /\ allowed' = allowed /\ elsewhere' = elsewhere
      /\ \/ Picks(r1)
         \/ /\ Eligible(task_state') \cap ToSet(r1) = {}
            /\ \E t \in Stealable : Picks(Append(r1, t))
  BY DEF Schedule, placeVars
<1>2. r1 \in Seq(Tasks) /\ IsInjective(r1) /\ ToSet(r1) = ToSet(r)
  <2>1. CASE spent
    <3>1. p \in Tasks
      <4>1. PICK i \in DOMAIN r : r[i] = p
        BY <2>1 DEF ToSet
      <4> QED BY <4>1
    <3>2. PICK z : z = RemoveFirst(r, p)
      OBVIOUS
    <3>3. z \in Seq(Tasks) /\ IsInjective(z) /\ ToSet(z) = ToSet(r) \ {p}
      BY <3>2, RemoveFirstList
    <3>4. /\ Append(z, p) \in Seq(Tasks) /\ IsInjective(Append(z, p))
          /\ ToSet(Append(z, p)) = ToSet(z) \cup {p}
      BY <3>1, <3>3, AppendQueue
    <3>5. ToSet(z) \cup {p} = ToSet(r)
      BY <2>1, <3>3
    <3> QED BY <2>1, <3>2, <3>4, <3>5
  <2>2. CASE ~spent
    BY <2>2
  <2> QED BY <2>1, <2>2
<1> HIDE DEF r1, s1
<1>3. p \in Tasks \cup {Idle} /\ p \notin elsewhere /\ Idle \notin elsewhere
  BY IdleAssumption DEF RingInv
<1>4. ASSUME NEW z, z \in Seq(Tasks), Picks(z)
      PROVE  /\ current' \in Tasks \cup {Idle} /\ current' \notin elsewhere
             /\ current' = Idle => ToSet(ring') \cap Eligible(task_state') = {}
  <2>0. PICK w : w = k(z)
    OBVIOUS
  <2>1. /\ ToSet(z) \cap Eligible(task_state') = {} => w = Idle
        /\ ToSet(z) \cap Eligible(task_state') # {}
              => w \in Tasks /\ w \in Eligible(task_state')
    BY <1>4, <2>0, PickFinds
  <2>2. /\ ring' = z
        /\ current' = IF w # Idle THEN w
                      ELSE IF p \in allowed /\ task_state'[p] = "runnable" THEN p ELSE Idle
    BY <1>4, <2>0
  <2>3. w \in Eligible(task_state') => w \notin elsewhere
    BY DEF Eligible
  <2> QED BY <1>3, <2>1, <2>2, <2>3, IdleAssumption
<1>5. CASE Picks(r1)
  <2>1. ring' = r1
    BY <1>5
  <2> QED BY <1>1, <1>2, <1>4, <1>5, <2>1
<1>6. CASE /\ Eligible(task_state') \cap ToSet(r1) = {}
           /\ \E t \in Stealable : Picks(Append(r1, t))
  <2>1. PICK t \in Stealable : Picks(Append(r1, t))
    BY <1>6
  <2>2. t \in Tasks /\ t \notin ToSet(r1)
    BY <1>6 DEF Stealable, Away, Eligible
  <2>3. PICK z : z = Append(r1, t)
    OBVIOUS
  <2>4. z \in Seq(Tasks) /\ IsInjective(z) /\ ToSet(z) = ToSet(r1) \cup {t}
    BY <1>2, <2>2, <2>3, AppendQueue
  <2>5. ring' = z /\ Picks(z)
    BY <2>1, <2>3
  <2> QED BY <1>1, <1>2, <1>4, <2>4, <2>5
<1> QED BY <1>1, <1>5, <1>6

(* What the sweep puts on this CPU's ring are different tasks.              *)
LEMMA InOrderType ==
  ASSUME NEW S, S \subseteq Tasks, NEW q1 \in InOrder(S)
  PROVE  q1 \in Seq(Tasks) /\ IsInjective(q1) /\ ToSet(q1) = S
<1>1. PICK n \in Nat : q1 \in [1 .. n -> S]
  BY DEF InOrder, BoundedSeq, SeqOf
<1>2. q1 \in Seq(Tasks) /\ DOMAIN q1 = 1 .. n
  BY <1>1
<1>3. \A i, j \in 1 .. n : i < j => Place(q1[i]) < Place(q1[j])
  BY <1>1 DEF InOrder
<1>4. \A t \in Tasks : Place(t) \in Nat
  <2>1. ASSUME NEW t \in Tasks PROVE \E i \in DOMAIN Master : Master[i] = t
    BY MasterAssumption DEF ToSet
  <2>2. DOMAIN Master \subseteq Nat
    BY MasterAssumption
  <2> QED BY <2>1, <2>2 DEF Place
<1>5. ASSUME NEW i \in 1 .. n, NEW j \in 1 .. n, q1[i] = q1[j] PROVE i = j
  <2>1. Place(q1[i]) \in Nat /\ Place(q1[i]) = Place(q1[j])
    BY <1>1, <1>4, <1>5
  <2>2. ~(i < j) /\ ~(j < i)
    BY <1>3, <2>1
  <2> QED BY <2>2
<1>6. IsInjective(q1)
  BY <1>2, <1>5 DEF IsInjective
<1>7. ToSet(q1) = S
  BY DEF InOrder
<1> QED BY <1>2, <1>6, <1>7

(* The ring as the sweep leaves it, and with a pulled task behind.          *)
LEMMA SweptRing ==
  ASSUME RingInv, NEW here, here \in SUBSET Swept, NEW q1 \in InOrder(here \ Queued)
  PROVE  /\ ring \o q1 \in Seq(Tasks) /\ IsInjective(ring \o q1)
         /\ ToSet(ring \o q1) \subseteq ToSet(ring) \cup here
         /\ \A t \in Stealable :
              /\ t \notin here /\ Append(ring \o q1, t) \in Seq(Tasks)
              /\ IsInjective(Append(ring \o q1, t))
              /\ ToSet(Append(ring \o q1, t)) = ToSet(ring \o q1) \cup {t}
<1>1. here \ Queued \subseteq Tasks /\ \A t \in here : task_state[t] = "timed"
  BY DEF Swept, Expired
<1>2. q1 \in Seq(Tasks) /\ IsInjective(q1) /\ ToSet(q1) = here \ Queued
  BY <1>1, InOrderType
<1>3. ToSet(ring) \cap ToSet(q1) = {}
  BY <1>2 DEF Queued
<1>4. PICK r : r = ring \o q1
  OBVIOUS
<1>5. r \in Seq(Tasks) /\ IsInjective(r) /\ ToSet(r) \subseteq ToSet(ring) \cup ToSet(q1)
  BY <1>2, <1>3, <1>4, ConcatRing DEF RingInv
<1>6. ToSet(r) \subseteq ToSet(ring) \cup here
  BY <1>2, <1>5
<1>7. ASSUME NEW t \in Stealable
      PROVE  /\ t \notin here /\ Append(r, t) \in Seq(Tasks) /\ IsInjective(Append(r, t))
             /\ ToSet(Append(r, t)) = ToSet(r) \cup {t}
  <2>1. t \in Tasks /\ t \notin here /\ t \notin ToSet(ring)
    BY <1>1 DEF Stealable, Away, Queued
  <2>2. t \notin ToSet(r)
    BY <1>6, <2>1
  <2> QED BY <1>5, <2>1, <2>2, AppendQueue
<1> QED BY <1>4, <1>5, <1>6, <1>7

(* What a schedule leaves is what the invariant wants, and no idling over   *)
(* an eligible task.                                                        *)
Left ==
  /\ RingInv'
  /\ current' = Idle => Queued' \cap Eligible(task_state)' = {}

LEMMA ScheduleLeft ==
  ASSUME RingInv, NEW d, NEW r, r \in Seq(Tasks), IsInjective(r), Schedule(d, r),
         task_state' \in [Tasks -> {"runnable", "timed", "blocked"}],
         \A t \in Stealable : task_state'[t] = "runnable",
         \A t \in ToSet(r) : task_state'[t] = "runnable" \/ t \in elsewhere
  PROVE  Left
<1>1. /\ ring' \in Seq(Tasks) /\ IsInjective(ring')
      /\ allowed' = allowed /\ elsewhere' = elsewhere
      /\ current' \in Tasks \cup {Idle} /\ current' \notin elsewhere
      /\ \A t \in ToSet(ring') : task_state'[t] = "runnable" \/ t \in elsewhere
      /\ current' = Idle => ToSet(ring') \cap Eligible(task_state') = {}
  BY ScheduleKeeps
<1>2. Eligible(task_state)' = Eligible(task_state')
  BY <1>1 DEF Eligible
<1> QED BY <1>1, <1>2 DEF Left, RingInv, Queued

(* schedule_check: charge, sweep, perhaps pull, schedule.                   *)
LEMMA schedule_checkKeeps ==
  ASSUME RingInv, schedule_check
  PROVE  Left
<1>1. PICK here \in SUBSET Swept : \E q1 \in InOrder(here \ Queued) :
        \/ Schedule(Charged, ring \o q1)
        \/ \E t \in Stealable : Schedule(Charged, Append(ring \o q1, t))
  BY DEF schedule_check
<1>2. PICK q1 \in InOrder(here \ Queued) :
        \/ Schedule(Charged, ring \o q1)
        \/ \E t \in Stealable : Schedule(Charged, Append(ring \o q1, t))
  BY <1>1
<1>3. task_state' = [t \in Tasks |-> IF t \in Swept THEN "runnable" ELSE task_state[t]]
  BY DEF schedule_check
<1>4. /\ ring \o q1 \in Seq(Tasks) /\ IsInjective(ring \o q1)
      /\ ToSet(ring \o q1) \subseteq ToSet(ring) \cup here
      /\ \A t \in Stealable :
           /\ t \notin here /\ Append(ring \o q1, t) \in Seq(Tasks)
           /\ IsInjective(Append(ring \o q1, t))
           /\ ToSet(Append(ring \o q1, t)) = ToSet(ring \o q1) \cup {t}
  BY SweptRing
<1>5. \A t \in ToSet(ring) : t \in Tasks
  BY DEF RingInv, ToSet
<1>6. \A t \in ToSet(ring) \cup here : task_state'[t] = "runnable" \/ t \in elsewhere
  BY <1>3, <1>5 DEF RingInv, Swept, Expired
<1>7. \A t \in Stealable : task_state'[t] = "runnable"
  BY <1>3 DEF Stealable, Away
<1>8. task_state' \in [Tasks -> {"runnable", "timed", "blocked"}]
  BY <1>3 DEF RingInv
<1>9. PICK r : r = ring \o q1
  OBVIOUS
<1>10. /\ r \in Seq(Tasks) /\ IsInjective(r)
       /\ \A t \in ToSet(r) : task_state'[t] = "runnable" \/ t \in elsewhere
  BY <1>4, <1>6, <1>9
<1>11. CASE Schedule(Charged, r)
  BY <1>7, <1>8, <1>10, <1>11, ScheduleLeft
<1>12. CASE \E t \in Stealable : Schedule(Charged, Append(r, t))
  <2>1. PICK t \in Stealable : Schedule(Charged, Append(r, t))
    BY <1>12
  <2>2. PICK z : z = Append(r, t)
    OBVIOUS
  <2>3. z \in Seq(Tasks) /\ IsInjective(z) /\ ToSet(z) = ToSet(r) \cup {t}
    BY <1>4, <1>9, <2>2
  <2>4. \A y \in ToSet(z) : task_state'[y] = "runnable" \/ y \in elsewhere
    BY <1>7, <1>10, <2>3
  <2> QED BY <1>7, <1>8, <2>1, <2>2, <2>3, <2>4, ScheduleLeft
<1> QED BY <1>2, <1>9, <1>11, <1>12

(* task_yield and the idle loop schedule with the ring as it is.            *)
LEMMA PlainScheduleKeeps ==
  ASSUME RingInv, NEW d, Schedule(d, ring), task_state' = task_state
  PROVE  Left
<1>1. \A t \in Stealable : task_state'[t] = "runnable"
  BY DEF Stealable, Away
<1>2. /\ ring \in Seq(Tasks) /\ IsInjective(ring)
      /\ task_state' \in [Tasks -> {"runnable", "timed", "blocked"}]
      /\ \A t \in ToSet(ring) : task_state'[t] = "runnable" \/ t \in elsewhere
  BY DEF RingInv
<1> QED BY <1>1, <1>2, ScheduleLeft

(* A task goes to sleep: it leaves the ring before schedule() picks.        *)
LEMMA SleepKeeps ==
  ASSUME RingInv, NEW t \in Tasks, NEW k \in {"timed", "blocked"}, NEW n, Sleep(t, k, n)
  PROVE  Left
<1>1. current = t /\ task_state' = [task_state EXCEPT ![t] = k]
      /\ Schedule(deficit, RemoveFirst(ring, t))
  BY DEF Sleep, Running
<1>2. PICK r : r = RemoveFirst(ring, t)
  OBVIOUS
<1>3. r \in Seq(Tasks) /\ IsInjective(r) /\ ToSet(r) = ToSet(ring) \ {t}
  BY <1>2, RemoveFirstList DEF RingInv
<1>4. \A y \in ToSet(ring) : y \in Tasks
  BY DEF RingInv, ToSet
<1>5. \A y \in ToSet(r) : task_state'[y] = "runnable" \/ y \in elsewhere
  BY <1>1, <1>3, <1>4 DEF RingInv
<1>6. \A y \in Stealable : task_state'[y] = "runnable"
  BY <1>1 DEF Stealable, Away, RingInv
<1>7. task_state' \in [Tasks -> {"runnable", "timed", "blocked"}]
  BY <1>1 DEF RingInv
<1> QED BY <1>1, <1>2, <1>3, <1>5, <1>6, <1>7, ScheduleLeft

(* What others do leaves the running task alone.                            *)
Others == RingInv' /\ current' = current

(* task_enqueue: the tail, unless the task is still on the ring.            *)
LEMMA EnqueueKeeps ==
  ASSUME RingInv, NEW t \in Tasks, Enqueue(t)
  PROVE  Others
<1>1. /\ ring' = IF t \in Queued THEN ring ELSE Append(ring, t)
      /\ current' = current /\ allowed' = allowed /\ elsewhere' = elsewhere
      /\ task_state' = [task_state EXCEPT ![t] = "runnable"]
  BY DEF Enqueue, placeVars
<1>2. /\ ring' \in Seq(Tasks) /\ IsInjective(ring') /\ ToSet(ring') = ToSet(ring) \cup {t}
  <2>1. CASE t \in ToSet(ring)
    BY <1>1, <2>1 DEF RingInv, Queued
  <2>2. CASE t \notin ToSet(ring)
    BY <1>1, <2>2, AppendQueue DEF RingInv, Queued
  <2> QED BY <2>1, <2>2
<1>3. \A y \in ToSet(ring) : y \in Tasks
  BY DEF RingInv, ToSet
<1>4. \A y \in ToSet(ring') : task_state'[y] = "runnable" \/ y \in elsewhere'
  BY <1>1, <1>2, <1>3 DEF RingInv
<1>5. task_state' \in [Tasks -> {"runnable", "timed", "blocked"}]
  BY <1>1 DEF RingInv
<1> QED BY <1>1, <1>2, <1>4, <1>5 DEF RingInv, Others

(* A task is taken from the ring: by another CPU, by itself when it stands  *)
(* on another CPU's stack, by a new mask, or when it is rehomed.            *)
LEMMA TakenKeeps ==
  ASSUME RingInv, NEW t, ring' = RemoveFirst(ring, t) \/ ring' = ring,
         UNCHANGED <<current, task_state, elsewhere>>, allowed' \subseteq Tasks
  PROVE  Others
<1>1. ring' \in Seq(Tasks) /\ IsInjective(ring') /\ ToSet(ring') \subseteq ToSet(ring)
  <2>1. CASE ring' = ring
    BY <2>1 DEF RingInv
  <2>2. CASE ring' = RemoveFirst(ring, t)
    BY <2>2, RemoveFirstList DEF RingInv
  <2> QED BY <2>1, <2>2
<1> QED BY <1>1 DEF RingInv, Others

(* Another CPU switches to a task, or away from one, or its task sleeps.    *)
LEMMA ElsewhereKeeps ==
  ASSUME RingInv, NEW t \in Tasks,
         \/ RunsElsewhere(t) \/ LeavesElsewhere(t)
         \/ \E k \in {"timed", "blocked"}, n \in Int : MarksElsewhere(t, k, n)
  PROVE  Others
<1>0. \A y \in ToSet(ring) : y \in Tasks
  BY DEF RingInv, ToSet
<1>1. CASE RunsElsewhere(t)
  BY <1>1 DEF RunsElsewhere, othersVars, Away, RingInv, Others
<1>2. CASE LeavesElsewhere(t)
  BY <1>2 DEF LeavesElsewhere, othersVars, Queued, RingInv, Others
<1>3. CASE \E k \in {"timed", "blocked"}, n \in Int : MarksElsewhere(t, k, n)
  <2>1. PICK k \in {"timed", "blocked"} : \E n \in Int : MarksElsewhere(t, k, n)
    BY <1>3
  <2>2. /\ t \in elsewhere /\ task_state' = [task_state EXCEPT ![t] = k]
        /\ UNCHANGED <<ring, current, allowed, elsewhere>>
    BY <2>1 DEF MarksElsewhere, othersVars, placeVars
  <2> QED BY <1>0, <2>2 DEF RingInv, Others
<1> QED BY <1>1, <1>2, <1>3

(* Nothing runs, nothing is queued.                                         *)
LEMMA RingInitInv == RingInit => RingInv
<1> SUFFICES ASSUME RingInit PROVE RingInv
  OBVIOUS
<1>1. ring = <<>> /\ ToSet(<<>>) = {} /\ IsInjective(<<>>)
  BY DEF RingInit, ToSet, IsInjective
<1> QED BY <1>1 DEF RingInit, RingInv

(* Every step is a schedule or leaves the running task alone.               *)
LEMMA RingNextInv == RingInv /\ [RingNext]_ringVars => Left \/ Others
<1> SUFFICES ASSUME RingInv, [RingNext]_ringVars PROVE Left \/ Others
  OBVIOUS
<1>1. CASE Tick
  BY <1>1 DEF Tick, rrVars, placeVars, RingInv, Others
<1>2. CASE schedule_check
  BY <1>2, schedule_checkKeeps
<1>3. CASE IdleLoop
  BY <1>3, PlainScheduleKeeps DEF IdleLoop
<1>4. ASSUME NEW t \in Tasks, task_yield(t) PROVE Left
  BY <1>4, PlainScheduleKeeps DEF task_yield
<1>5. ASSUME NEW t \in Tasks, Enqueue(t) PROVE Others
  BY <1>5, EnqueueKeeps
<1>6. ASSUME NEW t \in Tasks, StolenAway(t) \/ Rehomed(t) \/ DetachedElsewhere(t) PROVE Others
  <2>1. /\ ring' = RemoveFirst(ring, t)
        /\ UNCHANGED <<current, task_state, elsewhere>> /\ allowed' = allowed
    BY <1>6 DEF StolenAway, Rehomed, DetachedElsewhere, othersVars, placeVars
  <2> QED BY <2>1, TakenKeeps DEF RingInv
<1>7. ASSUME NEW t \in Tasks, Sleep(t, "blocked", 0) PROVE Left
  BY <1>7, SleepKeeps
<1>8. ASSUME NEW t \in Tasks, NEW n, Sleep(t, "timed", n) PROVE Left
  BY <1>8, SleepKeeps
<1>9. ASSUME NEW t \in Tasks, NEW w, task_set_nice(t, w) PROVE Others
  BY <1>9 DEF task_set_nice, placeVars, RingInv, Others
<1>10. ASSUME NEW t \in Tasks, NEW here, task_set_affinity(t, here) PROVE Others
  <2>1. /\ ring' = RemoveFirst(ring, t) \/ ring' = ring
        /\ UNCHANGED <<current, task_state, elsewhere>> /\ allowed' \subseteq allowed \cup {t}
    BY <1>10 DEF task_set_affinity, othersVars
  <2> QED BY <2>1, TakenKeeps DEF RingInv
<1>11. ASSUME NEW t \in Tasks, RunsElsewhere(t) \/ LeavesElsewhere(t) PROVE Others
  BY <1>11, ElsewhereKeeps
<1>12. ASSUME NEW t \in Tasks, NEW k \in {"timed", "blocked"}, NEW n \in Int, MarksElsewhere(t, k, n)
       PROVE  Others
  BY <1>12, ElsewhereKeeps
<1>13. CASE UNCHANGED ringVars
  BY <1>13 DEF ringVars, rrVars, placeVars, RingInv, Others
<1>14. 0 \in Int /\ \A n \in 1 .. MaxSleep : n \in Int
  OBVIOUS
<1> QED BY <1>1, <1>2, <1>3, <1>4, <1>5, <1>6, <1>7, <1>8, <1>9, <1>10, <1>11, <1>12, <1>13,
           <1>14 DEF RingNext

(* In every behaviour a ring holds a task once, and one that is not         *)
(* RUNNABLE only while it stands on another CPU's stack (task_enqueue,      *)
(* task_msleep, load_steal_one), and no task that runs here runs elsewhere  *)
(* (the task_running_elsewhere test of pick_next_local_locked).             *)
THEOREM RingInvariant == RingSpec => []RingInv
<1>1. RingInit => RingInv
  BY RingInitInv
<1>2. RingInv /\ [RingNext]_ringVars => RingInv'
  BY RingNextInv DEF Left, Others
<1> QED BY <1>1, <1>2, PTL DEF RingSpec

(* A CPU gives up a task for its idle task only when no task of its ring is *)
(* eligible (both walks of pick_next_local_locked), for every set of tasks, *)
(* weights and batch, every number of renices and any masks.                *)
THEOREM NeverIdleWithWork == RingSpec => NoIdleWithWork
<1>1. RingSpec => []RingInv
  BY RingInvariant
<1>2. RingInv /\ [RingNext]_ringVars
        => [current # Idle /\ current' = Idle => Queued' \cap Eligible(task_state)' = {}]_ringVars
  <2> SUFFICES ASSUME RingInv, [RingNext]_ringVars, current # Idle, current' = Idle
               PROVE  Queued' \cap Eligible(task_state)' = {}
    OBVIOUS
  <2> QED BY RingNextInv DEF Left, Others
<1> QED BY <1>1, <1>2, PTL DEF RingSpec, NoIdleWithWork

-----------------------------------------------------------------------------
(* The budgets.                                                             *)

(* Budgets, debts and skips within their bounds.                            *)
Budgets(d, s) ==
  /\ d \in [Tasks -> Int] /\ \A t \in Tasks : d[t] \in -MaxDebt .. weight[t]
  /\ s \in [Tasks -> 0 .. Base + MaxDebt]

(* The turns that a quantum costs a task of less than the base weight.      *)
LEMMA DivBounds ==
  ASSUME NEW n \in Nat, NEW w \in Nat \ {0}, w <= n
  PROVE  n \div w \in 1 .. n
<1>1. PICK q1 \in Int : q1 = n \div w
  OBVIOUS
<1>2. w * q1 <= n /\ n < w * q1 + w
  BY <1>1
<1>3. q1 >= 1
  <2>1. CASE q1 <= 0
    <3>1. w * q1 <= 0
      BY <2>1
    <3> QED BY <1>2, <3>1
  <2> QED BY <2>1
<1>4. q1 <= w * q1
  BY <1>3
<1> QED BY <1>1, <1>2, <1>3, <1>4

(* The skips due after a spent budget.                                      *)
LEMMA SkipsDueType ==
  ASSUME RingTypeOK, NEW p \in Tasks, NEW d, d[p] \in -MaxDebt .. 0
  PROVE  SkipsDue(p, d) \in 0 .. Base + MaxDebt
<1>1. PICK w \in Nat \ {0}, x \in Nat, b \in Nat \ {0} :
        w = weight[p] /\ x = 0 - d[p] /\ b = Base /\ x <= MaxDebt
  <2>1. weight[p] \in Nat \ {0}
    BY BaseAssumption DEF RingTypeOK
  <2>2. PICK y \in Int : y = d[p] /\ y <= 0 /\ 0 - y <= MaxDebt
    BY BoundAssumption
  <2>3. 0 - y \in Nat
    BY <2>2
  <2> QED BY <2>1, <2>2, <2>3, BaseAssumption
<1>2. CASE w < b
  <2>1. (b + x) \div w \in 1 .. b + x
    BY <1>2, DivBounds
  <2>2. Base - d[p] = b + x
    BY <1>1, BoundAssumption
  <2>3. SkipsDue(p, d) = ((b + x) \div w) - 1
    BY <1>1, <1>2, <2>2 DEF SkipsDue
  <2> QED BY <1>1, <2>1, <2>3, BoundAssumption
<1>3. CASE ~(w < b)
  BY <1>1, <1>3, BoundAssumption DEF SkipsDue
<1> QED BY <1>2, <1>3

(* Nobody pays a turn that he does not owe.                                 *)
LEMMA PickPays ==
  ASSUME NEW r, r \in Seq(Tasks), NEW s, s \in [Tasks -> 0 .. Base + MaxDebt], NEW ok
  PROVE  pick_next_local(r, s, ok).skips \in [Tasks -> 0 .. Base + MaxDebt]
<1> DEFINE A == {i \in DOMAIN r : r[i] \in ok}
           R == {i \in A : s[r[i]] = 0}
           passed == {r[i] : i \in {j \in A : R = {} \/ j < Lowest(R)}}
<1>1. pick_next_local(r, s, ok).skips = [t \in Tasks |-> IF t \in passed THEN s[t] - 1 ELSE s[t]]
  BY DEF pick_next_local
<1>2. ASSUME NEW t \in passed PROVE s[t] # 0
  <2>1. PICK i \in A : r[i] = t /\ (R = {} \/ i < Lowest(R))
    OBVIOUS
  <2>2. CASE R = {}
    BY <2>1, <2>2
  <2>3. CASE R # {}
    <3>1. R \in SUBSET Nat
      OBVIOUS
    <3>2. PICK m \in R : m = Lowest(R) /\ \A j \in R : m <= j
      BY <2>3, <3>1, LowestIs
    <3>3. i \notin R
      <4>1. m \in Nat /\ i \in Nat
        BY <3>1, <3>2
      <4>2. i < m
        BY <2>1, <2>3, <3>2
      <4>3. i \in R => m <= i
        BY <3>2
      <4> QED BY <4>1, <4>2, <4>3
    <3>4. s[r[i]] # 0
      BY <2>1, <3>3
    <3> QED BY <2>1, <3>4
  <2> QED BY <2>2, <2>3
<1> HIDE DEF passed
<1>3. ASSUME NEW t \in Tasks
      PROVE  (IF t \in passed THEN s[t] - 1 ELSE s[t]) \in 0 .. Base + MaxDebt
  BY <1>2, BaseAssumption, BoundAssumption
<1> QED BY <1>1, <1>3

(* schedule() keeps the budgets within their bounds.                        *)
LEMMA ScheduleBudgets ==
  ASSUME RingTypeOK, NEW d, Budgets(d, skips_left), NEW r, r \in Seq(Tasks), IsInjective(r),
         Schedule(d, r)
  PROVE  Budgets(deficit', skips_left') /\ weight' = weight
<1> DEFINE p     == current
           spent == Spent(p, d) /\ p \in ToSet(r)
           d1    == IF spent THEN [d EXCEPT ![p] = weight[p]] ELSE d
           s1    == IF spent THEN [skips_left EXCEPT ![p] = SkipsDue(p, d)] ELSE skips_left
           r1    == IF spent THEN Append(RemoveFirst(r, p), p) ELSE r
<1>1. /\ deficit' = d1 /\ weight' = weight
      /\ \/ skips_left' = pick_next_local(r1, s1, Eligible(task_state')).skips
         \/ \E t \in Stealable :
              skips_left' = pick_next_local(Append(r1, t), s1, Eligible(task_state')).skips
  BY DEF Schedule
<1>2. p \in ToSet(r) => p \in Tasks
  BY DEF ToSet
<1>3. spent => d[p] \in -MaxDebt .. 0
  BY <1>2, BoundAssumption DEF Spent, Budgets
<1>4. \A t \in Tasks : weight[t] \in Nat
  BY BaseAssumption DEF RingTypeOK
<1>5. d1 \in [Tasks -> Int] /\ \A t \in Tasks : d1[t] \in -MaxDebt .. weight[t]
  <2>1. CASE spent
    BY <1>2, <1>4, <2>1, BoundAssumption DEF Budgets
  <2>2. CASE ~spent
    BY <2>2 DEF Budgets
  <2> QED BY <2>1, <2>2
<1>6. s1 \in [Tasks -> 0 .. Base + MaxDebt]
  <2>1. CASE spent
    <3>1. SkipsDue(p, d) \in 0 .. Base + MaxDebt
      BY <1>2, <1>3, <2>1, SkipsDueType
    <3> QED BY <2>1, <3>1 DEF Budgets
  <2>2. CASE ~spent
    BY <2>2 DEF Budgets
  <2> QED BY <2>1, <2>2
<1>7. r1 \in Seq(Tasks)
  <2>1. CASE spent
    <3>1. PICK z : z = RemoveFirst(r, p)
      OBVIOUS
    <3>2. z \in Seq(Tasks)
      BY <3>1, RemoveFirstList
    <3> QED BY <1>2, <2>1, <3>1, <3>2
  <2>2. CASE ~spent
    BY <2>2
  <2> QED BY <2>1, <2>2
<1> HIDE DEF d1, s1, r1
<1>8. skips_left' \in [Tasks -> 0 .. Base + MaxDebt]
  <2>1. CASE skips_left' = pick_next_local(r1, s1, Eligible(task_state')).skips
    BY <1>6, <1>7, <2>1, PickPays
  <2>2. CASE \E t \in Stealable :
               skips_left' = pick_next_local(Append(r1, t), s1, Eligible(task_state')).skips
    <3>1. PICK t \in Stealable :
               skips_left' = pick_next_local(Append(r1, t), s1, Eligible(task_state')).skips
      BY <2>2
    <3>2. Append(r1, t) \in Seq(Tasks)
      BY <1>7 DEF Stealable, Away
    <3> QED BY <1>6, <3>1, <3>2, PickPays
  <2> QED BY <1>1, <2>1, <2>2
<1> QED BY <1>1, <1>5, <1>8 DEF Budgets

(* What the tick and the kick leave of a budget.                            *)
LEMMA ChargedType ==
  ASSUME RingTypeOK
  PROVE  Budgets(Charged, skips_left)
<1>1. ASSUME NEW t \in Tasks PROVE Charged[t] \in Int /\ Charged[t] \in -MaxDebt .. weight[t]
  <2>1. PICK w \in Nat, x \in Int, b \in Nat, m \in Nat :
          w = weight[t] /\ x = deficit[t] /\ b = Base /\ m = MaxDebt /\ -m <= x /\ x <= w
    <3>1. weight[t] \in Nat
      BY BaseAssumption DEF RingTypeOK
    <3>2. deficit[t] \in Int /\ deficit[t] \in -MaxDebt .. weight[t]
      BY DEF RingTypeOK
    <3> QED BY <3>1, <3>2, BaseAssumption, BoundAssumption
  <2>2. PICK y \in Int : y = (IF tick_due THEN x - b ELSE x) /\ y <= w
    BY <2>1
  <2>3. Charged[t] = IF t # current THEN x
                     ELSE IF y < -m THEN -m ELSE IF wake_kick /\ y > 0 THEN 0 ELSE y
    BY <2>1, <2>2 DEF Charged
  <2>4. Charged[t] \in Int /\ -m <= Charged[t] /\ Charged[t] <= w
    BY <2>1, <2>2, <2>3
  <2> QED BY <2>1, <2>4
<1>2. Charged = [t \in Tasks |-> Charged[t]]
  BY DEF Charged
<1>3. Charged \in [Tasks -> Int]
  BY <1>1, <1>2
<1> QED BY <1>1, <1>3 DEF Budgets, RingTypeOK

(* Every step keeps the types and bounds.                                   *)
LEMMA RingTypeStep ==
  ASSUME RingInv, RingInv', RingTypeOK, [RingNext]_ringVars
  PROVE  RingTypeOK'
<1>0. /\ ring' \in Seq(Tasks) /\ IsInjective(ring') /\ current' \in Tasks \cup {Idle}
      /\ task_state' \in [Tasks -> {"runnable", "timed", "blocked"}]
      /\ allowed' \subseteq Tasks /\ elsewhere' \subseteq Tasks
  BY DEF RingInv
<1> DEFINE Flags == tick_due' \in BOOLEAN /\ wake_kick' \in BOOLEAN /\ need_resched' \in BOOLEAN
           Rest  == left' \in [Tasks -> 0 .. MaxSleep] /\ renices' \in 0 .. MaxRenice
           Money == weight' \in [Tasks -> Weights] /\ Budgets(deficit', skips_left')
<1>Q. ASSUME Flags, Rest, weight' = weight, Money PROVE RingTypeOK'
  BY <1>0, <1>Q DEF RingTypeOK, Budgets
<1>M. Budgets(deficit, skips_left) /\ weight \in [Tasks -> Weights]
  BY DEF RingTypeOK, Budgets
<1>W. \A t \in Tasks : weight[t] \in Nat
  BY <1>M, BaseAssumption
<1>1. CASE Tick
  <2>1. Flags /\ weight' = weight /\ Money /\ renices' \in 0 .. MaxRenice
    BY <1>1, <1>M DEF Tick, RingTypeOK, rrVars, Budgets
  <2>2. left' \in [Tasks -> 0 .. MaxSleep]
    <3>1. ASSUME NEW t \in Tasks
          PROVE  (IF left[t] > 0 THEN left[t] - 1 ELSE 0) \in 0 .. MaxSleep
      <4>1. left[t] \in 0 .. MaxSleep
        BY DEF RingTypeOK
      <4> QED BY <4>1, BoundAssumption
    <3> QED BY <1>1, <3>1 DEF Tick
  <2> QED BY <2>1, <2>2, <1>Q
<1>2. CASE schedule_check
  <2>1. Rest /\ Flags
    BY <1>2 DEF schedule_check, RingTypeOK
  <2>2. PICK here \in SUBSET Swept : \E q1 \in InOrder(here \ Queued) :
          \/ Schedule(Charged, ring \o q1)
          \/ \E t \in Stealable : Schedule(Charged, Append(ring \o q1, t))
    BY <1>2 DEF schedule_check
  <2>3. PICK q1 \in InOrder(here \ Queued) :
          \/ Schedule(Charged, ring \o q1)
          \/ \E t \in Stealable : Schedule(Charged, Append(ring \o q1, t))
    BY <2>2
  <2>4. /\ ring \o q1 \in Seq(Tasks) /\ IsInjective(ring \o q1)
        /\ \A t \in Stealable :
             Append(ring \o q1, t) \in Seq(Tasks) /\ IsInjective(Append(ring \o q1, t))
    BY SweptRing
  <2>5. weight' = weight /\ Money
    <3>1. CASE Schedule(Charged, ring \o q1)
      BY <2>4, <3>1, <1>M, ChargedType, ScheduleBudgets
    <3>2. CASE \E t \in Stealable : Schedule(Charged, Append(ring \o q1, t))
      <4>1. PICK t \in Stealable : Schedule(Charged, Append(ring \o q1, t))
        BY <3>2
      <4> QED BY <2>4, <4>1, <1>M, ChargedType, ScheduleBudgets
    <3> QED BY <2>3, <3>1, <3>2
  <2> QED BY <2>1, <2>5, <1>Q
<1>3. CASE IdleLoop
  <2>1. Rest /\ Flags
    BY <1>3 DEF IdleLoop, RingTypeOK, flagVars
  <2>2. weight' = weight /\ Money
    BY <1>3, <1>M, ScheduleBudgets DEF IdleLoop, RingInv
  <2> QED BY <2>1, <2>2, <1>Q
<1>4. ASSUME NEW t \in Tasks, task_yield(t) PROVE RingTypeOK'
  <2>1. Rest /\ Flags
    BY <1>4 DEF task_yield, RingTypeOK, flagVars
  <2>2. Budgets([deficit EXCEPT ![t] = 0], skips_left)
    BY <1>M, <1>W, BoundAssumption DEF Budgets
  <2>3. weight' = weight /\ Money
    BY <1>4, <1>M, <2>2, ScheduleBudgets DEF task_yield, RingInv
  <2> QED BY <2>1, <2>3, <1>Q
<1>5. ASSUME NEW t \in Tasks,
             \/ StolenAway(t) \/ Rehomed(t) \/ RunsElsewhere(t) \/ LeavesElsewhere(t)
             \/ DetachedElsewhere(t) \/ \E here \in BOOLEAN : task_set_affinity(t, here)
      PROVE  RingTypeOK'
  <2>1. UNCHANGED <<weight, deficit, skips_left, tick_due, wake_kick, need_resched, renices, left>>
    BY <1>5 DEF StolenAway, Rehomed, RunsElsewhere, LeavesElsewhere, DetachedElsewhere,
                task_set_affinity, othersVars, flagVars
  <2>2. Rest /\ Flags /\ weight' = weight /\ Money
    BY <2>1, <1>M DEF RingTypeOK, Budgets
  <2> QED BY <2>2, <1>Q
<1>10. ASSUME NEW t \in Tasks, Enqueue(t) PROVE RingTypeOK'
  <2>1. Rest /\ Flags /\ weight' = weight /\ Money
    BY <1>10, <1>M, BoundAssumption DEF Enqueue, RingTypeOK, Budgets
  <2> QED BY <2>1, <1>Q
<1>11. ASSUME NEW t \in Tasks, NEW k, NEW n \in 0 .. MaxSleep, MarksElsewhere(t, k, n)
       PROVE  RingTypeOK'
  <2>1. Rest /\ Flags /\ weight' = weight /\ Money
    BY <1>11, <1>M DEF MarksElsewhere, RingTypeOK, othersVars, flagVars, Budgets
  <2> QED BY <2>1, <1>Q
<1>6. ASSUME NEW t \in Tasks, NEW k, NEW n \in 0 .. MaxSleep, Sleep(t, k, n) PROVE RingTypeOK'
  <2>1. Rest /\ Flags
    BY <1>6 DEF Sleep, RingTypeOK, flagVars
  <2>2. PICK r : r = RemoveFirst(ring, t)
    OBVIOUS
  <2>3. r \in Seq(Tasks) /\ IsInjective(r)
    BY <2>2, RemoveFirstList DEF RingInv
  <2>4. weight' = weight /\ Money
    BY <1>6, <1>M, <2>2, <2>3, ScheduleBudgets DEF Sleep
  <2> QED BY <2>1, <2>4, <1>Q
<1>7. ASSUME NEW t \in Tasks, NEW w \in Weights, task_set_nice(t, w) PROVE RingTypeOK'
  <2>1. Rest /\ Flags
    BY <1>7, BoundAssumption DEF task_set_nice, RingTypeOK, flagVars
  <2>2. w \in Nat
    BY BaseAssumption
  <2>3. weight' \in [Tasks -> Weights] /\ weight'[t] = w /\ \A y \in Tasks \ {t} : weight'[y] = weight[y]
    BY <1>7, <1>M DEF task_set_nice
  <2>4. deficit' \in [Tasks -> Int] /\ deficit'[t] = w /\ \A y \in Tasks \ {t} : deficit'[y] = deficit[y]
    BY <1>7, <1>M, <2>2 DEF task_set_nice, Budgets
  <2>5. \A y \in Tasks : deficit'[y] \in -MaxDebt .. weight'[y]
    BY <1>M, <2>2, <2>3, <2>4, BoundAssumption DEF Budgets
  <2>6. skips_left' \in [Tasks -> 0 .. Base + MaxDebt]
    BY <1>7, <1>M, BaseAssumption, BoundAssumption DEF task_set_nice, Budgets
  <2> QED BY <1>0, <2>1, <2>3, <2>4, <2>5, <2>6 DEF RingTypeOK
<1>8. CASE UNCHANGED ringVars
  BY <1>8 DEF ringVars, rrVars, flagVars, placeVars, RingTypeOK
<1>9. 0 \in 0 .. MaxSleep /\ \A n \in 1 .. MaxSleep : n \in 0 .. MaxSleep
  BY BoundAssumption
<1> QED BY <1>1, <1>2, <1>3, <1>4, <1>5, <1>6, <1>7, <1>8, <1>9, <1>10, <1>11 DEF RingNext

(* The ring holds no task twice; a debt never passes its bound, a budget    *)
(* never the weight, and no task owes fewer than zero turns or more than    *)
(* the bound of its debt (deficit, skips_left, schedule_locked).            *)
THEOREM RingTypeCorrect == RingSpec => []RingTypeOK
<1>1. RingInit => RingTypeOK
  <2>1. IsInjective(<<>>)
    BY DEF IsInjective
  <2>2. \A t \in Tasks : Weight0[t] \in Nat
    BY BaseAssumption, WeightAssumption
  <2>3. 0 \in 0 .. MaxSleep /\ 0 \in 0 .. MaxRenice /\ 0 \in 0 .. Base + MaxDebt
    BY BoundAssumption, BaseAssumption
  <2>4. ASSUME NEW t \in Tasks PROVE Weight0[t] \in -MaxDebt .. Weight0[t]
    BY <2>2, BoundAssumption
  <2> SUFFICES ASSUME RingInit PROVE RingTypeOK
    OBVIOUS
  <2>5. deficit \in [Tasks -> Int] /\ weight \in [Tasks -> Weights]
    BY <2>2, WeightAssumption DEF RingInit
  <2>6. \A t \in Tasks : deficit[t] \in -MaxDebt .. weight[t]
    BY <2>4 DEF RingInit
  <2>7. /\ left \in [Tasks -> 0 .. MaxSleep] /\ renices \in 0 .. MaxRenice
        /\ skips_left \in [Tasks -> 0 .. Base + MaxDebt]
    BY <2>3 DEF RingInit
  <2>8. /\ ring \in Seq(Tasks) /\ IsInjective(ring) /\ current \in Tasks \cup {Idle}
        /\ task_state \in [Tasks -> {"runnable", "timed", "blocked"}]
    BY <2>1 DEF RingInit
  <2>9. /\ tick_due \in BOOLEAN /\ wake_kick \in BOOLEAN /\ need_resched \in BOOLEAN
        /\ allowed \subseteq Tasks /\ elsewhere \subseteq Tasks
    BY DEF RingInit
  <2> QED BY <2>5, <2>6, <2>7, <2>8, <2>9 DEF RingTypeOK
<1>2. RingInv /\ RingInv' /\ RingTypeOK /\ [RingNext]_ringVars => RingTypeOK'
  BY RingTypeStep
<1>3. RingSpec => []RingInv
  BY RingInvariant
<1> QED BY <1>1, <1>2, <1>3, PTL DEF RingSpec
=============================================================================
