--------------------------- MODULE TimedWaitProof ---------------------------
(* Proofs about TimedWait, for any number of CPUs and of tasks, moved at    *)
(* any point.  The types hold of every behaviour; the rest of those in      *)
(* which ktimer_cancel's scan never passes over the CPU that runs the       *)
(* callback of the timer it cancels (NoSkip).                               *)
EXTENDS TimedWait, SequenceTheorems, WellFoundedInduction, TLAPS

Timers == ToSet(list)

(* A timer is in one place: once on the list, or in one CPU's hands.        *)
OnePlace ==
  /\ IsInjective(list)
  /\ \A c \in CPU : g_running[c] # None =>
       /\ g_running[c] \notin Timers
       /\ \A d \in CPU : g_running[d] = g_running[c] => c = d

(* A frame that does not exist has no timer anywhere.                       *)
NoFrameNoTimer ==
  \A t \in Tasks : pc[t] = "out" => t \notin Timers /\ \A c \in CPU : g_running[c] # t

(* Inside ktimer_cancel, once the timer is off the list, a CPU that runs    *)
(* the callback is one the scan has yet to look at, or has been noticed.    *)
Scanning ==
  \A t \in Tasks :
    pc[t] = "scan" =>
      /\ t \notin Timers
      /\ \A c \in CPU : g_running[c] = t => busy[t] \/ idx[t] <= c

TypeInv == TypeOK /\ IsInjective(list)
TimerInv == TypeOK /\ OnePlace /\ NoFrameNoTimer /\ Scanning

-----------------------------------------------------------------------------
(* Sequences.                                                               *)

(* A nonempty set of naturals has a least member, which Min names.          *)
LEMMA MinNat ==
  ASSUME NEW S \in SUBSET Nat, S # {}
  PROVE  Min(S) \in S /\ \A n \in S : Min(S) <= n
<1>1. PICK m \in S : \A n \in S : ~(<<n, m>> \in OpToRel(<, Nat))
  BY NatLessThanWellFounded, WFMin
<1>2. \A n \in S : ~(n < m)
  BY <1>1 DEF OpToRel
<1>3. \A n \in S : m <= n
  BY <1>2
<1> QED BY <1>3 DEF Min

(* A list without repetitions loses the item at a position and nothing      *)
(* else.                                                                    *)
LEMMA RemoveAtList ==
  ASSUME NEW S, NEW s \in Seq(S), IsInjective(s), NEW k \in 1 .. Len(s)
  PROVE  /\ RemoveAt(s, k) \in Seq(S) /\ IsInjective(RemoveAt(s, k))
         /\ ToSet(RemoveAt(s, k)) = ToSet(s) \ {s[k]}
<1> DEFINE a == SubSeq(s, 1, k - 1)
           b == SubSeq(s, k + 1, Len(s))
           r == a \o b
<1>1. /\ a \in Seq(S) /\ Len(a) = k - 1 /\ \A j \in 1 .. k - 1 : a[j] = s[j]
      /\ b \in Seq(S) /\ Len(b) = Len(s) - k /\ \A j \in 1 .. Len(s) - k : b[j] = s[k + j]
  <2>1. (\A j \in 1 .. k - 1 : s[j] \in S) /\ (\A j \in k + 1 .. Len(s) : s[j] \in S)
    OBVIOUS
  <2>2. a \in Seq(S) /\ Len(a) = k - 1 /\ \A j \in 1 .. k - 1 : a[j] = s[j]
    BY <2>1, SubSeqProperties
  <2>3. /\ b \in Seq(S) /\ Len(b) = Len(s) - (k + 1) + 1
        /\ \A j \in 1 .. Len(s) - (k + 1) + 1 : b[j] = s[k + 1 + j - 1]
    BY <2>1, SubSeqProperties
  <2> HIDE DEF b
  <2>4. Len(s) - (k + 1) + 1 = Len(s) - k /\ \A j \in Nat : k + 1 + j - 1 = k + j
    OBVIOUS
  <2> QED BY <2>2, <2>3, <2>4
<1>2. r = RemoveAt(s, k)
  BY DEF RemoveAt
<1> HIDE DEF a, b
<1>3. /\ r \in Seq(S) /\ Len(r) = Len(a) + Len(b)
      /\ \A j \in 1 .. Len(a) + Len(b) : r[j] = IF j <= Len(a) THEN a[j] ELSE b[j - Len(a)]
  BY <1>1, ConcatProperties
<1> HIDE DEF r
<1>4. Len(r) = Len(s) - 1 /\ DOMAIN r = 1 .. Len(s) - 1
  BY <1>1, <1>3
<1>5. ASSUME NEW j \in 1 .. Len(s) - 1
      PROVE  r[j] = IF j < k THEN s[j] ELSE s[j + 1]
  <2>1. CASE j < k
    <3>1. j \in 1 .. Len(a) + Len(b) /\ j <= Len(a) /\ j \in 1 .. k - 1
      BY <1>1, <2>1
    <3>2. r[j] = a[j] /\ a[j] = s[j]
      BY <1>1, <1>3, <3>1
    <3> QED BY <2>1, <3>2
  <2>2. CASE ~(j < k)
    <3>0. PICK n \in Nat : n = Len(a) /\ n = k - 1
      BY <1>1
    <3>1. r[j] = b[j - (k - 1)]
      <4>1. j \in 1 .. Len(a) + Len(b) /\ ~(j <= Len(a))
        BY <1>1, <2>2
      <4>2. r[j] = b[j - Len(a)]
        BY <1>3, <4>1
      <4> QED BY <3>0, <4>2
    <3>2. j - (k - 1) \in 1 .. Len(s) - k /\ k + (j - (k - 1)) = j + 1
      BY <2>2
    <3> QED BY <1>1, <2>2, <3>1, <3>2
  <2> QED BY <2>1, <2>2
<1>6. \A m, n \in 1 .. Len(s) : s[m] = s[n] => m = n
  BY DEF IsInjective
<1>7. IsInjective(r)
  <2> SUFFICES ASSUME NEW i \in 1 .. Len(s) - 1, NEW j \in 1 .. Len(s) - 1, r[i] = r[j]
               PROVE  i = j
    BY <1>4 DEF IsInjective
  <2>1. CASE i < k
    BY <1>5, <1>6, <2>1
  <2>2. CASE ~(i < k)
    BY <1>5, <1>6, <2>2
  <2> QED BY <2>1, <2>2
<1>8. ASSUME NEW x \in ToSet(r) PROVE x \in ToSet(s) /\ x # s[k]
  <2>1. PICK j \in 1 .. Len(s) - 1 : r[j] = x
    BY <1>4 DEF ToSet
  <2>2. r[j] = IF j < k THEN s[j] ELSE s[j + 1]
    BY <1>5
  <2>3. CASE j < k
    BY <1>6, <2>1, <2>2, <2>3 DEF ToSet
  <2>4. CASE ~(j < k)
    <3>1. j + 1 \in 1 .. Len(s) /\ j + 1 # k /\ x = s[j + 1]
      BY <2>1, <2>2, <2>4
    <3> QED BY <1>6, <3>1 DEF ToSet
  <2> QED BY <2>3, <2>4
<1>9. ASSUME NEW x \in ToSet(s), x # s[k] PROVE x \in ToSet(r)
  <2>1. PICK j \in 1 .. Len(s) : s[j] = x /\ j # k
    BY <1>9 DEF ToSet
  <2>2. CASE j < k
    BY <1>4, <1>5, <2>1, <2>2 DEF ToSet
  <2>3. CASE j > k
    <3>1. j - 1 \in 1 .. Len(s) - 1 /\ r[j - 1] = s[j - 1 + 1] /\ j - 1 + 1 = j
      BY <1>5, <2>1, <2>3
    <3> QED BY <1>4, <2>1, <3>1 DEF ToSet
  <2> QED BY <2>1, <2>2, <2>3
<1>10. ToSet(r) = ToSet(s) \ {s[k]}
  BY <1>8, <1>9
<1> QED BY <1>2, <1>3, <1>7, <1>10

(* unlink_locked: a list without repetitions loses the timer and nothing    *)
(* else.                                                                    *)
LEMMA RemoveFirstList ==
  ASSUME NEW S, NEW s \in Seq(S), IsInjective(s), NEW e
  PROVE  /\ RemoveFirst(s, e) \in Seq(S) /\ IsInjective(RemoveFirst(s, e))
         /\ ToSet(RemoveFirst(s, e)) = ToSet(s) \ {e}
<1>1. CASE \E i \in 1 .. Len(s) : s[i] = e
  <2> DEFINE I == {i \in 1 .. Len(s) : s[i] = e}
             k == SelectInSeq(s, LAMBDA x : x = e)
  <2>1. I \in SUBSET Nat /\ I # {}
    BY <1>1
  <2>2. k = Min(I)
    BY <2>1 DEF SelectInSeq
  <2>3. k \in 1 .. Len(s) /\ s[k] = e
    BY <2>1, <2>2, MinNat
  <2>4. RemoveFirst(s, e) = RemoveAt(s, k)
    BY <1>1 DEF RemoveFirst
  <2> HIDE DEF k
  <2>5. /\ RemoveAt(s, k) \in Seq(S) /\ IsInjective(RemoveAt(s, k))
        /\ ToSet(RemoveAt(s, k)) = ToSet(s) \ {s[k]}
    BY <2>3, RemoveAtList
  <2> QED BY <2>3, <2>4, <2>5
<1>2. CASE \A i \in 1 .. Len(s) : s[i] # e
  <2>1. RemoveFirst(s, e) = s
    BY <1>2 DEF RemoveFirst
  <2>2. e \notin ToSet(s)
    BY <1>2 DEF ToSet
  <2> QED BY <2>1, <2>2
<1> QED BY <1>1, <1>2

(* ktimer_arm: the list gains the timer, once.                              *)
LEMMA InsertAtList ==
  ASSUME NEW S, NEW s \in Seq(S), IsInjective(s), NEW e \in S, e \notin ToSet(s),
         NEW i \in 1 .. Len(s) + 1
  PROVE  /\ InsertAt(s, i, e) \in Seq(S) /\ IsInjective(InsertAt(s, i, e))
         /\ ToSet(InsertAt(s, i, e)) = ToSet(s) \cup {e}
<1> DEFINE a == SubSeq(s, 1, i - 1)
           b == SubSeq(s, i, Len(s))
           c == a \o <<e>>
           r == c \o b
<1>1. /\ a \in Seq(S) /\ Len(a) = i - 1 /\ \A j \in 1 .. i - 1 : a[j] = s[j]
      /\ b \in Seq(S) /\ Len(b) = Len(s) - i + 1 /\ \A j \in 1 .. Len(s) - i + 1 : b[j] = s[i + j - 1]
  <2>1. (\A j \in 1 .. i - 1 : s[j] \in S) /\ (\A j \in i .. Len(s) : s[j] \in S)
    OBVIOUS
  <2> QED BY <2>1, SubSeqProperties
<1> HIDE DEF a, b
<1>2. c \in Seq(S) /\ Len(c) = i /\ c[i] = e /\ \A j \in 1 .. i - 1 : c[j] = s[j]
  <2>1. <<e>> \in Seq(S) /\ Len(<<e>>) = 1 /\ <<e>>[1] = e
    OBVIOUS
  <2>2. /\ c \in Seq(S) /\ Len(c) = Len(a) + 1
        /\ \A j \in 1 .. Len(a) + 1 : c[j] = IF j <= Len(a) THEN a[j] ELSE <<e>>[j - Len(a)]
    BY <1>1, <2>1, ConcatProperties
  <2>3. i \in Nat \ {0} /\ Len(a) + 1 = i /\ i - Len(a) = 1
    BY <1>1
  <2>4. c[i] = e
    BY <2>1, <2>2, <2>3
  <2> QED BY <1>1, <2>2, <2>3, <2>4
<1> HIDE DEF c
<1>3. /\ r \in Seq(S) /\ Len(r) = Len(c) + Len(b)
      /\ \A j \in 1 .. Len(c) + Len(b) : r[j] = IF j <= Len(c) THEN c[j] ELSE b[j - Len(c)]
  BY <1>1, <1>2, ConcatProperties
<1>4. r = InsertAt(s, i, e)
  BY DEF InsertAt, a, b, c
<1> HIDE DEF r
<1>5. Len(r) = Len(s) + 1 /\ DOMAIN r = 1 .. Len(s) + 1
  BY <1>1, <1>2, <1>3
<1>6. ASSUME NEW j \in 1 .. Len(s) + 1
      PROVE  r[j] = IF j < i THEN s[j] ELSE IF j = i THEN e ELSE s[j - 1]
  <2>1. CASE j <= i
    BY <1>1, <1>2, <1>3, <2>1
  <2>2. CASE ~(j <= i)
    <3>1. r[j] = b[j - i]
      BY <1>1, <1>2, <1>3, <2>2
    <3>2. j - i \in 1 .. Len(s) - i + 1 /\ i + (j - i) - 1 = j - 1
      BY <2>2
    <3> QED BY <1>1, <2>2, <3>1, <3>2
  <2> QED BY <2>1, <2>2
<1>7. \A j \in 1 .. Len(s) : s[j] # e
  BY DEF ToSet
<1>8. IsInjective(r)
  <2> SUFFICES ASSUME NEW j \in 1 .. Len(s) + 1, NEW k \in 1 .. Len(s) + 1, r[j] = r[k]
               PROVE  j = k
    BY <1>5 DEF IsInjective
  <2>1. \A m, n \in 1 .. Len(s) : s[m] = s[n] => m = n
    BY DEF IsInjective
  <2>2. j = i <=> k = i
    BY <1>6, <1>7
  <2>3. CASE j < i
    BY <1>6, <2>1, <2>2, <2>3
  <2>4. CASE j > i
    BY <1>6, <2>1, <2>2, <2>4
  <2> QED BY <2>2, <2>3, <2>4
<1>9. ToSet(r) \subseteq ToSet(s) \cup {e}
  BY <1>5, <1>6 DEF ToSet
<1>10. ASSUME NEW x \in ToSet(s) \cup {e} PROVE x \in ToSet(r)
  <2>1. CASE x = e
    BY <1>5, <1>6, <2>1 DEF ToSet
  <2>2. CASE x # e
    <3>1. PICK j \in 1 .. Len(s) : s[j] = x
      BY <2>2 DEF ToSet
    <3>2. j < i => r[j] = x /\ j \in DOMAIN r
      BY <1>5, <1>6, <3>1
    <3>3. ~(j < i) => r[j + 1] = x /\ j + 1 \in DOMAIN r
      BY <1>5, <1>6, <3>1
    <3> QED BY <3>1, <3>2, <3>3 DEF ToSet
  <2> QED BY <2>1, <2>2
<1> QED BY <1>3, <1>4, <1>8, <1>9, <1>10

(* ktimer_expire: the list loses its first timer and nothing else.          *)
LEMMA TailList ==
  ASSUME NEW S, NEW s \in Seq(S), IsInjective(s), s # <<>>
  PROVE  /\ Head(s) \in ToSet(s) /\ Head(s) \in S
         /\ Tail(s) \in Seq(S) /\ IsInjective(Tail(s))
         /\ ToSet(Tail(s)) = ToSet(s) \ {Head(s)}
<1>1. /\ Len(s) \in Nat \ {0} /\ Head(s) = s[1] /\ Len(Tail(s)) = Len(s) - 1
      /\ \A j \in 1 .. Len(s) - 1 : Tail(s)[j] = s[j + 1]
  OBVIOUS
<1>2. Head(s) \in ToSet(s) /\ Head(s) \in S /\ Tail(s) \in Seq(S)
  BY <1>1 DEF ToSet
<1>3. IsInjective(Tail(s))
  BY <1>1, <1>2 DEF IsInjective
<1>4. ToSet(Tail(s)) \subseteq ToSet(s) \ {Head(s)}
  BY <1>1, <1>2 DEF ToSet, IsInjective
<1>5. ASSUME NEW x \in ToSet(s) \ {Head(s)} PROVE x \in ToSet(Tail(s))
  <2>1. PICK j \in 1 .. Len(s) : s[j] = x /\ j # 1
    BY <1>1 DEF ToSet
  <2>2. j - 1 \in DOMAIN Tail(s) /\ Tail(s)[j - 1] = x
    BY <1>1, <2>1
  <2> QED BY <2>2 DEF ToSet
<1> QED BY <1>2, <1>3, <1>4, <1>5

-----------------------------------------------------------------------------
(* Steps.                                                                   *)

(* Arming puts the timer of a new frame on the list, where it is alone.     *)
LEMMA ktimer_armKeeps ==
  ASSUME NEW t \in Tasks, TimerInv, ktimer_arm(t)
  PROVE  TimerInv'
<1> USE TaskAssumption, CpuAssumption DEF TimerInv, CPU, Tasks, ktimer_arm,
    Go, Runs, cancelVars
<1>0. list' \in Seq(Tasks) /\ IsInjective(list') /\ Timers' = Timers \cup {t}
  <2> DEFINE rest == RemoveFirst(list, t)
  <2>1. rest \in Seq(Tasks) /\ IsInjective(rest) /\ ToSet(rest) = Timers \ {t}
    BY RemoveFirstList DEF TypeOK, OnePlace, Timers
  <2>2. PICK i \in 1 .. Len(rest) + 1 : list' = InsertAt(rest, i, t)
    BY DEF ktimer_arm
  <2> HIDE DEF rest
  <2>3. t \in Tasks /\ t \notin ToSet(rest)
    BY <2>1
  <2>4. /\ InsertAt(rest, i, t) \in Seq(Tasks) /\ IsInjective(InsertAt(rest, i, t))
        /\ ToSet(InsertAt(rest, i, t)) = ToSet(rest) \cup {t}
    BY <2>1, <2>3, InsertAtList
  <2> QED BY <2>1, <2>2, <2>4 DEF Timers
<1>1. TypeOK'
  BY <1>0 DEF TypeOK
<1>2. OnePlace'
  BY <1>0 DEF TypeOK, OnePlace, NoFrameNoTimer
<1>3. NoFrameNoTimer'
  BY <1>0 DEF TypeOK, OnePlace, NoFrameNoTimer, Scanning
<1>4. Scanning'
  BY <1>0 DEF TypeOK, OnePlace, NoFrameNoTimer, Scanning
<1> QED BY <1>1, <1>2, <1>3, <1>4

(* A pass of the sleep loop moves no timer.                                 *)
LEMMA SleepTestKeeps ==
  ASSUME NEW t \in Tasks, TimerInv, SleepTest(t)
  PROVE  TimerInv'
<1> USE TaskAssumption, CpuAssumption DEF TimerInv, CPU, Tasks, SleepTest, Go,
    timerVars, cancelVars, Runs, Timers
<1>0. pc' \in [Tasks -> {"out", "test", "parked", "cancel", "unlink", "scan"}]
  BY DEF TypeOK
<1>1. TypeOK'
  BY <1>0 DEF TypeOK
<1>2. OnePlace'
  BY DEF TypeOK, OnePlace, NoFrameNoTimer
<1>3. NoFrameNoTimer'
  BY DEF TypeOK, OnePlace, NoFrameNoTimer, Scanning
<1>4. Scanning'
  BY DEF TypeOK, OnePlace, NoFrameNoTimer, Scanning
<1> QED BY <1>1, <1>2, <1>3, <1>4

(* The futex's test moves no timer.                                         *)
LEMMA FutexTestKeeps ==
  ASSUME NEW t \in Tasks, TimerInv, FutexTest(t)
  PROVE  TimerInv'
<1> USE TaskAssumption, CpuAssumption DEF TimerInv, CPU, Tasks, FutexTest, Go,
    timerVars, cancelVars, Runs, Timers
<1>0. pc' \in [Tasks -> {"out", "test", "parked", "cancel", "unlink", "scan"}]
  BY DEF TypeOK
<1>1. TypeOK'
  BY <1>0 DEF TypeOK
<1>2. OnePlace'
  BY DEF TypeOK, OnePlace, NoFrameNoTimer
<1>3. NoFrameNoTimer'
  BY DEF TypeOK, OnePlace, NoFrameNoTimer, Scanning
<1>4. Scanning'
  BY DEF TypeOK, OnePlace, NoFrameNoTimer, Scanning
<1> QED BY <1>1, <1>2, <1>3, <1>4

(* A wake by somebody else moves no timer.                                  *)
LEMMA OtherWakeKeeps ==
  ASSUME NEW t \in Tasks, TimerInv, OtherWake(t)
  PROVE  TimerInv'
<1> USE TaskAssumption, CpuAssumption DEF TimerInv, CPU, Tasks, OtherWake,
    AfterWake, Go, Timers, timerVars, cancelVars
<1>1. TypeOK'
  BY DEF TypeOK
<1>2. OnePlace'
  BY DEF TypeOK, OnePlace, NoFrameNoTimer
<1>3. NoFrameNoTimer'
  BY DEF TypeOK, OnePlace, NoFrameNoTimer, Scanning
<1>4. Scanning'
  BY DEF TypeOK, OnePlace, NoFrameNoTimer, Scanning
<1> QED BY <1>1, <1>2, <1>3, <1>4

(* Moving a task moves no timer.                                            *)
LEMMA MigrateKeeps ==
  ASSUME NEW t \in Tasks, NEW d \in CPU, TimerInv, Migrate(t, d)
  PROVE  TimerInv'
<1> USE TaskAssumption, CpuAssumption DEF TimerInv, CPU, Tasks, Migrate, Runs,
    Timers, timerVars, cancelVars
<1>1. TypeOK'
  BY DEF TypeOK
<1>2. OnePlace'
  BY DEF TypeOK, OnePlace, NoFrameNoTimer
<1>3. NoFrameNoTimer'
  BY DEF TypeOK, OnePlace, NoFrameNoTimer, Scanning
<1>4. Scanning'
  BY DEF TypeOK, OnePlace, NoFrameNoTimer, Scanning
<1> QED BY <1>1, <1>2, <1>3, <1>4

(* ktimer_cancel notes the CPU the task is on.                              *)
LEMMA ktimer_cancelKeeps ==
  ASSUME NEW t \in Tasks, TimerInv, ktimer_cancel(t)
  PROVE  TimerInv'
<1> USE TaskAssumption, CpuAssumption DEF TimerInv, CPU, Tasks, ktimer_cancel,
    Go, Runs, Timers, timerVars, cancelVars
<1>1. TypeOK'
  BY DEF TypeOK
<1>2. OnePlace'
  BY DEF TypeOK, OnePlace, NoFrameNoTimer
<1>3. NoFrameNoTimer'
  BY DEF TypeOK, OnePlace, NoFrameNoTimer, Scanning
<1>4. Scanning'
  BY DEF TypeOK, OnePlace, NoFrameNoTimer, Scanning
<1> QED BY <1>1, <1>2, <1>3, <1>4

(* The timer is off the list; the scan has every CPU to look at.            *)
LEMMA unlink_lockedKeeps ==
  ASSUME NEW t \in Tasks, TimerInv, unlink_locked(t)
  PROVE  TimerInv'
<1> USE TaskAssumption, CpuAssumption DEF TimerInv, CPU, Tasks, Timers,
    unlink_locked, Go, Runs
<1>0. list' \in Seq(Tasks) /\ IsInjective(list') /\ Timers' = Timers \ {t}
  BY RemoveFirstList DEF TypeOK, OnePlace
<1>1. TypeOK'
  BY <1>0 DEF TypeOK
<1>2. OnePlace'
  BY <1>0 DEF TypeOK, OnePlace, NoFrameNoTimer
<1>3. NoFrameNoTimer'
  BY <1>0 DEF TypeOK, OnePlace, NoFrameNoTimer, Scanning
<1>4. Scanning'
  BY <1>0 DEF TypeOK, OnePlace, NoFrameNoTimer, Scanning
<1> QED BY <1>1, <1>2, <1>3, <1>4

(* The scan leaves a CPU behind only if that CPU does not run the callback  *)
(* or it is marked busy, unless it skips it as its own.                     *)
LEMMA ScanKeeps ==
  ASSUME NEW t \in Tasks, TimerInv, Scan(t), ~SkipsCallback(t)
  PROVE  TimerInv'
<1> USE TaskAssumption, CpuAssumption DEF TimerInv, CPU, Tasks, Scan, Runs,
    Timers, timerVars, cancelVars
<1>1. TypeOK'
  BY DEF TypeOK
<1>2. OnePlace'
  BY DEF TypeOK, OnePlace, NoFrameNoTimer
<1>3. NoFrameNoTimer'
  BY DEF TypeOK, OnePlace, NoFrameNoTimer, Scanning
<1>4. Scanning'
  <2>1. UNCHANGED <<list, g_running, cpu, pc, me>> /\ UNCHANGED Timers
    BY DEF Scan, timerVars, Timers
  <2>2. ASSUME NEW u \in Tasks, NEW c \in CPU, pc[u] = "scan", g_running[c] = u
        PROVE  busy'[u] \/ idx'[u] <= c
    <3>1. CASE u # t
      BY <2>2, <3>1 DEF TypeOK, Scanning, Scan
    <3>2. CASE u = t
      <4>1. (busy[t] \/ idx[t] <= c) /\ ~(idx[t] = me[t] /\ me[t] = c) /\ idx[t] \in 0 .. NCPU
        BY <2>2, <3>2 DEF Scanning, TypeOK, SkipsCallback
      <4>2. busy'[t] <=> (busy[t] \/ (idx[t] # me[t] /\ g_running[idx[t]] = t))
        BY DEF Scan, TypeOK
      <4>3. idx'[t] = idx[t] + 1
        BY DEF Scan, TypeOK
      <4> QED BY <2>2, <3>2, <4>1, <4>2, <4>3
    <3> QED BY <3>1, <3>2
  <2> QED BY <2>1, <2>2 DEF Scanning
<1> QED BY <1>1, <1>2, <1>3, <1>4

(* A scan that found nobody leaves no timer behind.                         *)
LEMMA ScanEndKeeps ==
  ASSUME NEW t \in Tasks, TimerInv, ScanEnd(t)
  PROVE  TimerInv'
<1> USE TaskAssumption, CpuAssumption DEF TimerInv, CPU, Tasks, ScanEnd,
    timerVars, Go, Runs, Timers, cancelVars
<1>0. pc' \in [Tasks -> {"out", "test", "parked", "cancel", "unlink", "scan"}] /\ me' \in [Tasks -> CPU]
  <2>1. 0 \in CPU
    OBVIOUS
  <2>2. CASE busy[t]
    BY <2>2 DEF TypeOK, ScanEnd
  <2>3. CASE ~busy[t]
    <3>1. me' = [me EXCEPT ![t] = 0] /\ pc' = [pc EXCEPT ![t] = "out"]
      BY <2>3 DEF ScanEnd, Go
    <3> HIDE DEF CPU
    <3> QED BY <2>1, <3>1 DEF TypeOK
  <2> QED BY <2>2, <2>3
<1>1. TypeOK'
  BY <1>0 DEF TypeOK
<1>2. OnePlace'
  BY DEF TypeOK, OnePlace, NoFrameNoTimer
<1>3. NoFrameNoTimer'
  BY DEF TypeOK, OnePlace, NoFrameNoTimer, Scanning
<1>4. Scanning'
  BY DEF TypeOK, OnePlace, NoFrameNoTimer, Scanning
<1> QED BY <1>1, <1>2, <1>3, <1>4

(* A deadline that passes moves no timer.                                   *)
LEMMA DeadlineKeeps ==
  ASSUME NEW t \in Tasks, TimerInv, Deadline(t)
  PROVE  TimerInv'
<1> USE TaskAssumption, CpuAssumption DEF TimerInv, CPU, Tasks, Deadline,
    Timers, cancelVars
<1>1. TypeOK'
  BY DEF TypeOK
<1>2. OnePlace'
  BY DEF TypeOK, OnePlace, NoFrameNoTimer
<1>3. NoFrameNoTimer'
  BY DEF TypeOK, OnePlace, NoFrameNoTimer, Scanning
<1>4. Scanning'
  BY DEF TypeOK, OnePlace, NoFrameNoTimer, Scanning
<1> QED BY <1>1, <1>2, <1>3, <1>4

(* The first timer goes from the list into one CPU's hands; its frame       *)
(* exists and its task has not taken it off the list yet.                   *)
LEMMA ktimer_expireKeeps ==
  ASSUME NEW k \in CPU, TimerInv, ktimer_expire(k)
  PROVE  TimerInv'
<1> USE TaskAssumption, CpuAssumption DEF TimerInv, CPU, Tasks, Timers,
    ktimer_expire, cancelVars
<1>0. /\ list' \in Seq(Tasks) /\ IsInjective(list') /\ Timers' = Timers \ {Head(list)}
      /\ Head(list) \in Timers /\ Head(list) \in Tasks
  BY TailList DEF TypeOK, OnePlace
<1>1. TypeOK'
  BY <1>0 DEF TypeOK
<1>2. OnePlace'
  BY <1>0 DEF TypeOK, OnePlace, NoFrameNoTimer
<1>3. NoFrameNoTimer'
  BY <1>0 DEF TypeOK, OnePlace, NoFrameNoTimer, Scanning
<1>4. Scanning'
  BY <1>0 DEF TypeOK, OnePlace, NoFrameNoTimer, Scanning
<1> QED BY <1>1, <1>2, <1>3, <1>4

(* A callback wakes a parked task and keeps its timer.                      *)
LEMMA CallbackKeeps ==
  ASSUME NEW k \in CPU, TimerInv, Callback(k)
  PROVE  TimerInv'
<1> USE TaskAssumption, CpuAssumption DEF TimerInv, CPU, Tasks, Callback,
    AfterWake, Go, Timers, cancelVars
<1>1. TypeOK'
  BY DEF TypeOK
<1>2. OnePlace'
  BY DEF TypeOK, OnePlace, NoFrameNoTimer
<1>3. NoFrameNoTimer'
  BY DEF TypeOK, OnePlace, NoFrameNoTimer, Scanning
<1>4. Scanning'
  BY DEF TypeOK, OnePlace, NoFrameNoTimer, Scanning
<1> QED BY <1>1, <1>2, <1>3, <1>4

(* The CPU drops the timer whose callback has returned.                     *)
LEMMA CallbackDoneKeeps ==
  ASSUME NEW k \in CPU, TimerInv, CallbackDone(k)
  PROVE  TimerInv'
<1> USE TaskAssumption, CpuAssumption DEF TimerInv, CPU, Tasks, CallbackDone,
    Timers, cancelVars
<1>1. TypeOK'
  BY DEF TypeOK
<1>2. OnePlace'
  BY DEF TypeOK, OnePlace, NoFrameNoTimer
<1>3. NoFrameNoTimer'
  BY DEF TypeOK, OnePlace, NoFrameNoTimer, Scanning
<1>4. Scanning'
  BY DEF TypeOK, OnePlace, NoFrameNoTimer, Scanning
<1> QED BY <1>1, <1>2, <1>3, <1>4

(* The initial state: no frame, no timer, no callback.                      *)
LEMMA InitTimer == Init => TimerInv
<1> SUFFICES ASSUME Init PROVE TimerInv
  OBVIOUS
<1> USE CpuAssumption, TaskAssumption DEF Init, CPU, Tasks
<1>1. ToSet(list) = {} /\ IsInjective(list)
  BY DEF ToSet, IsInjective
<1>2. TypeOK
  BY DEF TypeOK
<1> QED BY <1>1, <1>2 DEF TimerInv, OnePlace, NoFrameNoTimer, Scanning, Timers

(* Every step keeps TimerInv, as long as no scan skips the callback.        *)
LEMMA NextTimer ==
  ASSUME TimerInv, [Next]_vars, [\A t \in Tasks : ~SkipsCallback(t)]_vars
  PROVE  TimerInv'
<1>1. ASSUME NEW t \in Tasks, ktimer_arm(t) \/ Awake(t) \/ OtherWake(t) \/ Deadline(t),
             \A u \in Tasks : ~SkipsCallback(u)
      PROVE  TimerInv'
  BY <1>1, ktimer_armKeeps, SleepTestKeeps, FutexTestKeeps, ktimer_cancelKeeps,
     unlink_lockedKeeps, ScanKeeps, ScanEndKeeps, OtherWakeKeeps, DeadlineKeeps
     DEF Awake, Cancelling
<1>2. ASSUME NEW t \in Tasks, NEW d \in CPU, Migrate(t, d) PROVE TimerInv'
  BY <1>2, MigrateKeeps
<1>3. ASSUME NEW k \in CPU, Tick(k) PROVE TimerInv'
  BY <1>3, ktimer_expireKeeps, CallbackKeeps, CallbackDoneKeeps DEF Tick
<1>4. CASE UNCHANGED vars
  BY <1>4 DEF vars, timerVars, cancelVars, TimerInv, TypeOK, OnePlace,
     NoFrameNoTimer,
     Scanning, Timers
<1> QED BY <1>1, <1>2, <1>3, <1>4 DEF Next

(* Whatever is skipped, the list stays a list without repetitions and every *)
(* variable keeps its type.                                                 *)
LEMMA NextTypes == TypeInv /\ [Next]_vars => TypeInv'
<1> SUFFICES ASSUME TypeOK, IsInjective(list), [Next]_vars
             PROVE  TypeOK' /\ IsInjective(list')
  BY DEF TypeInv
<1> USE TaskAssumption, CpuAssumption DEF CPU, Tasks, Go, timerVars, cancelVars
<1>1. ASSUME NEW t \in Tasks, ktimer_arm(t) PROVE TypeOK' /\ IsInjective(list')
  <2>1. list' \in Seq(Tasks) /\ IsInjective(list')
    <3> DEFINE rest == RemoveFirst(list, t)
    <3>1. rest \in Seq(Tasks) /\ IsInjective(rest) /\ ToSet(rest) = ToSet(list) \ {t}
      BY RemoveFirstList DEF TypeOK
    <3>2. PICK i \in 1 .. Len(rest) + 1 : list' = InsertAt(rest, i, t)
      BY <1>1 DEF ktimer_arm
    <3> HIDE DEF rest
    <3>3. t \in Tasks /\ t \notin ToSet(rest)
      BY <3>1
    <3> QED BY <3>1, <3>2, <3>3, InsertAtList
  <2> QED BY <1>1, <2>1 DEF TypeOK, ktimer_arm
<1>2. ASSUME NEW t \in Tasks, unlink_locked(t) PROVE TypeOK' /\ IsInjective(list')
  <2>1. list' \in Seq(Tasks) /\ IsInjective(list')
    BY <1>2, RemoveFirstList DEF TypeOK, unlink_locked
  <2> QED BY <1>2, <2>1 DEF TypeOK, unlink_locked
<1>3. ASSUME NEW c \in CPU, ktimer_expire(c) PROVE TypeOK' /\ IsInjective(list')
  <2>1. list' \in Seq(Tasks) /\ IsInjective(list') /\ Head(list) \in Tasks
    BY <1>3, TailList DEF TypeOK, ktimer_expire
  <2> QED BY <1>3, <2>1 DEF TypeOK, ktimer_expire
<1>4. ASSUME NEW t \in Tasks, SleepTest(t) \/ FutexTest(t) \/ OtherWake(t) \/ ktimer_cancel(t)
      PROVE  TypeOK' /\ IsInjective(list')
  <2>1. pc' \in [Tasks -> {"out", "test", "parked", "cancel", "unlink", "scan"}]
    BY <1>4 DEF TypeOK, SleepTest, FutexTest, OtherWake, AfterWake, ktimer_cancel
  <2>2. me' \in [Tasks -> CPU]
    <3> HIDE DEF CPU
    <3>1. me' = me \/ me' = [me EXCEPT ![t] = cpu[t]]
      BY <1>4 DEF SleepTest, FutexTest, OtherWake, ktimer_cancel
    <3> QED BY <3>1 DEF TypeOK
  <2>3. UNCHANGED <<list, due, g_running, stage, cpu, idx, busy>>
    BY <1>4 DEF SleepTest, FutexTest, OtherWake, ktimer_cancel
  <2> QED BY <2>1, <2>2, <2>3 DEF TypeOK
<1>5. ASSUME NEW t \in Tasks, ScanEnd(t) PROVE TypeOK' /\ IsInjective(list')
  <2>1. CASE busy[t]
    BY <1>5, <2>1 DEF TypeOK, ScanEnd
  <2>2. CASE ~busy[t]
    <3>1. 0 \in CPU
      OBVIOUS
    <3>2. /\ me' = [me EXCEPT ![t] = 0] /\ pc' = [pc EXCEPT ![t] = "out"]
          /\ idx' = [idx EXCEPT ![t] = 0] /\ busy' = [busy EXCEPT ![t] = FALSE]
          /\ UNCHANGED <<list, due, g_running, stage, cpu>>
      BY <1>5, <2>2 DEF ScanEnd
    <3> HIDE DEF CPU
    <3>3. me' \in [Tasks -> CPU]
      BY <3>1, <3>2 DEF TypeOK
    <3> QED BY <3>2, <3>3 DEF TypeOK
  <2> QED BY <2>1, <2>2
<1>6. ASSUME NEW t \in Tasks, Scan(t) \/ Deadline(t) \/ \E c \in CPU : Migrate(t, c)
      PROVE  TypeOK' /\ IsInjective(list')
  <2>1. CASE Scan(t) BY <2>1 DEF TypeOK, Scan
  <2>2. CASE Deadline(t) BY <2>2 DEF TypeOK, Deadline
  <2>3. CASE \E c \in CPU : Migrate(t, c) BY <2>3 DEF TypeOK, Migrate
  <2> QED BY <1>6, <2>1, <2>2, <2>3
<1>7. ASSUME NEW c \in CPU, Callback(c) \/ CallbackDone(c)
      PROVE  TypeOK' /\ IsInjective(list')
  BY <1>7 DEF TypeOK, Callback, CallbackDone, AfterWake
<1>8. CASE UNCHANGED vars
  BY <1>8 DEF vars, TypeOK
<1> QED BY <1>1, <1>2, <1>3, <1>4, <1>5, <1>6, <1>7, <1>8
        DEF Next, Awake, Cancelling, Tick

(* Type correctness: among others, a CPU's stage says whether it is inside  *)
(* a callback of ktimer_expire.                                             *)
THEOREM TimerTypes == Spec => []TypeOK
<1>1. Init => TypeInv
  BY InitTimer DEF TimerInv, OnePlace, TypeInv
<1>2. TypeInv => TypeOK
  BY DEF TypeInv
<1> QED BY <1>1, <1>2, NextTypes, PTL DEF Spec

(* A timer is on the list or in one CPU's callback, never in two places, as *)
(* long as ktimer_cancel's scan skips no CPU that runs the callback.        *)
THEOREM OneCallbackHolds == Spec /\ NoSkip => []OneCallback
<1>1. TimerInv => OneCallback
  BY TaskAssumption DEF TimerInv, TypeOK, OnePlace, Timers, OneCallback
<1>2. TimerInv /\ [Next]_vars /\ [\A t \in Tasks : ~SkipsCallback(t)]_vars => TimerInv'
  BY NextTimer
<1> QED BY <1>1, <1>2, InitTimer, PTL DEF Spec, NoSkip

(* When the frame of task_sleep_until_ns or of futex_wait is gone, its      *)
(* timer is off the list and no callback has it, wherever the task was      *)
(* moved meanwhile: ktimer_cancel's round over the CPUs, which takes no     *)
(* lock, is enough unless it skips the CPU that runs the callback.          *)
THEOREM FrameOutlivesTimerHolds == Spec /\ NoSkip => []FrameOutlivesTimer
<1>1. TimerInv => FrameOutlivesTimer
  BY DEF TimerInv, NoFrameNoTimer, Timers, FrameOutlivesTimer
<1>2. TimerInv /\ [Next]_vars /\ [\A t \in Tasks : ~SkipsCallback(t)]_vars => TimerInv'
  BY NextTimer
<1> QED BY <1>1, <1>2, InitTimer, PTL DEF Spec, NoSkip
=============================================================================
