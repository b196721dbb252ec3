--------------------------- MODULE RunQueueProof ---------------------------
(* Proofs about RunQueue, for any number of CPUs, tasks, contexts, rounds   *)
(* and moves.                                                               *)
(*                                                                          *)
(* The ring of a queue is a set on which rq_next and rq_prev are inverse    *)
(* and no proper part of which rq_next leads back into: said this way, a    *)
(* splice keeps it by an argument about sets, and that the bounded walk     *)
(* meets all of it follows from the pigeonhole principle.                   *)
EXTENDS RunQueue, FiniteSetTheorems, WellFoundedInduction, TLAPS

(* The links nxt and prv make one ring of the set S: they are inverse to    *)
(* each other on S, and no part of S is closed under nxt.                   *)
IsRing(S, nxt, prv) ==
  /\ \A x \in S : /\ nxt[x] \in S /\ prv[x] \in S
                  /\ prv[nxt[x]] = x /\ nxt[prv[x]] = x
  /\ \A X \in SUBSET S : X # {} /\ (\A x \in X : nxt[x] \in X) => X = S

Links == [Tasks -> Tasks \cup {Nil}]

(* Links outside a set do not matter to its ring.                           *)
LEMMA SameRing ==
  ASSUME NEW S, NEW n, NEW p, NEW m, NEW q, IsRing(S, n, p),
         \A x \in S : m[x] = n[x] /\ q[x] = p[x]
  PROVE  IsRing(S, m, q)
<1>1. ASSUME NEW X \in SUBSET S, X # {}, \A x \in X : m[x] \in X
      PROVE  X = S
  BY <1>1 DEF IsRing
<1>2. ASSUME NEW x \in S
      PROVE  /\ m[x] \in S /\ q[x] \in S /\ q[m[x]] = x /\ m[q[x]] = x
  BY <1>2 DEF IsRing
<1> QED BY <1>1, <1>2 DEF IsRing

(* rq_remove_locked: the ring without one of its tasks is a ring.           *)
LEMMA RemoveRing ==
  ASSUME NEW S \in SUBSET Tasks, NEW n \in Links, NEW p \in Links, IsRing(S, n, p),
         NEW t \in S, S # {t}
  PROVE  /\ n[t] \in S \ {t} /\ p[t] \in S \ {t}
         /\ IsRing(S \ {t}, [n EXCEPT ![p[t]] = n[t]], [p EXCEPT ![n[t]] = p[t]])
<1> DEFINE m == [n EXCEPT ![p[t]] = n[t]]
           q == [p EXCEPT ![n[t]] = p[t]]
<1>0. /\ n[t] \in S /\ p[t] \in S /\ n[p[t]] = t /\ p[n[t]] = t
      /\ \A x \in S : n[x] \in S /\ p[x] \in S /\ p[n[x]] = x /\ n[p[x]] = x
  BY DEF IsRing
<1>1. n[t] # t
  <2> SUFFICES ASSUME n[t] = t PROVE FALSE
    OBVIOUS
  <2>1. {t} \in SUBSET S /\ {t} # {} /\ \A x \in {t} : n[x] \in {t}
    OBVIOUS
  <2> QED BY <2>1 DEF IsRing
<1>2. n[t] \in S \ {t} /\ p[t] \in S \ {t}
  BY <1>0, <1>1
<1>3. /\ m[p[t]] = n[t] /\ \A x \in S : x # p[t] => m[x] = n[x]
      /\ q[n[t]] = p[t] /\ \A x \in S : x # n[t] => q[x] = p[x]
  BY <1>0 DEF Links
<1> HIDE DEF m, q
<1>4. ASSUME NEW x \in S \ {t}
      PROVE  /\ m[x] \in S \ {t} /\ q[x] \in S \ {t}
             /\ q[m[x]] = x /\ m[q[x]] = x
  BY <1>0, <1>2, <1>3, <1>4
<1>5. ASSUME NEW X \in SUBSET (S \ {t}), X # {}, \A x \in X : m[x] \in X
      PROVE  X = S \ {t}
  <2>1. CASE p[t] \in X
    <3>1. n[t] \in X
      BY <2>1, <1>5, <1>3
    <3>2. \A x \in X \cup {t} : n[x] \in X \cup {t}
      BY <3>1, <1>0, <1>3, <1>5
    <3>3. X \cup {t} \in SUBSET S /\ X \cup {t} # {}
      BY <1>5
    <3>4. \A Y \in SUBSET S : Y # {} /\ (\A x \in Y : n[x] \in Y) => Y = S
      BY DEF IsRing
    <3>5. X \cup {t} = S
      BY <3>2, <3>3, <3>4
    <3> QED BY <3>5, <1>5
  <2>2. CASE p[t] \notin X
    <3>1. \A x \in X : n[x] \in X
      BY <2>2, <1>3, <1>5
    <3>2. X = S
      BY <3>1, <1>5 DEF IsRing
    <3> QED BY <3>2, <1>5
  <2> QED BY <2>1, <2>2
<1>6. IsRing(S \ {t}, m, q)
  BY <1>4, <1>5 DEF IsRing
<1> QED BY <1>2, <1>6 DEF m, q

(* rq_insert_tail_locked: the ring with a task more, before its head, is a  *)
(* ring.                                                                    *)
LEMMA InsertRing ==
  ASSUME NEW S \in SUBSET Tasks, NEW n \in Links, NEW p \in Links, IsRing(S, n, p),
         NEW t \in Tasks \ S, NEW h \in S
  PROVE  /\ p[h] \in S
         /\ IsRing(S \cup {t}, [n EXCEPT ![t] = h, ![p[h]] = t],
                               [p EXCEPT ![t] = p[h], ![h] = t])
<1> DEFINE l == p[h]
           m == [n EXCEPT ![t] = h, ![l] = t]
           q == [p EXCEPT ![t] = l, ![h] = t]
<1>0. /\ l \in S /\ n[l] = h
      /\ \A x \in S : n[x] \in S /\ p[x] \in S /\ p[n[x]] = x /\ n[p[x]] = x
  BY DEF IsRing
<1>3. /\ m[t] = h /\ m[l] = t /\ \A x \in S : x # l => m[x] = n[x]
      /\ q[t] = l /\ q[h] = t /\ \A x \in S : x # h => q[x] = p[x]
  BY <1>0 DEF Links
<1> HIDE DEF m, q
<1>4. ASSUME NEW x \in S \cup {t}
      PROVE  /\ m[x] \in S \cup {t} /\ q[x] \in S \cup {t}
             /\ q[m[x]] = x /\ m[q[x]] = x
  BY <1>0, <1>3, <1>4
<1>5. ASSUME NEW X \in SUBSET (S \cup {t}), X # {}, \A x \in X : m[x] \in X
      PROVE  X = S \cup {t}
  <2> DEFINE Y == X \ {t}
  <2>1. Y # {}
    BY <1>3, <1>5
  <2>2. ASSUME NEW x \in Y PROVE n[x] \in Y
    <3>1. CASE x = l
      BY <3>1, <1>0, <1>3, <1>5
    <3>2. CASE x # l
      BY <3>2, <2>2, <1>0, <1>3, <1>5
    <3> QED BY <3>1, <3>2
  <2>3. Y = S
    BY <2>1, <2>2 DEF IsRing
  <2>4. t \in X
    BY <2>3, <1>0, <1>3, <1>5
  <2> QED BY <2>3, <2>4, <1>5
<1>6. IsRing(S \cup {t}, m, q)
  BY <1>4, <1>5 DEF IsRing
<1> QED BY <1>0, <1>6 DEF m, q

(* A task linked to itself is a ring of one.                                *)
LEMMA SingleRing ==
  ASSUME NEW n, NEW p, NEW t, n[t] = t, p[t] = t
  PROVE  IsRing({t}, n, p)
<1>1. ASSUME NEW X \in SUBSET {t}, X # {} PROVE X = {t}
  BY <1>1
<1> QED BY <1>1 DEF IsRing

(* No tasks, no links: a ring of none.                                      *)
LEMMA EmptyRing ==
  ASSUME NEW n, NEW p PROVE IsRing({}, n, p)
BY DEF IsRing
-----------------------------------------------------------------------------
(* The bounded walk exists: a partial one can be taken a step further.      *)
Walks(k, h, nxt) ==
  {f \in [0 .. k -> Tasks \cup {Nil}] :
     \A i \in 0 .. k : f[i] = IF i = 0 THEN h
                              ELSE IF f[i - 1] = Nil THEN Nil ELSE nxt[f[i - 1]]}

(* There is a walk of every length.                                         *)
LEMMA WalkExists ==
  ASSUME NEW k \in Nat, NEW h \in Tasks \cup {Nil}, NEW nxt \in Links
  PROVE  Walks(k, h, nxt) # {}
<1> DEFINE Bad == {j \in Nat : Walks(j, h, nxt) = {}}
<1> SUFFICES ASSUME Bad # {} PROVE FALSE
  OBVIOUS
<1>1. PICK j \in Bad : \A i \in Bad : ~(<<i, j>> \in OpToRel(<, Nat))
  BY NatLessThanWellFounded, WFMin
<1>2. \A i \in Nat : i < j => i \notin Bad
  BY <1>1 DEF OpToRel
<1>3. CASE j = 0
  <2> DEFINE f == [i \in 0 .. 0 |-> h]
  <2>1. f \in Walks(0, h, nxt)
    BY DEF Walks
  <2> QED BY <2>1, <1>3, <1>1
<1>4. CASE j # 0
  <2>1. j - 1 \in Nat /\ j - 1 < j
    BY <1>4
  <2>2. PICK f \in Walks(j - 1, h, nxt) : TRUE
    BY <2>1, <1>2
  <2> DEFINE g == [i \in 0 .. j |-> IF i < j THEN f[i]
                                   ELSE IF f[j - 1] = Nil THEN Nil ELSE nxt[f[j - 1]]]
  <2>3. f \in [0 .. j - 1 -> Tasks \cup {Nil}]
    BY <2>2 DEF Walks
  <2>4. \A i \in 0 .. j - 1 : f[i] = IF i = 0 THEN h
                              ELSE IF f[i - 1] = Nil THEN Nil ELSE nxt[f[i - 1]]
    BY <2>2 DEF Walks
  <2>5. g \in [0 .. j -> Tasks \cup {Nil}]
    <3>1. f[j - 1] \in Tasks \cup {Nil}
      BY <2>3, <2>1
    <3>2. (IF f[j - 1] = Nil THEN Nil ELSE nxt[f[j - 1]]) \in Tasks \cup {Nil}
      BY <3>1 DEF Links
    <3>3. ASSUME NEW i \in 0 .. j, i < j PROVE f[i] \in Tasks \cup {Nil}
      BY <3>3, <2>3, <2>1
    <3> QED BY <3>2, <3>3
  <2>6. ASSUME NEW i \in 0 .. j
        PROVE  g[i] = IF i = 0 THEN h ELSE IF g[i - 1] = Nil THEN Nil ELSE nxt[g[i - 1]]
    <3>1. CASE i = j
      BY <3>1, <2>1, <1>4
    <3>2. CASE i # j
      <4>1. i \in 0 .. j - 1 /\ i < j /\ g[i] = f[i]
        BY <3>2, <2>1
      <4>2. i # 0 => g[i - 1] = f[i - 1]
        BY <4>1, <2>1
      <4> QED BY <4>1, <4>2, <2>4
    <3> QED BY <3>1, <3>2
  <2>7. g \in Walks(j, h, nxt)
    BY <2>5, <2>6 DEF Walks
  <2> QED BY <2>7, <1>1
<1> QED BY <1>3, <1>4

N == Cardinality(Tasks)

(* What the code's walk from head along rq_next meets: the whole ring.      *)
LEMMA WalkMeetsRing ==
  ASSUME NEW S \in SUBSET Tasks, NEW nxt \in Links, NEW prv \in Links, IsRing(S, nxt, prv),
         NEW h \in Tasks \cup {Nil}, S = {} => h = Nil, S # {} => h \in S,
         NEW w \in Walks(N, h, nxt)
  PROVE  {w[i] : i \in 0 .. N} \ {Nil} = S
<1>0. N \in Nat /\ IsFiniteSet(Tasks)
  BY FS_CardinalityType, FiniteAssumption DEF N
<1>1. /\ w \in [0 .. N -> Tasks \cup {Nil}]
      /\ w[0] = h
      /\ \A i \in 1 .. N : w[i] = IF w[i - 1] = Nil THEN Nil ELSE nxt[w[i - 1]]
  <2>1. \A i \in 0 .. N : w[i] = IF i = 0 THEN h
                                ELSE IF w[i - 1] = Nil THEN Nil ELSE nxt[w[i - 1]]
    BY DEF Walks
  <2>2. w \in [0 .. N -> Tasks \cup {Nil}]
    BY DEF Walks
  <2>3. 0 \in 0 .. N /\ \A i \in 1 .. N : i \in 0 .. N /\ i # 0
    BY <1>0
  <2> QED BY <2>1, <2>2, <2>3
<1>2. CASE S = {}
  <2> DEFINE Bad == {i \in 0 .. N : w[i] # Nil}
  <2>1. Bad = {}
    <3> SUFFICES ASSUME Bad # {} PROVE FALSE
      OBVIOUS
    <3>1. Bad \subseteq Nat
      BY <1>0
    <3>2. PICK j \in Bad : \A i \in Bad : ~(<<i, j>> \in OpToRel(<, Nat))
      BY <3>1, NatLessThanWellFounded, WFMin
    <3>3. \A i \in Bad : ~(i < j)
      BY <3>1, <3>2 DEF OpToRel
    <3> HIDE DEF Bad
    <3>4. j \in 0 .. N /\ w[j] # Nil
      BY DEF Bad
    <3>5. j # 0
      BY <3>4, <1>1, <1>2
    <3>6. j \in 1 .. N /\ j - 1 \in 0 .. N /\ j - 1 < j
      BY <3>4, <3>5, <1>0
    <3>7. w[j - 1] = Nil
      BY <3>6, <3>3 DEF Bad
    <3> QED BY <3>4, <3>6, <3>7, <1>1
  <2> QED BY <2>1, <1>2
<1>3. CASE S # {}
  <2> DEFINE Bad == {i \in 0 .. N : w[i] \notin S}
  <2>1. Bad = {}
    <3> SUFFICES ASSUME Bad # {} PROVE FALSE
      OBVIOUS
    <3>1. Bad \subseteq Nat
      BY <1>0
    <3>2. PICK j \in Bad : \A i \in Bad : ~(<<i, j>> \in OpToRel(<, Nat))
      BY <3>1, NatLessThanWellFounded, WFMin
    <3>3. \A i \in Bad : ~(i < j)
      BY <3>1, <3>2 DEF OpToRel
    <3> HIDE DEF Bad
    <3>4. j \in 0 .. N /\ w[j] \notin S
      BY DEF Bad
    <3>5. j # 0
      BY <3>4, <1>1, <1>3
    <3>6. j \in 1 .. N /\ j - 1 \in 0 .. N /\ j - 1 < j
      BY <3>4, <3>5, <1>0
    <3>7. w[j - 1] \in S
      BY <3>6, <3>3 DEF Bad
    <3>8. nxt[w[j - 1]] \in S /\ w[j - 1] # Nil
      BY <3>7, NilAssumption DEF IsRing
    <3> QED BY <3>4, <3>6, <3>8, <1>1
  <2>2. \A i \in 0 .. N : w[i] \in S
    BY <2>1
  <2>3. \A i \in 0 .. N : i + 1 \in 0 .. N => w[i + 1] = nxt[w[i]]
    <3> TAKE i \in 0 .. N
    <3> HAVE i + 1 \in 0 .. N
    <3>1. i + 1 \in 1 .. N /\ (i + 1) - 1 = i
      BY <1>0
    <3>2. w[i] # Nil
      BY <2>2, NilAssumption
    <3> QED BY <3>1, <3>2, <1>1
  <2>4. PICK a, b \in 0 .. N : a # b /\ w[a] = w[b]
    <3>1. IsFiniteSet(0 .. N) /\ Cardinality(0 .. N) = N + 1
      BY FS_Interval, <1>0
    <3>2. w \in [0 .. N -> Tasks]
      BY <2>2, <1>1
    <3>3. Cardinality(Tasks) < Cardinality(0 .. N)
      BY <3>1, <1>0 DEF N
    <3> QED BY <3>1, <3>2, <3>3, <1>0, FS_PigeonHole
  <2>5. ASSUME NEW i \in 0 .. N, NEW j \in 0 .. N, i < j, w[i] = w[j]
        PROVE  S \subseteq {w[k] : k \in 0 .. N}
    <3> DEFINE X == {w[k] : k \in 0 .. j - 1}
    <3>0. j - 1 \in Nat /\ i \in 0 .. j - 1 /\ \A k \in 0 .. j - 1 : k \in 0 .. N
          /\ k + 1 \in 0 .. N
      BY <2>5, <1>0
    <3>1. X \in SUBSET S
      BY <3>0, <2>2
    <3>2. w[0] \in X
      BY <3>0
    <3>3. ASSUME NEW k \in 0 .. j - 1 PROVE nxt[w[k]] \in X
      <4>1. w[k + 1] = nxt[w[k]]
        BY <3>0, <2>3
      <4>2. CASE k = j - 1
        BY <4>1, <4>2, <3>0, <2>5
      <4>3. CASE k # j - 1
        <5>1. k + 1 \in 0 .. j - 1
          BY <4>3, <3>0
        <5> QED BY <4>1, <5>1
      <4> QED BY <4>2, <4>3
    <3>4. \A x \in X : nxt[x] \in X
      BY <3>3
    <3> HIDE DEF X
    <3>5. X = S
      BY <3>1, <3>2, <3>4 DEF IsRing
    <3> QED BY <3>5, <3>0 DEF X
  <2>6. S \subseteq {w[k] : k \in 0 .. N}
    <3>1. a < b \/ b < a
      BY <2>4, <1>0
    <3> QED BY <3>1, <2>4, <2>5
  <2> QED BY <2>2, <2>6, NilAssumption
<1> QED BY <1>2, <1>3

(* What the walk of the model, from rq_head along rq_next, finds of a       *)
(* queue.                                                                   *)
LEMMA RingIs ==
  ASSUME NEW c \in CPU, NEW S \in SUBSET Tasks, rq_head \in [CPU -> Tasks \cup {Nil}],
         rq_next \in Links, rq_prev \in Links, IsRing(S, rq_next, rq_prev),
         S = {} => rq_head[c] = Nil, S # {} => rq_head[c] \in S
  PROVE  Ring(c) = S
<1> DEFINE walk[i \in 0 .. Cardinality(Tasks)] ==
             IF i = 0 THEN rq_head[c]
             ELSE IF walk[i - 1] = Nil THEN Nil ELSE rq_next[walk[i - 1]]
<1>0. N \in Nat
  BY FS_CardinalityType, FiniteAssumption DEF N
<1>1. Ring(c) = {walk[i] : i \in 0 .. N} \ {Nil}
  BY DEF Ring, N
<1>2. PICK f \in Walks(N, rq_head[c], rq_next) : TRUE
  BY <1>0, WalkExists
<1>3. f = [i \in 0 .. N |-> IF i = 0 THEN rq_head[c]
                            ELSE IF f[i - 1] = Nil THEN Nil ELSE rq_next[f[i - 1]]]
  BY <1>2 DEF Walks
<1>4. walk = [i \in 0 .. N |-> IF i = 0 THEN rq_head[c]
                            ELSE IF walk[i - 1] = Nil THEN Nil ELSE rq_next[walk[i - 1]]]
  BY <1>3 DEF N
<1> HIDE DEF walk
<1>5. ASSUME NEW g, g = [i \in 0 .. N |-> IF i = 0 THEN rq_head[c]
                            ELSE IF g[i - 1] = Nil THEN Nil ELSE rq_next[g[i - 1]]]
      PROVE  g \in Walks(N, rq_head[c], rq_next)
  <2> DEFINE Bad == {i \in 0 .. N : g[i] \notin Tasks \cup {Nil}}
  <2>0. \A i \in 0 .. N : g[i] = IF i = 0 THEN rq_head[c]
                            ELSE IF g[i - 1] = Nil THEN Nil ELSE rq_next[g[i - 1]]
    BY <1>5
  <2>1. Bad = {}
    <3> SUFFICES ASSUME Bad # {} PROVE FALSE
      OBVIOUS
    <3>1. Bad \subseteq Nat
      BY <1>0
    <3>2. PICK j \in Bad : \A i \in Bad : ~(<<i, j>> \in OpToRel(<, Nat))
      BY <3>1, NatLessThanWellFounded, WFMin
    <3>3. \A i \in Bad : ~(i < j)
      BY <3>1, <3>2 DEF OpToRel
    <3> HIDE DEF Bad
    <3>4. j \in 0 .. N /\ g[j] \notin Tasks \cup {Nil}
      BY DEF Bad
    <3>5. j # 0
      BY <3>4, <2>0
    <3>6. j - 1 \in 0 .. N /\ j - 1 < j
      BY <3>4, <3>5, <1>0
    <3>7. g[j - 1] \in Tasks \cup {Nil}
      BY <3>6, <3>3 DEF Bad
    <3> QED BY <3>4, <3>5, <3>7, <2>0 DEF Links
  <2>2. g \in [0 .. N -> Tasks \cup {Nil}]
    <3>1. \A i \in 0 .. N : g[i] \in Tasks \cup {Nil}
      BY <2>1
    <3>2. \E e : g = [i \in 0 .. N |-> e[i]]
      <4> DEFINE e == [i \in 0 .. N |-> IF i = 0 THEN rq_head[c]
                            ELSE IF g[i - 1] = Nil THEN Nil ELSE rq_next[g[i - 1]]]
      <4>1. e = [i \in 0 .. N |-> e[i]]
        OBVIOUS
      <4>2. g = e
        BY <1>5
      <4> HIDE DEF e
      <4> QED BY <4>1, <4>2
    <3> QED BY <3>1, <3>2
  <2> QED BY <2>0, <2>2 DEF Walks
<1>6. walk \in Walks(N, rq_head[c], rq_next)
  BY <1>4, <1>5
<1> QED BY <1>1, <1>6, WalkMeetsRing

-----------------------------------------------------------------------------
(* What each stage of a job has in hand.                                    *)
JobShape(j) ==
  /\ j.pc = "idle" <=> j.kind = "none"
  /\ j.pc = "read" => j.kind \in {"sleep", "move"}
  /\ j.pc \in {"lockfrom", "verify"} => j.kind \in {"sleep", "move", "exit"}
  /\ j.pc \in {"unlink", "release"} => j.kind \in {"sleep", "move", "exit", "steal"}
  /\ j.pc = "lockto" => j.kind \in {"wake", "sleep", "move"}
  /\ j.pc \in {"insert", "link"} => j.kind \in {"wake", "sleep", "move", "steal"}
  /\ j.pc \in {"locklo", "lockhi", "choose"} => j.kind = "steal"
  /\ j.kind = "steal" => j.from \in CPU /\ j.to \in CPU /\ j.from # j.to
  /\ j.kind \in {"wake", "sleep", "move", "exit"} => j.tgt \in Tasks
  /\ j.pc \in {"unlink", "release", "insert", "link"} => j.tgt \in Tasks
  /\ j.pc \in {"lockfrom", "verify", "unlink", "release"} => j.from \in CPU
  /\ j.pc \in {"read", "lockfrom", "verify", "lockto"} => j.to = NoCpu
  /\ j.pc \in {"unlink", "release"} /\ j.kind # "steal" => j.to = NoCpu
  /\ j.pc \in {"insert", "link"} => j.to \in CPU
  /\ j.pc = "unlock" /\ j.to = NoCpu => j.from \in CPU
  /\ j.kind = "exit" => j.from \in CPU /\ j.to = NoCpu

(* The locks that go with it.                                               *)
Holds(j, c) ==
  \/ /\ c = j.from
     /\ \/ j.pc \in {"verify", "unlink", "release"}
        \/ j.pc = "unlock" /\ j.to = NoCpu
        \/ j.kind = "steal" /\ j.pc \in {"choose", "insert", "link", "unlock"}
        \/ j.pc = "lockhi" /\ j.from < j.to
  \/ /\ c = j.to
     /\ \/ j.pc \in {"insert", "link", "unlock"}
        \/ j.kind = "steal" /\ j.pc \in {"choose", "unlink", "release"}
        \/ j.pc = "lockhi" /\ ~(j.from < j.to)

LocksExact ==
  \A p \in Procs : /\ JobShape(job[p])
                   /\ \A c \in CPU : lock[c] = p <=> Holds(job[p], c)

(* A task being taken off a queue, or put on one, is that queue's; nobody   *)
(* steals a running one.                                                    *)
Hands ==
  \A p \in Procs :
    /\ job[p].pc \in {"unlink", "release"} => cpu_home[job[p].tgt] = job[p].from
    /\ job[p].pc = "link" => cpu_home[job[p].tgt] = job[p].to
    /\ job[p].kind = "steal" /\ job[p].pc \in {"unlink", "release"} =>
         job[p].tgt \notin on_cpu

(* A task does one thing to itself at a time, and runs while it does.       *)
OwnJobs ==
  \A p \in Procs, t \in Tasks : Own(p, t) =>
    /\ t \in on_cpu
    /\ \A q \in Procs : Own(q, t) => q = p

(* The tasks whose links are in place on a queue.                           *)
InHand(t) == \E p \in Procs : job[p].tgt = t /\ job[p].pc \in {"link", "release"}
Linked(c) == {t \in Tasks : cpu_home[t] = c /\ ~InHand(t)}

Rings ==
  \A c \in CPU :
    /\ Linked(c) = {} => rq_head[c] = Nil
    /\ Linked(c) # {} => rq_head[c] \in Linked(c)
    /\ IsRing(Linked(c), rq_next, rq_prev)
    /\ rq_count[c] = Cardinality(Linked(c))

(* An exit has cleared the queues it has passed, of the task and of thieves *)
(* that could still put it back.                                            *)
Swept(p) ==
  /\ state[job[p].tgt] = "dead"
  /\ \A c \in CPU : c < job[p].from => cpu_home[job[p].tgt] # c
  /\ job[p].pc = "unlock" => cpu_home[job[p].tgt] # job[p].from
  /\ \A q \in Thieves(job[p].tgt) : job[p].from <= job[q].from

Sweeping == \A p \in Procs : job[p].kind = "exit" => Swept(p)

Gone ==
  \A t \in swept :
    /\ state[t] = "dead" /\ cpu_home[t] = NoCpu /\ Thieves(t) = {}
    /\ \A p \in Procs : ~Own(p, t)

(* The moves of a task that may still take it off a queue, and the rounds   *)
(* of its own detach they have cost or will have.                           *)
Movers(t) ==
  {p \in Procs : /\ job[p].kind = "move" /\ job[p].tgt = t
                 /\ job[p].pc \in {"read", "lockfrom", "verify", "unlink", "release"}}

Stale(p) ==
  IF job[p].pc \in {"lockfrom", "verify"} /\ cpu_home[job[p].tgt] # job[p].from THEN 1 ELSE 0

Rounds ==
  /\ \A t \in Tasks : Cardinality(Movers(t)) <= moves[t]
  /\ \A p \in Procs : job[p].kind = "sleep" /\ job[p].pc \in {"read", "lockfrom", "verify"} =>
       job[p].spins + Stale(p) + Cardinality(Movers(job[p].tgt)) <= moves[job[p].tgt]

QueueInv ==
  /\ TypeOK /\ LocksExact /\ Hands /\ OwnJobs /\ Rings /\ Sweeping /\ Gone
  /\ Rounds /\ GivesUpOnlyIfMoved

-----------------------------------------------------------------------------
(* How each kind of step changes the jobs.                                  *)

Pcs == {"idle", "read", "lockfrom", "verify", "unlink", "release", "lockto",
        "insert", "link", "unlock", "locklo", "lockhi", "choose"}

(* Only p's job changes, to one at stage l.                                 *)
At(p, l) ==
  /\ job' \in [Procs -> Jobs]
  /\ \A q \in Procs : q # p => job'[q] = job[q]
  /\ job'[p].pc = l

SameKind(p) == job'[p].kind = job[p].kind
SameTask(p) == job'[p].tgt = job[p].tgt
SameFrom(p) == job'[p].from = job[p].from
SameTo(p) == job'[p].to = job[p].to
SameSpins(p) == job'[p].spins = job[p].spins

(* The fields of a job, by their types.                                     *)
LEMMA JobFields ==
  ASSUME NEW j \in Jobs
  PROVE  /\ j.pc \in Pcs /\ j.kind \in Kinds \cup {"none"} /\ j.tgt \in Tasks \cup {Nil}
         /\ j.from \in CPU \cup {NoCpu} /\ j.to \in CPU \cup {NoCpu}
         /\ j.spins \in 0 .. MaxSpins - 1
BY DEF Jobs, Pcs

(* A job that only changes its stage.                                       *)
LEMMA GotoView ==
  ASSUME TypeOK, NEW p \in Procs, NEW l \in Pcs, Goto(p, l)
  PROVE  At(p, l) /\ SameKind(p) /\ SameTask(p) /\ SameFrom(p) /\ SameTo(p) /\ SameSpins(p)
BY DEF TypeOK, Jobs, Pcs, Goto, At, SameKind, SameTask, SameFrom, SameTo, SameSpins

(* The job of a context that does nothing is a job.                         *)
LEMMA NoJobType == NoJob \in Jobs
<1>1. 0 \in 0 .. MaxSpins - 1
  BY SpinsAssumption
<1> QED BY <1>1 DEF NoJob, Jobs, Kinds

(* A job that ends.                                                         *)
LEMMA DoneView ==
  ASSUME TypeOK, NEW p \in Procs, Done(p)
  PROVE  At(p, "idle") /\ job'[p] = NoJob /\ job'[p].kind = "none"
<1>1. job' = [job EXCEPT ![p] = NoJob] /\ job \in [Procs -> Jobs]
  BY DEF Done, TypeOK
<1>2. job' \in [Procs -> Jobs] /\ job'[p] = NoJob /\ \A q \in Procs : q # p => job'[q] = job[q]
  BY <1>1, NoJobType
<1> QED BY <1>2 DEF At, NoJob

(* A job that begins.                                                       *)
LEMMA StartView ==
  ASSUME TypeOK, NEW p \in Procs, NEW l \in Pcs, NEW k \in Kinds, NEW t \in Tasks \cup {Nil},
         NEW f \in CPU \cup {NoCpu}, NEW d \in CPU \cup {NoCpu}, Start(p, l, k, t, f, d)
  PROVE  /\ At(p, l) /\ job'[p].kind = k /\ job'[p].tgt = t /\ job'[p].from = f
         /\ job'[p].to = d /\ job'[p].spins = 0
         /\ job[p].pc = "idle" /\ job[p].kind = "none"
<1> DEFINE j == [pc |-> l, kind |-> k, tgt |-> t, from |-> f, to |-> d, spins |-> 0]
<1>1. 0 \in 0 .. MaxSpins - 1
  BY SpinsAssumption
<1>2. j \in Jobs
  BY <1>1 DEF Jobs, Pcs
<1>3. /\ j.pc = l /\ j.kind = k /\ j.tgt = t /\ j.from = f /\ j.to = d /\ j.spins = 0
  OBVIOUS
<1>4. job' = [job EXCEPT ![p] = j] /\ job \in [Procs -> Jobs] /\ job[p] = NoJob
  BY DEF Start, TypeOK
<1> HIDE DEF j
<1>5. job' \in [Procs -> Jobs] /\ job'[p] = j /\ \A q \in Procs : q # p => job'[q] = job[q]
  BY <1>4, <1>2
<1> QED BY <1>3, <1>4, <1>5 DEF At, NoJob

(* task_enqueue has locked the queue it will put the task on.               *)
LEMMA ToView ==
  ASSUME TypeOK, NEW p \in Procs, NEW c \in CPU,
         job' = [job EXCEPT ![p].pc = "insert", ![p].to = c]
  PROVE  At(p, "insert") /\ SameKind(p) /\ SameTask(p) /\ SameFrom(p) /\ SameSpins(p)
         /\ job'[p].to = c
BY DEF TypeOK, Jobs, At, SameKind, SameTask, SameFrom, SameTo, SameSpins

(* A detach has read which queue to lock, a sweep goes on to the next.      *)
LEMMA FromView ==
  ASSUME TypeOK, NEW p \in Procs, NEW c \in CPU,
         job' = [job EXCEPT ![p].pc = "lockfrom", ![p].from = c]
  PROVE  At(p, "lockfrom") /\ SameKind(p) /\ SameTask(p) /\ SameTo(p) /\ SameSpins(p)
         /\ job'[p].from = c
BY DEF TypeOK, Jobs, At, SameKind, SameTask, SameFrom, SameTo, SameSpins

(* A detach starts another round.                                           *)
LEMMA SpinView ==
  ASSUME TypeOK, NEW p \in Procs, job[p].spins + 1 < MaxSpins,
         job' = [job EXCEPT ![p].pc = "read", ![p].spins = @ + 1]
  PROVE  /\ At(p, "read") /\ SameKind(p) /\ SameTask(p) /\ SameFrom(p) /\ SameTo(p)
         /\ job'[p].spins = job[p].spins + 1
<1>1. job[p].spins + 1 \in 0 .. MaxSpins - 1
  BY SpinsAssumption DEF TypeOK, Jobs
<1> QED BY <1>1 DEF TypeOK, Jobs, At, SameKind, SameTask, SameFrom, SameTo, SameSpins

(* A thief has chosen its task.                                             *)
LEMMA TaskView ==
  ASSUME TypeOK, NEW p \in Procs, NEW t \in Tasks,
         job' = [job EXCEPT ![p].pc = "unlink", ![p].tgt = t]
  PROVE  At(p, "unlink") /\ SameKind(p) /\ SameFrom(p) /\ SameTo(p) /\ SameSpins(p)
         /\ job'[p].tgt = t
BY DEF TypeOK, Jobs, At, SameKind, SameTask, SameFrom, SameTo, SameSpins

(* A detach that is over: the job ends or goes on to its enqueue.           *)
LEMMA AfterView ==
  ASSUME TypeOK, NEW p \in Procs, AfterDetach(p)
  PROVE  \/ At(p, "idle") /\ job'[p].kind = "none" /\ job'[p] = NoJob /\ job[p].kind = "sleep"
         \/ At(p, "lockto") /\ SameKind(p) /\ SameTask(p) /\ SameFrom(p) /\ SameTo(p)
              /\ SameSpins(p)
<1>1. "lockto" \in Pcs
  BY DEF Pcs
<1> QED BY <1>1, GotoView, DoneView DEF AfterDetach
-----------------------------------------------------------------------------
(* What a step that leaves the queues alone has to show for each part of    *)
(* the invariant.                                                           *)

(* LocksExact: only p's job and p's locks change, and they agree.           *)
LEMMA LocksKeep ==
  ASSUME LocksExact, NEW p \in Procs, NEW l, At(p, l), JobShape(job'[p]),
         \A c \in CPU : lock'[c] = p <=> Holds(job'[p], c),
         \A c \in CPU, q \in Procs : q # p => (lock'[c] = q <=> lock[c] = q)
  PROVE  LocksExact'
<1> SUFFICES ASSUME NEW q \in Procs
             PROVE  /\ JobShape(job'[q])
                    /\ \A c \in CPU : lock'[c] = q <=> Holds(job'[q], c)
  BY DEF LocksExact
<1>1. CASE q = p
  BY <1>1
<1>2. CASE q # p
  <2>1. job'[q] = job[q]
    BY <1>2 DEF At
  <2> QED BY <1>2, <2>1 DEF LocksExact
<1> QED BY <1>1, <1>2

(* Hands: p enters no splice, or enters one with the task's queue locked.   *)
LEMMA HandsKeep ==
  ASSUME Hands, NEW p \in Procs, NEW l, At(p, l), cpu_home' = cpu_home, on_cpu' = on_cpu,
         l \notin {"link", "release"},
         l = "unlink" => /\ cpu_home[job'[p].tgt] = job'[p].from
                         /\ job'[p].kind = "steal" => job'[p].tgt \notin on_cpu
  PROVE  Hands'
BY DEF Hands, At

(* OwnJobs: p begins no job on its own task.                                *)
LEMMA OwnKeep ==
  ASSUME OwnJobs, NEW p \in Procs, NEW l, At(p, l), on_cpu' = on_cpu,
         \A t \in Tasks : Own(p, t)' => Own(p, t)
  PROVE  OwnJobs'
<1>1. \A q \in Procs, t \in Tasks : Own(q, t)' => Own(q, t)
  BY DEF At, Own
<1> QED BY <1>1 DEF OwnJobs

(* p is in the middle of no splice, before or after: no task is linked or   *)
(* unlinked.                                                                *)
LEMMA LinkedKeep ==
  ASSUME NEW p \in Procs, NEW l, At(p, l), cpu_home' = cpu_home,
         l \notin {"link", "release"}, job[p].pc \notin {"link", "release"}
  PROVE  \A c \in CPU : Linked(c)' = Linked(c)
<1>1. \A t \in Tasks : InHand(t)' <=> InHand(t)
  BY DEF InHand, At
<1> QED BY <1>1 DEF Linked

(* Rings: neither the links nor the linked tasks change.                    *)
LEMMA RingsSame ==
  ASSUME Rings, UNCHANGED ringVars, \A c \in CPU : Linked(c)' = Linked(c)
  PROVE  Rings'
BY DEF Rings, ringVars

(* Swept: the exit under way does not move on, and no thief gets to its     *)
(* insert.                                                                  *)
LEMMA SweptKeep ==
  ASSUME LocksExact, NEW p \in Procs, NEW l, At(p, l), cpu_home' = cpu_home,
         \A t \in Tasks : state[t] = "dead" => state'[t] = "dead",
         ~(job'[p].kind = "steal" /\ l = "insert"),
         NEW q \in Procs, Swept(q), job[q].kind = "exit",
         job'[q].tgt = job[q].tgt, job'[q].from = job[q].from,
         job'[q].pc = "unlock" => job[q].pc = "unlock"
  PROVE  Swept(q)'
<1>1. job[q].tgt \in Tasks
  BY DEF LocksExact, JobShape
<1>2. \A r \in Thieves(job[q].tgt)' : r \in Thieves(job[q].tgt) /\ job'[r] = job[r]
  BY DEF Thieves, At
<1> QED BY <1>1, <1>2 DEF Swept

(* Sweeping: as long as p, if it sweeps, has cleared what it has passed.    *)
LEMMA SweepKeep ==
  ASSUME LocksExact, Sweeping, NEW p \in Procs, NEW l, At(p, l), cpu_home' = cpu_home,
         \A t \in Tasks : state[t] = "dead" => state'[t] = "dead",
         ~(job'[p].kind = "steal" /\ l = "insert"),
         job'[p].kind = "exit" => Swept(p)'
  PROVE  Sweeping'
<1> SUFFICES ASSUME NEW q \in Procs, job'[q].kind = "exit" PROVE Swept(q)'
  BY DEF Sweeping
<1>1. CASE q = p
  BY <1>1
<1>2. CASE q # p
  <2>1. job'[q] = job[q]
    BY <1>2 DEF At
  <2> QED BY <2>1, SweptKeep DEF Sweeping
<1> QED BY <1>1, <1>2

(* Gone: nobody starts anything for a task that is swept.                   *)
LEMMA GoneKeep ==
  ASSUME TypeOK, Gone, NEW p \in Procs, NEW l, At(p, l), cpu_home' = cpu_home, swept' = swept,
         \A t \in Tasks : state[t] = "dead" => state'[t] = "dead",
         ~(job'[p].kind = "steal" /\ l = "insert"),
         \A t \in swept : Own(p, t)' => Own(p, t)
  PROVE  Gone'
<1> SUFFICES ASSUME NEW t \in swept
             PROVE  /\ state'[t] = "dead" /\ cpu_home[t] = NoCpu /\ Thieves(t)' = {}
                    /\ \A q \in Procs : ~Own(q, t)'
  BY DEF Gone
<1>1. t \in Tasks
  BY DEF TypeOK
<1>2. Thieves(t)' \subseteq Thieves(t)
  BY DEF Thieves, At
<1>3. \A q \in Procs : Own(q, t)' => Own(q, t)
  BY DEF At, Own
<1> QED BY <1>1, <1>2, <1>3 DEF Gone

InDetach == {"read", "lockfrom", "verify"}
ToDetach == {"read", "lockfrom", "verify", "unlink", "release"}

(* The movers of a task can be counted.                                     *)
LEMMA MoversFinite ==
  ASSUME NEW t
  PROVE  IsFiniteSet(Movers(t)) /\ Cardinality(Movers(t)) \in Nat
<1>1. Movers(t) \in SUBSET Procs
  BY DEF Movers
<1> QED BY <1>1, FiniteAssumption, FS_Subset, FS_CardinalityType

(* Fewer movers count for less.                                             *)
LEMMA MoversShrink ==
  ASSUME NEW t, Movers(t)' \subseteq Movers(t)
  PROVE  Cardinality(Movers(t)') <= Cardinality(Movers(t)) /\ Cardinality(Movers(t)') \in Nat
<1>1. IsFiniteSet(Movers(t)) /\ Movers(t)' \in SUBSET Movers(t)
  BY MoversFinite
<1> QED BY <1>1, FS_Subset, FS_CardinalityType

(* Rounds: p becomes no mover, and pays with a mover for each round it      *)
(* loses.                                                                   *)
LEMMA RoundsKeep ==
  ASSUME TypeOK, LocksExact, Rounds, NEW p \in Procs, NEW l, At(p, l),
         moves' = moves,
         \A q \in Procs : q # p /\ job[q].kind = "sleep" /\ job[q].pc \in InDetach =>
           Stale(q)' <= Stale(q),
         job'[p].kind = "move" /\ l \in ToDetach =>
           job[p].kind = "move" /\ SameTask(p) /\ job[p].pc \in ToDetach,
         job'[p].kind = "sleep" /\ l \in InDetach =>
           \/ /\ job[p].kind = "sleep" /\ SameTask(p) /\ job[p].pc \in InDetach
              /\ job'[p].spins + Stale(p)' <= job[p].spins + Stale(p)
           \/ job'[p].tgt \in Tasks /\ job'[p].spins = 0 /\ Stale(p)' = 0
  PROVE  Rounds'
<1>1. ASSUME NEW t PROVE Movers(t)' \subseteq Movers(t)
  BY DEF Movers, At, SameTask, ToDetach
<1>2. ASSUME NEW t PROVE /\ Cardinality(Movers(t))' <= Cardinality(Movers(t))
                         /\ Cardinality(Movers(t))' \in Nat /\ Cardinality(Movers(t)) \in Nat
  BY <1>1, MoversShrink, MoversFinite
<1>3. moves \in [Tasks -> Nat]
  BY SpinsAssumption DEF TypeOK
<1>4. ASSUME NEW t \in Tasks PROVE Cardinality(Movers(t))' <= moves'[t]
  <2>1. Cardinality(Movers(t)) <= moves[t] /\ moves[t] \in Nat
    BY <1>3 DEF Rounds
  <2> QED BY <2>1, <1>2
<1>5. ASSUME NEW q \in Procs, job'[q].kind = "sleep", job'[q].pc \in InDetach
      PROVE  job'[q].spins + Stale(q)' + Cardinality(Movers(job[q].tgt))' <= moves'[job'[q].tgt]
  <2>1. CASE /\ job[q].kind = "sleep" /\ job'[q].tgt = job[q].tgt /\ job[q].pc \in InDetach
             /\ job'[q].spins + Stale(q)' <= job[q].spins + Stale(q)
    <3>1. job[q].tgt \in Tasks
      BY <2>1 DEF LocksExact, JobShape
    <3>2. job[q].spins + Stale(q) + Cardinality(Movers(job[q].tgt)) <= moves[job[q].tgt]
      BY <2>1 DEF Rounds, InDetach
    <3>3. job'[q] \in Jobs /\ job[q] \in Jobs
      BY DEF At, TypeOK
    <3>4. /\ job[q].spins \in Nat /\ Stale(q) \in Nat /\ Stale(q)' \in Nat /\ job'[q].spins \in Nat
          /\ moves[job[q].tgt] \in Nat
      BY <3>3, <3>1, <1>3, JobFields, SpinsAssumption DEF Stale
    <3>5. /\ Cardinality(Movers(job[q].tgt))' <= Cardinality(Movers(job[q].tgt))
          /\ Cardinality(Movers(job[q].tgt))' \in Nat /\ Cardinality(Movers(job[q].tgt)) \in Nat
      <4>1. Movers(job[q].tgt)' \subseteq Movers(job[q].tgt)
        BY <2>1, <1>1 DEF Movers
      <4> QED BY <4>1, FS_Subset, FS_CardinalityType, MoversFinite
    <3> QED BY <2>1, <3>2, <3>4, <3>5
  <2>2. CASE q = p /\ job'[p].tgt \in Tasks /\ job'[p].spins = 0 /\ Stale(p)' = 0
    <3>1. \A t \in Tasks : Cardinality(Movers(t))' <= moves'[t] /\ Cardinality(Movers(t))' \in Nat
      BY <1>4, <1>2
    <3>2. /\ Cardinality(Movers(job[p].tgt))' <= moves'[job'[p].tgt]
          /\ Cardinality(Movers(job[p].tgt))' \in Nat
      BY <3>1, <2>2 DEF Movers
    <3> QED BY <2>2, <3>2
  <2>3. CASE q # p
    <3>1. job'[q] = job[q] /\ Stale(q)' <= Stale(q)
      BY <2>3, <1>5 DEF At
    <3>2. job[q].spins \in Nat /\ Stale(q) \in Nat /\ Stale(q)' \in Nat
      BY SpinsAssumption DEF TypeOK, Jobs, Stale
    <3> QED BY <1>5, <3>1, <3>2, <2>1
  <2> QED BY <1>5, <2>1, <2>2, <2>3 DEF At, SameTask
<1> QED BY <1>4, <1>5 DEF Rounds, InDetach

(* What others have read of cpu_home gets no staler while nobody writes it. *)
LEMMA StaleSame ==
  ASSUME NEW p \in Procs, NEW l, At(p, l), cpu_home' = cpu_home
  PROVE  \A q \in Procs : q # p => Stale(q)' <= Stale(q)
<1> SUFFICES ASSUME NEW q \in Procs, q # p PROVE Stale(q)' <= Stale(q)
  OBVIOUS
<1>1. Stale(q)' = Stale(q)
  BY DEF Stale, At
<1> QED BY <1>1 DEF Stale

(* A step of p that changes the locks and p's stage, and nothing else.      *)
LEMMA QuietStep ==
  ASSUME QueueInv, NEW p \in Procs, NEW l \in Pcs, At(p, l),
         UNCHANGED <<ringVars, cpu_home, state, on_cpu, moves, swept>>,
         gaveup' \in SUBSET Tasks, GivesUpOnlyIfMoved',
         lock' \in [CPU -> Procs \cup {Nil}], JobShape(job'[p]),
         \A c \in CPU : lock'[c] = p <=> Holds(job'[p], c),
         \A c \in CPU, q \in Procs : q # p => (lock'[c] = q <=> lock[c] = q),
         l \notin {"link", "release"}, job[p].pc \notin {"link", "release"},
         l = "unlink" => /\ cpu_home[job'[p].tgt] = job'[p].from
                         /\ job'[p].kind = "steal" => job'[p].tgt \notin on_cpu,
         job'[p].kind \in OwnKinds => SameKind(p) /\ SameTask(p),
         ~(job'[p].kind = "steal" /\ l = "insert"),
         job'[p].kind = "exit" => SameFrom(p) /\ l # "unlock",
         job'[p].kind = "move" /\ l \in ToDetach =>
           SameKind(p) /\ SameTask(p) /\ job[p].pc \in ToDetach,
         job'[p].kind = "sleep" /\ l \in InDetach =>
           job[p].pc \in InDetach /\ job'[p].spins + Stale(p)' <= job[p].spins + Stale(p)
  PROVE  QueueInv'
<1>1. TypeOK'
  BY DEF QueueInv, TypeOK, At, ringVars
<1>2. LocksExact'
  BY LocksKeep DEF QueueInv
<1>3. Hands'
  BY HandsKeep DEF QueueInv
<1>4. \A t \in Tasks : Own(p, t)' => Own(p, t)
  <2>1. JobShape(job[p])
    BY DEF QueueInv, LocksExact
  <2> QED BY <2>1 DEF Own, SameKind, SameTask, JobShape, OwnKinds
<1>5. OwnJobs'
  BY <1>4, OwnKeep DEF QueueInv
<1>6. Rings'
  BY LinkedKeep, RingsSame DEF QueueInv
<1>7. Sweeping'
  <2>1. job'[p].kind = "exit" => Swept(p)'
    BY SweptKeep DEF QueueInv, Sweeping, OwnKinds, SameKind, SameTask, SameFrom, At
  <2> QED BY <2>1, SweepKeep DEF QueueInv
<1>8. Gone'
  BY <1>4, GoneKeep DEF QueueInv, TypeOK
<1>9. Rounds'
  BY StaleSame, RoundsKeep DEF QueueInv, OwnKinds, SameKind
<1> QED BY <1>1, <1>2, <1>3, <1>5, <1>6, <1>7, <1>8, <1>9 DEF QueueInv

(* A step that leaves the history alone.                                    *)
LEMMA PastKeep ==
  ASSUME QueueInv, UNCHANGED pastVars
  PROVE  UNCHANGED <<moves, swept>> /\ gaveup' \in SUBSET Tasks /\ GivesUpOnlyIfMoved'
BY DEF QueueInv, TypeOK, GivesUpOnlyIfMoved, pastVars
-----------------------------------------------------------------------------
(* The steps that only take or give back a lock, or look.                   *)

(* CPU indexes are natural numbers, and -1 is none of them.                 *)
LEMMA CpuFacts ==
  /\ CPU \subseteq Nat /\ NoCpu \notin CPU /\ 0 \in CPU
  /\ \A c \in CPU : c < NCPU /\ (c + 1 < NCPU => c + 1 \in CPU)
BY NCpuAssumption DEF CPU, NoCpu

(* What the invariant says of one context.                                  *)
LEMMA PInfo ==
  ASSUME QueueInv, NEW p \in Procs
  PROVE  /\ job[p] \in Jobs /\ JobShape(job[p])
         /\ \A c \in CPU : lock[c] = p <=> Holds(job[p], c)
         /\ lock \in [CPU -> Procs \cup {Nil}] /\ p # Nil
BY NilAssumption DEF QueueInv, TypeOK, LocksExact

(* A lock that was free is p's now.                                         *)
LEMMA TakeLock ==
  ASSUME lock \in [CPU -> Procs \cup {Nil}], NEW p \in Procs, NEW c \in CPU, lock[c] = Nil,
         lock' = [lock EXCEPT ![c] = p]
  PROVE  /\ lock' \in [CPU -> Procs \cup {Nil}]
         /\ \A d \in CPU : lock'[d] = p <=> (lock[d] = p \/ d = c)
         /\ \A d \in CPU, q \in Procs : q # p => (lock'[d] = q <=> lock[d] = q)
BY NilAssumption

(* All of p's locks are free now, and only those.                           *)
LEMMA DropLocks ==
  ASSUME lock \in [CPU -> Procs \cup {Nil}], NEW p \in Procs, lock' = Unlocked(p)
  PROVE  /\ lock' \in [CPU -> Procs \cup {Nil}]
         /\ \A d \in CPU : lock'[d] # p
         /\ \A d \in CPU, q \in Procs : q # p => (lock'[d] = q <=> lock[d] = q)
BY NilAssumption DEF Unlocked

(* A detach or a sweep takes the lock of the queue it means to look at.     *)
LEMMA LockFromStep ==
  ASSUME QueueInv, NEW p \in Procs, LockFrom(p)
  PROVE  QueueInv'
<1>1. "verify" \in Pcs /\ job[p].pc = "lockfrom" /\ lock[job[p].from] = Nil
  BY DEF Pcs, LockFrom
<1>2. At(p, "verify") /\ SameKind(p) /\ SameTask(p) /\ SameFrom(p) /\ SameTo(p) /\ SameSpins(p)
  BY <1>1, GotoView DEF LockFrom, QueueInv
<1>3. job[p].from \in CPU /\ job[p].kind # "steal" /\ job[p].to = NoCpu
  BY <1>1, PInfo, CpuFacts DEF JobShape, Low, High
<1>4. /\ lock' \in [CPU -> Procs \cup {Nil}]
      /\ \A c \in CPU : lock'[c] = p <=> (lock[c] = p \/ c = job[p].from)
      /\ \A c \in CPU, q \in Procs : q # p => (lock'[c] = q <=> lock[c] = q)
  BY <1>1, <1>3, TakeLock, PInfo DEF LockFrom
<1>5. JobShape(job'[p])
  BY <1>1, <1>2, PInfo DEF JobShape, At, SameKind, SameTask, SameFrom, SameTo, SameSpins
<1>6. \A c \in CPU : lock[c] = p <=> FALSE
  BY <1>1, <1>3, PInfo, CpuFacts DEF Holds, Low, High
<1>7. \A c \in CPU : Holds(job'[p], c) <=> c = job[p].from
  BY <1>1, <1>2, <1>3, CpuFacts DEF Holds, Low, High, At, SameKind, SameTask, SameFrom, SameTo,
     SameSpins
<1>8. Stale(p)' = Stale(p)
  BY <1>1, <1>2 DEF Stale, LockFrom, At, SameKind, SameTask, SameFrom, SameTo, SameSpins
<1>9. job'[p].spins + Stale(p)' <= job[p].spins + Stale(p)
  BY <1>2, <1>8, PInfo, JobFields, SpinsAssumption DEF SameSpins, Stale
<1> QED BY <1>1, <1>2, <1>3, <1>4, <1>5, <1>6, <1>7, <1>9, QuietStep, PastKeep
    DEF LockFrom, InDetach, ToDetach, At, OwnKinds, SameKind

(* A thief takes the lock with the lower cpu_index.                         *)
LEMMA LockLowStep ==
  ASSUME QueueInv, NEW p \in Procs, LockLow(p)
  PROVE  QueueInv'
<1>1. "lockhi" \in Pcs /\ job[p].pc = "locklo" /\ lock[Low(p)] = Nil
  BY DEF Pcs, LockLow
<1>2. At(p, "lockhi") /\ SameKind(p) /\ SameTask(p) /\ SameFrom(p) /\ SameTo(p) /\ SameSpins(p)
  BY <1>1, GotoView DEF LockLow, QueueInv
<1>3. /\ job[p].kind = "steal" /\ Low(p) \in CPU /\ High(p) \in CPU
      /\ job[p].from \in CPU /\ job[p].to \in CPU /\ job[p].from # job[p].to
  BY <1>1, PInfo, CpuFacts DEF JobShape, Low, High
<1>4. /\ lock' \in [CPU -> Procs \cup {Nil}]
      /\ \A c \in CPU : lock'[c] = p <=> (lock[c] = p \/ c = Low(p))
      /\ \A c \in CPU, q \in Procs : q # p => (lock'[c] = q <=> lock[c] = q)
  BY <1>1, <1>3, TakeLock, PInfo DEF LockLow
<1>5. JobShape(job'[p])
  BY <1>1, <1>2, PInfo DEF JobShape, At, SameKind, SameTask, SameFrom, SameTo, SameSpins
<1>6. \A c \in CPU : lock[c] = p <=> FALSE
  BY <1>1, <1>3, PInfo, CpuFacts DEF Holds, Low, High
<1>7. \A c \in CPU : Holds(job'[p], c) <=> c = Low(p)
  BY <1>1, <1>2, <1>3, CpuFacts DEF Holds, Low, High, At, SameKind, SameTask, SameFrom, SameTo,
     SameSpins
<1>8. Stale(p)' = Stale(p)
  BY <1>1, <1>2 DEF Stale, LockLow, At, SameKind, SameTask, SameFrom, SameTo, SameSpins
<1>9. job'[p].spins + Stale(p)' <= job[p].spins + Stale(p)
  BY <1>2, <1>8, PInfo, JobFields, SpinsAssumption DEF SameSpins, Stale
<1> QED BY <1>1, <1>2, <1>3, <1>4, <1>5, <1>6, <1>7, <1>9, QuietStep, PastKeep
    DEF LockLow, InDetach, ToDetach, At, OwnKinds, SameKind

(* A thief takes its second lock.                                           *)
LEMMA LockHighStep ==
  ASSUME QueueInv, NEW p \in Procs, LockHigh(p)
  PROVE  QueueInv'
<1>1. "choose" \in Pcs /\ job[p].pc = "lockhi" /\ lock[High(p)] = Nil
  BY DEF Pcs, LockHigh
<1>2. At(p, "choose") /\ SameKind(p) /\ SameTask(p) /\ SameFrom(p) /\ SameTo(p) /\ SameSpins(p)
  BY <1>1, GotoView DEF LockHigh, QueueInv
<1>3. /\ job[p].kind = "steal" /\ Low(p) \in CPU /\ High(p) \in CPU
      /\ job[p].from \in CPU /\ job[p].to \in CPU /\ job[p].from # job[p].to
  BY <1>1, PInfo, CpuFacts DEF JobShape, Low, High
<1>4. /\ lock' \in [CPU -> Procs \cup {Nil}]
      /\ \A c \in CPU : lock'[c] = p <=> (lock[c] = p \/ c = High(p))
      /\ \A c \in CPU, q \in Procs : q # p => (lock'[c] = q <=> lock[c] = q)
  BY <1>1, <1>3, TakeLock, PInfo DEF LockHigh
<1>5. JobShape(job'[p])
  BY <1>1, <1>2, PInfo DEF JobShape, At, SameKind, SameTask, SameFrom, SameTo, SameSpins
<1>6. \A c \in CPU : lock[c] = p <=> c = Low(p)
  BY <1>1, <1>3, PInfo, CpuFacts DEF Holds, Low, High
<1>7. \A c \in CPU : Holds(job'[p], c) <=> (c = Low(p) \/ c = High(p))
  BY <1>1, <1>2, <1>3, CpuFacts DEF Holds, Low, High, At, SameKind, SameTask, SameFrom, SameTo,
     SameSpins
<1>8. Stale(p)' = Stale(p)
  BY <1>1, <1>2 DEF Stale, LockHigh, At, SameKind, SameTask, SameFrom, SameTo, SameSpins
<1>9. job'[p].spins + Stale(p)' <= job[p].spins + Stale(p)
  BY <1>2, <1>8, PInfo, JobFields, SpinsAssumption DEF SameSpins, Stale
<1> QED BY <1>1, <1>2, <1>3, <1>4, <1>5, <1>6, <1>7, <1>9, QuietStep, PastKeep
    DEF LockHigh, InDetach, ToDetach, At, OwnKinds, SameKind

(* task_enqueue takes the lock of the queue it has picked.                  *)
LEMMA LockToStep ==
  ASSUME QueueInv, NEW p \in Procs, LockTo(p)
  PROVE  QueueInv'
<1>1. "insert" \in Pcs /\ job[p].pc = "lockto"
  BY DEF Pcs, LockTo
<1>2. PICK d \in CPU : /\ lock[d] = Nil /\ lock' = [lock EXCEPT ![d] = p]
                       /\ job' = [job EXCEPT ![p].pc = "insert", ![p].to = d]
  BY DEF LockTo
<1>3. At(p, "insert") /\ SameKind(p) /\ SameTask(p) /\ SameFrom(p) /\ SameSpins(p) /\ job'[p].to = d
  BY <1>2, ToView DEF QueueInv
<1>4. job[p].kind \in {"wake", "sleep", "move"}
  BY <1>1, PInfo DEF JobShape
<1>5. /\ lock' \in [CPU -> Procs \cup {Nil}]
      /\ \A c \in CPU : lock'[c] = p <=> (lock[c] = p \/ c = d)
      /\ \A c \in CPU, q \in Procs : q # p => (lock'[c] = q <=> lock[c] = q)
  BY <1>2, TakeLock, PInfo
<1>6. JobShape(job'[p])
  BY <1>1, <1>3, <1>4, PInfo DEF JobShape, At, SameKind, SameTask, SameFrom, SameTo, SameSpins
<1>7. \A c \in CPU : lock[c] # p
  BY <1>1, <1>4, PInfo DEF Holds
<1>8. \A c \in CPU : Holds(job'[p], c) <=> c = d
  BY <1>1, <1>3, <1>4 DEF Holds, At, SameKind, SameTask, SameFrom, SameTo, SameSpins
<1> QED BY <1>1, <1>3, <1>4, <1>5, <1>6, <1>7, <1>8, QuietStep, PastKeep
    DEF LockTo, InDetach, ToDetach, At, OwnKinds, SameKind

(* The enqueue that is refused.                                             *)
LEMMA RefusedStep ==
  ASSUME QueueInv, NEW p \in Procs, Claim(p), Goto(p, "unlock"), cpu_home' = cpu_home
  PROVE  QueueInv'
<1>1. "unlock" \in Pcs /\ job[p].pc = "insert" /\ lock' = lock
  BY DEF Pcs, Claim
<1>2. At(p, "unlock") /\ SameKind(p) /\ SameTask(p) /\ SameFrom(p) /\ SameTo(p) /\ SameSpins(p)
  BY <1>1, GotoView DEF QueueInv
<1>3. job[p].kind \in {"wake", "sleep", "move", "steal"} /\ job[p].to \in CPU
  BY <1>1, PInfo DEF JobShape
<1>4. JobShape(job'[p])
  BY <1>1, <1>2, <1>3, PInfo, CpuFacts DEF JobShape, At, SameKind, SameTask, SameFrom, SameTo,
     SameSpins
<1>5. \A c \in CPU : Holds(job'[p], c) <=> Holds(job[p], c)
  BY <1>1, <1>2, <1>3, CpuFacts DEF Holds, At, SameKind, SameTask, SameFrom, SameTo, SameSpins
<1> QED BY <1>1, <1>2, <1>3, <1>4, <1>5, PInfo, QuietStep, PastKeep
    DEF Claim, InDetach, ToDetach, At, OwnKinds, SameKind

(* One unlocked look of rq_detach_anywhere at cpu_home.                     *)
LEMMA ReadHomeStep ==
  ASSUME QueueInv, NEW p \in Procs, ReadHome(p)
  PROVE  QueueInv'
<1>1. /\ "idle" \in Pcs /\ "lockto" \in Pcs /\ "lockfrom" \in Pcs
      /\ job[p].pc = "read" /\ lock' = lock /\ job[p].kind \in {"sleep", "move"}
      /\ job[p].to = NoCpu /\ job[p].tgt \in Tasks
  BY PInfo DEF Pcs, ReadHome, JobShape
<1>2. \A c \in CPU : lock[c] # p
  BY <1>1, PInfo DEF Holds
<1>3. CASE cpu_home[job[p].tgt] = NoCpu
  <2>1. CASE At(p, "idle") /\ job'[p].kind = "none" /\ job'[p] = NoJob
    <3>1. JobShape(job'[p])
      BY <2>1, CpuFacts DEF JobShape, NoJob, At
    <3>2. \A c \in CPU : ~Holds(job'[p], c)
      BY <2>1 DEF Holds, At
    <3> QED BY <1>1, <1>2, <2>1, <3>1, <3>2, PInfo, QuietStep, PastKeep
        DEF ReadHome, InDetach, ToDetach, OwnKinds
  <2>2. CASE At(p, "lockto") /\ SameKind(p) /\ SameTask(p) /\ SameFrom(p) /\ SameTo(p)
        /\ SameSpins(p)
    <3>1. JobShape(job'[p])
      BY <1>1, <2>2, PInfo DEF JobShape, At, SameKind, SameTask, SameFrom, SameTo, SameSpins
    <3>2. \A c \in CPU : ~Holds(job'[p], c)
      BY <1>1, <2>2 DEF Holds, At, SameKind, SameTask, SameFrom, SameTo, SameSpins
    <3> QED BY <1>1, <1>2, <2>2, <3>1, <3>2, PInfo, QuietStep, PastKeep
        DEF ReadHome, InDetach, ToDetach, OwnKinds, SameKind
  <2> QED BY <1>3, <2>1, <2>2, AfterView DEF ReadHome, QueueInv
<1>4. CASE cpu_home[job[p].tgt] # NoCpu
  <2>1. cpu_home[job[p].tgt] \in CPU
    BY <1>1, <1>4 DEF QueueInv, TypeOK
  <2>2. /\ At(p, "lockfrom") /\ SameKind(p) /\ SameTask(p) /\ SameTo(p) /\ SameSpins(p)
        /\ job'[p].from = cpu_home[job[p].tgt]
    BY <1>4, <2>1, FromView DEF ReadHome, QueueInv
  <2>3. JobShape(job'[p])
    BY <1>1, <2>1, <2>2, PInfo DEF JobShape, At, SameKind, SameTask, SameFrom, SameTo, SameSpins
  <2>4. \A c \in CPU : ~Holds(job'[p], c)
    BY <1>1, <2>2 DEF Holds, At, SameKind, SameTask, SameFrom, SameTo, SameSpins
  <2>5. Stale(p)' = 0 /\ Stale(p) = 0
    BY <1>1, <2>2 DEF Stale, ReadHome, At, SameKind, SameTask, SameFrom, SameTo, SameSpins
  <2>6. job'[p].spins + Stale(p)' <= job[p].spins + Stale(p)
    BY <2>2, <2>5, PInfo, JobFields, SpinsAssumption DEF SameSpins
  <2> QED BY <1>1, <1>2, <2>2, <2>3, <2>4, <2>6, PInfo, QuietStep, PastKeep
      DEF ReadHome, InDetach, ToDetach, OwnKinds, SameKind
<1> QED BY <1>3, <1>4

-----------------------------------------------------------------------------
(* While nobody has a queue's lock, or its holder is not in the middle of a *)
(* splice, the ring is the tasks whose cpu_home names the queue.            *)
Home(c) == {t \in Tasks : cpu_home[t] = c}

(* So a walk of the ring under the lock finds the tasks of the queue.       *)
LEMMA RingAt ==
  ASSUME QueueInv, NEW c \in CPU,
         \A q \in Procs : lock[c] = q => job[q].pc \notin {"link", "release"}
  PROVE  Linked(c) = Home(c) /\ Ring(c) = Home(c)
<1>1. ASSUME NEW t \in Tasks, cpu_home[t] = c, InHand(t) PROVE FALSE
  <2>1. PICK q \in Procs : job[q].tgt = t /\ job[q].pc \in {"link", "release"}
    BY <1>1 DEF InHand
  <2>2. Holds(job[q], c)
    BY <1>1, <2>1 DEF Holds, QueueInv, Hands
  <2> QED BY <2>1, <2>2, PInfo
<1>2. Linked(c) = Home(c)
  BY <1>1 DEF Linked, Home
<1>3. Linked(c) \in SUBSET Tasks
  BY DEF Linked
<1>4. Ring(c) = Linked(c)
  <2>1. /\ rq_head \in [CPU -> Tasks \cup {Nil}] /\ rq_next \in Links /\ rq_prev \in Links
    BY DEF QueueInv, TypeOK, Links
  <2>2. /\ IsRing(Linked(c), rq_next, rq_prev)
        /\ Linked(c) = {} => rq_head[c] = Nil
        /\ Linked(c) # {} => rq_head[c] \in Linked(c)
    BY DEF QueueInv, Rings
  <2> QED BY <1>3, <2>1, <2>2, RingIs
<1> QED BY <1>2, <1>4

(* The task is still on the locked queue.                                   *)
LEMMA VerifyStep ==
  ASSUME QueueInv, NEW p \in Procs, Verify(p)
  PROVE  QueueInv'
<1>1. /\ "unlink" \in Pcs /\ job[p].pc = "verify" /\ lock' = lock
      /\ job[p].from \in CPU /\ job[p].tgt \in Tasks /\ job[p].kind \in {"sleep", "move", "exit"}
      /\ job[p].to = NoCpu
  BY PInfo DEF Pcs, Verify, JobShape
<1>2. At(p, "unlink") /\ SameKind(p) /\ SameTask(p) /\ SameFrom(p) /\ SameTo(p) /\ SameSpins(p)
  BY <1>1, GotoView DEF Verify, QueueInv
<1>3. lock[job[p].from] = p
  BY <1>1, PInfo DEF Holds
<1>4. cpu_home[job[p].tgt] = job[p].from
  BY <1>1, <1>3, RingAt DEF Verify, Found, Home
<1>5. JobShape(job'[p])
  BY <1>1, <1>2, PInfo DEF JobShape, At, SameKind, SameTask, SameFrom, SameTo, SameSpins
<1>6. \A c \in CPU : Holds(job'[p], c) <=> Holds(job[p], c)
  BY <1>1, <1>2, CpuFacts DEF Holds, At, SameKind, SameTask, SameFrom, SameTo, SameSpins
<1> QED BY <1>1, <1>2, <1>4, <1>5, <1>6, PInfo, QuietStep, PastKeep
    DEF Verify, InDetach, ToDetach, At, SameKind, SameTask, SameFrom, SameTo, SameSpins

(* The task was re-homed: the round is lost, and a mover has paid for it.   *)
LEMMA RetryStep ==
  ASSUME QueueInv, NEW p \in Procs, Retry(p)
  PROVE  QueueInv'
<1>1. /\ "idle" \in Pcs /\ "lockto" \in Pcs /\ "read" \in Pcs
      /\ job[p].pc = "verify" /\ job[p].kind \in {"sleep", "move"} /\ lock' = Unlocked(p)
      /\ job[p].from \in CPU /\ job[p].tgt \in Tasks /\ job[p].to = NoCpu
      /\ cpu_home[job[p].tgt] # job[p].from
  BY PInfo DEF Pcs, Retry, JobShape, Found
<1>2. /\ lock' \in [CPU -> Procs \cup {Nil}]
      /\ \A d \in CPU : lock'[d] # p
      /\ \A d \in CPU, q \in Procs : q # p => (lock'[d] = q <=> lock[d] = q)
  BY <1>1, PInfo, DropLocks
<1>3. Stale(p) = 1 /\ job[p].spins \in 0 .. MaxSpins - 1
  BY <1>1, PInfo, JobFields DEF Stale
<1>4. CASE job[p].spins + 1 < MaxSpins
  <2>1. /\ At(p, "read") /\ SameKind(p) /\ SameTask(p) /\ SameFrom(p) /\ SameTo(p)
        /\ job'[p].spins = job[p].spins + 1
    BY <1>4, SpinView DEF Retry, QueueInv
  <2>2. JobShape(job'[p])
    BY <1>1, <2>1, PInfo DEF JobShape, At, SameKind, SameTask, SameFrom, SameTo, SameSpins
  <2>3. \A c \in CPU : ~Holds(job'[p], c)
    BY <1>1, <2>1 DEF Holds, At, SameKind, SameTask, SameFrom, SameTo, SameSpins
  <2>4. Stale(p)' = 0
    BY <2>1 DEF Stale, At
  <2>5. job'[p].spins + Stale(p)' <= job[p].spins + Stale(p)
    BY <2>1, <2>4, <1>3, SpinsAssumption
  <2>6. UNCHANGED pastVars
    BY <1>4 DEF Retry, pastVars
  <2> QED BY <1>1, <1>2, <2>1, <2>2, <2>3, <2>5, <2>6, QuietStep, PastKeep
      DEF Retry, InDetach, ToDetach, OwnKinds, SameKind
<1>5. CASE ~(job[p].spins + 1 < MaxSpins)
  <2>1. /\ AfterDetach(p)
        /\ gaveup' = IF job[p].kind = "sleep" THEN gaveup \cup {job[p].tgt} ELSE gaveup
    BY <1>5 DEF Retry
  <2>2. job[p].kind = "sleep" => moves[job[p].tgt] >= MaxSpins
    <3> SUFFICES ASSUME job[p].kind = "sleep" PROVE moves[job[p].tgt] >= MaxSpins
      OBVIOUS
    <3>1. job[p].spins + Stale(p) + Cardinality(Movers(job[p].tgt)) <= moves[job[p].tgt]
      BY <1>1 DEF QueueInv, Rounds
    <3>2. Cardinality(Movers(job[p].tgt)) \in Nat /\ moves[job[p].tgt] \in Nat
      BY <1>1, MoversFinite, SpinsAssumption DEF QueueInv, TypeOK
    <3> QED BY <3>1, <3>2, <1>3, <1>5, SpinsAssumption
  <2>3. gaveup' \in SUBSET Tasks /\ GivesUpOnlyIfMoved'
    BY <1>1, <2>1, <2>2 DEF QueueInv, TypeOK, GivesUpOnlyIfMoved, Retry
  <2>4. CASE At(p, "idle") /\ job'[p].kind = "none" /\ job'[p] = NoJob
    <3>1. JobShape(job'[p])
      BY <2>4, CpuFacts DEF JobShape, NoJob, At
    <3>2. \A c \in CPU : ~Holds(job'[p], c)
      BY <2>4 DEF Holds, At
    <3> QED BY <1>1, <1>2, <2>3, <2>4, <3>1, <3>2, QuietStep
        DEF Retry, InDetach, ToDetach, OwnKinds
  <2>5. CASE At(p, "lockto") /\ SameKind(p) /\ SameTask(p) /\ SameFrom(p) /\ SameTo(p)
        /\ SameSpins(p)
    <3>1. JobShape(job'[p])
      BY <1>1, <2>5, PInfo DEF JobShape, At, SameKind, SameTask, SameFrom, SameTo, SameSpins
    <3>2. \A c \in CPU : ~Holds(job'[p], c)
      BY <1>1, <2>5 DEF Holds, At, SameKind, SameTask, SameFrom, SameTo, SameSpins
    <3> QED BY <1>1, <1>2, <2>3, <2>5, <3>1, <3>2, QuietStep
        DEF Retry, InDetach, ToDetach, OwnKinds, SameKind
  <2> QED BY <2>1, <2>4, <2>5, AfterView DEF QueueInv
<1> QED BY <1>4, <1>5

(* The locks are given back; a detach goes on to its enqueue.               *)
LEMMA UnlockStep ==
  ASSUME QueueInv, NEW p \in Procs, Unlock(p)
  PROVE  QueueInv'
<1>1. /\ "idle" \in Pcs /\ "lockto" \in Pcs
      /\ job[p].pc = "unlock" /\ job[p].kind # "exit" /\ lock' = Unlocked(p)
  BY DEF Pcs, Unlock
<1>2. /\ lock' \in [CPU -> Procs \cup {Nil}]
      /\ \A d \in CPU : lock'[d] # p
      /\ \A d \in CPU, q \in Procs : q # p => (lock'[d] = q <=> lock[d] = q)
  BY <1>1, PInfo, DropLocks
<1>3. CASE At(p, "idle") /\ job'[p].kind = "none" /\ job'[p] = NoJob
  <2>1. JobShape(job'[p])
    BY <1>3, CpuFacts DEF JobShape, NoJob, At
  <2>2. \A c \in CPU : ~Holds(job'[p], c)
    BY <1>3 DEF Holds, At
  <2> QED BY <1>1, <1>2, <1>3, <2>1, <2>2, QuietStep, PastKeep
      DEF Unlock, InDetach, ToDetach, OwnKinds
<1>4. CASE job[p].to = NoCpu /\ At(p, "lockto") /\ SameKind(p) /\ SameTask(p) /\ SameFrom(p)
      /\ SameTo(p) /\ SameSpins(p)
  <2>0. job[p].kind \in {"wake", "sleep", "move"}
    BY <1>1, <1>4, PInfo, JobFields, CpuFacts DEF JobShape, Kinds
  <2>1. JobShape(job'[p])
    BY <1>1, <1>4, <2>0, PInfo DEF JobShape, At, SameKind, SameTask, SameFrom, SameTo, SameSpins
  <2>2. \A c \in CPU : ~Holds(job'[p], c)
    BY <1>1, <1>4, <2>0 DEF Holds, At, SameKind, SameTask, SameFrom, SameTo, SameSpins
  <2> QED BY <1>1, <1>2, <1>4, <2>0, <2>1, <2>2, QuietStep, PastKeep
      DEF Unlock, InDetach, ToDetach, OwnKinds, SameKind
<1> QED BY <1>1, <1>3, <1>4, AfterView, DoneView DEF Unlock, QueueInv

(* The balancer begins.                                                     *)
LEMMA StealStep ==
  ASSUME QueueInv, NEW p \in Procs, NEW v \in CPU, NEW d \in CPU, Steal(p, v, d)
  PROVE  QueueInv'
<1>1. "locklo" \in Pcs /\ v # d /\ lock' = lock /\ "steal" \in Kinds
  BY DEF Pcs, Steal, Kinds
<1>2. /\ At(p, "locklo") /\ job'[p].kind = "steal" /\ job'[p].from = v /\ job'[p].to = d
      /\ job[p].pc = "idle" /\ job[p].kind = "none"
  BY <1>1, StartView DEF Steal, QueueInv
<1>3. JobShape(job'[p])
  BY <1>1, <1>2 DEF JobShape, At
<1>4. \A c \in CPU : ~Holds(job'[p], c) /\ lock[c] # p
  BY <1>2, PInfo DEF Holds, At
<1> QED BY <1>1, <1>2, <1>3, <1>4, PInfo, QuietStep, PastKeep
    DEF Steal, InDetach, ToDetach, OwnKinds

(* A thief, with both locks, chooses a task that runs nowhere, or none.     *)
LEMMA ChooseStep ==
  ASSUME QueueInv, NEW p \in Procs, Choose(p)
  PROVE  QueueInv'
<1>1. /\ "unlink" \in Pcs /\ "unlock" \in Pcs /\ job[p].pc = "choose" /\ lock' = lock
      /\ job[p].kind = "steal" /\ job[p].from \in CPU /\ job[p].to \in CPU
  BY PInfo DEF Pcs, Choose, JobShape
<1>2. ASSUME NEW t \in Stealable(job[p].from),
             job' = [job EXCEPT ![p].pc = "unlink", ![p].tgt = t]
      PROVE  QueueInv'
  <2>1. lock[job[p].from] = p
    BY <1>1, PInfo DEF Holds
  <2>2. t \in Tasks /\ cpu_home[t] = job[p].from /\ t \notin on_cpu
    BY <1>1, <1>2, <2>1, RingAt DEF Stealable, Home
  <2>3. At(p, "unlink") /\ SameKind(p) /\ SameFrom(p) /\ SameTo(p) /\ SameSpins(p)
        /\ job'[p].tgt = t
    BY <1>2, <2>2, TaskView DEF QueueInv
  <2>4. JobShape(job'[p])
    BY <1>1, <2>2, <2>3, PInfo DEF JobShape, At, SameKind, SameTask, SameFrom, SameTo, SameSpins
  <2>5. \A c \in CPU : Holds(job'[p], c) <=> Holds(job[p], c)
    BY <1>1, <2>3, CpuFacts DEF Holds, At, SameKind, SameTask, SameFrom, SameTo, SameSpins
  <2> QED BY <1>1, <2>2, <2>3, <2>4, <2>5, PInfo, QuietStep, PastKeep
      DEF Choose, InDetach, ToDetach, OwnKinds, SameKind, SameFrom
<1>3. ASSUME Goto(p, "unlock") PROVE QueueInv'
  <2>1. At(p, "unlock") /\ SameKind(p) /\ SameTask(p) /\ SameFrom(p) /\ SameTo(p) /\ SameSpins(p)
    BY <1>1, <1>3, GotoView DEF QueueInv
  <2>2. JobShape(job'[p])
    BY <1>1, <2>1, PInfo, CpuFacts DEF JobShape, At, SameKind, SameTask, SameFrom, SameTo, SameSpins
  <2>3. \A c \in CPU : Holds(job'[p], c) <=> Holds(job[p], c)
    BY <1>1, <2>1, CpuFacts DEF Holds, At, SameKind, SameTask, SameFrom, SameTo, SameSpins
  <2> QED BY <1>1, <2>1, <2>2, <2>3, PInfo, QuietStep, PastKeep
      DEF Choose, InDetach, ToDetach, OwnKinds, SameKind
<1> QED BY <1>2, <1>3 DEF Choose

-----------------------------------------------------------------------------
(* The steps that begin a job.                                              *)

(* What a new job on a task leaves as it was.                               *)
LEMMA BeginKeep ==
  ASSUME QueueInv, NEW p \in Procs, NEW l \in {"lockto", "read", "lockfrom"},
         NEW k \in Kinds \ {"steal"}, NEW t \in Tasks, NEW f \in CPU \cup {NoCpu},
         Start(p, l, k, t, f, NoCpu), l = "lockto" => k = "wake",
         l = "read" => k \in {"sleep", "move"},
         l = "lockfrom" <=> k = "exit", k = "exit" => f \in CPU,
         UNCHANGED <<lock, ringVars, cpu_home, on_cpu>>
  PROVE  /\ At(p, l) /\ job'[p].kind = k /\ job'[p].tgt = t /\ job'[p].from = f
         /\ job'[p].to = NoCpu /\ job'[p].spins = 0
         /\ job[p].pc = "idle" /\ job[p].kind = "none"
         /\ LocksExact' /\ Hands' /\ Rings'
<1>1. l \in Pcs /\ NoCpu \in CPU \cup {NoCpu} /\ t \in Tasks \cup {Nil} /\ k \in Kinds
  BY DEF Pcs
<1>2. /\ At(p, l) /\ job'[p].kind = k /\ job'[p].tgt = t /\ job'[p].from = f
      /\ job'[p].to = NoCpu /\ job'[p].spins = 0
      /\ job[p].pc = "idle" /\ job[p].kind = "none"
  BY <1>1, StartView DEF QueueInv
<1>3. JobShape(job'[p])
  BY <1>2, CpuFacts DEF JobShape, At, Kinds
<1>4. \A c \in CPU : ~Holds(job'[p], c) /\ lock[c] # p
  BY <1>2, PInfo DEF Holds, At
<1>5. LocksExact'
  BY <1>2, <1>3, <1>4, LocksKeep DEF QueueInv
<1>6. Hands'
  BY <1>2, HandsKeep DEF QueueInv
<1>7. Rings'
  BY <1>2, LinkedKeep, RingsSame DEF QueueInv
<1> QED BY <1>2, <1>5, <1>6, <1>7

(* A waker begins.                                                          *)
LEMMA WakeStep ==
  ASSUME QueueInv, NEW p \in Procs, NEW t \in Tasks, Wake(p, t)
  PROVE  QueueInv'
<1>1. /\ At(p, "lockto") /\ job'[p].kind = "wake" /\ job'[p].tgt = t
      /\ job[p].pc = "idle" /\ job[p].kind = "none"
      /\ LocksExact' /\ Hands' /\ Rings'
  BY BeginKeep DEF Wake, Kinds
<1>2. TypeOK'
  BY <1>1 DEF QueueInv, TypeOK, Wake, At, ringVars, pastVars
<1>3. \A u \in Tasks : state[u] = "dead" => state'[u] = "dead"
  BY DEF Wake, QueueInv, TypeOK
<1>4. \A u \in Tasks : ~Own(p, u)'
  BY <1>1 DEF Own, OwnKinds
<1>5. OwnJobs'
  BY <1>1, <1>4, OwnKeep DEF QueueInv, Wake
<1>6. Sweeping'
  BY <1>1, <1>3, SweepKeep DEF QueueInv, Wake
<1>7. Gone'
  BY <1>1, <1>3, <1>4, GoneKeep DEF QueueInv, Wake, pastVars, TypeOK
<1>8. Rounds'
  BY <1>1, StaleSame, RoundsKeep DEF QueueInv, Wake, pastVars
<1> QED BY <1>1, <1>2, <1>5, <1>6, <1>7, <1>8, PastKeep DEF QueueInv, Wake

(* A task that begins a job on itself has no other one in hand.             *)
LEMMA OwnBegins ==
  ASSUME QueueInv, NEW p \in Procs, NEW t \in Tasks, NEW l, At(p, l), job'[p].tgt = t,
         Free(t), on_cpu' = on_cpu
  PROVE  OwnJobs'
<1>1. \A q \in Procs, u \in Tasks : Own(q, u)' => Own(q, u) \/ (q = p /\ u = t)
  BY DEF At, Own
<1>2. t \in on_cpu /\ \A q \in Procs : ~Own(q, t)
  BY DEF Free
<1> QED BY <1>1, <1>2 DEF OwnJobs, QueueInv

(* A task begins to take itself off its queue.                              *)
LEMMA SleepStep ==
  ASSUME QueueInv, NEW p \in Procs, NEW t \in Tasks, Sleep(p, t)
  PROVE  QueueInv'
<1>1. /\ At(p, "read") /\ job'[p].kind = "sleep" /\ job'[p].tgt = t /\ job'[p].spins = 0
      /\ job[p].pc = "idle" /\ job[p].kind = "none"
      /\ LocksExact' /\ Hands' /\ Rings'
  BY BeginKeep DEF Sleep, Kinds
<1>2. TypeOK'
  BY <1>1 DEF QueueInv, TypeOK, Sleep, At, ringVars, pastVars
<1>3. \A u \in Tasks : state[u] = "dead" => state'[u] = "dead"
  BY DEF Sleep, Free, QueueInv, TypeOK
<1>4. t \notin swept
  BY DEF Sleep, Free, QueueInv, Gone
<1>5. OwnJobs'
  BY <1>1, OwnBegins DEF Sleep
<1>6. Sweeping'
  BY <1>1, <1>3, SweepKeep DEF QueueInv, Sleep
<1>7. \A u \in swept : ~Own(p, u)'
  BY <1>1, <1>4 DEF Own
<1>8. Gone'
  BY <1>1, <1>3, <1>7, GoneKeep DEF QueueInv, Sleep, pastVars
<1>9. Stale(p)' = 0
  BY <1>1 DEF Stale, At
<1>10. Rounds'
  BY <1>1, <1>9, StaleSame, RoundsKeep DEF QueueInv, Sleep, pastVars
<1> QED BY <1>1, <1>2, <1>5, <1>6, <1>8, <1>10, PastKeep DEF QueueInv, Sleep

(* A task dies and begins to sweep the queues.                              *)
LEMMA ExitStep ==
  ASSUME QueueInv, NEW p \in Procs, NEW t \in Tasks, Exit(p, t)
  PROVE  QueueInv'
<1>1. /\ At(p, "lockfrom") /\ job'[p].kind = "exit" /\ job'[p].tgt = t /\ job'[p].from = 0
      /\ job[p].pc = "idle" /\ job[p].kind = "none"
      /\ LocksExact' /\ Hands' /\ Rings'
  BY CpuFacts, BeginKeep DEF Exit, Kinds
<1>2. TypeOK'
  BY <1>1 DEF QueueInv, TypeOK, Exit, At, ringVars, pastVars
<1>3. \A u \in Tasks : state[u] = "dead" => state'[u] = "dead"
  BY DEF Exit, Free, QueueInv, TypeOK
<1>4. t \notin swept
  BY DEF Exit, Free, QueueInv, Gone
<1>5. OwnJobs'
  BY <1>1, OwnBegins DEF Exit
<1>6. Swept(p)'
  <2>1. state'[t] = "dead"
    BY DEF Exit, QueueInv, TypeOK
  <2>2. \A q \in Thieves(job[p].tgt)' : job'[p].from <= job'[q].from
    <3> SUFFICES ASSUME NEW q \in Thieves(job[p].tgt)' PROVE 0 <= job'[q].from
      BY <1>1
    <3>1. q \in Procs /\ job'[q].kind = "steal"
      BY DEF Thieves
    <3>2. job'[q].from \in CPU
      BY <3>1, <1>1 DEF LocksExact, JobShape
    <3>3. job'[q].from \in Nat
      BY <3>2, CpuFacts
    <3> QED BY <3>3
  <2>3. \A c \in CPU : ~(c < 0)
    BY CpuFacts
  <2> QED BY <2>1, <2>2, <2>3, <1>1 DEF Swept, At
<1>7. Sweeping'
  BY <1>1, <1>3, <1>6, SweepKeep DEF QueueInv, Exit
<1>8. \A u \in swept : ~Own(p, u)'
  BY <1>1, <1>4 DEF Own
<1>9. Gone'
  BY <1>1, <1>3, <1>8, GoneKeep DEF QueueInv, Exit, pastVars
<1>10. Rounds'
  BY <1>1, StaleSame, RoundsKeep DEF QueueInv, Exit, pastVars
<1> QED BY <1>1, <1>2, <1>5, <1>7, <1>9, <1>10, PastKeep DEF QueueInv, Exit

(* One more mover of one task.                                              *)
LEMMA MoversGrow ==
  ASSUME NEW u, NEW p, NEW t, NEW ps, ps = IF u = t THEN Movers(u) \cup {p} ELSE Movers(u)
  PROVE  /\ Cardinality(ps) <= Cardinality(Movers(u)) + IF u = t THEN 1 ELSE 0
         /\ Cardinality(ps) \in Nat /\ Cardinality(Movers(u)) \in Nat
<1>1. IsFiniteSet(Movers(u)) /\ Cardinality(Movers(u)) \in Nat
  BY MoversFinite
<1>2. CASE u = t
  <2>1. /\ IsFiniteSet(Movers(u) \cup {p})
        /\ Cardinality(Movers(u) \cup {p}) = IF p \in Movers(u) THEN Cardinality(Movers(u))
                                             ELSE Cardinality(Movers(u)) + 1
    BY <1>1, FS_AddElement
  <2>2. ps = Movers(u) \cup {p}
    BY <1>2
  <2> QED BY <2>1, <2>2, <1>1, <1>2
<1>3. CASE u # t
  BY <1>1, <1>3
<1> QED BY <1>2, <1>3

(* A move begins: one more mover, one more move.                            *)
LEMMA SetAffinityStep ==
  ASSUME QueueInv, NEW p \in Procs, NEW t \in Tasks, SetAffinity(p, t)
  PROVE  QueueInv'
<1>1. /\ At(p, "read") /\ job'[p].kind = "move" /\ job'[p].tgt = t
      /\ job[p].pc = "idle" /\ job[p].kind = "none"
      /\ LocksExact' /\ Hands' /\ Rings'
  BY BeginKeep DEF SetAffinity, Kinds
<1>2. moves[t] < MaxMoves /\ moves' = [moves EXCEPT ![t] = @ + 1]
      /\ moves \in [Tasks -> 0 .. MaxMoves]
  BY DEF SetAffinity, QueueInv, TypeOK
<1>3. moves' \in [Tasks -> 0 .. MaxMoves]
  BY <1>2, SpinsAssumption
<1>4. TypeOK'
  BY <1>1, <1>3 DEF QueueInv, TypeOK, SetAffinity, At, ringVars
<1>5. \A u \in Tasks : ~Own(p, u)'
  BY <1>1 DEF Own, OwnKinds
<1>6. OwnJobs'
  BY <1>1, <1>5, OwnKeep DEF QueueInv, SetAffinity
<1>7. Sweeping'
  BY <1>1, SweepKeep DEF QueueInv, SetAffinity
<1>8. Gone'
  BY <1>1, <1>5, GoneKeep DEF QueueInv, SetAffinity, TypeOK
<1>9. /\ \A u \in Tasks : moves[u] \in Nat /\ moves'[u] \in Nat
      /\ \A u \in Tasks : moves'[u] = IF u = t THEN moves[u] + 1 ELSE moves[u]
  BY <1>2, <1>3, SpinsAssumption
<1>10. Rounds'
  <2>1. ASSUME NEW u \in Tasks
        PROVE  /\ Cardinality(Movers(u))' <= Cardinality(Movers(u)) + IF u = t THEN 1 ELSE 0
               /\ Cardinality(Movers(u))' \in Nat /\ Cardinality(Movers(u)) \in Nat
    <3>1. Movers(u)' = IF u = t THEN Movers(u) \cup {p} ELSE Movers(u)
      BY <1>1 DEF Movers, At
    <3> QED BY <3>1, MoversGrow
  <2>2. ASSUME NEW u \in Tasks PROVE Cardinality(Movers(u))' <= moves'[u]
    <3>1. Cardinality(Movers(u)) <= moves[u]
      BY DEF QueueInv, Rounds
    <3> QED BY <3>1, <2>1, <1>9
  <2>3. ASSUME NEW q \in Procs, job'[q].kind = "sleep",
               job'[q].pc \in {"read", "lockfrom", "verify"}
        PROVE  job'[q].spins + Stale(q)' + Cardinality(Movers(job[q].tgt))' <= moves'[job'[q].tgt]
    <3>1. job'[q] = job[q]
      BY <1>1, <2>3 DEF At
    <3>2. Stale(q)' = Stale(q)
      BY <3>1 DEF Stale, SetAffinity
    <3>3. job[q].tgt \in Tasks
      BY <3>1, <2>3, PInfo DEF JobShape
    <3>4. job[q].spins + Stale(q) + Cardinality(Movers(job[q].tgt)) <= moves[job[q].tgt]
      BY <3>1, <2>3 DEF QueueInv, Rounds
    <3>5. /\ Cardinality(Movers(job[q].tgt))' <=
               Cardinality(Movers(job[q].tgt)) + IF job[q].tgt = t THEN 1 ELSE 0
          /\ Cardinality(Movers(job[q].tgt))' \in Nat /\ Cardinality(Movers(job[q].tgt)) \in Nat
      <4> DEFINE u == job[q].tgt
      <4>1. Movers(job[q].tgt)' = IF u = t THEN Movers(u) \cup {p} ELSE Movers(u)
        BY <1>1, <3>1 DEF Movers, At
      <4> QED BY <4>1, MoversGrow
    <3>6. job[q].spins \in Nat /\ Stale(q) \in Nat
      BY SpinsAssumption, PInfo, JobFields DEF Stale
    <3> QED BY <3>1, <3>2, <3>3, <3>4, <3>5, <3>6, <1>9
  <2> QED BY <2>2, <2>3 DEF Rounds
<1>11. GivesUpOnlyIfMoved'
  <2> SUFFICES ASSUME NEW u \in gaveup PROVE moves'[u] >= MaxSpins
    BY DEF GivesUpOnlyIfMoved, SetAffinity
  <2>1. u \in Tasks /\ moves[u] >= MaxSpins
    BY DEF QueueInv, TypeOK, GivesUpOnlyIfMoved
  <2> QED BY <2>1, <1>9, SpinsAssumption
<1> QED BY <1>1, <1>4, <1>6, <1>7, <1>8, <1>10, <1>11 DEF QueueInv

-----------------------------------------------------------------------------
(* The exit goes on to the next queue.                                      *)

(* A sweep that leaves a queue has cleared it: the task is not there, and a *)
(* thief that has it in hand came from a later queue.                       *)
LEMMA Passed ==
  ASSUME QueueInv, NEW p \in Procs, NextQueue(p)
  PROVE  /\ job[p].kind = "exit" /\ job[p].from \in CPU /\ job[p].tgt \in Tasks /\ job[p].to = NoCpu
         /\ state[job[p].tgt] = "dead"
         /\ \A c \in CPU : c < job[p].from + 1 => cpu_home[job[p].tgt] # c
         /\ \A q \in Thieves(job[p].tgt) : job[q].from \in CPU /\ job[p].from + 1 <= job[q].from
<1>1. /\ job[p].kind = "exit" /\ job[p].from \in CPU /\ job[p].tgt \in Tasks /\ job[p].to = NoCpu
      /\ job[p].pc \in {"unlock", "verify"}
  BY PInfo DEF JobShape, NextQueue
<1>2. lock[job[p].from] = p
  BY <1>1, PInfo DEF Holds
<1>3. cpu_home[job[p].tgt] # job[p].from
  <2>1. CASE job[p].pc = "unlock"
    BY <1>1, <2>1 DEF QueueInv, Sweeping, Swept
  <2>2. CASE job[p].pc = "verify" /\ ~Found(p)
    BY <1>1, <1>2, <2>2, RingAt DEF Found, Home
  <2> QED BY <2>1, <2>2 DEF NextQueue
<1>4. Swept(p)
  BY <1>1 DEF QueueInv, Sweeping
<1>5. ASSUME NEW c \in CPU, c < job[p].from + 1 PROVE cpu_home[job[p].tgt] # c
  <2>1. c < job[p].from \/ c = job[p].from
    BY <1>1, <1>5, CpuFacts
  <2> QED BY <2>1, <1>3, <1>4 DEF Swept
<1>6. ASSUME NEW q \in Thieves(job[p].tgt)
      PROVE  job[q].from \in CPU /\ job[p].from + 1 <= job[q].from
  <2>1. q \in Procs /\ job[q].kind = "steal" /\ job[q].pc = "insert"
    BY DEF Thieves
  <2>2. job[q].from \in CPU /\ lock[job[q].from] = q /\ q # p
    BY <2>1, <1>1, PInfo DEF JobShape, Holds
  <2>3. job[p].from <= job[q].from /\ job[q].from # job[p].from
    BY <2>2, <1>2, <1>4 DEF Swept
  <2>4. job[p].from \in Nat /\ job[q].from \in Nat
    BY <2>2, <1>1, CpuFacts
  <2> QED BY <2>2, <2>3, <2>4
<1> QED BY <1>1, <1>4, <1>5, <1>6 DEF Swept

(* The sweep goes on to the next queue or is over.                          *)
LEMMA NextQueueStep ==
  ASSUME QueueInv, NEW p \in Procs, NextQueue(p)
  PROVE  QueueInv'
<1>0. /\ "idle" \in Pcs /\ "lockfrom" \in Pcs /\ lock' = Unlocked(p)
      /\ job[p].pc \in {"unlock", "verify"}
  BY DEF Pcs, NextQueue
<1>1. /\ job[p].kind = "exit" /\ job[p].from \in CPU /\ job[p].tgt \in Tasks /\ job[p].to = NoCpu
      /\ state[job[p].tgt] = "dead"
      /\ \A c \in CPU : c < job[p].from + 1 => cpu_home[job[p].tgt] # c
      /\ \A q \in Thieves(job[p].tgt) : job[q].from \in CPU /\ job[p].from + 1 <= job[q].from
  BY Passed
<1>2. /\ lock' \in [CPU -> Procs \cup {Nil}]
      /\ \A d \in CPU : lock'[d] # p
      /\ \A d \in CPU, q \in Procs : q # p => (lock'[d] = q <=> lock[d] = q)
  BY <1>0, PInfo, DropLocks
<1>3. GivesUpOnlyIfMoved'
  BY DEF QueueInv, GivesUpOnlyIfMoved, NextQueue
<1>4. CASE job[p].from + 1 < NCPU
  <2>1. job[p].from + 1 \in CPU
    BY <1>1, <1>4, CpuFacts
  <2>2. /\ At(p, "lockfrom") /\ SameKind(p) /\ SameTask(p) /\ SameTo(p)
        /\ job'[p].from = job[p].from + 1 /\ swept' = swept
    BY <1>4, <2>1, FromView DEF NextQueue, QueueInv
  <2>3. TypeOK'
    BY <1>2, <2>2 DEF QueueInv, TypeOK, NextQueue, At, ringVars
  <2>4. LocksExact'
    <3>1. JobShape(job'[p])
      BY <1>1, <2>1, <2>2, PInfo DEF JobShape, At, SameKind, SameTask, SameFrom, SameTo, SameSpins
    <3>2. \A c \in CPU : ~Holds(job'[p], c)
      BY <1>1, <2>2 DEF Holds, At, SameKind, SameTask, SameFrom, SameTo, SameSpins
    <3> QED BY <1>2, <2>2, <3>1, <3>2, LocksKeep DEF QueueInv
  <2>5. Hands'
    BY <2>2, HandsKeep DEF QueueInv, NextQueue
  <2>6. \A t \in Tasks : Own(p, t)' => Own(p, t)
    BY <1>0, <2>2 DEF Own, SameKind, SameTask
  <2>7. OwnJobs'
    BY <2>2, <2>6, OwnKeep DEF QueueInv, NextQueue
  <2>8. Rings'
    BY <1>0, <2>2, LinkedKeep, RingsSame DEF QueueInv, NextQueue
  <2>9. Swept(p)'
    <3>1. \A r \in Thieves(job[p].tgt)' : r \in Thieves(job[p].tgt) /\ job'[r] = job[r]
      BY <1>1, <2>2 DEF Thieves, At, SameTask, SameKind
    <3> QED BY <1>1, <2>2, <3>1 DEF Swept, NextQueue, At, SameTask
  <2>10. Sweeping'
    BY <2>2, <2>9, SweepKeep DEF QueueInv, NextQueue
  <2>11. Gone'
    BY <2>2, <2>6, GoneKeep DEF QueueInv, NextQueue, TypeOK
  <2>12. Rounds'
    BY <1>1, <2>2, StaleSame, RoundsKeep DEF QueueInv, NextQueue, SameKind
  <2> QED BY <1>3, <2>3, <2>4, <2>5, <2>7, <2>8, <2>10, <2>11, <2>12 DEF QueueInv
<1>5. CASE ~(job[p].from + 1 < NCPU)
  <2>1. /\ At(p, "idle") /\ job'[p] = NoJob /\ job'[p].kind = "none"
        /\ swept' = swept \cup {job[p].tgt}
    BY <1>5, DoneView DEF NextQueue, QueueInv
  <2>3. TypeOK'
    BY <1>1, <1>2, <2>1 DEF QueueInv, TypeOK, NextQueue, At, ringVars
  <2>4. LocksExact'
    <3>1. JobShape(job'[p])
      BY <2>1, CpuFacts DEF JobShape, NoJob, At
    <3>2. \A c \in CPU : ~Holds(job'[p], c)
      BY <2>1 DEF Holds, At
    <3> QED BY <1>2, <2>1, <3>1, <3>2, LocksKeep DEF QueueInv
  <2>5. Hands'
    BY <2>1, HandsKeep DEF QueueInv, NextQueue
  <2>6. \A t \in Tasks : ~Own(p, t)'
    BY <2>1 DEF Own, OwnKinds
  <2>7. OwnJobs'
    BY <2>1, <2>6, OwnKeep DEF QueueInv, NextQueue
  <2>8. Rings'
    BY <1>0, <2>1, LinkedKeep, RingsSame DEF QueueInv, NextQueue
  <2>9. Sweeping'
    BY <2>1, SweepKeep DEF QueueInv, NextQueue
  <2>10. Gone'
    <3> SUFFICES ASSUME NEW t \in swept \cup {job[p].tgt}
                 PROVE  /\ state[t] = "dead" /\ cpu_home[t] = NoCpu /\ Thieves(t)' = {}
                        /\ \A q \in Procs : ~Own(q, t)'
      BY <2>1 DEF Gone, NextQueue
    <3>1. Thieves(t)' \subseteq Thieves(t)
      BY <2>1 DEF Thieves, At
    <3>2. \A q \in Procs : Own(q, t)' => Own(q, t) /\ q # p
      BY <2>1 DEF At, Own
    <3>3. CASE t \in swept
      BY <3>1, <3>2, <3>3 DEF QueueInv, Gone
    <3>4. CASE t = job[p].tgt
      <4>1. cpu_home[t] = NoCpu
        <5>1. \A c \in CPU : c < job[p].from + 1
          BY <1>1, <1>5, CpuFacts, NCpuAssumption DEF CPU
        <5>2. cpu_home[t] \in CPU \cup {NoCpu}
          BY <3>4, <1>1 DEF QueueInv, TypeOK
        <5> QED BY <5>1, <5>2, <1>1, <3>4
      <4>2. Thieves(t) = {}
        BY <1>1, <1>5, <3>4, CpuFacts, NCpuAssumption DEF CPU
      <4>3. Own(p, t)
        BY <1>0, <1>1, <3>4 DEF Own, OwnKinds
      <4> QED BY <4>1, <4>2, <4>3, <3>1, <3>2, <3>4, <1>1 DEF QueueInv, OwnJobs
    <3> QED BY <3>3, <3>4
  <2>11. Rounds'
    BY <2>1, StaleSame, RoundsKeep DEF QueueInv, NextQueue
  <2> QED BY <1>3, <2>3, <2>4, <2>5, <2>7, <2>8, <2>9, <2>10, <2>11 DEF QueueInv
<1> QED BY <1>4, <1>5

-----------------------------------------------------------------------------
(* The steps that change who owns a task, or the links.                     *)

(* Whoever has a task in hand for a queue holds that queue's lock: two      *)
(* contexts never have one task in hand.                                    *)
LEMMA OneHand ==
  ASSUME QueueInv, NEW p \in Procs, NEW q \in Procs, job[p].tgt = job[q].tgt,
         job[p].pc \in {"unlink", "release", "link"}, job[q].pc \in {"unlink", "release", "link"}
  PROVE  p = q
<1> DEFINE h == cpu_home[job[p].tgt]
<1>1. /\ h = job[p].from \/ (job[p].pc = "link" /\ h = job[p].to)
      /\ h = job[q].from \/ (job[q].pc = "link" /\ h = job[q].to)
      /\ job[p].pc # "link" => h = job[p].from
      /\ job[q].pc # "link" => h = job[q].from
      /\ job[p].pc = "link" => h = job[p].to
      /\ job[q].pc = "link" => h = job[q].to
  BY DEF QueueInv, Hands
<1> HIDE DEF h
<1>2. h \in CPU
  BY <1>1, PInfo DEF JobShape
<1>3. Holds(job[p], h) /\ Holds(job[q], h)
  BY <1>1 DEF Holds
<1> QED BY <1>2, <1>3, PInfo

(* The claim of a task that was on no queue.                                *)
LEMMA ClaimedStep ==
  ASSUME QueueInv, NEW p \in Procs, Claim(p), Goto(p, "link"),
         state[job[p].tgt] # "dead", cpu_home[job[p].tgt] = NoCpu,
         cpu_home' = [cpu_home EXCEPT ![job[p].tgt] = job[p].to]
  PROVE  QueueInv'
<1> DEFINE t == job[p].tgt
<1>1. /\ "link" \in Pcs /\ job[p].pc = "insert" /\ t \in Tasks /\ job[p].to \in CPU
      /\ job[p].kind \in {"wake", "sleep", "move", "steal"}
      /\ UNCHANGED <<lock, ringVars, state, on_cpu, pastVars>>
  BY PInfo DEF Pcs, Claim, JobShape
<1>2. At(p, "link") /\ SameKind(p) /\ SameTask(p) /\ SameFrom(p) /\ SameTo(p) /\ SameSpins(p)
  BY <1>1, GotoView DEF QueueInv
<1>3. /\ cpu_home \in [Tasks -> CPU \cup {NoCpu}] /\ cpu_home'[t] = job[p].to
      /\ \A u \in Tasks : u # t => cpu_home'[u] = cpu_home[u]
      /\ cpu_home' \in [Tasks -> CPU \cup {NoCpu}]
  BY <1>1 DEF QueueInv, TypeOK
<1> HIDE DEF t
<1>4. TypeOK'
  BY <1>1, <1>2, <1>3 DEF QueueInv, TypeOK, At, ringVars, pastVars
<1>5. LocksExact'
  <2>1. JobShape(job'[p])
    BY <1>1, <1>2, PInfo DEF JobShape, At, SameKind, SameTask, SameFrom, SameTo, SameSpins, t
  <2>2. \A c \in CPU : Holds(job'[p], c) <=> Holds(job[p], c)
    BY <1>1, <1>2, CpuFacts DEF Holds, At, SameKind, SameTask, SameFrom, SameTo, SameSpins
  <2> QED BY <1>1, <1>2, <2>1, <2>2, PInfo, LocksKeep DEF QueueInv
<1>6. Hands'
  <2> SUFFICES ASSUME NEW q \in Procs
               PROVE  /\ job'[q].pc \in {"unlink", "release"} =>
                             cpu_home'[job'[q].tgt] = job'[q].from
                      /\ job'[q].pc = "link" => cpu_home'[job'[q].tgt] = job'[q].to
                      /\ job'[q].kind = "steal" /\ job'[q].pc \in {"unlink", "release"} =>
                           job'[q].tgt \notin on_cpu
    BY <1>1 DEF Hands
  <2>1. CASE q = p
    BY <1>2, <1>3, <2>1 DEF At, SameKind, SameTask, SameFrom, SameTo, SameSpins, t
  <2>2. CASE q # p
    <3>1. job'[q] = job[q]
      BY <1>2, <2>2 DEF At
    <3>2. job[q].pc \in {"unlink", "release", "link"} => job[q].tgt # t /\ job[q].tgt \in Tasks
      <4>1. job[q].pc \in {"unlink", "release"} =>
              job[q].from \in CPU /\ cpu_home[job[q].tgt] = job[q].from
        BY PInfo DEF QueueInv, Hands, JobShape
      <4>2. job[q].pc = "link" => job[q].to \in CPU /\ cpu_home[job[q].tgt] = job[q].to
        BY PInfo DEF QueueInv, Hands, JobShape
      <4>3. job[q].pc \in {"unlink", "release", "link"} => job[q].tgt \in Tasks
        BY PInfo DEF JobShape
      <4> QED BY <4>1, <4>2, <4>3, CpuFacts DEF t
    <3> QED BY <3>1, <3>2, <1>3 DEF QueueInv, Hands
  <2> QED BY <2>1, <2>2
<1>7. OwnJobs'
  <2>1. \A u \in Tasks : Own(p, u)' => Own(p, u)
    BY <1>1, <1>2 DEF Own, At, SameKind, SameTask, SameFrom, SameTo, SameSpins
  <2> QED BY <1>1, <1>2, <2>1, OwnKeep DEF QueueInv
<1>8. Rings'
  <2>1. ASSUME NEW c \in CPU PROVE Linked(c)' = Linked(c)
    <3>1. \A u \in Tasks : u # t => (InHand(u)' <=> InHand(u))
      BY <1>1, <1>2 DEF InHand, At, SameKind, SameTask, SameFrom, SameTo, SameSpins, t
    <3>2. InHand(t)'
      BY <1>2 DEF InHand, At, SameKind, SameTask, SameFrom, SameTo, SameSpins, t
    <3>3. cpu_home[t] # c
      BY CpuFacts DEF t
    <3>4. t' = t
      BY <1>2 DEF SameTask, t
    <3> QED BY <3>1, <3>2, <3>3, <3>4, <1>3 DEF Linked
  <2> QED BY <2>1, <1>1, RingsSame DEF QueueInv
<1>9. Sweeping'
  <2> SUFFICES ASSUME NEW q \in Procs, job'[q].kind = "exit" PROVE Swept(q)'
    BY DEF Sweeping
  <2>1. q # p
    BY <1>1, <1>2 DEF SameKind
  <2>2. job'[q] = job[q] /\ Swept(q) /\ job[q].tgt \in Tasks
    BY <1>2, <2>1, PInfo DEF At, QueueInv, Sweeping, JobShape
  <2>3. job[q].tgt # t
    BY <2>2 DEF Swept, t
  <2>4. \A r \in Thieves(job[q].tgt)' : r \in Thieves(job[q].tgt) /\ job'[r] = job[r]
    BY <1>2, <2>2 DEF Thieves, At
  <2> QED BY <1>1, <1>3, <2>2, <2>3, <2>4 DEF Swept
<1>10. Gone'
  <2> SUFFICES ASSUME NEW u \in swept
               PROVE  /\ state'[u] = "dead" /\ cpu_home'[u] = NoCpu /\ Thieves(u)' = {}
                      /\ \A q \in Procs : ~Own(q, u)'
    BY <1>1 DEF Gone, pastVars
  <2>1. u \in Tasks /\ u # t /\ state[u] = "dead" /\ cpu_home[u] = NoCpu /\ Thieves(u) = {}
        /\ \A q \in Procs : ~Own(q, u)
    BY DEF QueueInv, TypeOK, Gone, t
  <2>2. Thieves(u)' \subseteq Thieves(u)
    BY <1>2 DEF Thieves, At
  <2>3. \A q \in Procs : Own(q, u)' => Own(q, u)
    BY <1>1, <1>2 DEF Own, At, SameKind, SameTask, SameFrom, SameTo, SameSpins
  <2> QED BY <1>1, <1>3, <2>1, <2>2, <2>3
<1>11. Rounds'
  <2>1. ASSUME NEW q \in Procs, q # p, job[q].kind = "sleep", job[q].pc \in InDetach
        PROVE  Stale(q)' <= Stale(q)
    <3>1. job'[q] = job[q] /\ job[q].tgt \in Tasks
      BY <1>2, <2>1, PInfo DEF At, JobShape
    <3>2. CASE job[q].tgt = t /\ job[q].pc \in {"lockfrom", "verify"}
      <4>1. job[q].from \in CPU /\ cpu_home[job[q].tgt] = NoCpu
        BY <3>2, PInfo DEF JobShape, t
      <4>2. Stale(q) = 1
        BY <4>1, <3>2, CpuFacts DEF Stale
      <4> QED BY <4>2 DEF Stale
    <3>3. CASE job[q].tgt # t \/ job[q].pc \notin {"lockfrom", "verify"}
      <4>1. Stale(q)' = Stale(q)
        BY <3>1, <3>3, <1>3 DEF Stale
      <4> QED BY <4>1 DEF Stale
    <3> QED BY <3>2, <3>3
  <2> QED BY <1>1, <1>2, <2>1, RoundsKeep DEF QueueInv, pastVars, InDetach, ToDetach
<1> QED BY <1>1, <1>4, <1>5, <1>6, <1>7, <1>8, <1>9, <1>10, <1>11, PastKeep DEF QueueInv

(* The claim, won or refused.                                               *)
LEMMA ClaimStep ==
  ASSUME QueueInv, NEW p \in Procs, Claim(p)
  PROVE  QueueInv'
BY RefusedStep, ClaimedStep DEF Claim

(* Ownership is given back after the splice.                                *)
LEMMA ReleaseStep ==
  ASSUME QueueInv, NEW p \in Procs, Release(p)
  PROVE  QueueInv'
<1> DEFINE t == job[p].tgt
           l == IF job[p].kind = "steal" THEN "insert" ELSE "unlock"
<1>1. /\ l \in Pcs /\ job[p].pc = "release" /\ t \in Tasks /\ job[p].from \in CPU
      /\ job[p].kind \in {"sleep", "move", "exit", "steal"}
      /\ UNCHANGED <<lock, ringVars, state, on_cpu, pastVars>>
      /\ cpu_home' = [cpu_home EXCEPT ![t] = NoCpu] /\ cpu_home[t] = job[p].from
  BY PInfo DEF Pcs, Release, JobShape, QueueInv, Hands
<1>2. At(p, l) /\ SameKind(p) /\ SameTask(p) /\ SameFrom(p) /\ SameTo(p) /\ SameSpins(p)
  BY <1>1, GotoView DEF QueueInv, Release
<1>3. /\ cpu_home \in [Tasks -> CPU \cup {NoCpu}] /\ cpu_home'[t] = NoCpu
      /\ \A u \in Tasks : u # t => cpu_home'[u] = cpu_home[u]
      /\ cpu_home' \in [Tasks -> CPU \cup {NoCpu}]
  BY <1>1 DEF QueueInv, TypeOK
<1> HIDE DEF t
<1>4. TypeOK'
  BY <1>1, <1>2, <1>3 DEF QueueInv, TypeOK, At, ringVars, pastVars
<1>5. LocksExact'
  <2>1. JobShape(job'[p])
    BY <1>1, <1>2, PInfo DEF JobShape, At, SameKind, SameTask, SameFrom, SameTo, SameSpins
  <2>2. \A c \in CPU : Holds(job'[p], c) <=> Holds(job[p], c)
    <3>1. job[p].kind # "steal" => job[p].to = NoCpu
      BY <1>1, PInfo DEF JobShape
    <3> QED BY <1>1, <1>2, <3>1, CpuFacts DEF Holds, At, SameKind, SameTask, SameFrom, SameTo,
               SameSpins
  <2> QED BY <1>1, <1>2, <2>1, <2>2, PInfo, LocksKeep DEF QueueInv
<1>6. Hands'
  <2> SUFFICES ASSUME NEW q \in Procs
               PROVE  /\ job'[q].pc \in {"unlink", "release"} =>
                             cpu_home'[job'[q].tgt] = job'[q].from
                      /\ job'[q].pc = "link" => cpu_home'[job'[q].tgt] = job'[q].to
                      /\ job'[q].kind = "steal" /\ job'[q].pc \in {"unlink", "release"} =>
                           job'[q].tgt \notin on_cpu
    BY <1>1 DEF Hands
  <2>1. CASE q = p
    BY <1>2, <2>1 DEF At
  <2>2. CASE q # p
    <3>1. job'[q] = job[q]
      BY <1>2, <2>2 DEF At
    <3>2. job[q].pc \in {"unlink", "release", "link"} => job[q].tgt # t /\ job[q].tgt \in Tasks
      BY <1>1, <2>2, OneHand, PInfo DEF JobShape, t
    <3> QED BY <3>1, <3>2, <1>3 DEF QueueInv, Hands
  <2> QED BY <2>1, <2>2
<1>7. \A q \in Procs, u \in Tasks : Own(q, u)' => Own(q, u)
  BY <1>1, <1>2 DEF Own, At, SameKind, SameTask, SameFrom, SameTo, SameSpins
<1>8. OwnJobs'
  BY <1>1, <1>2, <1>7, OwnKeep DEF QueueInv
<1>9. Rings'
  <2>1. ASSUME NEW c \in CPU PROVE Linked(c)' = Linked(c)
    <3>1. \A u \in Tasks : u # t => (InHand(u)' <=> InHand(u))
      BY <1>1, <1>2 DEF InHand, At, SameKind, SameTask, SameFrom, SameTo, SameSpins, t
    <3>2. InHand(t)
      BY <1>1 DEF InHand, t
    <3>3. cpu_home'[t] # c
      BY <1>3, CpuFacts
    <3> QED BY <3>1, <3>2, <3>3, <1>3 DEF Linked
  <2> QED BY <2>1, <1>1, RingsSame DEF QueueInv
<1>10. t \notin swept
  BY <1>1, CpuFacts DEF QueueInv, Gone
<1>11. job[p].kind = "steal" => \A q \in Procs : job[q].kind \in OwnKinds => job[q].tgt # t
  <2> SUFFICES ASSUME job[p].kind = "steal", NEW q \in Procs, job[q].kind \in OwnKinds,
                      job[q].tgt = t
               PROVE  FALSE
    OBVIOUS
  <2>1. t \notin on_cpu
    BY <1>1 DEF QueueInv, Hands, t
  <2>2. Own(q, t)
    BY PInfo DEF Own, JobShape, OwnKinds
  <2> QED BY <1>1, <2>1, <2>2 DEF QueueInv, OwnJobs
<1>12. job[p].kind \in OwnKinds => \A q \in Procs : job[q].kind \in OwnKinds /\ job[q].tgt = t =>
         q = p
  <2> SUFFICES ASSUME job[p].kind \in OwnKinds, NEW q \in Procs, job[q].kind \in OwnKinds,
                      job[q].tgt = t
               PROVE  q = p
    OBVIOUS
  <2>1. Own(p, t) /\ Own(q, t)
    BY <1>1, PInfo DEF Own, JobShape, OwnKinds, t
  <2> QED BY <1>1, <2>1 DEF QueueInv, OwnJobs
<1>13. Sweeping'
  <2> SUFFICES ASSUME NEW q \in Procs, job'[q].kind = "exit" PROVE Swept(q)'
    BY DEF Sweeping
  <2>1. job[q].kind = "exit" /\ job'[q].tgt = job[q].tgt /\ job'[q].from = job[q].from
        /\ (q # p => job'[q].pc = job[q].pc)
    BY <1>2 DEF At, SameKind, SameTask, SameFrom, SameTo, SameSpins
  <2>2. Swept(q) /\ job[q].tgt \in Tasks /\ job[q].from \in CPU
    BY <2>1, PInfo DEF QueueInv, Sweeping, JobShape
  <2>3. \A r \in Thieves(job[q].tgt)' : r \in Thieves(job[q].tgt) /\ job'[r] = job[r]
    <3> SUFFICES ASSUME NEW r \in Thieves(job[q].tgt)' PROVE r # p
      BY <1>2, <2>1 DEF Thieves, At
    <3> SUFFICES ASSUME r = p PROVE FALSE
      OBVIOUS
    <3>1. job[p].kind = "steal" /\ job[q].tgt = t
      BY <1>2, <2>1 DEF Thieves, SameKind, SameTask, t
    <3> QED BY <3>1, <1>11, <2>1 DEF OwnKinds
  <2>4. CASE job[q].tgt = t
    BY <1>1, <1>3, <2>1, <2>2, <2>3, <2>4, CpuFacts DEF Swept
  <2>5. CASE job[q].tgt # t
    <3>1. q # p
      BY <2>5 DEF t
    <3> QED BY <1>1, <1>3, <2>1, <2>2, <2>3, <2>5, <3>1 DEF Swept
  <2> QED BY <2>4, <2>5
<1>14. Gone'
  <2> SUFFICES ASSUME NEW u \in swept
               PROVE  /\ state'[u] = "dead" /\ cpu_home'[u] = NoCpu /\ Thieves(u)' = {}
                      /\ \A q \in Procs : ~Own(q, u)'
    BY <1>1 DEF Gone, pastVars
  <2>1. u \in Tasks /\ u # t /\ state[u] = "dead" /\ cpu_home[u] = NoCpu /\ Thieves(u) = {}
        /\ \A q \in Procs : ~Own(q, u)
    BY <1>10 DEF QueueInv, TypeOK, Gone
  <2>2. Thieves(u)' \subseteq Thieves(u)
    BY <1>2, <2>1 DEF Thieves, At, SameTask, t
  <2> QED BY <1>1, <1>3, <1>7, <2>1, <2>2
<1>15. Rounds'
  <2>1. CASE job[p].kind # "move"
    <3>1. ASSUME NEW q \in Procs, q # p, job[q].kind = "sleep", job[q].pc \in InDetach
          PROVE  Stale(q)' <= Stale(q)
      <4>1. job'[q] = job[q] /\ job[q].tgt \in Tasks
        BY <1>2, <3>1, PInfo DEF At, JobShape
      <4>2. job[q].tgt # t
        BY <1>1, <1>11, <1>12, <2>1, <3>1 DEF OwnKinds
      <4>3. Stale(q)' = Stale(q)
        BY <4>1, <4>2, <1>3 DEF Stale
      <4> QED BY <4>3 DEF Stale
    <3> QED BY <1>1, <1>2, <2>1, <3>1, RoundsKeep DEF QueueInv, pastVars, InDetach, ToDetach,
               SameKind
  <2>2. CASE job[p].kind = "move"
    <3>1. ASSUME NEW u
          PROVE  /\ Movers(u)' = Movers(u) \ (IF u = t THEN {p} ELSE {})
                 /\ u = t => p \in Movers(u)
      BY <1>1, <1>2, <2>2 DEF Movers, At, SameKind, SameTask, SameFrom, SameTo, SameSpins, t
    <3>2. ASSUME NEW u, NEW ps, ps = Movers(u) \ (IF u = t THEN {p} ELSE {})
          PROVE  /\ Cardinality(ps) = Cardinality(Movers(u)) - IF u = t THEN 1 ELSE 0
                 /\ Cardinality(ps) \in Nat /\ Cardinality(Movers(u)) \in Nat
      <4>1. IsFiniteSet(Movers(u)) /\ Cardinality(Movers(u)) \in Nat
        BY MoversFinite
      <4>2. CASE u = t
        <5>1. /\ IsFiniteSet(Movers(u) \ {p})
              /\ Cardinality(Movers(u) \ {p}) = Cardinality(Movers(u)) - 1
          BY <4>1, <4>2, <3>1, FS_RemoveElement
        <5>2. ps = Movers(u) \ {p}
          BY <3>2, <4>2
        <5> QED BY <4>1, <4>2, <5>1, <5>2, FS_CardinalityType
      <4>3. CASE u # t
        <5>1. ps = Movers(u)
          BY <3>2, <4>3
        <5> QED BY <4>1, <4>3, <5>1
      <4> QED BY <4>2, <4>3
    <3>3. \A u \in Tasks : moves[u] \in Nat
      BY SpinsAssumption DEF QueueInv, TypeOK
    <3>4. ASSUME NEW u \in Tasks PROVE Cardinality(Movers(u))' <= moves'[u]
      <4>1. Cardinality(Movers(u)) <= moves[u] /\ moves' = moves
        BY <1>1 DEF QueueInv, Rounds, pastVars
      <4>2. /\ Cardinality(Movers(u))' = Cardinality(Movers(u)) - IF u = t THEN 1 ELSE 0
            /\ Cardinality(Movers(u))' \in Nat /\ Cardinality(Movers(u)) \in Nat
        BY <3>1, <3>2
      <4> QED BY <4>1, <4>2, <3>3
    <3>5. ASSUME NEW q \in Procs, job'[q].kind = "sleep",
                 job'[q].pc \in {"read", "lockfrom", "verify"}
          PROVE  job'[q].spins + Stale(q)' + Cardinality(Movers(job[q].tgt))' <= moves'[job'[q].tgt]
      <4> DEFINE u == job[q].tgt
      <4>1. job'[q] = job[q] /\ moves' = moves
        BY <1>1, <1>2, <2>2, <3>5 DEF At, SameKind, SameTask, SameFrom, SameTo, SameSpins, pastVars
      <4>2. u \in Tasks
        BY <4>1, <3>5, PInfo DEF JobShape
      <4>3. job[q].spins + Stale(q) + Cardinality(Movers(u)) <= moves[u]
        BY <4>1, <3>5 DEF QueueInv, Rounds
      <4>4. Movers(job[q].tgt)' = Movers(u) \ (IF u = t THEN {p} ELSE {})
        BY <1>1, <1>2, <2>2, <4>1 DEF Movers, At, SameKind, SameTask, SameFrom, SameTo, SameSpins, t
      <4>5. /\ Cardinality(Movers(job[q].tgt))' = Cardinality(Movers(u)) - IF u = t THEN 1 ELSE 0
            /\ Cardinality(Movers(job[q].tgt))' \in Nat /\ Cardinality(Movers(u)) \in Nat
        BY <4>4, <3>2
      <4>6. job[q].spins \in Nat /\ Stale(q) \in {0, 1} /\ Stale(q)' \in {0, 1}
        BY SpinsAssumption, PInfo, JobFields DEF Stale
      <4>7. u # t => Stale(q)' = Stale(q)
        BY <4>1, <4>2, <1>3 DEF Stale
      <4> QED BY <4>1, <4>2, <4>3, <4>5, <4>6, <4>7, <3>3
    <3> QED BY <3>4, <3>5 DEF Rounds
  <2> QED BY <2>1, <2>2
<1> QED BY <1>1, <1>4, <1>5, <1>6, <1>8, <1>9, <1>13, <1>14, <1>15, PastKeep DEF QueueInv

(* The links change on one queue and for one task: the other rings do not   *)
(* notice.                                                                  *)
LEMMA OtherRings ==
  ASSUME QueueInv, NEW c \in CPU, NEW t \in Tasks, \A d \in CPU : d # c => t \notin Linked(d),
         \A d \in CPU : d # c => Linked(d)' = Linked(d) /\ rq_head'[d] = rq_head[d]
                                 /\ rq_count'[d] = rq_count[d],
         \A x \in Tasks : x # t /\ x \notin Linked(c) =>
           rq_next'[x] = rq_next[x] /\ rq_prev'[x] = rq_prev[x],
         Linked(c)' = {} => rq_head'[c] = Nil, Linked(c)' # {} => rq_head'[c] \in Linked(c)',
         IsRing(Linked(c)', rq_next', rq_prev'), rq_count'[c] = Cardinality(Linked(c)')
  PROVE  Rings'
<1> SUFFICES ASSUME NEW d \in CPU
             PROVE  /\ Linked(d)' = {} => rq_head'[d] = Nil
                    /\ Linked(d)' # {} => rq_head'[d] \in Linked(d)'
                    /\ IsRing(Linked(d)', rq_next', rq_prev')
                    /\ rq_count'[d] = Cardinality(Linked(d)')
  BY DEF Rings
<1>1. CASE d = c
  BY <1>1
<1>2. CASE d # c
  <2>1. /\ Linked(d) = {} => rq_head[d] = Nil
        /\ Linked(d) # {} => rq_head[d] \in Linked(d)
        /\ IsRing(Linked(d), rq_next, rq_prev)
        /\ rq_count[d] = Cardinality(Linked(d))
    BY DEF QueueInv, Rings
  <2>2. \A x \in Linked(d) : x \in Tasks /\ x # t /\ x \notin Linked(c)
    BY <1>2 DEF Linked
  <2>3. IsRing(Linked(d), rq_next', rq_prev')
    BY <2>1, <2>2, SameRing
  <2>4. Linked(d)' = Linked(d) /\ rq_head'[d] = rq_head[d] /\ rq_count'[d] = rq_count[d]
    BY <1>2
  <2> QED BY <2>1, <2>3, <2>4
<1> QED BY <1>1, <1>2

(* The linked tasks of a queue can be counted.                              *)
LEMMA LinkedFinite ==
  ASSUME NEW c
  PROVE  Linked(c) \in SUBSET Tasks /\ IsFiniteSet(Linked(c))
<1>1. Linked(c) \in SUBSET Tasks
  BY DEF Linked
<1> QED BY <1>1, FiniteAssumption, FS_Subset

(* Everything but the rings, for a splice.                                  *)
LEMMA SpliceKeep ==
  ASSUME QueueInv, NEW p \in Procs, NEW l \in Pcs, At(p, l), SameKind(p) /\ SameTask(p)
         /\ SameFrom(p) /\ SameTo(p) /\ SameSpins(p),
         \/ job[p].pc = "link" /\ l = "unlock"
         \/ job[p].pc = "unlink" /\ l = "release",
         UNCHANGED <<lock, cpu_home, state, on_cpu, pastVars>>
  PROVE  LocksExact' /\ Hands' /\ OwnJobs' /\ Sweeping' /\ Gone' /\ Rounds' /\ GivesUpOnlyIfMoved'
<1>1. LocksExact'
  <2>1. JobShape(job'[p])
    BY PInfo, CpuFacts DEF JobShape, At, SameKind, SameTask, SameFrom, SameTo, SameSpins
  <2>2. \A c \in CPU : Holds(job'[p], c) <=> Holds(job[p], c)
    BY PInfo, CpuFacts DEF Holds, JobShape, At, SameKind, SameTask, SameFrom, SameTo, SameSpins
  <2> QED BY <2>1, <2>2, PInfo, LocksKeep DEF QueueInv
<1>2. Hands'
  BY DEF QueueInv, Hands, At, SameKind, SameTask, SameFrom, SameTo, SameSpins
<1>3. OwnJobs'
  <2>1. \A u \in Tasks : Own(p, u)' => Own(p, u)
    BY DEF Own, At, SameKind, SameTask, SameFrom, SameTo, SameSpins
  <2> QED BY <2>1, OwnKeep DEF QueueInv
<1>4. Sweeping'
  <2>1. job'[p].kind = "exit" => Swept(p)'
    <3> SUFFICES ASSUME job'[p].kind = "exit" PROVE Swept(p)'
      OBVIOUS
    <3>1. job[p].kind = "exit" /\ job[p].pc = "unlink"
      BY PInfo DEF JobShape, SameKind
    <3> QED BY <3>1, SweptKeep DEF QueueInv, Sweeping, At, SameKind, SameTask, SameFrom, SameTo,
               SameSpins
  <2> QED BY <2>1, SweepKeep DEF QueueInv
<1>5. Gone'
  <2>1. \A u \in Tasks : Own(p, u)' => Own(p, u)
    BY DEF Own, At, SameKind, SameTask, SameFrom, SameTo, SameSpins
  <2> QED BY <2>1, GoneKeep DEF QueueInv, TypeOK, pastVars
<1>6. Rounds'
  BY StaleSame, RoundsKeep DEF QueueInv, pastVars, InDetach, ToDetach, SameKind
<1> QED BY <1>1, <1>2, <1>3, <1>4, <1>5, <1>6, PastKeep

(* The splice into the ring.                                                *)
LEMMA LinkStep ==
  ASSUME QueueInv, NEW p \in Procs, Link(p)
  PROVE  QueueInv'
<1>1. PICK t, c : t = job[p].tgt /\ c = job[p].to
  OBVIOUS
<1>2. /\ "unlock" \in Pcs /\ job[p].pc = "link" /\ t \in Tasks /\ c \in CPU /\ cpu_home[t] = c
      /\ UNCHANGED <<lock, cpu_home, state, on_cpu, pastVars>> /\ SpliceIn(t, c)
  BY <1>1, PInfo DEF Pcs, Link, JobShape, QueueInv, Hands
<1>3. At(p, "unlock") /\ SameKind(p) /\ SameTask(p) /\ SameFrom(p) /\ SameTo(p) /\ SameSpins(p)
  BY <1>2, GotoView DEF QueueInv, Link
<1>4. /\ LocksExact' /\ Hands' /\ OwnJobs' /\ Sweeping' /\ Gone' /\ Rounds' /\ GivesUpOnlyIfMoved'
  BY <1>2, <1>3, SpliceKeep
<1>5. /\ t \notin Linked(c)
      /\ Linked(c)' = Linked(c) \cup {t}
      /\ \A d \in CPU : d # c => t \notin Linked(d) /\ Linked(d)' = Linked(d)
  <2>1. InHand(t)
    BY <1>1, <1>2 DEF InHand
  <2>2. ~InHand(t)'
    <3> SUFFICES ASSUME NEW q \in Procs, job'[q].tgt = t, job'[q].pc \in {"link", "release"}
                 PROVE  FALSE
      BY DEF InHand
    <3>1. q # p /\ job'[q] = job[q]
      BY <1>3 DEF At
    <3> QED BY <3>1, <1>1, <1>2, OneHand
  <2>3. \A u \in Tasks : u # t => (InHand(u)' <=> InHand(u))
    BY <1>1, <1>2, <1>3 DEF InHand, At, SameKind, SameTask, SameFrom, SameTo, SameSpins
  <2> QED BY <1>2, <2>1, <2>2, <2>3 DEF Linked
<1>6. /\ rq_next \in Links /\ rq_prev \in Links /\ rq_head \in [CPU -> Tasks \cup {Nil}]
      /\ rq_count \in [CPU -> 0 .. Cardinality(Tasks)]
  BY DEF QueueInv, TypeOK, Links
<1>7. /\ Linked(c) = {} => rq_head[c] = Nil
      /\ Linked(c) # {} => rq_head[c] \in Linked(c)
      /\ IsRing(Linked(c), rq_next, rq_prev)
      /\ rq_count[c] = Cardinality(Linked(c))
      /\ Linked(c) \in SUBSET Tasks /\ IsFiniteSet(Linked(c))
  BY <1>2, LinkedFinite DEF QueueInv, Rings
<1>8. /\ rq_count' = [rq_count EXCEPT ![c] = @ + 1]
      /\ rq_count'[c] = Cardinality(Linked(c)')
      /\ rq_count' \in [CPU -> 0 .. Cardinality(Tasks)]
  <2>1. rq_count' = [rq_count EXCEPT ![c] = @ + 1]
    BY <1>2 DEF SpliceIn
  <2>2. /\ IsFiniteSet(Linked(c) \cup {t})
        /\ Cardinality(Linked(c) \cup {t}) = Cardinality(Linked(c)) + 1
    BY <1>5, <1>7, FS_AddElement
  <2>3. rq_count'[c] = Cardinality(Linked(c)')
    BY <1>2, <1>5, <1>6, <1>7, <2>1, <2>2
  <2>4. Cardinality(Linked(c) \cup {t}) \in Nat
        /\ Cardinality(Linked(c) \cup {t}) <= Cardinality(Tasks)
        /\ Cardinality(Tasks) \in Nat
    <3>1. Linked(c) \cup {t} \in SUBSET Tasks
      BY <1>2, <1>7
    <3> QED BY <2>2, <3>1, FiniteAssumption, FS_Subset, FS_CardinalityType
  <2> QED BY <1>2, <1>5, <1>6, <2>1, <2>3, <2>4
<1>9. /\ rq_next' \in Links /\ rq_prev' \in Links /\ rq_head' \in [CPU -> Tasks \cup {Nil}]
      /\ \A d \in CPU : d # c => rq_head'[d] = rq_head[d] /\ rq_count'[d] = rq_count[d]
      /\ \A x \in Tasks : x # t /\ x \notin Linked(c) =>
             rq_next'[x] = rq_next[x] /\ rq_prev'[x] = rq_prev[x]
      /\ rq_head'[c] \in Linked(c)'
      /\ IsRing(Linked(c)', rq_next', rq_prev')
  <2>1. CASE rq_head[c] = Nil
    <3>1. Linked(c) = {}
      BY <1>7, <2>1, NilAssumption
    <3>2. /\ rq_head' = [rq_head EXCEPT ![c] = t]
          /\ rq_next' = [rq_next EXCEPT ![t] = t] /\ rq_prev' = [rq_prev EXCEPT ![t] = t]
      BY <1>2, <2>1 DEF SpliceIn
    <3>3. rq_next'[t] = t /\ rq_prev'[t] = t /\ rq_head'[c] = t
      BY <1>2, <1>6, <3>2 DEF Links
    <3>4. IsRing({t}, rq_next', rq_prev')
      BY <3>3, SingleRing
    <3>5. Linked(c)' = {t}
      BY <3>1, <1>5
    <3>6. /\ rq_next' \in Links /\ rq_prev' \in Links /\ rq_head' \in [CPU -> Tasks \cup {Nil}]
          /\ \A d \in CPU : d # c => rq_head'[d] = rq_head[d] /\ rq_count'[d] = rq_count[d]
          /\ \A x \in Tasks : x # t => rq_next'[x] = rq_next[x] /\ rq_prev'[x] = rq_prev[x]
      BY <1>2, <1>6, <1>8, <3>2 DEF Links
    <3> QED BY <3>3, <3>4, <3>5, <3>6
  <2>2. CASE rq_head[c] # Nil
    <3>1. PICK h, z : h = rq_head[c] /\ z = rq_prev[h]
      OBVIOUS
    <3>2. h \in Linked(c)
      BY <1>2, <1>6, <1>7, <2>2, <3>1
    <3>3. /\ rq_next' = [rq_next EXCEPT ![t] = h, ![z] = t]
          /\ rq_prev' = [rq_prev EXCEPT ![t] = z, ![h] = t] /\ rq_head' = rq_head
      BY <1>2, <2>2, <3>1 DEF SpliceIn
    <3>4. z \in Linked(c) /\ IsRing(Linked(c) \cup {t}, rq_next', rq_prev')
      BY <1>2, <1>5, <1>6, <1>7, <3>1, <3>2, <3>3, InsertRing
    <3>5. /\ rq_next' \in Links /\ rq_prev' \in Links /\ rq_head' \in [CPU -> Tasks \cup {Nil}]
          /\ \A d \in CPU : d # c => rq_head'[d] = rq_head[d] /\ rq_count'[d] = rq_count[d]
          /\ \A x \in Tasks : x # t /\ x \notin Linked(c) =>
                 rq_next'[x] = rq_next[x] /\ rq_prev'[x] = rq_prev[x]
      BY <1>2, <1>6, <1>7, <1>8, <3>2, <3>3, <3>4 DEF Links
    <3> QED BY <1>5, <3>1, <3>2, <3>3, <3>4, <3>5
  <2> QED BY <2>1, <2>2
<1>10. Rings'
  <2>1. /\ Linked(c)' = {} => rq_head'[c] = Nil
        /\ Linked(c)' # {} => rq_head'[c] \in Linked(c)'
    BY <1>9
  <2>2. rq_count'[c] = Cardinality(Linked(c)') /\ IsRing(Linked(c)', rq_next', rq_prev')
    BY <1>8, <1>9
  <2>3. \A d \in CPU : d # c => t \notin Linked(d)
    BY <1>5
  <2>4. \A d \in CPU : d # c => /\ Linked(d)' = Linked(d) /\ rq_head'[d] = rq_head[d]
                                /\ rq_count'[d] = rq_count[d]
    BY <1>5, <1>9
  <2>5. \A x \in Tasks : x # t /\ x \notin Linked(c) =>
          rq_next'[x] = rq_next[x] /\ rq_prev'[x] = rq_prev[x]
    BY <1>9
  <2>6. t \in Tasks /\ c \in CPU
    BY <1>2
  <2> QED BY <2>1, <2>2, <2>3, <2>4, <2>5, <2>6, OtherRings
<1>11. TypeOK'
  BY <1>2, <1>3, <1>8, <1>9 DEF QueueInv, TypeOK, At, pastVars, Links
<1> QED BY <1>4, <1>10, <1>11 DEF QueueInv

(* The splice out of the ring.                                              *)
LEMMA UnlinkStep ==
  ASSUME QueueInv, NEW p \in Procs, Unlink(p)
  PROVE  QueueInv'
<1>1. PICK t, c : t = job[p].tgt /\ c = job[p].from
  OBVIOUS
<1>2. /\ "release" \in Pcs /\ job[p].pc = "unlink" /\ t \in Tasks /\ c \in CPU /\ cpu_home[t] = c
      /\ UNCHANGED <<lock, cpu_home, state, on_cpu, pastVars>> /\ SpliceOut(t, c)
  BY <1>1, PInfo DEF Pcs, Unlink, JobShape, QueueInv, Hands
<1>3. At(p, "release") /\ SameKind(p) /\ SameTask(p) /\ SameFrom(p) /\ SameTo(p) /\ SameSpins(p)
  BY <1>2, GotoView DEF QueueInv, Unlink
<1>4. /\ LocksExact' /\ Hands' /\ OwnJobs' /\ Sweeping' /\ Gone' /\ Rounds' /\ GivesUpOnlyIfMoved'
  BY <1>2, <1>3, SpliceKeep
<1>5. /\ t \in Linked(c)
      /\ Linked(c)' = Linked(c) \ {t}
      /\ \A d \in CPU : d # c => t \notin Linked(d) /\ Linked(d)' = Linked(d)
  <2>1. ~InHand(t)
    BY <1>1, <1>2, OneHand DEF InHand
  <2>2. InHand(t)'
    BY <1>1, <1>3 DEF InHand, At, SameKind, SameTask, SameFrom, SameTo, SameSpins
  <2>3. \A u \in Tasks : u # t => (InHand(u)' <=> InHand(u))
    BY <1>1, <1>2, <1>3 DEF InHand, At, SameKind, SameTask, SameFrom, SameTo, SameSpins
  <2> QED BY <1>2, <2>1, <2>2, <2>3 DEF Linked
<1>6. /\ rq_next \in Links /\ rq_prev \in Links /\ rq_head \in [CPU -> Tasks \cup {Nil}]
      /\ rq_count \in [CPU -> 0 .. Cardinality(Tasks)]
  BY DEF QueueInv, TypeOK, Links
<1>7. /\ Linked(c) # {} => rq_head[c] \in Linked(c)
      /\ IsRing(Linked(c), rq_next, rq_prev)
      /\ rq_count[c] = Cardinality(Linked(c))
      /\ Linked(c) \in SUBSET Tasks /\ IsFiniteSet(Linked(c))
  BY <1>2, LinkedFinite DEF QueueInv, Rings
<1>8. PICK n, q : n = rq_next[t] /\ q = rq_prev[t]
  OBVIOUS
<1>9. n \in Linked(c) /\ q \in Linked(c) /\ n # Nil /\ n \in Tasks /\ q \in Tasks
  BY <1>5, <1>7, <1>8, NilAssumption DEF IsRing
<1>10. /\ rq_head' = IF rq_head[c] # t THEN rq_head
                     ELSE [rq_head EXCEPT ![c] = IF n = t THEN Nil ELSE n]
       /\ rq_next' = [rq_next EXCEPT ![q] = n, ![t] = Nil]
       /\ rq_prev' = [rq_prev EXCEPT ![n] = q, ![t] = Nil]
       /\ rq_count' = [rq_count EXCEPT ![c] = IF @ > 0 THEN @ - 1 ELSE @]
  BY <1>2, <1>8, <1>9 DEF SpliceOut
<1>11. /\ rq_count'[c] = Cardinality(Linked(c)')
       /\ rq_count' \in [CPU -> 0 .. Cardinality(Tasks)]
       /\ \A d \in CPU : d # c => rq_count'[d] = rq_count[d]
  <2>1. /\ IsFiniteSet(Linked(c) \ {t})
        /\ Cardinality(Linked(c) \ {t}) = Cardinality(Linked(c)) - 1
    BY <1>5, <1>7, FS_RemoveElement
  <2>2. Cardinality(Linked(c) \ {t}) \in Nat /\ Cardinality(Linked(c)) \in Nat
        /\ Cardinality(Tasks) \in Nat
    BY <2>1, <1>7, FiniteAssumption, FS_CardinalityType
  <2>3. rq_count[c] > 0 /\ rq_count[c] - 1 = Cardinality(Linked(c)')
        /\ rq_count[c] - 1 \in 0 .. Cardinality(Tasks)
    BY <1>2, <1>5, <1>6, <1>7, <2>1, <2>2
  <2> QED BY <1>2, <1>6, <1>10, <2>3
<1>12. /\ rq_next' \in Links /\ rq_prev' \in Links /\ rq_head' \in [CPU -> Tasks \cup {Nil}]
       /\ \A d \in CPU : d # c => rq_head'[d] = rq_head[d]
       /\ \A x \in Tasks : x # t /\ x \notin Linked(c) =>
              rq_next'[x] = rq_next[x] /\ rq_prev'[x] = rq_prev[x]
  BY <1>2, <1>6, <1>9, <1>10 DEF Links
<1>13. /\ Linked(c)' = {} => rq_head'[c] = Nil
       /\ Linked(c)' # {} => rq_head'[c] \in Linked(c)'
       /\ IsRing(Linked(c)', rq_next', rq_prev')
  <2>1. CASE Linked(c) = {t}
    <3>1. n = t /\ rq_head[c] = t
      BY <1>7, <1>9, <2>1
    <3>2. rq_head'[c] = Nil
      BY <1>2, <1>6, <1>10, <3>1
    <3>3. Linked(c)' = {}
      BY <1>5, <2>1
    <3> QED BY <3>2, <3>3, EmptyRing
  <2>2. CASE Linked(c) # {t}
    <3>1. /\ n \in Linked(c) \ {t} /\ q \in Linked(c) \ {t}
          /\ IsRing(Linked(c) \ {t}, [rq_next EXCEPT ![q] = n], [rq_prev EXCEPT ![n] = q])
      BY <1>5, <1>6, <1>7, <1>8, <2>2, RemoveRing
    <3>2. \A x \in Linked(c) \ {t} : /\ rq_next'[x] = [rq_next EXCEPT ![q] = n][x]
                                      /\ rq_prev'[x] = [rq_prev EXCEPT ![n] = q][x]
      BY <1>2, <1>6, <1>7, <1>9, <1>10 DEF Links
    <3>3. IsRing(Linked(c) \ {t}, rq_next', rq_prev')
      BY <3>1, <3>2, SameRing
    <3>4. rq_head'[c] \in Linked(c) \ {t}
      <4>1. rq_head[c] \in Linked(c)
        BY <1>5, <1>7
      <4> QED BY <4>1, <3>1, <1>2, <1>6, <1>10
    <3> QED BY <3>3, <3>4, <1>5
  <2> QED BY <2>1, <2>2
<1>14. Rings'
  BY <1>2, <1>5, <1>11, <1>12, <1>13, OtherRings
<1>15. TypeOK'
  BY <1>2, <1>3, <1>11, <1>12 DEF QueueInv, TypeOK, At, pastVars, Links
<1> QED BY <1>4, <1>14, <1>15 DEF QueueInv

-----------------------------------------------------------------------------
(* The scheduler around the queues: no job changes.                         *)

(* What a step that changes no job keeps.                                   *)
LEMMA JobsSame ==
  ASSUME QueueInv, UNCHANGED <<lock, cpu_home, state, job, pastVars>>
  PROVE  /\ LocksExact' /\ Sweeping' /\ Gone' /\ Rounds' /\ GivesUpOnlyIfMoved'
         /\ \A c \in CPU : Linked(c)' = Linked(c)
<1>1. LocksExact'
  BY DEF QueueInv, LocksExact
<1>2. \A t : Thieves(t)' = Thieves(t)
  BY DEF Thieves
<1>3. Sweeping'
  BY <1>2 DEF QueueInv, Sweeping, Swept, Thieves
<1>4. Gone'
  BY <1>2 DEF QueueInv, Gone, Own, pastVars
<1>5. Rounds'
  BY DEF QueueInv, Rounds, Movers, Stale, pastVars
<1>6. \A c \in CPU : Linked(c)' = Linked(c)
  BY DEF Linked, InHand
<1> QED BY <1>1, <1>3, <1>4, <1>5, <1>6, PastKeep

(* schedule() picks a task of the ring: no thief has it in hand.            *)
LEMMA DispatchStep ==
  ASSUME QueueInv, NEW c \in CPU, NEW t \in Tasks, Dispatch(c, t)
  PROVE  QueueInv'
<1>1. /\ LocksExact' /\ Sweeping' /\ Gone' /\ Rounds' /\ GivesUpOnlyIfMoved'
      /\ \A d \in CPU : Linked(d)' = Linked(d)
  BY JobsSame DEF Dispatch
<1>2. TypeOK'
  BY DEF QueueInv, TypeOK, Dispatch, ringVars, pastVars
<1>3. lock[c] = Nil /\ cpu_home[t] = c
  <2>1. lock[c] = Nil /\ t \in Ring(c)
    BY DEF Dispatch
  <2>2. \A q \in Procs : lock[c] # q
    BY <2>1, NilAssumption
  <2> QED BY <2>1, <2>2, RingAt DEF Home
<1>4. Hands'
  <2>1. ASSUME NEW p \in Procs, job[p].kind = "steal", job[p].pc \in {"unlink", "release"}
        PROVE  job[p].tgt # t
    <3>1. Holds(job[p], job[p].from) /\ cpu_home[job[p].tgt] = job[p].from
      BY <2>1 DEF Holds, QueueInv, Hands
    <3> QED BY <3>1, <1>3, PInfo, NilAssumption
  <2> QED BY <2>1 DEF QueueInv, Hands, Dispatch
<1>5. OwnJobs'
  BY DEF QueueInv, OwnJobs, Own, Dispatch
<1>6. Rings'
  BY <1>1, RingsSame DEF QueueInv, Dispatch
<1> QED BY <1>1, <1>2, <1>4, <1>5, <1>6 DEF QueueInv

(* A task leaves its CPU, in the middle of no job on itself.                *)
LEMMA LeaveStep ==
  ASSUME QueueInv, NEW t \in Tasks, Leave(t)
  PROVE  QueueInv'
<1>1. /\ LocksExact' /\ Sweeping' /\ Gone' /\ Rounds' /\ GivesUpOnlyIfMoved'
      /\ \A d \in CPU : Linked(d)' = Linked(d)
  BY JobsSame DEF Leave
<1>2. TypeOK'
  BY DEF QueueInv, TypeOK, Leave, ringVars, pastVars
<1>3. Hands'
  BY DEF QueueInv, Hands, Leave
<1>4. OwnJobs'
  BY DEF QueueInv, OwnJobs, Own, Leave
<1>5. Rings'
  BY <1>1, RingsSame DEF QueueInv, Leave
<1> QED BY <1>1, <1>2, <1>3, <1>4, <1>5 DEF QueueInv

(* A task goes to the tail of its ring: taken out and put back in one step. *)
LEMMA RotateStep ==
  ASSUME QueueInv, NEW c \in CPU, NEW t \in Tasks, Rotate(c, t)
  PROVE  QueueInv'
<1>1. /\ LocksExact' /\ Sweeping' /\ Gone' /\ Rounds' /\ GivesUpOnlyIfMoved'
      /\ \A d \in CPU : Linked(d)' = Linked(d)
  BY JobsSame DEF Rotate
<1>2. Hands' /\ OwnJobs'
  BY DEF QueueInv, Hands, OwnJobs, Own, Rotate
<1>3. /\ rq_next \in Links /\ rq_prev \in Links /\ rq_head \in [CPU -> Tasks \cup {Nil}]
      /\ cpu_home[t] = c /\ ~(rq_head[c] = t /\ rq_next[t] = t) /\ rq_count' = rq_count
  BY DEF QueueInv, TypeOK, Links, Rotate
<1>4. t \in Linked(c)
  <2>1. \A q \in Procs : lock[c] # q
    BY NilAssumption DEF Rotate
  <2> QED BY <2>1, <1>3, RingAt DEF Home
<1>5. /\ rq_head[c] \in Linked(c)
      /\ IsRing(Linked(c), rq_next, rq_prev)
      /\ rq_count[c] = Cardinality(Linked(c))
      /\ Linked(c) \in SUBSET Tasks
  BY <1>4, LinkedFinite DEF QueueInv, Rings
<1>6. Linked(c) # {t}
  BY <1>3, <1>5 DEF IsRing
<1>7. PICK n, q : n = rq_next[t] /\ q = rq_prev[t]
  OBVIOUS
<1>8. PICK next1, prev1 : next1 = [rq_next EXCEPT ![q] = n] /\ prev1 = [rq_prev EXCEPT ![n] = q]
  OBVIOUS
<1>9. /\ n \in Linked(c) \ {t} /\ q \in Linked(c) \ {t}
      /\ IsRing(Linked(c) \ {t}, next1, prev1)
  BY <1>3, <1>4, <1>5, <1>6, <1>7, <1>8, RemoveRing
<1>10. next1 \in Links /\ prev1 \in Links
  BY <1>3, <1>5, <1>8, <1>9 DEF Links
<1>11. PICK h, z : h = (IF rq_head[c] = t THEN n ELSE rq_head[c]) /\ z = prev1[h]
  OBVIOUS
<1>12. h \in Linked(c) \ {t}
  BY <1>5, <1>9, <1>11
<1>13. /\ rq_head' = [rq_head EXCEPT ![c] = h]
       /\ rq_next' = [next1 EXCEPT ![t] = h, ![z] = t]
       /\ rq_prev' = [prev1 EXCEPT ![t] = z, ![h] = t]
  BY <1>7, <1>8, <1>11 DEF Rotate
<1>14. z \in Linked(c) \ {t} /\ IsRing(Linked(c), rq_next', rq_prev')
  <2>1. Linked(c) \ {t} \in SUBSET Tasks /\ t \in Tasks \ (Linked(c) \ {t})
    BY <1>5
  <2>2. z \in Linked(c) \ {t} /\ IsRing((Linked(c) \ {t}) \cup {t}, rq_next', rq_prev')
    BY <1>9, <1>10, <1>11, <1>12, <1>13, <2>1, InsertRing
  <2>3. (Linked(c) \ {t}) \cup {t} = Linked(c)
    BY <1>4
  <2> QED BY <2>2, <2>3
<1>15. /\ rq_next' \in Links /\ rq_prev' \in Links /\ rq_head' \in [CPU -> Tasks \cup {Nil}]
       /\ \A d \in CPU : d # c => rq_head'[d] = rq_head[d]
       /\ rq_head'[c] = h
       /\ \A x \in Tasks : x # t /\ x \notin Linked(c) =>
              rq_next'[x] = next1[x] /\ rq_prev'[x] = prev1[x]
  BY <1>3, <1>5, <1>10, <1>12, <1>13, <1>14 DEF Links
<1>16. \A x \in Tasks : x # t /\ x \notin Linked(c) =>
         rq_next'[x] = rq_next[x] /\ rq_prev'[x] = rq_prev[x]
  BY <1>3, <1>8, <1>9, <1>15 DEF Links
<1>17. \A d \in CPU : d # c => t \notin Linked(d)
  BY <1>3 DEF Linked
<1>18. Rings'
  BY <1>1, <1>3, <1>5, <1>12, <1>14, <1>15, <1>16, <1>17, OtherRings
<1>19. TypeOK'
  BY <1>15 DEF QueueInv, TypeOK, Rotate, pastVars, Links
<1> QED BY <1>1, <1>2, <1>18, <1>19 DEF QueueInv

-----------------------------------------------------------------------------
(* New tasks, empty queues.                                                 *)
LEMMA QueueInit == Init => QueueInv
<1> SUFFICES ASSUME Init PROVE QueueInv
  OBVIOUS
<1>0. Cardinality(Tasks) \in Nat /\ 0 \in 0 .. Cardinality(Tasks) /\ 0 \in 0 .. MaxMoves
  BY FiniteAssumption, FS_CardinalityType, SpinsAssumption
<1>1. job = [p \in Procs |-> NoJob] /\ \A p \in Procs : job[p] = NoJob
  BY DEF Init
<1>2. NoJob.pc = "idle" /\ NoJob.kind = "none"
  BY DEF NoJob
<1>3. TypeOK
  <2>1. job \in [Procs -> Jobs]
    BY <1>1, NoJobType
  <2>2. /\ lock \in [CPU -> Procs \cup {Nil}] /\ rq_head \in [CPU -> Tasks \cup {Nil}]
        /\ rq_next \in [Tasks -> Tasks \cup {Nil}] /\ rq_prev \in [Tasks -> Tasks \cup {Nil}]
        /\ cpu_home \in [Tasks -> CPU \cup {NoCpu}]
        /\ state \in [Tasks -> {"runnable", "asleep", "dead"}]
    BY DEF Init
  <2>3. rq_count \in [CPU -> 0 .. Cardinality(Tasks)] /\ moves \in [Tasks -> 0 .. MaxMoves]
    BY <1>0 DEF Init
  <2>4. on_cpu = {} /\ gaveup = {} /\ swept = {}
    BY DEF Init
  <2> QED BY <2>1, <2>2, <2>3, <2>4 DEF TypeOK
<1>4. LocksExact
  <2>1. JobShape(NoJob)
    BY <1>2, CpuFacts DEF JobShape, NoJob
  <2>2. \A c \in CPU, p \in Procs : lock[c] # p
    BY NilAssumption DEF Init
  <2>3. \A c \in CPU : ~Holds(NoJob, c)
    BY <1>2 DEF Holds
  <2> QED BY <1>1, <2>1, <2>2, <2>3 DEF LocksExact
<1>5. Hands
  BY <1>1, <1>2 DEF Hands
<1>6. OwnJobs
  BY <1>1, <1>2 DEF OwnJobs, Own
<1>7. Rings
  <2>1. ASSUME NEW c \in CPU PROVE Linked(c) = {}
    BY CpuFacts DEF Linked, Init
  <2>2. \A c \in CPU : rq_head[c] = Nil /\ rq_count[c] = 0
    BY DEF Init
  <2> QED BY <2>1, <2>2, EmptyRing, FS_EmptySet DEF Rings
<1>8. Sweeping
  BY <1>1, <1>2 DEF Sweeping
<1>9. Gone
  BY DEF Gone, Init
<1>10. Rounds
  <2>1. ASSUME NEW t PROVE Movers(t) = {}
    BY <1>1, <1>2 DEF Movers
  <2>2. \A t \in Tasks : moves[t] = 0
    BY DEF Init
  <2> QED BY <2>1, <2>2, <1>1, <1>2, FS_EmptySet DEF Rounds
<1>11. GivesUpOnlyIfMoved
  BY DEF GivesUpOnlyIfMoved, Init
<1> QED BY <1>3, <1>4, <1>5, <1>6, <1>7, <1>8, <1>9, <1>10, <1>11 DEF QueueInv

(* Nothing happens.                                                         *)
LEMMA QueueStutter == QueueInv /\ UNCHANGED vars => QueueInv'
<1> SUFFICES ASSUME QueueInv, UNCHANGED vars PROVE QueueInv'
  OBVIOUS
<1>1. /\ LocksExact' /\ Sweeping' /\ Gone' /\ Rounds' /\ GivesUpOnlyIfMoved'
      /\ \A d \in CPU : Linked(d)' = Linked(d)
  BY JobsSame DEF vars
<1>2. TypeOK' /\ Hands' /\ OwnJobs'
  BY DEF QueueInv, TypeOK, Hands, OwnJobs, Own, vars, ringVars, pastVars
<1>3. Rings'
  BY <1>1, RingsSame DEF QueueInv, vars
<1> QED BY <1>1, <1>2, <1>3 DEF QueueInv

(* Every step of every context, and of the scheduler, keeps the invariant.  *)
LEMMA QueueStep == QueueInv /\ [Next]_vars => QueueInv'
<1> SUFFICES ASSUME QueueInv, [Next]_vars PROVE QueueInv'
  OBVIOUS
<1>1. CASE UNCHANGED vars
  BY <1>1, QueueStutter
<1>2. ASSUME NEW p \in Procs, Step(p) PROVE QueueInv'
  BY <1>2, LockFromStep, LockToStep, ClaimStep, LinkStep, UnlinkStep, ReleaseStep, ReadHomeStep,
     VerifyStep, RetryStep, NextQueueStep, UnlockStep, LockLowStep, LockHighStep, ChooseStep
     DEF Step
<1>3. ASSUME NEW p \in Procs, NEW t \in Tasks,
             Wake(p, t) \/ Sleep(p, t) \/ Exit(p, t) \/ SetAffinity(p, t)
      PROVE  QueueInv'
  BY <1>3, WakeStep, SleepStep, ExitStep, SetAffinityStep
<1>4. ASSUME NEW p \in Procs, NEW v \in CPU, NEW d \in CPU, Steal(p, v, d) PROVE QueueInv'
  BY <1>4, StealStep
<1>5. ASSUME NEW t \in Tasks, Leave(t) \/ \E c \in CPU : Dispatch(c, t) \/ Rotate(c, t)
      PROVE  QueueInv'
  BY <1>5, LeaveStep, DispatchStep, RotateStep
<1> QED BY <1>1, <1>2, <1>3, <1>4, <1>5 DEF Next

(* The invariant holds of every number of CPUs, tasks, contexts and moves.  *)
THEOREM QueueInvariance == Spec => []QueueInv
BY QueueInit, QueueStep, PTL DEF Spec

(* Every variable of the run queues keeps its type.                         *)
THEOREM QueueTypes == Spec => []TypeOK
<1>1. QueueInv => TypeOK
  BY DEF QueueInv
<1> QED BY <1>1, QueueInvariance, PTL

(* Whenever a queue's lock is free, its links make one ring of exactly the  *)
(* tasks whose cpu_home names it, and rq_count counts them.                 *)
THEOREM RingExactHolds == Spec => []RingExact
<1>1. QueueInv => RingExact
  <2> SUFFICES ASSUME QueueInv, NEW c \in CPU, lock[c] = Nil
               PROVE  /\ Ring(c) = {t \in Tasks : cpu_home[t] = c}
                      /\ Cardinality(Ring(c)) = rq_count[c]
                      /\ \A t \in Ring(c) : /\ rq_next[t] \in Ring(c) /\ rq_prev[t] \in Ring(c)
                                            /\ rq_prev[rq_next[t]] = t /\ rq_next[rq_prev[t]] = t
    BY DEF RingExact
  <2>1. \A q \in Procs : lock[c] # q
    BY NilAssumption
  <2>2. Ring(c) = Home(c) /\ Linked(c) = Home(c)
    BY <2>1, RingAt
  <2>3. IsRing(Linked(c), rq_next, rq_prev) /\ rq_count[c] = Cardinality(Linked(c))
    BY DEF QueueInv, Rings
  <2> QED BY <2>2, <2>3 DEF Home, IsRing
<1> QED BY <1>1, QueueInvariance, PTL

(* Two CPUs that steal from each other never wait in a circle, nor do any   *)
(* number: of the thieves that hold one lock and wait for the other, the    *)
(* one with the highest waits for somebody who is not such a thief.         *)
THEOREM NotAllWaitingHolds == Spec => []NotAllWaiting
<1>1. QueueInv => NotAllWaiting
  <2> DEFINE Blocked(p) == \/ job[p].pc = "lockfrom" /\ lock[job[p].from] # Nil
                           \/ job[p].pc = "lockto" /\ \A c \in CPU : lock[c] # Nil
                           \/ job[p].pc = "locklo" /\ lock[Low(p)] # Nil
                           \/ job[p].pc = "lockhi" /\ lock[High(p)] # Nil
             Waiting == {p \in Procs : job[p].pc = "lockhi"}
             Ranks == {NCPU - Low(p) : p \in Waiting}
  <2> SUFFICES ASSUME QueueInv, NEW p0 \in Procs, job[p0].pc # "idle",
                      \A p \in Procs : job[p].pc # "idle" => Blocked(p)
               PROVE  FALSE
    BY DEF NotAllWaiting
  <2>1. ASSUME NEW c \in CPU, lock[c] # Nil PROVE lock[c] \in Waiting /\ Holds(job[lock[c]], c)
    <3>1. lock[c] \in Procs
      BY <2>1 DEF QueueInv, TypeOK
    <3>2. Holds(job[lock[c]], c) /\ JobShape(job[lock[c]])
      BY <3>1, PInfo
    <3>3. job[lock[c]].pc \notin {"idle", "lockfrom", "lockto", "locklo"}
      BY <3>2, CpuFacts DEF Holds, JobShape
    <3> QED BY <3>1, <3>2, <3>3
  <2>2. ASSUME NEW p \in Procs, job[p].pc \in {"locklo", "lockhi"}
        PROVE  /\ Low(p) \in CPU /\ High(p) \in CPU /\ Low(p) < High(p)
               /\ job[p].pc = "lockhi" => \A c \in CPU : Holds(job[p], c) => c = Low(p)
    <3>1. job[p].kind = "steal" /\ job[p].from \in CPU /\ job[p].to \in CPU
          /\ job[p].from # job[p].to
      BY <2>2, PInfo DEF JobShape
    <3>2. job[p].from \in Nat /\ job[p].to \in Nat
      BY <3>1, CpuFacts
    <3>3. CASE job[p].from < job[p].to
      <4>1. Low(p) = job[p].from /\ High(p) = job[p].to
        BY <3>3 DEF Low, High
      <4> QED BY <2>2, <3>1, <3>3, <4>1 DEF Holds
    <3>4. CASE job[p].to < job[p].from
      <4>1. ~(job[p].from < job[p].to)
        BY <3>2, <3>4
      <4>2. Low(p) = job[p].to /\ High(p) = job[p].from
        BY <3>1, <4>1 DEF Low, High
      <4> QED BY <2>2, <3>1, <3>4, <4>1, <4>2 DEF Holds
    <3> QED BY <3>1, <3>2, <3>3, <3>4
  <2>3. Waiting # {}
    <3>1. Blocked(p0)
      OBVIOUS
    <3>2. CASE job[p0].pc = "lockfrom" /\ lock[job[p0].from] # Nil
      <4>1. job[p0].from \in CPU
        BY <3>2, PInfo DEF JobShape
      <4> QED BY <3>2, <4>1, <2>1
    <3>3. CASE job[p0].pc = "lockto" /\ \A c \in CPU : lock[c] # Nil
      BY <3>3, <2>1, CpuFacts
    <3>4. CASE job[p0].pc = "locklo" /\ lock[Low(p0)] # Nil
      BY <3>4, <2>1, <2>2
    <3>5. CASE job[p0].pc = "lockhi"
      BY <3>5
    <3> QED BY <3>1, <3>2, <3>3, <3>4, <3>5
  <2>4. Ranks \subseteq Nat /\ Ranks # {}
    <3>1. \A p \in Waiting : NCPU - Low(p) \in Nat
      BY <2>2, NCpuAssumption DEF CPU
    <3> QED BY <2>3, <3>1
  <2>5. PICK r \in Ranks : \A s \in Ranks : ~(<<s, r>> \in OpToRel(<, Nat))
    BY <2>4, NatLessThanWellFounded, WFMin
  <2>6. PICK p \in Waiting : r = NCPU - Low(p)
    BY <2>5
  <2>7. lock[High(p)] # Nil /\ High(p) \in CPU
    BY <2>2, <2>6
  <2>8. PICK q \in Waiting : Holds(job[q], High(p))
    BY <2>1, <2>7
  <2>9. Low(q) = High(p) /\ Low(p) < High(p) /\ Low(p) \in CPU /\ High(p) \in CPU
    BY <2>2, <2>6, <2>7, <2>8
  <2>10. NCPU - Low(q) \in Ranks /\ NCPU - Low(q) < r /\ r \in Nat /\ NCPU - Low(q) \in Nat
    <3>1. NCPU - Low(q) \in Ranks
      BY <2>8
    <3>2. Low(q) \in Nat /\ Low(p) \in Nat /\ Low(p) < Low(q) /\ NCPU \in Nat
      BY <2>9, CpuFacts, NCpuAssumption
    <3>3. NCPU - Low(q) < NCPU - Low(p)
      BY <3>2
    <3> HIDE DEF Ranks
    <3> QED BY <2>4, <2>6, <3>1, <3>3
  <2> QED BY <2>5, <2>10 DEF OpToRel
<1> QED BY <1>1, QueueInvariance, PTL

(* A task's own detach runs out of its rounds only if as many moves of the  *)
(* task were asked for: stealing alone never exhausts them.                 *)
THEOREM GivesUpHolds == Spec => []GivesUpOnlyIfMoved
<1>1. QueueInv => GivesUpOnlyIfMoved
  BY DEF QueueInv
<1> QED BY <1>1, QueueInvariance, PTL
-----------------------------------------------------------------------------
(* RunQueue implements QueueOwner.                                          *)

(* The view gives every task a queue or none.                               *)
LEMMA OwnerViewType == QueueInv => OwnerView \in [Tasks -> CPU \cup {NoCpu}]
<1> SUFFICES ASSUME QueueInv, NEW t \in Tasks, Thieves(t) # {}
             PROVE  job[OneOf(Thieves(t))].from \in CPU \cup {NoCpu}
  BY DEF OwnerView, QueueInv, TypeOK
<1>1. OneOf(Thieves(t)) \in Thieves(t)
  BY DEF OneOf
<1>2. OneOf(Thieves(t)) \in Procs
  BY <1>1 DEF Thieves
<1> QED BY <1>2, PInfo, JobFields

(* A task whose cpu_home and thieves do not change is seen where it was.    *)
LEMMA ViewKeep ==
  ASSUME NEW u \in Tasks, cpu_home'[u] = cpu_home[u], Thieves(u)' = Thieves(u),
         \A q \in Thieves(u) : job'[q] = job[q]
  PROVE  OwnerView'[u] = OwnerView[u]
<1>1. Thieves(u) # {} => OneOf(Thieves(u)) \in Thieves(u)
  BY DEF OneOf
<1>2. OwnerView[u] = IF cpu_home[u] = NoCpu /\ Thieves(u) # {} THEN job[OneOf(Thieves(u))].from
                     ELSE cpu_home[u]
  BY DEF OwnerView
<1>3. OwnerView'[u] = IF cpu_home'[u] = NoCpu /\ Thieves(u)' # {} THEN job'[OneOf(Thieves(u)')].from
                      ELSE cpu_home'[u]
  BY DEF OwnerView
<1> QED BY <1>1, <1>2, <1>3

(* Once swept, a task is nobody's.                                          *)
SweptIsNoOnes == \A t \in swept : OwnerView[t] = NoCpu

(* Gone says so, and that no thief has it in hand.                          *)
LEMMA SweptView == QueueInv => SweptIsNoOnes
BY DEF SweptIsNoOnes, QueueInv, TypeOK, Gone, OwnerView

(* A step that changes the view of one task at most is a step of QueueOwner. *)
LEMMA OwnerStep ==
  ASSUME QueueInv, QueueInv', swept' = swept, NEW t \in Tasks,
         \A u \in Tasks : u # t => OwnerView'[u] = OwnerView[u]
  PROVE  [Ownership!OwnerNext]_(Ownership!ovars)
<1>1. OwnerView \in [Tasks -> CPU \cup {NoCpu}]
  BY OwnerViewType
<1>2. OwnerView' \in [Tasks -> CPU \cup {NoCpu}]
  <2>1. QueueInv' => (OwnerView \in [Tasks -> CPU \cup {NoCpu}])'
    BY OwnerViewType, PTL
  <2> QED BY <2>1
<1>3. t \in swept => OwnerView'[t] = NoCpu
  <2>1. QueueInv' => SweptIsNoOnes'
    BY SweptView, PTL
  <2> QED BY <2>1 DEF SweptIsNoOnes
<1>4. OwnerView' = [OwnerView EXCEPT ![t] = OwnerView'[t]]
  BY <1>1, <1>2
<1>5. CASE OwnerView'[t] = OwnerView[t]
  <2>1. OwnerView' = OwnerView
    BY <1>1, <1>2, <1>5
  <2> QED BY <2>1 DEF Ownership!ovars
<1>6. CASE OwnerView'[t] # OwnerView[t]
  <2>1. CASE OwnerView'[t] = NoCpu
    BY <1>4, <1>6, <2>1 DEF Ownership!OwnerNext, Ownership!Remove
  <2>2. CASE OwnerView'[t] # NoCpu
    <3>1. OwnerView'[t] \in CPU /\ t \notin swept
      BY <1>2, <1>3, <2>2
    <3>2. CASE OwnerView[t] = NoCpu
      BY <1>4, <3>1, <3>2 DEF Ownership!OwnerNext, Ownership!Insert
    <3>3. CASE OwnerView[t] # NoCpu
      BY <1>4, <1>6, <3>1, <3>3 DEF Ownership!OwnerNext, Ownership!Move
    <3> QED BY <3>2, <3>3
  <2> QED BY <2>1, <2>2
<1> QED BY <1>5, <1>6

(* A step of a context that is no thief with a task in hand, before or      *)
(* after, and that leaves cpu_home alone, is not seen.                      *)
LEMMA UnseenStep ==
  ASSUME NEW p \in Procs, NEW l, At(p, l), cpu_home' = cpu_home, swept' = swept,
         ~(job[p].kind = "steal" /\ job[p].pc = "insert"),
         ~(job'[p].kind = "steal" /\ l = "insert")
  PROVE  [Ownership!OwnerNext]_(Ownership!ovars)
<1>1. ASSUME NEW u \in Tasks PROVE OwnerView'[u] = OwnerView[u]
  <2>1. Thieves(u)' = Thieves(u) /\ \A q \in Thieves(u) : job'[q] = job[q]
    BY DEF Thieves, At
  <2> QED BY <2>1, ViewKeep
<1>2. OwnerView' = OwnerView
  BY <1>1 DEF OwnerView
<1> QED BY <1>2 DEF Ownership!ovars

(* Nor is a step of the scheduler.                                          *)
LEMMA UnseenWorld ==
  ASSUME UNCHANGED <<cpu_home, job, swept>>
  PROVE  [Ownership!OwnerNext]_(Ownership!ovars)
<1>1. OwnerView' = OwnerView
  BY DEF OwnerView, Thieves
<1> QED BY <1>1 DEF Ownership!ovars

(* A claim is an Insert, or the end of a Move.                              *)
LEMMA SeenClaim ==
  ASSUME QueueInv, QueueInv', NEW p \in Procs, Claim(p)
  PROVE  [Ownership!OwnerNext]_(Ownership!ovars)
<1>1. PICK t : t = job[p].tgt
  OBVIOUS
<1>2. /\ "link" \in Pcs /\ "unlock" \in Pcs /\ job[p].pc = "insert" /\ t \in Tasks /\ swept' = swept
  BY <1>1, PInfo DEF Pcs, Claim, JobShape, pastVars
<1>3. PICK l \in Pcs : At(p, l) /\ SameTask(p) /\ l # "insert"
  BY <1>2, GotoView DEF Claim, QueueInv
<1>4. \A u \in Tasks : u # t => cpu_home'[u] = cpu_home[u]
  BY <1>1 DEF Claim, QueueInv, TypeOK
<1>5. ASSUME NEW u \in Tasks, u # t PROVE OwnerView'[u] = OwnerView[u]
  <2>1. Thieves(u)' = Thieves(u) /\ \A q \in Thieves(u) : job'[q] = job[q]
    BY <1>1, <1>3, <1>5 DEF Thieves, At, SameTask
  <2> QED BY <1>4, <1>5, <2>1, ViewKeep
<1> QED BY <1>2, <1>5, OwnerStep

(* A release is a Remove, or nothing if it is a thief's.                    *)
LEMMA SeenRelease ==
  ASSUME QueueInv, QueueInv', NEW p \in Procs, Release(p)
  PROVE  [Ownership!OwnerNext]_(Ownership!ovars)
<1>1. PICK t : t = job[p].tgt
  OBVIOUS
<1>2. /\ "insert" \in Pcs /\ "unlock" \in Pcs /\ job[p].pc = "release" /\ t \in Tasks
           /\ swept' = swept
  BY <1>1, PInfo DEF Pcs, Release, JobShape, pastVars
<1>3. PICK l \in Pcs : At(p, l) /\ SameTask(p)
  BY <1>2, GotoView DEF Release, QueueInv
<1>4. \A u \in Tasks : u # t => cpu_home'[u] = cpu_home[u]
  BY <1>1 DEF Release, QueueInv, TypeOK
<1>5. ASSUME NEW u \in Tasks, u # t PROVE OwnerView'[u] = OwnerView[u]
  <2>1. Thieves(u)' = Thieves(u) /\ \A q \in Thieves(u) : job'[q] = job[q]
    BY <1>1, <1>3, <1>5 DEF Thieves, At, SameTask
  <2> QED BY <1>4, <1>5, <2>1, ViewKeep
<1> QED BY <1>2, <1>5, OwnerStep

(* The last queue of an exit's sweep: the task is retired.                  *)
LEMMA SeenSweep ==
  ASSUME QueueInv, QueueInv', NEW p \in Procs, NextQueue(p)
  PROVE  [Ownership!OwnerNext]_(Ownership!ovars)
<1>1. job[p].kind = "exit" /\ job[p].from \in CPU /\ cpu_home' = cpu_home
      /\ job[p].pc \in {"unlock", "verify"}
  BY Passed DEF NextQueue
<1>2. CASE job[p].from + 1 < NCPU
  <2>1. job[p].from + 1 \in CPU
    BY <1>1, <1>2, CpuFacts
  <2>2. At(p, "lockfrom") /\ swept' = swept
    BY <1>2, <2>1, FromView DEF NextQueue, QueueInv
  <2> QED BY <1>1, <2>2, UnseenStep
<1>3. CASE ~(job[p].from + 1 < NCPU)
  <2>1. PICK t : t = job[p].tgt
    OBVIOUS
  <2>2. At(p, "idle") /\ swept' = swept \cup {t} /\ t \in Tasks
    BY <1>3, <2>1, DoneView, Passed DEF NextQueue, QueueInv
  <2>3. OwnerView' = OwnerView
    <3>1. ASSUME NEW u \in Tasks PROVE OwnerView'[u] = OwnerView[u]
      <4>1. Thieves(u)' = Thieves(u) /\ \A q \in Thieves(u) : job'[q] = job[q]
        BY <1>1, <2>2 DEF Thieves, At
      <4> QED BY <1>1, <4>1, ViewKeep
    <3> QED BY <3>1 DEF OwnerView
  <2>4. OwnerView[t] = NoCpu
    <3>1. QueueInv' => SweptIsNoOnes'
      BY SweptView, PTL
    <3> QED BY <2>2, <2>3, <3>1 DEF SweptIsNoOnes
  <2>5. t \notin swept
    <3>1. Own(p, t)
      BY <1>1, <2>1 DEF Own, OwnKinds
    <3> QED BY <3>1 DEF QueueInv, Gone
  <2> QED BY <2>2, <2>3, <2>4, <2>5 DEF Ownership!OwnerNext, Ownership!Retire
<1> QED BY <1>2, <1>3

(* The steps of a context that no one sees from outside the locks.          *)
LEMMA UnseenJob ==
  ASSUME QueueInv, NEW p \in Procs,
         \/ LockFrom(p) \/ LockTo(p) \/ Link(p) \/ Unlink(p) \/ ReadHome(p) \/ Verify(p)
         \/ Retry(p) \/ Unlock(p) \/ LockLow(p) \/ LockHigh(p) \/ Choose(p)
  PROVE  [Ownership!OwnerNext]_(Ownership!ovars)
<1>0. TypeOK /\ JobShape(job[p])
  BY PInfo DEF QueueInv
<1>1. /\ "verify" \in Pcs /\ "unlock" \in Pcs /\ "release" \in Pcs /\ "unlink" \in Pcs
      /\ "lockhi" \in Pcs /\ "choose" \in Pcs
  BY DEF Pcs
<1>2. cpu_home' = cpu_home /\ swept' = swept
  BY DEF LockFrom, LockTo, Link, Unlink, ReadHome, Verify, Retry, Unlock, LockLow, LockHigh,
         Choose, pastVars
<1>3. job[p].pc # "insert"
  BY DEF LockFrom, LockTo, Link, Unlink, ReadHome, Verify, Retry, Unlock, LockLow, LockHigh, Choose
<1>4. CASE LockFrom(p)
  <2>1. At(p, "verify")
    BY <1>0, <1>1, <1>4, GotoView DEF LockFrom
  <2> QED BY <1>2, <1>3, <2>1, UnseenStep
<1>5. CASE LockTo(p)
  <2>1. At(p, "insert") /\ SameKind(p) /\ job[p].pc = "lockto"
    BY <1>0, <1>5, ToView DEF LockTo
  <2>2. job'[p].kind # "steal"
    BY <1>0, <2>1 DEF JobShape, SameKind
  <2> QED BY <1>2, <1>3, <2>1, <2>2, UnseenStep
<1>6. CASE Link(p)
  <2>1. At(p, "unlock")
    BY <1>0, <1>1, <1>6, GotoView DEF Link
  <2> QED BY <1>2, <1>3, <2>1, UnseenStep
<1>7. CASE Unlink(p)
  <2>1. At(p, "release")
    BY <1>0, <1>1, <1>7, GotoView DEF Unlink
  <2> QED BY <1>2, <1>3, <2>1, UnseenStep
<1>8. ASSUME AfterDetach(p) PROVE [Ownership!OwnerNext]_(Ownership!ovars)
  <2>1. At(p, "idle") \/ At(p, "lockto")
    BY <1>0, <1>8, AfterView
  <2> QED BY <1>2, <1>3, <2>1, UnseenStep
<1>9. CASE ReadHome(p)
  <2>1. CASE cpu_home[job[p].tgt] = NoCpu
    BY <1>8, <1>9, <2>1 DEF ReadHome
  <2>2. CASE cpu_home[job[p].tgt] # NoCpu
    <3>1. job[p].tgt \in Tasks /\ cpu_home[job[p].tgt] \in CPU
      BY <1>0, <1>9, <2>2 DEF ReadHome, JobShape, TypeOK
    <3>2. At(p, "lockfrom")
      BY <1>0, <1>9, <2>2, <3>1, FromView DEF ReadHome
    <3> QED BY <1>2, <1>3, <3>2, UnseenStep
  <2> QED BY <2>1, <2>2
<1>10. CASE Verify(p)
  <2>1. At(p, "unlink")
    BY <1>0, <1>1, <1>10, GotoView DEF Verify
  <2> QED BY <1>2, <1>3, <2>1, UnseenStep
<1>11. CASE Retry(p)
  <2>1. CASE job[p].spins + 1 < MaxSpins
    <3>1. At(p, "read")
      BY <1>0, <1>11, <2>1, SpinView DEF Retry
    <3> QED BY <1>2, <1>3, <3>1, UnseenStep
  <2>2. CASE ~(job[p].spins + 1 < MaxSpins)
    BY <1>8, <1>11, <2>2 DEF Retry
  <2> QED BY <2>1, <2>2
<1>12. CASE Unlock(p)
  <2>1. CASE job[p].to = NoCpu
    BY <1>8, <1>12, <2>1 DEF Unlock
  <2>2. CASE job[p].to # NoCpu
    <3>1. At(p, "idle")
      BY <1>0, <1>12, <2>2, DoneView DEF Unlock
    <3> QED BY <1>2, <1>3, <3>1, UnseenStep
  <2> QED BY <2>1, <2>2
<1>13. CASE LockLow(p)
  <2>1. At(p, "lockhi")
    BY <1>0, <1>1, <1>13, GotoView DEF LockLow
  <2> QED BY <1>2, <1>3, <2>1, UnseenStep
<1>14. CASE LockHigh(p)
  <2>1. At(p, "choose")
    BY <1>0, <1>1, <1>14, GotoView DEF LockHigh
  <2> QED BY <1>2, <1>3, <2>1, UnseenStep
<1>15. CASE Choose(p)
  <2>1. CASE Goto(p, "unlock")
    <3>1. At(p, "unlock")
      BY <1>0, <1>1, <2>1, GotoView
    <3> QED BY <1>2, <1>3, <3>1, UnseenStep
  <2>2. CASE \E t \in Stealable(job[p].from) :
               job' = [job EXCEPT ![p].pc = "unlink", ![p].tgt = t]
    <3>1. PICK t \in Stealable(job[p].from) : job' = [job EXCEPT ![p].pc = "unlink", ![p].tgt = t]
      BY <2>2
    <3>2. job[p].from \in CPU /\ lock[job[p].from] = p /\ job[p].pc = "choose"
      <4>1. job[p].pc = "choose" /\ job[p].kind = "steal" /\ job[p].from \in CPU
        BY <1>0, <1>15 DEF Choose, JobShape
      <4>2. Holds(job[p], job[p].from)
        BY <4>1 DEF Holds
      <4> QED BY <4>1, <4>2, PInfo
    <3>3. t \in Ring(job[p].from)
      BY <3>1 DEF Stealable
    <3>4. t \in Tasks
      BY <3>2, <3>3, RingAt DEF Home
    <3>5. At(p, "unlink")
      BY <1>0, <3>1, <3>4, TaskView
    <3> QED BY <1>2, <1>3, <3>5, UnseenStep
  <2> QED BY <1>15, <2>1, <2>2 DEF Choose
<1> QED BY <1>4, <1>5, <1>6, <1>7, <1>9, <1>10, <1>11, <1>12, <1>13, <1>14, <1>15

(* Nor is the start of a job.                                               *)
LEMMA UnseenStart ==
  ASSUME QueueInv, NEW p \in Procs,
         \/ \E t \in Tasks : Wake(p, t) \/ Sleep(p, t) \/ Exit(p, t) \/ SetAffinity(p, t)
         \/ \E v, d \in CPU : Steal(p, v, d)
  PROVE  [Ownership!OwnerNext]_(Ownership!ovars)
<1>0. /\ TypeOK /\ 0 \in CPU
      /\ "lockto" \in Pcs /\ "read" \in Pcs /\ "lockfrom" \in Pcs /\ "locklo" \in Pcs
      /\ {"wake", "sleep", "exit", "move", "steal"} \subseteq Kinds
  BY CpuFacts DEF QueueInv, Pcs, Kinds
<1>1. cpu_home' = cpu_home /\ swept' = swept
  BY DEF Wake, Sleep, Exit, SetAffinity, Steal, pastVars
<1>2. PICK l \in Pcs : At(p, l) /\ job[p].kind = "none" /\ l # "insert"
  <2>1. ASSUME NEW t \in Tasks, Wake(p, t) \/ Sleep(p, t) \/ Exit(p, t) \/ SetAffinity(p, t)
        PROVE  \E l \in Pcs : At(p, l) /\ job[p].kind = "none" /\ l # "insert"
    <3>1. CASE Wake(p, t)
      <4>1. At(p, "lockto") /\ job[p].kind = "none"
        BY <1>0, <3>1, StartView DEF Wake
      <4> QED BY <1>0, <4>1
    <3>2. CASE Sleep(p, t)
      <4>1. At(p, "read") /\ job[p].kind = "none"
        BY <1>0, <3>2, StartView DEF Sleep
      <4> QED BY <1>0, <4>1
    <3>3. CASE Exit(p, t)
      <4>1. At(p, "lockfrom") /\ job[p].kind = "none"
        BY <1>0, <3>3, StartView DEF Exit
      <4> QED BY <1>0, <4>1
    <3>4. CASE SetAffinity(p, t)
      <4>1. At(p, "read") /\ job[p].kind = "none"
        BY <1>0, <3>4, StartView DEF SetAffinity
      <4> QED BY <1>0, <4>1
    <3> QED BY <2>1, <3>1, <3>2, <3>3, <3>4
  <2>2. ASSUME NEW v \in CPU, NEW d \in CPU, Steal(p, v, d)
        PROVE  \E l \in Pcs : At(p, l) /\ job[p].kind = "none" /\ l # "insert"
    <3>1. At(p, "locklo") /\ job[p].kind = "none"
      BY <1>0, <2>2, StartView DEF Steal
    <3> QED BY <1>0, <3>1
  <2> QED BY <2>1, <2>2
<1> QED BY <1>1, <1>2, UnseenStep

(* Every step of RunQueue is one of QueueOwner or none.                     *)
LEMMA OwnerRefines ==
  ASSUME QueueInv, QueueInv', [Next]_vars
  PROVE  [Ownership!OwnerNext]_(Ownership!ovars)
<1>1. CASE UNCHANGED vars
  BY <1>1, UnseenWorld DEF vars, pastVars
<1>2. ASSUME NEW p \in Procs, Step(p) PROVE [Ownership!OwnerNext]_(Ownership!ovars)
  BY <1>2, UnseenJob, SeenClaim, SeenRelease, SeenSweep DEF Step
<1>3. ASSUME NEW p \in Procs, NEW t \in Tasks,
             Wake(p, t) \/ Sleep(p, t) \/ Exit(p, t) \/ SetAffinity(p, t)
      PROVE  [Ownership!OwnerNext]_(Ownership!ovars)
  BY <1>3, UnseenStart
<1>4. ASSUME NEW p \in Procs, NEW v \in CPU, NEW d \in CPU, Steal(p, v, d)
      PROVE  [Ownership!OwnerNext]_(Ownership!ovars)
  BY <1>4, UnseenStart
<1>5. ASSUME NEW t \in Tasks, Leave(t) \/ \E c \in CPU : Dispatch(c, t) \/ Rotate(c, t)
      PROVE  [Ownership!OwnerNext]_(Ownership!ovars)
  <2>1. UNCHANGED <<cpu_home, job, swept>>
    BY <1>5 DEF Leave, Dispatch, Rotate, pastVars
  <2> QED BY <2>1, UnseenWorld
<1> QED BY <1>1, <1>2, <1>3, <1>4, <1>5 DEF Next

(* RunQueue starts as QueueOwner does.                                      *)
LEMMA OwnerInits == Init => Ownership!OwnerInit
<1> SUFFICES ASSUME Init PROVE Ownership!OwnerInit
  OBVIOUS
<1>1. \A t \in Tasks : Thieves(t) = {} /\ cpu_home[t] = NoCpu
  BY DEF Init, Thieves, NoJob
<1>2. OwnerView = [t \in Tasks |-> NoCpu]
  BY <1>1 DEF OwnerView
<1> QED BY <1>2 DEF Init, Ownership!OwnerInit

(* The queues with their locks, links and claims implement QueueOwner.      *)
THEOREM OwnershipRefined == Spec => OwnershipHolds
<1>1. QueueInv /\ QueueInv' /\ [Next]_vars => [Ownership!OwnerNext]_(Ownership!ovars)
  BY OwnerRefines
<1> QED BY <1>1, OwnerInits, QueueInvariance, PTL DEF Spec, OwnershipHolds, Ownership!OwnerSpec
=============================================================================
