-------------------------- MODULE AddressSpaceProof --------------------------
(* Proofs about AddressSpace, for any sets of tasks and spaces and any of   *)
(* the races.  The types hold of every behaviour.  As long as no space is   *)
(* handed to a task too busy to take it, or given up under a thread not yet *)
(* started, every space in use has exactly one task responsible for it and  *)
(* outlives its users; as long as no pinned owner is freed as well, the     *)
(* space under pressure eviction stays.                                     *)
EXTENDS AddressSpace, TLAPS

Booting(t) == st[t] \in {"held", "boot_mm", "boot_shared"}
Execing(t) == st[t] \in {"swapped", "pinwait", "handoff"}

(* What the fields of a task say at each point of its life.                 *)
Shape(t) ==
  /\ st[t] = "unborn" => mm[t] = None /\ ~user_task[t]
  /\ st[t] = "held" => mm[t] = None
  /\ st[t] \in {"boot_mm", "boot_shared"} => mm[t] = arg[t]
  /\ Booting(t) => mm_shared[t] /\ ~user_task[t] /\ arg[t] # None
  /\ st[t] \in {"user", "exec", "dead", "unlinked"} \/ Execing(t)
       => mm[t] # None /\ user_task[t]
  /\ Execing(t) => arg[t] # None /\ arg[t] # mm[t]
  /\ ~Booting(t) /\ ~Execing(t) => arg[t] = None
  /\ owned_old[t] => Execing(t) \/ st[t] = "exec"
  /\ st[t] = "exec" => (owned_old[t] <=> ~mm_shared[t])
  /\ st[t] \in {"pinwait", "handoff", "unlinked"} => ~mm_shared[t]
  /\ st[t] = "handoff" => owned_old[t]

(* A space is referred to only once it exists, and in use only while live.  *)
Reach(t) ==
  /\ mm[t] # None => space[mm[t]] # "unused"
  /\ arg[t] # None => space[arg[t]] # "unused"
  /\ (InRing(t) \/ st[t] = "unlinked") /\ mm[t] # None => space[mm[t]] = "live"
  /\ Booting(t) => space[arg[t]] = "live"
  /\ Execing(t) /\ owned_old[t] => space[arg[t]] = "live"

(* The task that will destroy a space or hand it on: its owner, a task that *)
(* has just installed it, or an execve that still has to pass it on.        *)
Answers(t, s) ==
  \/ Owns(t, s) /\ st[t] # "gone"
  \/ st[t] = "swapped" /\ mm[t] = s
  \/ arg[t] = s /\ owned_old[t]

Answered ==
  \A s \in Spaces :
    /\ \A t, u \in Tasks : Answers(t, s) /\ Answers(u, s) => t = u
    /\ space[s] = "live" => \E t \in Tasks : Answers(t, s)

(* Nobody else is left on a space its reaper is about to destroy.           *)
Alone(t) == Heirs(t, mm[t]) = {} /\ Started(mm[t])
ReapedAlone == \A t \in Tasks : st[t] = "unlinked" => Alone(t)

OwnInv ==
  /\ TypeOK
  /\ \A t \in Tasks : Shape(t)
  /\ \A t \in Tasks : Reach(t)
  /\ Answered
  /\ ReapedAlone

(* The pinned task answers for the space under eviction.                    *)
PinnedBy(t, s) ==
  \/ Owns(t, s) /\ st[t] # "gone"
  \/ st[t] \in {"swapped", "pinwait"} /\ arg[t] = s /\ owned_old[t]

PinInv ==
  /\ \A t \in Tasks : swap_busy[t] <=> \E v \in victim : v[1] = t
  /\ \A v \in victim : PinnedBy(v[1], v[2])

(* A task of the ring that is neither booting nor past execve's swap runs   *)
(* its program, is about to replace it, or is dead.                         *)
LEMMA RingPoints ==
  ASSUME TypeOK, NEW c \in Tasks, InRing(c), ~Booting(c), ~Execing(c)
  PROVE  st[c] \in {"user", "exec", "dead"}
BY DEF TypeOK, InRing, Booting, Execing

(* A clone is held: its space is only an argument, of a parent that stays.  *)
LEMMA proc_cloneStep ==
  ASSUME OwnInv, NEW p \in Tasks, NEW c \in Tasks, proc_clone(p, c)
  PROVE  OwnInv'
<1> USE SpaceAssumption DEF OwnInv, TypeOK, Shape, proc_clone, Goto
<1>1. TypeOK'
  BY DEF Reach
<1>2. ASSUME NEW u \in Tasks PROVE Shape(u)'
  BY DEF Booting, Execing
<1>3. ASSUME NEW u \in Tasks PROVE Reach(u)'
  BY DEF Reach, Booting, Execing, InRing
<1>4. ASSUME NEW x \in Spaces, NEW u \in Tasks, NEW v \in Tasks, Answers(u, x)', Answers(v, x)'
      PROVE  u = v
  BY <1>4 DEF Reach, Answered, Answers, Owns, Booting, Execing, InRing
<1>5. ASSUME NEW x \in Spaces, (space[x] = "live")'
      PROVE  \E u \in Tasks : Answers(u, x)'
  BY <1>5 DEF Reach, Answered, Answers, Owns, Booting, Execing, InRing
<1>6. ReapedAlone'
  BY DEF Reach, ReapedAlone, Alone, Heirs, Started, InRing, Booting
<1> QED BY <1>1, <1>2, <1>3, <1>4, <1>5, <1>6 DEF OwnInv, Answered

(* The new thread takes its space.                                          *)
LEMMA BootMmStep ==
  ASSUME OwnInv, NEW c \in Tasks, BootMm(c)
  PROVE  OwnInv'
<1> USE SpaceAssumption DEF OwnInv, TypeOK, Shape, BootMm, Goto
<1>1. TypeOK'
  BY DEF Reach
<1>2. ASSUME NEW u \in Tasks PROVE Shape(u)'
  BY DEF Booting, Execing
<1>3. ASSUME NEW u \in Tasks PROVE Reach(u)'
  BY DEF Reach, Booting, Execing, InRing
<1>4. ASSUME NEW x \in Spaces, NEW u \in Tasks, NEW v \in Tasks, Answers(u, x)', Answers(v, x)'
      PROVE  u = v
  BY <1>4 DEF Reach, Answered, Answers, Owns, Booting, Execing, InRing
<1>5. ASSUME NEW x \in Spaces, (space[x] = "live")'
      PROVE  \E u \in Tasks : Answers(u, x)'
  BY <1>5 DEF Reach, Answered, Answers, Owns, Booting, Execing, InRing
<1>6. ReapedAlone'
  BY DEF Reach, ReapedAlone, Alone, Heirs, Started, InRing, Booting
<1> QED BY <1>1, <1>2, <1>3, <1>4, <1>5, <1>6 DEF OwnInv, Answered

(* The new thread notes that it shares the space.                           *)
LEMMA BootSharedStep ==
  ASSUME OwnInv, NEW c \in Tasks, BootShared(c)
  PROVE  OwnInv'
<1> USE SpaceAssumption DEF OwnInv, TypeOK, Shape, BootShared, Goto
<1>1. TypeOK'
  BY DEF Reach
<1>2. ASSUME NEW u \in Tasks PROVE Shape(u)'
  BY DEF Booting, Execing
<1>3. ASSUME NEW u \in Tasks PROVE Reach(u)'
  BY DEF Reach, Booting, Execing, InRing
<1>4. ASSUME NEW x \in Spaces, NEW u \in Tasks, NEW v \in Tasks, Answers(u, x)', Answers(v, x)'
      PROVE  u = v
  BY <1>4 DEF Reach, Answered, Answers, Owns, Booting, Execing, InRing
<1>5. ASSUME NEW x \in Spaces, (space[x] = "live")'
      PROVE  \E u \in Tasks : Answers(u, x)'
  BY <1>5 DEF Reach, Answered, Answers, Owns, Booting, Execing, InRing
<1>6. ReapedAlone'
  BY DEF Reach, ReapedAlone, Alone, Heirs, Started, InRing, Booting
<1> QED BY <1>1, <1>2, <1>3, <1>4, <1>5, <1>6 DEF OwnInv, Answered

(* The new thread becomes a user task, and is one more heir of its space.   *)
LEMMA BootUserStep ==
  ASSUME OwnInv, NEW c \in Tasks, BootUser(c)
  PROVE  OwnInv'
<1> USE SpaceAssumption DEF OwnInv, TypeOK, Shape, BootUser, Goto
<1>1. TypeOK'
  BY DEF Reach
<1>2. ASSUME NEW u \in Tasks PROVE Shape(u)'
  BY DEF Booting, Execing
<1>3. ASSUME NEW u \in Tasks PROVE Reach(u)'
  BY DEF Reach, Booting, Execing, InRing
<1>4. ASSUME NEW x \in Spaces, NEW u \in Tasks, NEW v \in Tasks, Answers(u, x)', Answers(v, x)'
      PROVE  u = v
  BY <1>4 DEF Reach, Answered, Answers, Owns, Booting, Execing, InRing
<1>5. ASSUME NEW x \in Spaces, (space[x] = "live")'
      PROVE  \E u \in Tasks : Answers(u, x)'
  BY <1>5 DEF Reach, Answered, Answers, Owns, Booting, Execing, InRing
<1>6. ReapedAlone'
  BY DEF Reach, ReapedAlone, Alone, Heirs, Started, InRing, Booting
<1> QED BY <1>1, <1>2, <1>3, <1>4, <1>5, <1>6 DEF OwnInv, Answered

(* A task dies; its space is still its own.                                 *)
LEMMA exitStep ==
  ASSUME OwnInv, NEW t \in Tasks, exit(t)
  PROVE  OwnInv'
<1> USE SpaceAssumption DEF OwnInv, TypeOK, Shape, exit, Goto
<1>1. TypeOK'
  BY DEF Reach
<1>2. ASSUME NEW u \in Tasks PROVE Shape(u)'
  BY DEF Booting, Execing
<1>3. ASSUME NEW u \in Tasks PROVE Reach(u)'
  BY DEF Reach, Booting, Execing, InRing
<1>4. ASSUME NEW x \in Spaces, NEW u \in Tasks, NEW v \in Tasks, Answers(u, x)', Answers(v, x)'
      PROVE  u = v
  BY <1>4 DEF Reach, Answered, Answers, Owns, Booting, Execing, InRing
<1>5. ASSUME NEW x \in Spaces, (space[x] = "live")'
      PROVE  \E u \in Tasks : Answers(u, x)'
  BY <1>5 DEF Reach, Answered, Answers, Owns, Booting, Execing, InRing
<1>6. ReapedAlone'
  BY DEF Reach, ReapedAlone, Alone, Heirs, Started, InRing, Booting
<1> QED BY <1>1, <1>2, <1>3, <1>4, <1>5, <1>6 DEF OwnInv, Answered

(* The reaper passes the dead task's space to an heir, or takes it out of   *)
(* the ring alone.                                                          *)
LEMMA ReapUnlinkStep ==
  ASSUME ~HandsToBusy, ~DropsUnstarted, OwnInv, NEW t \in Tasks, ReapUnlink(t)
  PROVE  OwnInv'
<1> DEFINE S == mm[t]
           heirs == IF Owns(t, S) THEN Heirs(t, S) ELSE {}
<1>a. /\ st[t] = "dead"
      /\ st' = [st EXCEPT ![t] = IF Owns(t, S) /\ heirs = {} THEN "unlinked" ELSE "gone"]
      /\ heirs = {} => mm_shared' = mm_shared
      /\ heirs # {} => \E c \in heirs : mm_shared' = [mm_shared EXCEPT ![c] = FALSE]
      /\ UNCHANGED <<mm, user_task, arg, owned_old, kill_pending, swap_busy, space, victim>>
  BY DEF ReapUnlink, Goto
<1>b. S \in Spaces /\ S # None /\ user_task[t] /\ arg[t] = None /\ ~owned_old[t] /\ space[S] = "live"
  BY <1>a, SpaceAssumption DEF OwnInv, TypeOK, Shape, Reach, InRing, Booting,
     Execing
<1>g. st[t] = "dead" => (Owns(t, S) /\ heirs = {} => Started(S))
  <2>1. Owns(t, S) /\ heirs = {} => st'[t] = "unlinked"
    BY <1>a DEF OwnInv, TypeOK
  <2> QED BY <2>1 DEF DropsUnstarted
<1>c. ASSUME NEW c \in heirs, mm_shared' = [mm_shared EXCEPT ![c] = FALSE]
      PROVE  /\ Owns(t, S) /\ c \in Tasks /\ c # t /\ mm[c] = S
             /\ st[c] \in {"user", "dead"} /\ user_task[c] /\ arg[c] = None /\ ~owned_old[c]
  <2>1. Owns(t, S) /\ c \in Tasks /\ c # t /\ InRing(c) /\ mm[c] = S
    BY <1>a DEF Heirs
  <2>2. Answers(t, S)
    BY <1>a, <2>1 DEF Answers
  <2>3. ~Answers(c, S)
    BY <1>b, <2>1, <2>2 DEF OwnInv, Answered
  <2>4. st[c] \in {"exec", "boot_mm", "boot_shared"} => ~mm_shared[c]
    BY <1>c, <2>1 DEF HandsToBusy, OwnInv, TypeOK
  <2>5. ~Booting(c)
    BY <1>b, <2>1, <2>4, SpaceAssumption DEF OwnInv, Shape, Booting
  <2>6. ~Execing(c) /\ st[c] # "exec"
    BY <2>1, <2>3, <2>4, SpaceAssumption DEF OwnInv, TypeOK, Shape, Answers, Owns,
       Execing
  <2>7. st[c] \in {"user", "dead"}
    BY <2>1, <2>5, <2>6, RingPoints DEF OwnInv
  <2> QED BY <2>1, <2>5, <2>6, <2>7 DEF OwnInv, Shape
<1> HIDE DEF heirs, S
<1>1. TypeOK'
  BY <1>a, <1>b DEF OwnInv, TypeOK, S
<1>2. ASSUME NEW u \in Tasks PROVE Shape(u)'
  <2>1. CASE heirs = {}
    BY <1>a, <1>b, <2>1 DEF OwnInv, TypeOK, Shape, Booting, Execing, Owns, S
  <2>2. CASE heirs # {}
    <3>1. PICK c \in heirs : mm_shared' = [mm_shared EXCEPT ![c] = FALSE]
      BY <1>a, <2>2
    <3> QED BY <1>a, <1>b, <1>c, <2>2, <3>1 DEF OwnInv, TypeOK, Shape, Booting,
        Execing, S
  <2> QED BY <2>1, <2>2
<1>3. ASSUME NEW u \in Tasks PROVE Reach(u)'
  BY <1>a, SpaceAssumption DEF OwnInv, TypeOK, Shape, Reach, Booting, Execing,
     InRing
<1>4. ASSUME NEW x \in Spaces, NEW u \in Tasks, NEW v \in Tasks, Answers(u, x)', Answers(v, x)'
      PROVE  u = v
  <2>1. CASE heirs = {}
    <3>1. Answers(u, x) /\ Answers(v, x)
      BY <1>a, <1>b, <1>4, <2>1, SpaceAssumption DEF OwnInv, TypeOK, Answers,
         Owns, S
    <3> QED BY <3>1 DEF OwnInv, Answered
  <2>2. CASE heirs # {}
    <3>1. PICK c \in heirs : mm_shared' = [mm_shared EXCEPT ![c] = FALSE]
      BY <1>a, <2>2
    <3>2. ASSUME NEW w \in Tasks, Answers(w, x)'
          PROVE  w # t /\ ((w = c /\ x = S) \/ (w # c /\ Answers(w, x)))
      <4>1. st'[t] = "gone" /\ arg'[t] # x
        BY <1>a, <1>b, <2>2, SpaceAssumption DEF OwnInv, TypeOK
      <4>2. w # t
        BY <3>2, <4>1 DEF Answers
      <4>3. w = c => x = S
        <5>1. mm[c] = S /\ st[c] \in {"user", "dead"} /\ arg[c] = None
          BY <1>c, <3>1
        <5> QED BY <1>a, <3>2, <5>1, SpaceAssumption DEF Answers, Owns
      <4>4. w # c => /\ st'[w] = st[w] /\ (mm_shared'[w] <=> mm_shared[w])
                     /\ (user_task'[w] <=> user_task[w]) /\ mm'[w] = mm[w]
                     /\ arg'[w] = arg[w] /\ (owned_old'[w] <=> owned_old[w])
        BY <1>a, <3>1, <4>2 DEF OwnInv, TypeOK
      <4> QED BY <3>2, <4>2, <4>3, <4>4 DEF Answers, Owns
    <3>3. Answers(t, S)
      BY <1>a, <1>c, <3>1 DEF Answers
    <3> QED BY <1>b, <1>4, <3>2, <3>3 DEF OwnInv, Answered
  <2> QED BY <2>1, <2>2
<1>5. ASSUME NEW x \in Spaces, (space[x] = "live")'
      PROVE  \E u \in Tasks : Answers(u, x)'
  <2>1. PICK u \in Tasks : Answers(u, x)
    BY <1>a, <1>5 DEF OwnInv, Answered
  <2>2. CASE heirs = {}
    BY <1>a, <1>b, <2>1, <2>2, SpaceAssumption DEF OwnInv, TypeOK, Answers,
       Owns, S
  <2>3. CASE heirs # {}
    <3>1. PICK c \in heirs : mm_shared' = [mm_shared EXCEPT ![c] = FALSE]
      BY <1>a, <2>3
    <3>2. CASE u # t
      BY <1>a, <1>c, <2>1, <2>3, <3>1, <3>2, SpaceAssumption DEF OwnInv,
         TypeOK, Answers, Owns
    <3>3. CASE u = t
      <4>1. x = S
        BY <1>a, <1>b, <2>1, <3>3, SpaceAssumption DEF OwnInv, Shape, Answers,
           Owns, S
      <4> QED BY <1>a, <1>b, <1>c, <2>3, <3>1, <4>1 DEF OwnInv, TypeOK,
          Answers, Owns
    <3> QED BY <3>2, <3>3
  <2> QED BY <2>2, <2>3
<1>6. ReapedAlone'
  <2> SUFFICES ASSUME NEW u \in Tasks, (st[u] = "unlinked")' PROVE Alone(u)'
    BY DEF ReapedAlone
  <2>1. Alone(u)
    BY <1>a, <1>g DEF OwnInv, TypeOK, ReapedAlone, Alone, heirs, S
  <2>2. \A d \in Tasks : InRing(d)' => InRing(d)
    BY <1>a DEF OwnInv, TypeOK, InRing
  <2> QED BY <1>a, <2>1, <2>2 DEF OwnInv, TypeOK, Alone, Heirs, Started, InRing
<1> QED BY <1>1, <1>2, <1>3, <1>4, <1>5, <1>6 DEF OwnInv, Answered

(* The reaper destroys a space nobody is left on.                           *)
LEMMA ReapDestroyStep ==
  ASSUME OwnInv, NEW t \in Tasks, ReapDestroy(t)
  PROVE  OwnInv'
<1> DEFINE S == mm[t]
<1>a. /\ st[t] = "unlinked" /\ space' = [space EXCEPT ![S] = "destroyed"]
      /\ mm' = [mm EXCEPT ![t] = None] /\ st' = [st EXCEPT ![t] = "gone"]
      /\ UNCHANGED <<mm_shared, user_task, arg, owned_old, kill_pending, swap_busy, victim>>
  BY DEF ReapDestroy, Goto
<1>b. S \in Spaces /\ S # None /\ user_task[t] /\ arg[t] = None /\ ~owned_old[t] /\ Alone(t)
  BY <1>a, SpaceAssumption DEF OwnInv, TypeOK, Shape, ReapedAlone, Booting,
     Execing
<1>c. Answers(t, S)
  BY <1>a, <1>b DEF OwnInv, TypeOK, Shape, Answers, Owns
<1>d. ASSUME NEW u \in Tasks, u # t PROVE ~Answers(u, S)
  BY <1>b, <1>c, <1>d DEF OwnInv, Answered
<1> HIDE DEF S
<1>1. TypeOK'
  BY <1>a, <1>b DEF OwnInv, TypeOK
<1>2. ASSUME NEW u \in Tasks PROVE Shape(u)'
  BY <1>a, <1>b, SpaceAssumption DEF OwnInv, TypeOK, Shape, Booting, Execing
<1>3. ASSUME NEW u \in Tasks PROVE Reach(u)'
  <2>1. CASE u = t
    BY <1>a, <1>b, <2>1 DEF OwnInv, TypeOK, Reach, InRing, Booting, Execing
  <2>2. CASE u # t
    <3>1. (InRing(u) \/ st[u] = "unlinked") => mm[u] # S
      BY <1>b, <1>d, <2>2 DEF OwnInv, TypeOK, Shape, Answers, Owns, Alone,
         Heirs, S
    <3>2. Booting(u) => arg[u] # S
      BY <1>b DEF Alone, Started, Booting, S
    <3>3. owned_old[u] => arg[u] # S
      BY <1>d, <2>2 DEF Answers
    <3> QED BY <1>a, <1>b, <2>2, <3>1, <3>2, <3>3, SpaceAssumption DEF OwnInv,
        TypeOK, Reach, InRing, Booting, Execing
  <2> QED BY <2>1, <2>2
<1>4. ASSUME NEW x \in Spaces, NEW u \in Tasks, NEW v \in Tasks, Answers(u, x)', Answers(v, x)'
      PROVE  u = v
  <2>1. Answers(u, x) /\ Answers(v, x)
    BY <1>a, <1>b, <1>4, SpaceAssumption DEF OwnInv, TypeOK, Answers, Owns
  <2> QED BY <2>1 DEF OwnInv, Answered
<1>5. ASSUME NEW x \in Spaces, (space[x] = "live")'
      PROVE  \E u \in Tasks : Answers(u, x)'
  <2>1. x # S /\ space[x] = "live"
    BY <1>a, <1>b, <1>5 DEF OwnInv, TypeOK
  <2>2. PICK u \in Tasks : Answers(u, x)
    BY <2>1 DEF OwnInv, Answered
  <2>3. u # t
    BY <1>a, <1>b, <2>1, <2>2 DEF Answers, Owns, S
  <2> QED BY <1>a, <2>2, <2>3 DEF OwnInv, TypeOK, Answers, Owns
<1>6. ReapedAlone'
  BY <1>a, SpaceAssumption DEF OwnInv, TypeOK, Shape, Reach, ReapedAlone,
     Alone, Heirs, Started, InRing, Booting
<1> QED BY <1>1, <1>2, <1>3, <1>4, <1>5, <1>6 DEF OwnInv, Answered

(* An execve notes the space it will leave and whether it owned it.         *)
LEMMA ExecReadStep ==
  ASSUME OwnInv, NEW t \in Tasks, ExecRead(t)
  PROVE  OwnInv'
<1> USE SpaceAssumption DEF OwnInv, TypeOK, Shape, ExecRead, Goto
<1>1. TypeOK'
  BY DEF Reach
<1>2. ASSUME NEW u \in Tasks PROVE Shape(u)'
  BY DEF Booting, Execing
<1>3. ASSUME NEW u \in Tasks PROVE Reach(u)'
  BY DEF Reach, Booting, Execing, InRing
<1>4. ASSUME NEW x \in Spaces, NEW u \in Tasks, NEW v \in Tasks, Answers(u, x)', Answers(v, x)'
      PROVE  u = v
  BY <1>4 DEF Reach, Answered, Answers, Owns, Booting, Execing, InRing
<1>5. ASSUME NEW x \in Spaces, (space[x] = "live")'
      PROVE  \E u \in Tasks : Answers(u, x)'
  BY <1>5 DEF Reach, Answered, Answers, Owns, Booting, Execing, InRing
<1>6. ReapedAlone'
  BY DEF Reach, ReapedAlone, Alone, Heirs, Started, InRing, Booting
<1> QED BY <1>1, <1>2, <1>3, <1>4, <1>5, <1>6 DEF OwnInv, Answered

(* An execve installs its new space and answers for both.                   *)
LEMMA ExecSwapStep ==
  ASSUME OwnInv, NEW t \in Tasks, NEW s \in Spaces, ExecSwap(t, s)
  PROVE  OwnInv'
<1> USE SpaceAssumption DEF OwnInv, TypeOK, Shape, ExecSwap, Goto
<1>1. TypeOK'
  BY DEF Reach
<1>2. ASSUME NEW u \in Tasks PROVE Shape(u)'
  BY DEF Reach, Booting, Execing
<1>3. ASSUME NEW u \in Tasks PROVE Reach(u)'
  BY DEF Reach, Booting, Execing, InRing
<1>4. ASSUME NEW x \in Spaces, NEW u \in Tasks, NEW v \in Tasks, Answers(u, x)', Answers(v, x)'
      PROVE  u = v
  BY <1>4 DEF Reach, Answered, Answers, Owns, Booting, Execing, InRing
<1>5. ASSUME NEW x \in Spaces, (space[x] = "live")'
      PROVE  \E u \in Tasks : Answers(u, x)'
  BY <1>5 DEF Reach, Answered, Answers, Owns, Booting, Execing, InRing
<1>6. ReapedAlone'
  BY DEF Reach, ReapedAlone, Alone, Heirs, Started, InRing, Booting
<1> QED BY <1>1, <1>2, <1>3, <1>4, <1>5, <1>6 DEF OwnInv, Answered

(* The execve owns its new space.                                           *)
LEMMA ExecOwnStep ==
  ASSUME OwnInv, NEW t \in Tasks, ExecOwn(t)
  PROVE  OwnInv'
<1> USE SpaceAssumption DEF OwnInv, TypeOK, Shape, ExecOwn, Goto
<1>1. TypeOK'
  BY DEF Reach
<1>2. ASSUME NEW u \in Tasks PROVE Shape(u)'
  BY DEF Booting, Execing
<1>3. ASSUME NEW u \in Tasks PROVE Reach(u)'
  BY DEF Reach, Booting, Execing, InRing
<1>4. ASSUME NEW x \in Spaces, NEW u \in Tasks, NEW v \in Tasks, Answers(u, x)', Answers(v, x)'
      PROVE  u = v
  BY <1>4 DEF Reach, Answered, Answers, Owns, Booting, Execing, InRing
<1>5. ASSUME NEW x \in Spaces, (space[x] = "live")'
      PROVE  \E u \in Tasks : Answers(u, x)'
  BY <1>5 DEF Reach, Answered, Answers, Owns, Booting, Execing, InRing
<1>6. ReapedAlone'
  BY DEF Reach, ReapedAlone, Alone, Heirs, Started, InRing, Booting
<1> QED BY <1>1, <1>2, <1>3, <1>4, <1>5, <1>6 DEF OwnInv, Answered

(* The execve has told the siblings to stop.                                *)
LEMMA ExecKillStep ==
  ASSUME OwnInv, NEW t \in Tasks, ExecKill(t)
  PROVE  OwnInv'
<1> USE SpaceAssumption DEF OwnInv, TypeOK, Shape, ExecKill, Goto
<1>1. TypeOK'
  BY DEF Reach
<1>2. ASSUME NEW u \in Tasks PROVE Shape(u)'
  BY DEF Booting, Execing
<1>3. ASSUME NEW u \in Tasks PROVE Reach(u)'
  BY DEF Reach, Booting, Execing, InRing
<1>4. ASSUME NEW x \in Spaces, NEW u \in Tasks, NEW v \in Tasks, Answers(u, x)', Answers(v, x)'
      PROVE  u = v
  BY <1>4 DEF Reach, Answered, Answers, Owns, Booting, Execing, InRing
<1>5. ASSUME NEW x \in Spaces, (space[x] = "live")'
      PROVE  \E u \in Tasks : Answers(u, x)'
  BY <1>5 DEF Reach, Answered, Answers, Owns, Booting, Execing, InRing
<1>6. ReapedAlone'
  BY DEF Reach, ReapedAlone, Alone, Heirs, Started, InRing, Booting
<1> QED BY <1>1, <1>2, <1>3, <1>4, <1>5, <1>6 DEF OwnInv, Answered

(* The execve passes its old space to a sibling, or destroys it when none   *)
(* is left.                                                                 *)
LEMMA ExecHandoffStep ==
  ASSUME ~HandsToBusy, ~DropsUnstarted, OwnInv, NEW t \in Tasks, ExecHandoff(t)
  PROVE  OwnInv'
<1> DEFINE S == arg[t]
           heirs == {c \in Heirs(t, S) : user_task[c]}
<1>a. /\ st[t] = "handoff"
      /\ heirs = {} => space' = [space EXCEPT ![S] = "destroyed"] /\ UNCHANGED mm_shared
      /\ heirs # {} => /\ \E c \in heirs : mm_shared' = [mm_shared EXCEPT ![c] = FALSE]
                       /\ UNCHANGED space
      /\ arg' = [arg EXCEPT ![t] = None] /\ owned_old' = [owned_old EXCEPT ![t] = FALSE]
      /\ st' = [st EXCEPT ![t] = "user"]
      /\ UNCHANGED <<mm, user_task, kill_pending, swap_busy, victim>>
  BY DEF ExecHandoff, Goto
<1>b. /\ S \in Spaces /\ S # None /\ owned_old[t] /\ space[S] = "live"
      /\ user_task[t] /\ mm[t] # S /\ mm[t] \in Spaces /\ ~mm_shared[t]
  BY <1>a, SpaceAssumption DEF OwnInv, TypeOK, Shape, Reach, Execing
<1>c. Answers(t, S) /\ Answers(t, mm[t])
  BY <1>a, <1>b DEF Answers, Owns
<1>d. ASSUME NEW u \in Tasks, u # t PROVE ~Answers(u, S) /\ ~Answers(u, mm[t])
  BY <1>b, <1>c, <1>d DEF OwnInv, Answered
<1>e. ASSUME NEW c \in heirs, mm_shared' = [mm_shared EXCEPT ![c] = FALSE]
      PROVE  /\ c \in Tasks /\ c # t /\ mm[c] = S
             /\ st[c] \in {"user", "dead"} /\ user_task[c] /\ arg[c] = None /\ ~owned_old[c]
  <2>1. c \in Tasks /\ c # t /\ InRing(c) /\ mm[c] = S /\ user_task[c]
    BY <1>a DEF Heirs
  <2>2. ~Booting(c)
    BY <2>1 DEF OwnInv, Shape
  <2>3. st[c] = "exec" => ~mm_shared[c]
    BY <1>e, <2>1 DEF HandsToBusy, OwnInv, TypeOK
  <2>4. ~Execing(c) /\ st[c] # "exec"
    BY <1>d, <2>1, <2>3, SpaceAssumption DEF OwnInv, TypeOK, Shape, Answers, Owns,
       Execing
  <2>5. st[c] \in {"user", "dead"}
    BY <2>1, <2>2, <2>4, RingPoints DEF OwnInv
  <2> QED BY <2>1, <2>2, <2>4, <2>5 DEF OwnInv, Shape
<1>f. ASSUME heirs = {}, NEW u \in Tasks, InRing(u) \/ st[u] = "unlinked" \/ Booting(u)
      PROVE  mm[u] # S /\ (Booting(u) => arg[u] # S)
  <2>1. ASSUME NEW c \in Tasks, InRing(c), mm[c] = S PROVE ~user_task[c]
    BY <1>b, <1>f, <2>1 DEF Heirs
  <2>2. Booting(u) => arg[u] # S
    <3>1. space'[S] = "destroyed"
      BY <1>a, <1>b, <1>f DEF OwnInv, TypeOK
    <3> QED BY <3>1 DEF DropsUnstarted, Started, Booting
  <2>3. st[u] = "unlinked" => mm[u] # S
    BY <1>a, <1>d DEF OwnInv, Shape, Answers, Owns
  <2>4. InRing(u) /\ ~Booting(u) => user_task[u]
    BY RingPoints DEF OwnInv, Shape
  <2> QED BY <1>b, <1>f, <2>1, <2>2, <2>3, <2>4 DEF OwnInv, Shape, Booting
<1> HIDE DEF heirs, S
<1>1. TypeOK'
  <2>1. mm_shared' \in [Tasks -> BOOLEAN] /\ space' \in [Spaces -> {"unused", "live", "destroyed"}]
    BY <1>a, <1>b DEF OwnInv, TypeOK
  <2> QED BY <1>a, <2>1 DEF OwnInv, TypeOK
<1>2. ASSUME NEW u \in Tasks PROVE Shape(u)'
  <2>1. CASE heirs = {}
    BY <1>a, <1>b, <2>1 DEF OwnInv, TypeOK, Shape, Booting, Execing
  <2>2. CASE heirs # {}
    <3>1. PICK c \in heirs : mm_shared' = [mm_shared EXCEPT ![c] = FALSE]
      BY <1>a, <2>2
    <3> QED BY <1>a, <1>b, <1>e, <2>2, <3>1 DEF OwnInv, TypeOK, Shape, Booting,
        Execing
  <2> QED BY <2>1, <2>2
<1>3. ASSUME NEW u \in Tasks PROVE Reach(u)'
  <2>1. Execing(u) /\ owned_old[u] /\ u # t => arg[u] # S
    BY <1>d DEF Answers
  <2>2. CASE heirs = {}
    <3>1. /\ InRing(u) \/ st[u] = "unlinked" => mm[u] # S
          /\ Booting(u) => arg[u] # S
      BY <1>f, <2>2
    <3>2. /\ InRing(u)' => InRing(u)
          /\ Booting(u)' => Booting(u) /\ u # t
          /\ Execing(u)' => Execing(u) /\ u # t
      BY <1>a DEF OwnInv, TypeOK, InRing, Booting, Execing
    <3>3. mm' = mm /\ (st'[u] = "unlinked" => st[u] = "unlinked")
      BY <1>a DEF OwnInv, TypeOK
    <3>4. \A x \in Spaces : space'[x] = IF x = S THEN "destroyed" ELSE space[x]
      BY <1>a, <1>b, <2>2 DEF OwnInv, TypeOK
    <3>5. arg'[u] = IF u = t THEN None ELSE arg[u]
      BY <1>a DEF OwnInv, TypeOK
    <3>6. u # t => owned_old'[u] = owned_old[u]
      BY <1>a DEF OwnInv, TypeOK
    <3>7. Reach(u) /\ mm[u] \in Spaces \cup {None} /\ arg[u] \in Spaces \cup {None}
      BY DEF OwnInv, TypeOK
    <3> QED BY <2>1, <3>1, <3>2, <3>3, <3>4, <3>5, <3>6, <3>7, <1>b DEF
        OwnInv, Shape, Reach
  <2>3. CASE heirs # {}
    BY <1>a, <1>b, <2>3, SpaceAssumption DEF OwnInv, TypeOK, Reach, InRing,
       Booting, Execing
  <2> QED BY <2>2, <2>3
<1>4. ASSUME NEW x \in Spaces, NEW u \in Tasks, NEW v \in Tasks, Answers(u, x)', Answers(v, x)'
      PROVE  u = v
  <2>1. CASE heirs = {}
    <3>1. Answers(u, x) /\ Answers(v, x)
      BY <1>a, <1>b, <1>4, <2>1, SpaceAssumption DEF OwnInv, TypeOK, Answers,
         Owns
    <3> QED BY <3>1 DEF OwnInv, Answered
  <2>2. CASE heirs # {}
    <3>1. PICK c \in heirs : mm_shared' = [mm_shared EXCEPT ![c] = FALSE]
      BY <1>a, <2>2
    <3>2. ASSUME NEW w \in Tasks, Answers(w, x)'
          PROVE (w = c /\ x = S) \/ (Answers(w, x) /\ ~(w = t /\ x = S))
      <4>1. /\ c \in Tasks /\ c # t /\ mm[c] = S
            /\ st[c] \in {"user", "dead"} /\ arg[c] = None
        BY <1>e, <3>1
      <4> QED BY <1>a, <1>b, <3>1, <3>2, <4>1, SpaceAssumption DEF OwnInv, TypeOK,
          Answers, Owns
    <3> QED BY <1>b, <1>4, <1>c, <1>d, <3>2 DEF OwnInv, Answered
  <2> QED BY <2>1, <2>2
<1>5. ASSUME NEW x \in Spaces, (space[x] = "live")'
      PROVE  \E u \in Tasks : Answers(u, x)'
  <2>1. space[x] = "live"
    BY <1>a, <1>b, <1>5 DEF OwnInv, TypeOK
  <2>2. PICK u \in Tasks : Answers(u, x)
    BY <2>1 DEF OwnInv, Answered
  <2>3. CASE x # S
    BY <1>a, <1>b, <2>2, <2>3, SpaceAssumption DEF OwnInv, TypeOK, Answers,
       Owns, S
  <2>4. CASE x = S
    <3>1. heirs # {}
      BY <1>a, <1>b, <1>5, <2>4 DEF OwnInv, TypeOK
    <3>2. PICK c \in heirs : mm_shared' = [mm_shared EXCEPT ![c] = FALSE]
      BY <1>a, <3>1
    <3> QED BY <1>a, <1>b, <1>e, <2>4, <3>2 DEF OwnInv, TypeOK, Answers, Owns
  <2> QED BY <2>3, <2>4
<1>6. ReapedAlone'
  BY <1>a, SpaceAssumption DEF OwnInv, TypeOK, Shape, Reach, ReapedAlone,
     Alone, Heirs, Started, InRing, Booting
<1> QED BY <1>1, <1>2, <1>3, <1>4, <1>5, <1>6 DEF OwnInv, Answered

(* The evictor pins a task; no space changes hands.                         *)
LEMMA task_swap_pinStep ==
  ASSUME OwnInv, NEW t \in Tasks, task_swap_pin(t)
  PROVE  OwnInv'
<1> USE SpaceAssumption DEF OwnInv, TypeOK, Shape, task_swap_pin, Goto
<1>1. TypeOK'
  BY DEF Reach
<1>2. ASSUME NEW u \in Tasks PROVE Shape(u)'
  BY DEF Booting, Execing
<1>3. ASSUME NEW u \in Tasks PROVE Reach(u)'
  BY DEF Reach, Booting, Execing, InRing
<1>4. ASSUME NEW x \in Spaces, NEW u \in Tasks, NEW v \in Tasks, Answers(u, x)', Answers(v, x)'
      PROVE  u = v
  BY <1>4 DEF Reach, Answered, Answers, Owns, Booting, Execing, InRing
<1>5. ASSUME NEW x \in Spaces, (space[x] = "live")'
      PROVE  \E u \in Tasks : Answers(u, x)'
  BY <1>5 DEF Reach, Answered, Answers, Owns, Booting, Execing, InRing
<1>6. ReapedAlone'
  BY DEF Reach, ReapedAlone, Alone, Heirs, Started, InRing, Booting
<1> QED BY <1>1, <1>2, <1>3, <1>4, <1>5, <1>6 DEF OwnInv, Answered

(* The evictor lets go; no space changes hands.                             *)
LEMMA task_swap_releaseStep ==
  ASSUME OwnInv, task_swap_release
  PROVE  OwnInv'
<1> USE SpaceAssumption DEF OwnInv, TypeOK, Shape, task_swap_release, Goto
<1>1. TypeOK'
  BY DEF Reach
<1>2. ASSUME NEW u \in Tasks PROVE Shape(u)'
  BY DEF Booting, Execing
<1>3. ASSUME NEW u \in Tasks PROVE Reach(u)'
  BY DEF Reach, Booting, Execing, InRing
<1>4. ASSUME NEW x \in Spaces, NEW u \in Tasks, NEW v \in Tasks, Answers(u, x)', Answers(v, x)'
      PROVE  u = v
  BY <1>4 DEF Reach, Answered, Answers, Owns, Booting, Execing, InRing
<1>5. ASSUME NEW x \in Spaces, (space[x] = "live")'
      PROVE  \E u \in Tasks : Answers(u, x)'
  BY <1>5 DEF Reach, Answered, Answers, Owns, Booting, Execing, InRing
<1>6. ReapedAlone'
  BY DEF Reach, ReapedAlone, Alone, Heirs, Started, InRing, Booting
<1> QED BY <1>1, <1>2, <1>3, <1>4, <1>5, <1>6 DEF OwnInv, Answered

(* The first task owns the first space.                                     *)
LEMMA InitOwn ==
  ASSUME Init
  PROVE  OwnInv
<1>1. TypeOK
  BY SpaceAssumption DEF Init, TypeOK
<1>2. \A t \in Tasks : Shape(t)
  BY SpaceAssumption DEF Init, Shape, Booting, Execing
<1>3. \A t \in Tasks : Reach(t)
  BY SpaceAssumption DEF Init, Reach, InRing, Booting, Execing
<1>4. \A t \in Tasks, s \in Spaces : Answers(t, s) <=> t = Root /\ s = Home
  BY SpaceAssumption DEF Init, Answers, Owns
<1>5. Answered
  BY <1>4, SpaceAssumption DEF Init, Answered
<1>6. ReapedAlone
  BY DEF Init, ReapedAlone
<1> QED BY <1>1, <1>2, <1>3, <1>5, <1>6 DEF OwnInv

(* Every step keeps exactly one task responsible for every live space.      *)
LEMMA NextOwn ==
  ASSUME OwnInv, [Next]_vars, [~HandsToBusy /\ ~DropsUnstarted]_vars
  PROVE  OwnInv'
<1>1. CASE UNCHANGED vars
  <2>1. /\ TypeOK' /\ (\A t \in Tasks : Shape(t))' /\ (\A t \in Tasks : Reach(t))'
    BY <1>1 DEF vars, OwnInv, TypeOK, Shape, Reach, Booting, Execing, InRing
  <2>2. Answered' /\ ReapedAlone'
    BY <1>1 DEF vars, OwnInv, Answered, Answers, Owns, ReapedAlone,
       Alone, Heirs, Started, InRing, Booting
  <2> QED BY <2>1, <2>2 DEF OwnInv
<1>2. CASE Next /\ ~HandsToBusy /\ ~DropsUnstarted
  <2>1. ASSUME NEW t \in Tasks, Boot(t) \/ Reap(t) \/ exit(t) PROVE OwnInv'
    BY <1>2, <2>1, BootMmStep, BootSharedStep, BootUserStep, ReapUnlinkStep,
       ReapDestroyStep, exitStep
       DEF Boot, Reap
  <2>2. ASSUME NEW t \in Tasks, Exec(t) \/ ExecRead(t) PROVE OwnInv'
    BY <1>2, <2>2, ExecReadStep, ExecSwapStep, ExecOwnStep, ExecKillStep,
       ExecHandoffStep DEF Exec
  <2>3. ASSUME NEW t \in Tasks, task_swap_pin(t) \/ \E c \in Tasks : proc_clone(t, c)
        PROVE  OwnInv'
    BY <2>3, task_swap_pinStep, proc_cloneStep
  <2> QED BY <1>2, <2>1, <2>2, <2>3, task_swap_releaseStep DEF Next
<1> QED BY <1>1, <1>2

(* Every step keeps the types.                                              *)
LEMMA NextTypes ==
  ASSUME TypeOK, [Next]_vars
  PROVE  TypeOK'
<1> USE SpaceAssumption DEF TypeOK, Goto
<1>1. CASE UNCHANGED vars
  BY <1>1 DEF vars
<1>2. ASSUME NEW t \in Tasks, NEW c \in Tasks, proc_clone(t, c) PROVE TypeOK'
  BY <1>2 DEF proc_clone
<1>3. ASSUME NEW t \in Tasks, Boot(t) PROVE TypeOK'
  BY <1>3 DEF Boot, BootMm, BootShared, BootUser
<1>4. ASSUME NEW t \in Tasks, exit(t) PROVE TypeOK'
  BY <1>4 DEF exit
<1>5. ASSUME NEW t \in Tasks, ReapUnlink(t) PROVE TypeOK'
  BY <1>5 DEF ReapUnlink
<1>6. ASSUME NEW t \in Tasks, ReapDestroy(t) PROVE TypeOK'
  BY <1>6 DEF ReapDestroy
<1>7. ASSUME NEW t \in Tasks, ExecRead(t) PROVE TypeOK'
  BY <1>7 DEF ExecRead
<1>8. ASSUME NEW t \in Tasks, NEW s \in Spaces, ExecSwap(t, s) PROVE TypeOK'
  BY <1>8 DEF ExecSwap
<1>9. ASSUME NEW t \in Tasks, ExecOwn(t) \/ ExecKill(t) PROVE TypeOK'
  BY <1>9 DEF ExecOwn, ExecKill
<1>10. ASSUME NEW t \in Tasks, ExecHandoff(t) PROVE TypeOK'
  BY <1>10 DEF ExecHandoff
<1>11. ASSUME NEW t \in Tasks, task_swap_pin(t) PROVE TypeOK'
  BY <1>11 DEF task_swap_pin, Alive
<1>12. ASSUME task_swap_release PROVE TypeOK'
  BY <1>12 DEF task_swap_release
<1> QED BY <1>1, <1>2, <1>3, <1>4, <1>5, <1>6, <1>7, <1>8, <1>9, <1>10, <1>11, <1>12
        DEF Next, Exec, Reap

(* The fields of the tasks and the states of the spaces keep their types,   *)
(* and at most one space is under eviction, in every behaviour.             *)
THEOREM SpaceTypes == Spec => []TypeOK
<1>1. Init => TypeOK
  BY SpaceAssumption DEF Init, TypeOK
<1> QED BY <1>1, NextTypes, PTL DEF Spec

(* As long as task_reap and proc_execve hand a space only to a task that is *)
(* settled on it, and do not give it up under an unstarted thread, a space  *)
(* never has two owners, and has none only inside an execve.                *)
THEOREM OneOwnerHolds == Spec /\ NoEarlyHandover => []OneOwner
<1>1. OwnInv => OneOwner
  <2> SUFFICES ASSUME OwnInv, NEW s \in Spaces, space[s] = "live"
               PROVE  LET owners == {t \in Tasks : Owns(t, s) /\ st[t] # "gone"}
                      IN  /\ \A t, u \in owners : t = u
                          /\ PassingOn(s) => owners = {}
                          /\ owners = {} =>
                               PassingOn(s) \/ \E t \in Tasks : st[t] = "swapped" /\ mm[t] = s
    BY DEF OneOwner
  <2> DEFINE owners == {t \in Tasks : Owns(t, s) /\ st[t] # "gone"}
  <2>1. \A t \in owners : t \in Tasks /\ Answers(t, s) /\ mm[t] = s
    BY DEF Answers, Owns
  <2>2. \A t, u \in Tasks : Answers(t, s) /\ Answers(u, s) => t = u
    BY DEF OwnInv, Answered
  <2>3. PassingOn(s) => owners = {}
    <3> SUFFICES ASSUME NEW t \in Tasks, arg[t] = s, owned_old[t], NEW u \in owners PROVE FALSE
      BY DEF PassingOn
    <3>1. t = u
      BY <2>1, <2>2 DEF Answers
    <3> QED BY <2>1, <3>1, SpaceAssumption DEF OwnInv, Shape
  <2>4. owners = {} => PassingOn(s) \/ \E t \in Tasks : st[t] = "swapped" /\ mm[t] = s
    BY DEF OwnInv, Answered, Answers, PassingOn
  <2> QED BY <2>1, <2>2, <2>3, <2>4
<1> QED BY <1>1, InitOwn, NextOwn, PTL DEF Spec, NoEarlyHandover

(* Under the same condition no space is destroyed under a task of the ring  *)
(* that runs on it, or under a thread cloned onto it that has not run yet.  *)
THEOREM SpaceOutlivesUsersHolds == Spec /\ NoEarlyHandover => []SpaceOutlivesUsers
<1>1. OwnInv => SpaceOutlivesUsers
  BY DEF OwnInv, Reach, SpaceOutlivesUsers, Booting
<1> QED BY <1>1, InitOwn, NextOwn, PTL DEF Spec, NoEarlyHandover

(* A clone pins nothing and leaves the pinned task as it was.               *)
LEMMA proc_clonePin ==
  ASSUME OwnInv, PinInv, NEW p \in Tasks, NEW c \in Tasks, proc_clone(p, c)
  PROVE  PinInv'
<1>1. ASSUME NEW u \in Tasks PROVE (swap_busy[u] <=> \E v \in victim : v[1] = u)'
  BY DEF OwnInv, TypeOK, PinInv, proc_clone, Goto
<1>2. ASSUME NEW v \in victim' PROVE PinnedBy(v[1], v[2])'
  BY SpaceAssumption DEF OwnInv, TypeOK, PinInv, PinnedBy, Shape, Owns,
     Booting, Execing, proc_clone, Goto
<1> QED BY <1>1, <1>2 DEF PinInv

(* The new thread is not a pinned task.                                     *)
LEMMA BootMmPin ==
  ASSUME OwnInv, PinInv, NEW c \in Tasks, BootMm(c)
  PROVE  PinInv'
<1>1. ASSUME NEW u \in Tasks PROVE (swap_busy[u] <=> \E v \in victim : v[1] = u)'
  BY DEF OwnInv, TypeOK, PinInv, BootMm, Goto
<1>2. ASSUME NEW v \in victim' PROVE PinnedBy(v[1], v[2])'
  BY SpaceAssumption DEF OwnInv, TypeOK, PinInv, PinnedBy, Shape, Owns,
     Booting, Execing, BootMm, Goto
<1> QED BY <1>1, <1>2 DEF PinInv

(* The new thread is not a pinned task.                                     *)
LEMMA BootSharedPin ==
  ASSUME OwnInv, PinInv, NEW c \in Tasks, BootShared(c)
  PROVE  PinInv'
<1>1. ASSUME NEW u \in Tasks PROVE (swap_busy[u] <=> \E v \in victim : v[1] = u)'
  BY DEF OwnInv, TypeOK, PinInv, BootShared, Goto
<1>2. ASSUME NEW v \in victim' PROVE PinnedBy(v[1], v[2])'
  BY SpaceAssumption DEF OwnInv, TypeOK, PinInv, PinnedBy, Shape, Owns,
     Booting, Execing, BootShared, Goto
<1> QED BY <1>1, <1>2 DEF PinInv

(* The new thread is not a pinned task.                                     *)
LEMMA BootUserPin ==
  ASSUME OwnInv, PinInv, NEW c \in Tasks, BootUser(c)
  PROVE  PinInv'
<1>1. ASSUME NEW u \in Tasks PROVE (swap_busy[u] <=> \E v \in victim : v[1] = u)'
  BY DEF OwnInv, TypeOK, PinInv, BootUser, Goto
<1>2. ASSUME NEW v \in victim' PROVE PinnedBy(v[1], v[2])'
  BY SpaceAssumption DEF OwnInv, TypeOK, PinInv, PinnedBy, Shape, Owns,
     Booting, Execing, BootUser, Goto
<1> QED BY <1>1, <1>2 DEF PinInv

(* A pinned task that dies still owns its space.                            *)
LEMMA exitPin ==
  ASSUME OwnInv, PinInv, NEW t \in Tasks, exit(t)
  PROVE  PinInv'
<1>1. ASSUME NEW u \in Tasks PROVE (swap_busy[u] <=> \E v \in victim : v[1] = u)'
  BY DEF OwnInv, TypeOK, PinInv, exit, Goto
<1>2. ASSUME NEW v \in victim' PROVE PinnedBy(v[1], v[2])'
  BY SpaceAssumption DEF OwnInv, TypeOK, PinInv, PinnedBy, Shape, Owns,
     Booting, Execing, exit, Goto
<1> QED BY <1>1, <1>2 DEF PinInv

(* A dead pinned task that is not freed keeps its space.                    *)
LEMMA ReapUnlinkPin ==
  ASSUME ~FreesPinned, OwnInv, PinInv, NEW t \in Tasks, ReapUnlink(t)
  PROVE  PinInv'
<1>1. ASSUME NEW u \in Tasks PROVE (swap_busy[u] <=> \E v \in victim : v[1] = u)'
  BY DEF OwnInv, TypeOK, PinInv, ReapUnlink, Goto
<1>2. ASSUME NEW v \in victim' PROVE PinnedBy(v[1], v[2])'
  <2>0. v \in victim /\ v[1] \in Tasks /\ PinnedBy(v[1], v[2]) /\ st[t] = "dead"
    BY DEF OwnInv, TypeOK, PinInv, ReapUnlink
  <2>1. CASE v[1] = t
    <3>1. swap_busy[t] /\ Owns(t, v[2]) /\ mm[t] = v[2]
      BY <2>0, <2>1 DEF PinInv, PinnedBy, Owns
    <3>2. st'[t] # "gone"
      BY <3>1 DEF FreesPinned
    <3>3. st' = [st EXCEPT ![t] = "unlinked"] /\ mm_shared' = mm_shared
      BY <3>1, <3>2 DEF OwnInv, TypeOK, ReapUnlink, Goto
    <3> QED BY <2>1, <3>1, <3>3 DEF OwnInv, TypeOK, PinnedBy, Owns, ReapUnlink
  <2>2. CASE v[1] # t
    <3>1. st'[v[1]] = st[v[1]]
      BY <2>0, <2>2 DEF OwnInv, TypeOK, ReapUnlink, Goto
    <3>2. ~mm_shared[v[1]] => ~mm_shared'[v[1]]
      BY <2>0 DEF OwnInv, TypeOK, ReapUnlink, Heirs
    <3> QED BY <2>0, <3>1, <3>2 DEF PinnedBy, Owns, ReapUnlink
  <2> QED BY <2>1, <2>2
<1> QED BY <1>1, <1>2 DEF PinInv

(* The space of a pinned task is not destroyed.                             *)
LEMMA ReapDestroyPin ==
  ASSUME OwnInv, PinInv, NEW t \in Tasks, ReapDestroy(t)
  PROVE  PinInv'
<1>1. ASSUME NEW u \in Tasks PROVE (swap_busy[u] <=> \E v \in victim : v[1] = u)'
  BY DEF OwnInv, TypeOK, PinInv, ReapDestroy, Goto
<1>2. ASSUME NEW v \in victim' PROVE PinnedBy(v[1], v[2])'
  BY SpaceAssumption DEF OwnInv, TypeOK, PinInv, PinnedBy, Shape, Owns,
     Booting, Execing, ReapDestroy, Goto
<1> QED BY <1>1, <1>2 DEF PinInv

(* Nothing about the pin changes.                                           *)
LEMMA ExecReadPin ==
  ASSUME OwnInv, PinInv, NEW t \in Tasks, ExecRead(t)
  PROVE  PinInv'
<1>1. ASSUME NEW u \in Tasks PROVE (swap_busy[u] <=> \E v \in victim : v[1] = u)'
  BY DEF OwnInv, TypeOK, PinInv, ExecRead, Goto
<1>2. ASSUME NEW v \in victim' PROVE PinnedBy(v[1], v[2])'
  BY SpaceAssumption DEF OwnInv, TypeOK, PinInv, PinnedBy, Shape, Owns,
     Booting, Execing, ExecRead, Goto
<1> QED BY <1>1, <1>2 DEF PinInv

(* A pinned task still answers for the space under eviction, as its old     *)
(* one.                                                                     *)
LEMMA ExecSwapPin ==
  ASSUME OwnInv, PinInv, NEW t \in Tasks, NEW s \in Spaces, ExecSwap(t, s)
  PROVE  PinInv'
<1>1. ASSUME NEW u \in Tasks PROVE (swap_busy[u] <=> \E v \in victim : v[1] = u)'
  BY DEF OwnInv, TypeOK, PinInv, ExecSwap, Goto
<1>2. ASSUME NEW v \in victim' PROVE PinnedBy(v[1], v[2])'
  BY SpaceAssumption DEF OwnInv, TypeOK, PinInv, PinnedBy, Shape, Owns,
     Booting, Execing, ExecSwap, Goto
<1> QED BY <1>1, <1>2 DEF PinInv

(* Nothing about the pin changes.                                           *)
LEMMA ExecOwnPin ==
  ASSUME OwnInv, PinInv, NEW t \in Tasks, ExecOwn(t)
  PROVE  PinInv'
<1>1. ASSUME NEW u \in Tasks PROVE (swap_busy[u] <=> \E v \in victim : v[1] = u)'
  BY DEF OwnInv, TypeOK, PinInv, ExecOwn, Goto
<1>2. ASSUME NEW v \in victim' PROVE PinnedBy(v[1], v[2])'
  BY SpaceAssumption DEF OwnInv, TypeOK, PinInv, PinnedBy, Shape, Owns,
     Booting, Execing, ExecOwn, Goto
<1> QED BY <1>1, <1>2 DEF PinInv

(* An execve waits until it is not pinned.                                  *)
LEMMA ExecKillPin ==
  ASSUME OwnInv, PinInv, NEW t \in Tasks, ExecKill(t)
  PROVE  PinInv'
<1>1. ASSUME NEW u \in Tasks PROVE (swap_busy[u] <=> \E v \in victim : v[1] = u)'
  BY DEF OwnInv, TypeOK, PinInv, ExecKill, Goto
<1>2. ASSUME NEW v \in victim' PROVE PinnedBy(v[1], v[2])'
  BY SpaceAssumption DEF OwnInv, TypeOK, PinInv, PinnedBy, Shape, Owns,
     Booting, Execing, ExecKill, Goto
<1> QED BY <1>1, <1>2 DEF PinInv

(* The old space, past the wait for the pin, is not the one pinned.         *)
LEMMA ExecHandoffPin ==
  ASSUME OwnInv, PinInv, NEW t \in Tasks, ExecHandoff(t)
  PROVE  PinInv'
<1>1. ASSUME NEW u \in Tasks PROVE (swap_busy[u] <=> \E v \in victim : v[1] = u)'
  BY DEF OwnInv, TypeOK, PinInv, ExecHandoff, Goto
<1>2. ASSUME NEW v \in victim' PROVE PinnedBy(v[1], v[2])'
  BY SpaceAssumption DEF OwnInv, TypeOK, PinInv, PinnedBy, Shape, Owns,
     Booting, Execing, ExecHandoff, Goto
<1> QED BY <1>1, <1>2 DEF PinInv

(* The task that is pinned owns its space.                                  *)
LEMMA task_swap_pinPin ==
  ASSUME OwnInv, PinInv, NEW t \in Tasks, task_swap_pin(t)
  PROVE  PinInv'
<1>1. ASSUME NEW u \in Tasks PROVE (swap_busy[u] <=> \E v \in victim : v[1] = u)'
  BY DEF OwnInv, TypeOK, PinInv, task_swap_pin, Goto
<1>2. ASSUME NEW v \in victim' PROVE PinnedBy(v[1], v[2])'
  <2>1. v = <<t, mm[t]>> /\ Alive(t) /\ user_task[t] /\ ~mm_shared[t]
    BY DEF task_swap_pin
  <2> QED BY <2>1 DEF PinnedBy, Owns, Alive, InRing, task_swap_pin
<1> QED BY <1>1, <1>2 DEF PinInv

(* Nothing is pinned afterwards.                                            *)
LEMMA task_swap_releasePin ==
  ASSUME OwnInv, PinInv, task_swap_release
  PROVE  PinInv'
<1>1. ASSUME NEW u \in Tasks PROVE (swap_busy[u] <=> \E v \in victim : v[1] = u)'
  BY DEF OwnInv, TypeOK, PinInv, task_swap_release, Goto
<1>2. ASSUME NEW v \in victim' PROVE PinnedBy(v[1], v[2])'
  BY SpaceAssumption DEF OwnInv, TypeOK, PinInv, PinnedBy, Shape, Owns,
     Booting, Execing, task_swap_release, Goto
<1> QED BY <1>1, <1>2 DEF PinInv

(* Every step keeps the pinned task responsible for the space under         *)
(* eviction.                                                                *)
LEMMA NextPin ==
  ASSUME OwnInv, PinInv, [Next]_vars, [~FreesPinned]_vars
  PROVE  PinInv'
<1>1. CASE UNCHANGED vars
  BY <1>1 DEF vars, PinInv, PinnedBy, Owns
<1>2. CASE Next /\ ~FreesPinned
  <2>1. ASSUME NEW t \in Tasks, Boot(t) \/ Reap(t) \/ exit(t) PROVE PinInv'
    BY <1>2, <2>1, BootMmPin, BootSharedPin, BootUserPin, ReapUnlinkPin,
       ReapDestroyPin, exitPin
       DEF Boot, Reap
  <2>2. ASSUME NEW t \in Tasks, Exec(t) \/ ExecRead(t) PROVE PinInv'
    BY <2>2, ExecReadPin, ExecSwapPin, ExecOwnPin, ExecKillPin, ExecHandoffPin
       DEF Exec
  <2>3. ASSUME NEW t \in Tasks, task_swap_pin(t) \/ \E c \in Tasks : proc_clone(t, c)
        PROVE  PinInv'
    BY <2>3, task_swap_pinPin, proc_clonePin
  <2> QED BY <1>2, <2>1, <2>2, <2>3, task_swap_releasePin DEF Next
<1> QED BY <1>1, <1>2

(* While swap_pressure works on a space, the space is not destroyed and the *)
(* pinned task is not freed, although that task may exit, be unlinked or    *)
(* run another program meanwhile: all that can break the pin is task_reap   *)
(* freeing a pinned owner whose threads live on, or the steps that break    *)
(* the ownership itself.                                                    *)
THEOREM PinHoldsProved == Spec /\ NoEarlyHandover /\ NoFreePinned => []PinHolds
<1>1. Init => PinInv
  BY DEF Init, PinInv
<1>2. OwnInv /\ PinInv => PinHolds
  <2> SUFFICES ASSUME OwnInv, PinInv, NEW v \in victim
               PROVE  space[v[2]] = "live" /\ st[v[1]] # "gone"
    BY DEF PinHolds
  <2>1. v[1] \in Tasks /\ v[2] \in Spaces /\ PinnedBy(v[1], v[2])
    BY DEF OwnInv, TypeOK, PinInv
  <2>2. CASE Owns(v[1], v[2]) /\ st[v[1]] # "gone"
    <3>1. st[v[1]] # "unborn"
      BY <2>1, <2>2 DEF OwnInv, Shape, Owns
    <3> QED BY <2>1, <2>2, <3>1, SpaceAssumption DEF OwnInv, Reach, InRing, Owns
  <2>3. CASE st[v[1]] \in {"swapped", "pinwait"} /\ arg[v[1]] = v[2] /\ owned_old[v[1]]
    BY <2>1, <2>3 DEF OwnInv, Reach, Execing
  <2> QED BY <2>1, <2>2, <2>3 DEF PinnedBy
<1>3. Init => OwnInv
  BY InitOwn
<1> QED BY <1>1, <1>2, <1>3, NextOwn, NextPin, PTL DEF Spec, NoEarlyHandover, NoFreePinned
=============================================================================
