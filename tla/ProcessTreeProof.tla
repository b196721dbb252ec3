-------------------------- MODULE ProcessTreeProof --------------------------
(* Proofs about ProcessTree, for every set of processes, of spawns and of   *)
(* spawns under a named pid, and every length of the lists.                 *)
EXTENDS ProcessTree, FiniteSetTheorems, WellFoundedInduction, TLAPS

Dead(c) == state[c] \in {"dead", "freed"}

(* Where a process is agrees with its state; a kernel stack is in use from  *)
(* the publication of DEAD to the last switch, and nothing is freed before. *)
Stages ==
  /\ \A p \in Procs :
       /\ state[p] = "unborn" => pc[p] = "run"
       /\ state[p] = "alive" => pc[p] \notin {"wake", "switch", "gone"}
       /\ state[p] = "dead" => pc[p] \in {"wake", "switch", "gone"}
       /\ state[p] = "freed" => pc[p] = "gone"
       /\ p \in on_cpu <=> pc[p] \in {"wake", "switch"}
  /\ pc[init] \in {"run", "claim", "check", "unlink", "refused"}

(* Who reaps, reaps a dead task; past the claim the task is the reaper's    *)
(* alone, not freed yet, and at the unlink off its CPU.                     *)
Jobs ==
  \A a \in Agents :
    /\ pc[a] \in {"claim", "check", "unlink", "refused"} =>
         job[a] \in Procs /\ Dead(job[a])
    /\ pc[a] \in {"check", "unlink"} =>
         /\ state[job[a]] = "dead" /\ job[a] \in reaping
         /\ \A b \in Agents : pc[b] \in {"check", "unlink"} /\ job[b] = job[a] => a = b
    /\ pc[a] = "unlink" => job[a] \notin on_cpu

(* init's list and init's job hold dead tasks without a claim; the job of a *)
(* waiter is a task whose exit code it has taken.                           *)
Entitled ==
  /\ \A c \in todo : Dead(c) /\ c \notin owned
  /\ pc[init] \in {"claim", "check", "unlink", "refused"} => job[init] \notin owned
  /\ \A p \in Procs : pc[p] \in {"claim", "check", "unlink", "refused"} =>
       job[p] \in delivered

(* A child is under the parent it was born to until that parent hands it    *)
(* on, which it does when it is dying or is reaped.                         *)
Lineage ==
  \A c \in Procs : Present(c) /\ birth[c] \in Procs =>
    /\ state[birth[c]] # "unborn"
    /\ state[birth[c]] = "alive" /\ pc[birth[c]] # "killing" => ppid[c] = birth[c]
    /\ under[c] = "gone" => state[birth[c]] = "freed"

TreeInv ==
  /\ TypeOK /\ Stages /\ Jobs /\ Entitled /\ Lineage
  /\ ParentPresent /\ OwnedStatusKept /\ NoSleepOverZombie

(* A dying task has killed each child it noted down, or has still to; a     *)
(* child it did not note was born too late or found the list full.          *)
Noted ==
  \A c \in Procs \ detached :
    state[c] = "alive" /\ birth[c] \in Procs /\ pc[birth[c]] = "killing"
      => \/ c \in killed \cup (kids[birth[c]] \ sent[birth[c]])
         \/ under[c] # "living" \/ Crowded(c)

Down == Noted /\ SubtreeGoesDown
DownInv == TreeInv /\ Down

-----------------------------------------------------------------------------
(* Adoption.                                                                *)

(* adopter_for: init, or a living subreaper.                                *)
LEMMA AdopterLives ==
  ASSUME NEW p
  PROVE  adopter_for(p) = init \/
         (adopter_for(p) \in Subreapers /\ state[adopter_for(p)] = "alive")
<1> DEFINE up == Ancestors(p)
           hits == {n \in 0..Cardinality(Procs) : up[n] \in Subreapers /\ state[up[n]] = "alive"}
           k == CHOOSE n \in hits : \A m \in hits : n <= m
<1>1. adopter_for(p) = IF hits = {} THEN init ELSE up[k]
  BY DEF adopter_for
<1>2. hits \in SUBSET Nat
  BY TreeAssumption, FS_CardinalityType
<1>3. ASSUME hits # {} PROVE k \in hits
  <2>1. PICK m \in hits : \A n \in hits : ~(<<n, m>> \in OpToRel(<, Nat))
    <3> HIDE DEF hits
    <3> QED BY <1>2, <1>3, NatLessThanWellFounded, WFMin
  <2> HIDE DEF hits
  <2>2. \A n \in hits : ~(n < m)
    BY <1>2, <2>1 DEF OpToRel
  <2>3. \A n \in hits : m <= n
    BY <1>2, <2>2
  <2> QED BY <2>3
<1> HIDE DEF k
<1>4. ASSUME hits # {} PROVE up[k] \in Subreapers /\ state[up[k]] = "alive"
  BY <1>3, <1>4
<1> HIDE DEF hits, up
<1> QED BY <1>1, <1>4

-----------------------------------------------------------------------------
(* Steps.                                                                   *)

(* A child is born under a parent that is alive and not dying.              *)
LEMMA spawnTree ==
  ASSUME NEW p \in Procs, NEW c \in Procs, NEW k \in BOOLEAN, TreeInv, spawn(p, c, k)
  PROVE  TreeInv'
<1> USE TreeAssumption DEF TreeInv, Agents, Present, Dead, spawn
<1>1. TypeOK'
  BY DEF TypeOK, Stages, Jobs
<1>2. Stages'
  BY DEF TypeOK, Stages, Jobs
<1>3. Jobs'
  BY DEF TypeOK, Stages, Jobs, Entitled
<1>4. Entitled'
  BY DEF TypeOK, Stages, Jobs, Entitled
<1>5. Lineage'
  BY DEF TypeOK, Stages, Jobs, Lineage
<1>6. ParentPresent'
  BY DEF TypeOK, Stages, Jobs, ParentPresent
<1>7. OwnedStatusKept'
  BY DEF TypeOK, Stages, Jobs, Entitled, OwnedStatusKept
<1>8. NoSleepOverZombie'
  BY DEF TypeOK, Stages, Jobs, Lineage, NoSleepOverZombie, Children
<1> QED BY <1>1, <1>2, <1>3, <1>4, <1>5, <1>6, <1>7, <1>8

(* A child is born under a pid that need not be in the ring any more.       *)
LEMMA task_spawn_underTree ==
  ASSUME NEW q \in Procs, NEW c \in Procs, TreeInv, task_spawn_under(q, c)
  PROVE  TreeInv'
<1> USE TreeAssumption DEF TreeInv, Agents, Present, Dead, task_spawn_under, Standing
<1>1. TypeOK'
  BY DEF TypeOK, Stages, Jobs
<1>2. Stages'
  BY DEF TypeOK, Stages, Jobs
<1>3. Jobs'
  BY DEF TypeOK, Stages, Jobs, Entitled
<1>4. Entitled'
  BY DEF TypeOK, Stages, Jobs, Entitled
<1>5. Lineage'
  BY DEF TypeOK, Stages, Jobs, Lineage
<1>6. ParentPresent'
  BY DEF TypeOK, Stages, Jobs, ParentPresent
<1>7. OwnedStatusKept'
  BY DEF TypeOK, Stages, Jobs, Entitled, OwnedStatusKept
<1>8. NoSleepOverZombie'
  BY DEF TypeOK, Stages, Jobs, Lineage, NoSleepOverZombie, Children
<1> QED BY <1>1, <1>2, <1>3, <1>4, <1>5, <1>6, <1>7, <1>8

(* A task opts to outlive its parent.                                       *)
LEMMA setsidTree ==
  ASSUME NEW p \in Procs, TreeInv, setsid(p)
  PROVE  TreeInv'
<1> USE TreeAssumption DEF TreeInv, Agents, Present, Dead, setsid
<1>1. TypeOK'
  BY DEF TypeOK, Stages, Jobs
<1>2. Stages'
  BY DEF TypeOK, Stages, Jobs
<1>3. Jobs'
  BY DEF TypeOK, Stages, Jobs, Entitled
<1>4. Entitled'
  BY DEF TypeOK, Stages, Jobs, Entitled
<1>5. Lineage'
  BY DEF TypeOK, Stages, Jobs, Lineage
<1>6. ParentPresent'
  BY DEF TypeOK, Stages, Jobs, ParentPresent
<1>7. OwnedStatusKept'
  BY DEF TypeOK, Stages, Jobs, Entitled, OwnedStatusKept
<1>8. NoSleepOverZombie'
  BY DEF TypeOK, Stages, Jobs, Lineage, NoSleepOverZombie, Children
<1> QED BY <1>1, <1>2, <1>3, <1>4, <1>5, <1>6, <1>7, <1>8

(* A kill sets a flag and gets its target out of a sleep.                   *)
LEMMA task_killTree ==
  ASSUME NEW c \in Procs, TreeInv, task_kill(c)
  PROVE  TreeInv'
<1> USE TreeAssumption DEF TreeInv, Agents, Present, Dead, task_kill, Woken
<1>1. TypeOK'
  BY DEF TypeOK, Stages, Jobs
<1>2. Stages'
  BY DEF TypeOK, Stages, Jobs
<1>3. Jobs'
  BY DEF TypeOK, Stages, Jobs, Entitled
<1>4. Entitled'
  BY DEF TypeOK, Stages, Jobs, Entitled
<1>5. Lineage'
  BY DEF TypeOK, Stages, Jobs, Lineage
<1>6. ParentPresent'
  BY DEF TypeOK, Stages, Jobs, ParentPresent
<1>7. OwnedStatusKept'
  BY DEF TypeOK, Stages, Jobs, Entitled, OwnedStatusKept
<1>8. NoSleepOverZombie'
  BY DEF TypeOK, Stages, Jobs, Lineage, NoSleepOverZombie, Children
<1> QED BY <1>1, <1>2, <1>3, <1>4, <1>5, <1>6, <1>7, <1>8

(* A task starts to exit.                                                   *)
LEMMA exitTree ==
  ASSUME NEW p \in Procs, TreeInv, exit(p)
  PROVE  TreeInv'
<1> USE TreeAssumption DEF TreeInv, Agents, Present, Dead, exit, Goto
<1>1. TypeOK'
  BY DEF TypeOK, Stages, Jobs
<1>2. Stages'
  BY DEF TypeOK, Stages, Jobs
<1>3. Jobs'
  BY DEF TypeOK, Stages, Jobs, Entitled
<1>4. Entitled'
  BY DEF TypeOK, Stages, Jobs, Entitled
<1>5. Lineage'
  BY DEF TypeOK, Stages, Jobs, Lineage
<1>6. ParentPresent'
  BY DEF TypeOK, Stages, Jobs, ParentPresent
<1>7. OwnedStatusKept'
  BY DEF TypeOK, Stages, Jobs, Entitled, OwnedStatusKept
<1>8. NoSleepOverZombie'
  BY DEF TypeOK, Stages, Jobs, Lineage, NoSleepOverZombie, Children
<1> QED BY <1>1, <1>2, <1>3, <1>4, <1>5, <1>6, <1>7, <1>8

(* A dying task hands its detached children on and notes the others.        *)
LEMMA NoteKidsTree ==
  ASSUME NEW p \in Procs, TreeInv, NoteKids(p)
  PROVE  TreeInv'
<1> USE TreeAssumption DEF TreeInv, Agents, Present, Dead, NoteKids, adopt, Goto,
    Handed
<1>0. adopter_for(p) = init \/
      (adopter_for(p) \in Procs /\ state[adopter_for(p)] = "alive")
  BY AdopterLives
<1>1. TypeOK'
  <2>1. /\ ppid' \in [Procs -> Agents] /\ owned' \subseteq Procs
        /\ pc' \in [Agents -> {"run", "scan", "asleep", "claim", "check", "unlink",
                               "refused", "exit", "killing", "wake", "switch", "gone"}]
    BY <1>0 DEF TypeOK
  <2>2. PICK ks \in SUBSET Procs :
          Cardinality(ks) <= KillMax /\ kids' = [kids EXCEPT ![p] = ks]
    <3>1. PICK ks \in Lists(Unkept(p), KillMax) : kids' = [kids EXCEPT ![p] = ks]
      OBVIOUS
    <3>2. /\ ks \in SUBSET Procs
          /\ Cardinality(ks) = KillMax \/ Cardinality(ks) < KillMax
      BY <3>1 DEF Lists, Unkept
    <3>3. Cardinality(ks) \in Nat
      BY <3>2, FS_Subset, FS_CardinalityType
    <3>4. Cardinality(ks) <= KillMax
      BY <3>2, <3>3
    <3> QED BY <3>1, <3>2, <3>4
  <2>3. /\ kids' \in [Procs -> SUBSET Procs]
        /\ \A q \in Procs : Cardinality(kids'[q]) <= KillMax
    BY <2>2 DEF TypeOK
  <2> QED BY <2>1, <2>3 DEF TypeOK
<1>2. Stages'
  BY <1>0 DEF TypeOK, Stages, Jobs
<1>3. Jobs'
  BY <1>0 DEF TypeOK, Stages, Jobs, Entitled
<1>4. Entitled'
  BY <1>0 DEF TypeOK, Stages, Jobs, Entitled
<1>5. Lineage'
  BY <1>0 DEF TypeOK, Stages, Jobs, Lineage
<1>6. ParentPresent'
  BY <1>0 DEF TypeOK, Stages, Jobs, ParentPresent
<1>7. OwnedStatusKept'
  BY <1>0 DEF TypeOK, Stages, Jobs, Entitled, OwnedStatusKept
<1>8. NoSleepOverZombie'
  BY <1>0 DEF TypeOK, Stages, Jobs, Lineage, NoSleepOverZombie, Children
<1> QED BY <1>1, <1>2, <1>3, <1>4, <1>5, <1>6, <1>7, <1>8

(* A dying task kills one of the children it noted.                         *)
LEMMA KillKidTree ==
  ASSUME NEW p \in Procs, NEW c \in Procs, TreeInv, KillKid(p, c)
  PROVE  TreeInv'
<1> USE TreeAssumption DEF TreeInv, Agents, Present, Dead, KillKid, Woken
<1>1. TypeOK'
  <2>1. killed' \subseteq Procs /\ sent' \in [Procs -> SUBSET Procs]
    BY DEF TypeOK
  <2>2. pc' \in [Agents -> {"run", "scan", "asleep", "claim", "check", "unlink",
                           "refused", "exit", "killing", "wake", "switch", "gone"}]
    BY DEF TypeOK
  <2> QED BY <2>1, <2>2 DEF TypeOK
<1>2. Stages'
  BY DEF TypeOK, Stages, Jobs
<1>3. Jobs'
  BY DEF TypeOK, Stages, Jobs, Entitled
<1>4. Entitled'
  BY DEF TypeOK, Stages, Jobs, Entitled
<1>5. Lineage'
  BY DEF TypeOK, Stages, Jobs, Lineage
<1>6. ParentPresent'
  BY DEF TypeOK, Stages, Jobs, ParentPresent
<1>7. OwnedStatusKept'
  BY DEF TypeOK, Stages, Jobs, Entitled, OwnedStatusKept
<1>8. NoSleepOverZombie'
  BY DEF TypeOK, Stages, Jobs, Lineage, NoSleepOverZombie, Children
<1> QED BY <1>1, <1>2, <1>3, <1>4, <1>5, <1>6, <1>7, <1>8

(* DEAD is published; the wake-up is still to come.                         *)
LEMMA PublishDeadTree ==
  ASSUME NEW p \in Procs, TreeInv, PublishDead(p)
  PROVE  TreeInv'
<1> USE TreeAssumption DEF TreeInv, Agents, Present, Dead, PublishDead, Goto
<1>1. TypeOK'
  BY DEF TypeOK, Stages, Jobs
<1>2. Stages'
  BY DEF TypeOK, Stages, Jobs
<1>3. Jobs'
  BY DEF TypeOK, Stages, Jobs, Entitled
<1>4. Entitled'
  BY DEF TypeOK, Stages, Jobs, Entitled
<1>5. Lineage'
  BY DEF TypeOK, Stages, Jobs, Lineage
<1>6. ParentPresent'
  BY DEF TypeOK, Stages, Jobs, ParentPresent
<1>7. OwnedStatusKept'
  BY DEF TypeOK, Stages, Jobs, Entitled, OwnedStatusKept
<1>8. NoSleepOverZombie'
  BY DEF TypeOK, Stages, Jobs, Lineage, NoSleepOverZombie, Children
<1> QED BY <1>1, <1>2, <1>3, <1>4, <1>5, <1>6, <1>7, <1>8

(* Every waiter is woken: nobody sleeps over this child.                    *)
LEMMA WakeWaitersTree ==
  ASSUME NEW p \in Procs, TreeInv, WakeWaiters(p)
  PROVE  TreeInv'
<1> USE TreeAssumption DEF TreeInv, Agents, Present, Dead, WakeWaiters, Woken
<1>1. TypeOK'
  BY DEF TypeOK, Stages, Jobs
<1>2. Stages'
  BY DEF TypeOK, Stages, Jobs
<1>3. Jobs'
  BY DEF TypeOK, Stages, Jobs, Entitled
<1>4. Entitled'
  BY DEF TypeOK, Stages, Jobs, Entitled
<1>5. Lineage'
  BY DEF TypeOK, Stages, Jobs, Lineage
<1>6. ParentPresent'
  BY DEF TypeOK, Stages, Jobs, ParentPresent
<1>7. OwnedStatusKept'
  BY DEF TypeOK, Stages, Jobs, Entitled, OwnedStatusKept
<1>8. NoSleepOverZombie'
  BY DEF TypeOK, Stages, Jobs, Lineage, NoSleepOverZombie, Children
<1> QED BY <1>1, <1>2, <1>3, <1>4, <1>5, <1>6, <1>7, <1>8

(* The dead task leaves its CPU.                                            *)
LEMMA SwitchAwayTree ==
  ASSUME NEW p \in Procs, TreeInv, SwitchAway(p)
  PROVE  TreeInv'
<1> USE TreeAssumption DEF TreeInv, Agents, Present, Dead, SwitchAway, Goto
<1>1. TypeOK'
  BY DEF TypeOK, Stages, Jobs
<1>2. Stages'
  BY DEF TypeOK, Stages, Jobs
<1>3. Jobs'
  BY DEF TypeOK, Stages, Jobs, Entitled
<1>4. Entitled'
  BY DEF TypeOK, Stages, Jobs, Entitled
<1>5. Lineage'
  BY DEF TypeOK, Stages, Jobs, Lineage
<1>6. ParentPresent'
  BY DEF TypeOK, Stages, Jobs, ParentPresent
<1>7. OwnedStatusKept'
  BY DEF TypeOK, Stages, Jobs, Entitled, OwnedStatusKept
<1>8. NoSleepOverZombie'
  BY DEF TypeOK, Stages, Jobs, Lineage, NoSleepOverZombie, Children
<1> QED BY <1>1, <1>2, <1>3, <1>4, <1>5, <1>6, <1>7, <1>8

(* A task starts to wait for some of its children.                          *)
LEMMA task_waitTree ==
  ASSUME NEW p \in Procs, NEW w \in SUBSET Procs, TreeInv, task_wait(p, w)
  PROVE  TreeInv'
<1> USE TreeAssumption DEF TreeInv, Agents, Present, Dead, task_wait, Goto
<1>1. TypeOK'
  BY DEF TypeOK, Stages, Jobs
<1>2. Stages'
  BY DEF TypeOK, Stages, Jobs
<1>3. Jobs'
  BY DEF TypeOK, Stages, Jobs, Entitled
<1>4. Entitled'
  BY DEF TypeOK, Stages, Jobs, Entitled
<1>5. Lineage'
  BY DEF TypeOK, Stages, Jobs, Lineage
<1>6. ParentPresent'
  BY DEF TypeOK, Stages, Jobs, ParentPresent
<1>7. OwnedStatusKept'
  BY DEF TypeOK, Stages, Jobs, Entitled, OwnedStatusKept
<1>8. NoSleepOverZombie'
  BY DEF TypeOK, Stages, Jobs, Lineage, NoSleepOverZombie, Children
<1> QED BY <1>1, <1>2, <1>3, <1>4, <1>5, <1>6, <1>7, <1>8

(* A waiter takes the exit code of a dead child.                            *)
LEMMA ScanFindsTree ==
  ASSUME NEW p \in Procs, NEW c \in Procs, TreeInv, ScanFinds(p, c)
  PROVE  TreeInv'
<1> USE TreeAssumption DEF TreeInv, Agents, Present, Dead, ScanFinds, Goto
<1>1. TypeOK'
  BY DEF TypeOK, Stages, Jobs
<1>2. Stages'
  BY DEF TypeOK, Stages, Jobs
<1>3. Jobs'
  BY DEF TypeOK, Stages, Jobs, Entitled
<1>4. Entitled'
  BY DEF TypeOK, Stages, Jobs, Entitled
<1>5. Lineage'
  BY DEF TypeOK, Stages, Jobs, Lineage
<1>6. ParentPresent'
  BY DEF TypeOK, Stages, Jobs, ParentPresent
<1>7. OwnedStatusKept'
  BY DEF TypeOK, Stages, Jobs, Entitled, OwnedStatusKept
<1>8. NoSleepOverZombie'
  BY DEF TypeOK, Stages, Jobs, Lineage, NoSleepOverZombie, Children
<1> QED BY <1>1, <1>2, <1>3, <1>4, <1>5, <1>6, <1>7, <1>8

(* A waiter goes to sleep only over children that live.                     *)
LEMMA ScanEndsTree ==
  ASSUME NEW p \in Procs, TreeInv, ScanEnds(p)
  PROVE  TreeInv'
<1> USE TreeAssumption DEF TreeInv, Agents, Present, Dead, ScanEnds, Goto, Ring3
<1>1. TypeOK'
  BY DEF TypeOK, Stages, Jobs
<1>2. Stages'
  BY DEF TypeOK, Stages, Jobs
<1>3. Jobs'
  BY DEF TypeOK, Stages, Jobs, Entitled
<1>4. Entitled'
  BY DEF TypeOK, Stages, Jobs, Entitled
<1>5. Lineage'
  BY DEF TypeOK, Stages, Jobs, Lineage
<1>6. ParentPresent'
  BY DEF TypeOK, Stages, Jobs, ParentPresent
<1>7. OwnedStatusKept'
  BY DEF TypeOK, Stages, Jobs, Entitled, OwnedStatusKept
<1>8. NoSleepOverZombie'
  BY DEF TypeOK, Stages, Jobs, Lineage, NoSleepOverZombie, Children
<1> QED BY <1>1, <1>2, <1>3, <1>4, <1>5, <1>6, <1>7, <1>8

(* A reaper claims a dead task that nobody else has claimed.                *)
LEMMA ReapClaimTree ==
  ASSUME NEW a \in Agents, TreeInv, ReapClaim(a)
  PROVE  TreeInv'
<1> USE TreeAssumption DEF TreeInv, Agents, Present, Dead, ReapClaim, Goto
<1>1. TypeOK'
  BY DEF TypeOK, Stages, Jobs
<1>2. Stages'
  BY DEF TypeOK, Stages, Jobs
<1>3. Jobs'
  BY DEF TypeOK, Stages, Jobs, Entitled
<1>4. Entitled'
  BY DEF TypeOK, Stages, Jobs, Entitled
<1>5. Lineage'
  BY DEF TypeOK, Stages, Jobs, Lineage
<1>6. ParentPresent'
  BY DEF TypeOK, Stages, Jobs, ParentPresent
<1>7. OwnedStatusKept'
  BY DEF TypeOK, Stages, Jobs, Entitled, OwnedStatusKept
<1>8. NoSleepOverZombie'
  BY DEF TypeOK, Stages, Jobs, Lineage, NoSleepOverZombie, Children
<1> QED BY <1>1, <1>2, <1>3, <1>4, <1>5, <1>6, <1>7, <1>8

(* A reaper goes on only when the task is off its CPU.                      *)
LEMMA ReapCheckTree ==
  ASSUME NEW a \in Agents, TreeInv, ReapCheck(a)
  PROVE  TreeInv'
<1> USE TreeAssumption DEF TreeInv, Agents, Present, Dead, ReapCheck, Goto
<1>1. TypeOK'
  BY DEF TypeOK, Stages, Jobs
<1>2. Stages'
  BY DEF TypeOK, Stages, Jobs
<1>3. Jobs'
  BY DEF TypeOK, Stages, Jobs, Entitled
<1>4. Entitled'
  BY DEF TypeOK, Stages, Jobs, Entitled
<1>5. Lineage'
  BY DEF TypeOK, Stages, Jobs, Lineage
<1>6. ParentPresent'
  BY DEF TypeOK, Stages, Jobs, ParentPresent
<1>7. OwnedStatusKept'
  BY DEF TypeOK, Stages, Jobs, Entitled, OwnedStatusKept
<1>8. NoSleepOverZombie'
  BY DEF TypeOK, Stages, Jobs, Lineage, NoSleepOverZombie, Children
<1> QED BY <1>1, <1>2, <1>3, <1>4, <1>5, <1>6, <1>7, <1>8

(* A reaper hands the children on and frees the task.                       *)
LEMMA ReapUnlinkTree ==
  ASSUME NEW a \in Agents, TreeInv, ReapUnlink(a)
  PROVE  TreeInv'
<1> USE TreeAssumption DEF TreeInv, Agents, Present, Dead, ReapUnlink, adopt,
    Leave, Goto, Ring3
<1>0. adopter_for(job[a]) = init \/
      (adopter_for(job[a]) \in Procs /\ state[adopter_for(job[a])] = "alive")
  BY AdopterLives
<1>1. TypeOK'
  BY <1>0 DEF TypeOK, Stages, Jobs
<1>2. Stages'
  BY <1>0 DEF TypeOK, Stages, Jobs
<1>3. Jobs'
  BY <1>0 DEF TypeOK, Stages, Jobs, Entitled
<1>4. Entitled'
  BY <1>0 DEF TypeOK, Stages, Jobs, Entitled
<1>5. Lineage'
  BY <1>0 DEF TypeOK, Stages, Jobs, Lineage
<1>6. ParentPresent'
  BY <1>0 DEF TypeOK, Stages, Jobs, ParentPresent
<1>7. OwnedStatusKept'
  BY <1>0 DEF TypeOK, Stages, Jobs, Entitled, OwnedStatusKept
<1>8. NoSleepOverZombie'
  BY <1>0 DEF TypeOK, Stages, Jobs, Lineage, NoSleepOverZombie, Children
<1> QED BY <1>1, <1>2, <1>3, <1>4, <1>5, <1>6, <1>7, <1>8

(* A refused waiter tries again, returns or exits.                          *)
LEMMA RefusedTree ==
  ASSUME NEW p \in Procs, TreeInv, Refused(p)
  PROVE  TreeInv'
<1> USE TreeAssumption DEF TreeInv, Agents, Present, Dead, Refused, Leave,
    Goto, Ring3
<1>1. TypeOK'
  BY DEF TypeOK, Stages, Jobs
<1>2. Stages'
  BY DEF TypeOK, Stages, Jobs
<1>3. Jobs'
  BY DEF TypeOK, Stages, Jobs, Entitled
<1>4. Entitled'
  BY DEF TypeOK, Stages, Jobs, Entitled
<1>5. Lineage'
  BY DEF TypeOK, Stages, Jobs, Lineage
<1>6. ParentPresent'
  BY DEF TypeOK, Stages, Jobs, ParentPresent
<1>7. OwnedStatusKept'
  BY DEF TypeOK, Stages, Jobs, Entitled, OwnedStatusKept
<1>8. NoSleepOverZombie'
  BY DEF TypeOK, Stages, Jobs, Lineage, NoSleepOverZombie, Children
<1> QED BY <1>1, <1>2, <1>3, <1>4, <1>5, <1>6, <1>7, <1>8

(* init lists the dead tasks nobody has claimed.                            *)
LEMMA reap_collectTree ==
  ASSUME TreeInv, reap_collect
  PROVE  TreeInv'
<1> USE TreeAssumption DEF TreeInv, Agents, Present, Dead, reap_collect, Lists
<1>1. TypeOK'
  BY DEF TypeOK, Stages, Jobs
<1>2. Stages'
  BY DEF TypeOK, Stages, Jobs
<1>3. Jobs'
  BY DEF TypeOK, Stages, Jobs, Entitled
<1>4. Entitled'
  BY DEF TypeOK, Stages, Jobs, Entitled
<1>5. Lineage'
  BY DEF TypeOK, Stages, Jobs, Lineage
<1>6. ParentPresent'
  BY DEF TypeOK, Stages, Jobs, ParentPresent
<1>7. OwnedStatusKept'
  BY DEF TypeOK, Stages, Jobs, Entitled, OwnedStatusKept
<1>8. NoSleepOverZombie'
  BY DEF TypeOK, Stages, Jobs, Lineage, NoSleepOverZombie, Children
<1> QED BY <1>1, <1>2, <1>3, <1>4, <1>5, <1>6, <1>7, <1>8

(* init takes the next task of its list.                                    *)
LEMMA SweepNextTree ==
  ASSUME NEW c \in Procs, TreeInv, SweepNext(c)
  PROVE  TreeInv'
<1> USE TreeAssumption DEF TreeInv, Agents, Present, Dead, SweepNext, Goto
<1>1. TypeOK'
  BY DEF TypeOK, Stages, Jobs
<1>2. Stages'
  BY DEF TypeOK, Stages, Jobs
<1>3. Jobs'
  BY DEF TypeOK, Stages, Jobs, Entitled
<1>4. Entitled'
  BY DEF TypeOK, Stages, Jobs, Entitled
<1>5. Lineage'
  BY DEF TypeOK, Stages, Jobs, Lineage
<1>6. ParentPresent'
  BY DEF TypeOK, Stages, Jobs, ParentPresent
<1>7. OwnedStatusKept'
  BY DEF TypeOK, Stages, Jobs, Entitled, OwnedStatusKept
<1>8. NoSleepOverZombie'
  BY DEF TypeOK, Stages, Jobs, Lineage, NoSleepOverZombie, Children
<1> QED BY <1>1, <1>2, <1>3, <1>4, <1>5, <1>6, <1>7, <1>8

(* init gives a refused task up until the next sweep.                       *)
LEMMA SweepRefusedTree ==
  ASSUME TreeInv, SweepRefused
  PROVE  TreeInv'
<1> USE TreeAssumption DEF TreeInv, Agents, Present, Dead, SweepRefused,
    Leave, Goto
<1>1. TypeOK'
  BY DEF TypeOK, Stages, Jobs
<1>2. Stages'
  BY DEF TypeOK, Stages, Jobs
<1>3. Jobs'
  BY DEF TypeOK, Stages, Jobs, Entitled
<1>4. Entitled'
  BY DEF TypeOK, Stages, Jobs, Entitled
<1>5. Lineage'
  BY DEF TypeOK, Stages, Jobs, Lineage
<1>6. ParentPresent'
  BY DEF TypeOK, Stages, Jobs, ParentPresent
<1>7. OwnedStatusKept'
  BY DEF TypeOK, Stages, Jobs, Entitled, OwnedStatusKept
<1>8. NoSleepOverZombie'
  BY DEF TypeOK, Stages, Jobs, Lineage, NoSleepOverZombie, Children
<1> QED BY <1>1, <1>2, <1>3, <1>4, <1>5, <1>6, <1>7, <1>8

(* The initial state: the root alone, and nobody waits, dies or reaps.      *)
LEMMA InitTree == Init => TreeInv /\ Noted /\ SubtreeGoesDown
<1> SUFFICES ASSUME Init PROVE TreeInv /\ Noted /\ SubtreeGoesDown
  OBVIOUS
<1> USE TreeAssumption DEF Init, Agents, Present, Dead
<1>1. TypeOK
  BY FS_EmptySet DEF TypeOK
<1>2. Stages /\ Jobs /\ Entitled /\ Lineage
  BY DEF Stages, Jobs, Entitled, Lineage
<1>3. ParentPresent /\ OwnedStatusKept /\ NoSleepOverZombie
  BY DEF ParentPresent, OwnedStatusKept, NoSleepOverZombie
<1>4. Noted /\ SubtreeGoesDown
  BY DEF Noted, SubtreeGoesDown
<1> QED BY <1>1, <1>2, <1>3, <1>4 DEF TreeInv

(* Every step keeps TreeInv.                                                *)
LEMMA NextTree == TreeInv /\ [Next]_vars => TreeInv'
<1> SUFFICES ASSUME TreeInv, [Next]_vars PROVE TreeInv'
  OBVIOUS
<1>1. ASSUME NEW a \in Agents, Reap(a) PROVE TreeInv'
  BY <1>1, ReapClaimTree, ReapCheckTree, ReapUnlinkTree DEF Reap
<1>2. ASSUME Sweep PROVE TreeInv'
  BY <1>1, <1>2, reap_collectTree, SweepNextTree, SweepRefusedTree DEF Sweep,
     Agents
<1>3. ASSUME NEW p \in Procs, Dying(p) PROVE TreeInv'
  BY <1>3, exitTree, NoteKidsTree, KillKidTree, PublishDeadTree,
     WakeWaitersTree,
     SwitchAwayTree DEF Dying, honour_kill
<1>4. ASSUME NEW p \in Procs, Waiting(p) PROVE TreeInv'
  BY <1>1, <1>4, ScanFindsTree, ScanEndsTree, RefusedTree DEF Waiting, Agents
<1>5. ASSUME NEW p \in Procs, exit(p) \/ task_kill(p) PROVE TreeInv'
  BY <1>5, exitTree, task_killTree
<1>6. ASSUME NEW p \in Procs, NEW w \in {Procs} \cup {{c} : c \in Asked(p)}, task_wait(p, w)
      PROVE  TreeInv'
  <2>1. w \in SUBSET Procs
    BY DEF Asked
  <2> QED BY <1>6, <2>1, task_waitTree
<1>7. ASSUME NEW p \in Procs, NEW c \in Procs, NEW k \in BOOLEAN, spawn(p, c, k)
      PROVE  TreeInv'
  BY <1>7, spawnTree
<1>9. ASSUME NEW p \in Procs, setsid(p) \/ \E c \in Procs : task_spawn_under(p, c)
      PROVE  TreeInv'
  BY <1>9, setsidTree, task_spawn_underTree
<1>8. CASE UNCHANGED vars
  BY <1>8 DEF vars, TreeInv, TypeOK, Stages, Jobs, Entitled, Lineage,
     ParentPresent,
     OwnedStatusKept, NoSleepOverZombie, Children, Present, Dead
<1> QED BY <1>2, <1>3, <1>4, <1>5, <1>6, <1>7, <1>8, <1>9 DEF Next

-----------------------------------------------------------------------------
(* The subtree goes down.                                                   *)

(* A step that changes neither states nor births nor lists, takes neither a *)
(* kill nor a setsid back, and lets nobody begin to kill.                   *)
LEMMA QuietDown ==
  ASSUME TreeInv, Down, UNCHANGED <<state, birth, under, kids, sent>>,
         killed \subseteq killed', detached \subseteq detached',
         \A p \in Procs : pc'[p] = "killing" => pc[p] = "killing"
  PROVE  Down'
BY DEF Down, Noted, SubtreeGoesDown, Crowded

(* A child is born to a parent that is not dying.                           *)
LEMMA spawnDown ==
  ASSUME NEW p \in Procs, NEW c \in Procs, NEW k \in BOOLEAN, TreeInv, Down, spawn(p, c, k),
         TreeInv'
  PROVE  Down'
<1> USE TreeAssumption DEF TreeInv, Down, TypeOK, Agents, spawn, Present
<1>1. Noted'
  BY DEF Noted, Stages, Crowded
<1>2. SubtreeGoesDown'
  BY DEF SubtreeGoesDown, Lineage, Crowded
<1> QED BY <1>1, <1>2

(* A child named under a dying or dead parent is a late one.                *)
LEMMA task_spawn_underDown ==
  ASSUME NEW q \in Procs, NEW c \in Procs, TreeInv, Down, task_spawn_under(q, c),
         TreeInv'
  PROVE  Down'
<1> USE TreeAssumption DEF TreeInv, Down, TypeOK, Agents, task_spawn_under, Present
<1>1. pc[q] = "killing" \/ state[q] # "alive" => under'[c] # "living"
  BY DEF Standing
<1>2. Noted'
  BY <1>1 DEF Noted, Stages, Crowded
<1>3. SubtreeGoesDown'
  BY <1>1 DEF SubtreeGoesDown, Lineage, Crowded
<1> QED BY <1>2, <1>3

(* The list of a dying task holds all of its children that do not survive,  *)
(* or is full.                                                              *)
LEMMA NoteKidsDown ==
  ASSUME NEW p \in Procs, TreeInv, Down, NoteKids(p)
  PROVE  Down'
<1> USE TreeAssumption DEF TreeInv, Down, TypeOK, Agents, Present
<1>0. pc[p] = "exit" /\ state[p] = "alive"
  BY DEF NoteKids, Stages
<1>1. PICK ks \in Lists(Unkept(p), KillMax) : kids' = [kids EXCEPT ![p] = ks]
  BY DEF NoteKids
<1>2. Cardinality(ks) = KillMax \/ ks = Unkept(p)
  BY DEF Lists
<1>3. sent' = [sent EXCEPT ![p] = {}]
  BY DEF NoteKids
<1>4. Noted'
  <2> SUFFICES ASSUME NEW c \in Procs \ detached, state[c] = "alive",
                      birth[c] \in Procs, pc'[birth[c]] = "killing"
               PROVE  \/ c \in killed \cup (kids'[birth[c]] \ sent'[birth[c]])
                      \/ under[c] # "living" \/ Crowded(c)'
    BY DEF Noted, NoteKids
  <2>1. CASE birth[c] = p
    <3>1. ppid[c] = p
      BY <1>0, <2>1 DEF Lineage
    <3>2. c \in Unkept(p)
      BY <3>1 DEF Unkept
    <3>3. kids'[p] = ks /\ sent'[p] = {}
      BY <1>1, <1>3
    <3>4. birth' = birth
      BY DEF NoteKids
    <3> QED BY <1>2, <2>1, <3>2, <3>3, <3>4 DEF Crowded
  <2>2. CASE birth[c] # p
    <3>1. kids'[birth[c]] = kids[birth[c]] /\ sent'[birth[c]] = sent[birth[c]]
      BY <1>1, <1>3, <2>2
    <3>2. pc[birth[c]] = "killing" /\ birth' = birth
      BY <2>2 DEF NoteKids, Goto
    <3> QED BY <3>1, <3>2 DEF Noted, Crowded
  <2> QED BY <2>1, <2>2
<1>5. SubtreeGoesDown'
  <2> SUFFICES ASSUME NEW c \in Procs \ detached, state[c] = "alive",
                      birth[c] \in Procs, state[birth[c]] # "alive"
               PROVE  c \in killed \/ under[c] # "living" \/ Crowded(c)'
    BY DEF SubtreeGoesDown, NoteKids
  <2>1. birth[c] # p
    BY <1>0
  <2>2. kids'[birth[c]] = kids[birth[c]]
    BY <1>1, <2>1
  <2> QED BY <2>2 DEF SubtreeGoesDown, Crowded, NoteKids
<1> QED BY <1>4, <1>5

(* A child that is struck off the list is dead or has a kill pending.       *)
LEMMA KillKidDown ==
  ASSUME NEW p \in Procs, NEW c \in Procs, TreeInv, Down, KillKid(p, c)
  PROVE  Down'
<1> USE TreeAssumption DEF TreeInv, Down, TypeOK, Agents, Present, KillKid,
    Woken
<1>1. Noted'
  BY DEF Noted, Crowded
<1>2. SubtreeGoesDown'
  BY DEF SubtreeGoesDown, Crowded
<1> QED BY <1>1, <1>2

(* At the end of its list a dying task has killed them all.                 *)
LEMMA PublishDeadDown ==
  ASSUME NEW p \in Procs, TreeInv, Down, PublishDead(p)
  PROVE  Down'
<1> USE TreeAssumption DEF TreeInv, Down, TypeOK, Agents, Present,
    PublishDead, Goto
<1>1. Noted'
  BY DEF Noted, Crowded
<1>2. SubtreeGoesDown'
  BY DEF SubtreeGoesDown, Noted, Crowded
<1> QED BY <1>1, <1>2

(* The reap of a dead task changes no child's fate.                         *)
LEMMA ReapUnlinkDown ==
  ASSUME NEW a \in Agents, TreeInv, Down, ReapUnlink(a)
  PROVE  Down'
<1> USE TreeAssumption DEF TreeInv, Down, TypeOK, Agents, Present, ReapUnlink,
    adopt, Leave,
        Goto, Ring3
<1>0. job[a] \in Procs /\ state[job[a]] = "dead"
  BY DEF Jobs
<1>1. Noted'
  BY <1>0 DEF Noted, Crowded
<1>2. SubtreeGoesDown'
  BY <1>0 DEF SubtreeGoesDown, Crowded
<1> QED BY <1>1, <1>2

(* Every step keeps DownInv.                                                *)
LEMMA NextDown == DownInv /\ [Next]_vars => DownInv'
<1> SUFFICES ASSUME DownInv, [Next]_vars PROVE Down'
  BY NextTree DEF DownInv, Down
<1>0. TreeInv /\ Down /\ TreeInv'
  BY NextTree DEF DownInv, Down
<1> USE <1>0
<1>1. ASSUME NEW a \in Agents, Reap(a) PROVE Down'
  <2>1. CASE ReapUnlink(a)
    BY <2>1, ReapUnlinkDown
  <2>2. CASE ReapClaim(a) \/ ReapCheck(a)
    BY <2>2, QuietDown DEF TreeInv, TypeOK, Agents, ReapClaim, ReapCheck, Goto
  <2> QED BY <1>1, <2>1, <2>2 DEF Reap
<1>2. ASSUME Sweep PROVE Down'
  <2>1. CASE reap_collect \/ SweepRefused \/ \E c \in Procs : SweepNext(c)
    BY <2>1, TreeAssumption, QuietDown
       DEF TreeInv, TypeOK, Agents, reap_collect, SweepRefused, SweepNext, Leave, Goto
  <2> QED BY <1>1, <1>2, <2>1 DEF Sweep, Agents
<1>3. ASSUME NEW p \in Procs, Dying(p) PROVE Down'
  <2>1. CASE NoteKids(p) \/ PublishDead(p) \/ \E c \in Procs : KillKid(p, c)
    BY <2>1, NoteKidsDown, PublishDeadDown, KillKidDown
  <2>2. CASE exit(p) \/ WakeWaiters(p) \/ SwitchAway(p)
    BY <2>2, QuietDown DEF TreeInv, TypeOK, Agents, exit, WakeWaiters,
       SwitchAway, Goto, Woken
  <2> QED BY <1>3, <2>1, <2>2 DEF Dying, honour_kill
<1>4. ASSUME NEW p \in Procs, Waiting(p) PROVE Down'
  <2>1. CASE ScanEnds(p) \/ \E c \in Procs : ScanFinds(p, c)
    BY <2>1, QuietDown DEF TreeInv, TypeOK, Agents, ScanEnds, ScanFinds, Goto,
       Ring3
  <2>2. CASE Refused(p)
    BY <2>2, QuietDown DEF TreeInv, TypeOK, Agents, Refused, Leave, Goto, Ring3
  <2> QED BY <1>1, <1>4, <2>1, <2>2 DEF Waiting, Agents
<1>5. ASSUME NEW p \in Procs, exit(p) \/ task_kill(p) PROVE Down'
  BY <1>5, QuietDown DEF TreeInv, TypeOK, Agents, exit, task_kill, Goto, Woken
<1>6. ASSUME NEW p \in Procs, NEW w, task_wait(p, w) PROVE Down'
  BY <1>6, QuietDown DEF TreeInv, TypeOK, Agents, task_wait, Goto
<1>7. ASSUME NEW p \in Procs, NEW c \in Procs, NEW k \in BOOLEAN, spawn(p, c, k)
      PROVE  Down'
  BY <1>7, spawnDown
<1>9. ASSUME NEW p \in Procs, setsid(p) \/ \E c \in Procs : task_spawn_under(p, c)
      PROVE  Down'
  BY <1>9, QuietDown, task_spawn_underDown DEF TreeInv, TypeOK, setsid
<1>8. CASE UNCHANGED vars
  BY <1>8, QuietDown DEF vars
<1> QED BY <1>2, <1>3, <1>4, <1>5, <1>6, <1>7, <1>8, <1>9 DEF Next

-----------------------------------------------------------------------------
(* TreeInv is an invariant of the process tree.                             *)
THEOREM TreeInvariance == Spec => []TreeInv
<1>1. Init => TreeInv
  BY InitTree
<1> QED BY <1>1, NextTree, PTL DEF Spec

(* Type correctness; in particular nothing is claimed that is not in the    *)
(* ring, and a list of children stays within KILLTREE_MAX.                  *)
THEOREM TreeTypes == Spec => []TypeOK
<1>1. TreeInv => TypeOK
  BY DEF TreeInv
<1> QED BY <1>1, TreeInvariance, PTL

(* A parent's number never comes to dangle: task_reap hands every child on  *)
(* before the task leaves the ring.  Only a pid that was gone when a spawn  *)
(* named it dangles.                                                        *)
THEOREM ParentPresentHolds == Spec => []ParentPresent
<1>1. TreeInv => ParentPresent
  BY DEF TreeInv
<1> QED BY <1>1, TreeInvariance, PTL

(* No claimed child is freed before a task_wait has its exit code.          *)
THEOREM OwnedStatusKeptHolds == Spec => []OwnedStatusKept
<1>1. TreeInv => OwnedStatusKept
  BY DEF TreeInv
<1> QED BY <1>1, TreeInvariance, PTL

(* The exit and wait handshake loses no wake-up of a parent.                *)
THEOREM NoSleepOverZombieHolds == Spec => []NoSleepOverZombie
<1>1. TreeInv => NoSleepOverZombie
  BY DEF TreeInv
<1> QED BY <1>1, TreeInvariance, PTL

(* A parent's death takes its children along, unless they opted out, were   *)
(* spawned by pid after the parent's walk, or found its list of             *)
(* KILLTREE_MAX entries full: for every length of the list.                 *)
THEOREM SubtreeGoesDownHolds == Spec => []SubtreeGoesDown
<1>1. Init => DownInv
  BY InitTree DEF DownInv, Down
<1>2. DownInv => SubtreeGoesDown
  BY DEF DownInv, Down
<1> QED BY <1>1, <1>2, NextDown, PTL DEF Spec
=============================================================================
