--------------------------- MODULE JobQueue_proofs ---------------------------
(***************************************************************************)
(* Theorems about JobQueue for every number of jobs, devices, rules and    *)
(* compaction threads.  CompactedIsRepresented rests on PlanInv: what a    *)
(* pass decided stays sound until it writes, because every other session   *)
(* may change a kept job's status but only the holder of _compaction_lock  *)
(* may make it `compacted`.                                                *)
(***************************************************************************)
EXTENDS JobQueue, FiniteSetTheorems, TLAPS

(* Sets of jobs are finite, so counting them gives a number.               *)
LEMMA JobSets == ASSUME NEW S \in SUBSET Jobs
                 PROVE  IsFiniteSet(S) /\ Cardinality(S) \in Nat
<1>1. IsFiniteSet(Jobs)
  BY FS_Interval, ConstantsAssumption DEF Jobs
<1>2. IsFiniteSet(S)
  BY <1>1, FS_Subset
<1> QED BY <1>2, FS_CardinalityType

(* A group's decision is a well-formed Collapse record.                    *)
LEMMA CollapsedType == ASSUME TypeOK, NEW k \in Pending
                       PROVE  Collapsed(k) \in Collapse
<1>1. k \in Jobs /\ Group(k) \ {k} \in SUBSET Jobs
  BY DEF Pending, Group
<1>2. cc[k] + Cardinality(Group(k) \ {k}) \in Nat
  BY <1>1, JobSets DEF TypeOK
<1> QED BY <1>1, <1>2 DEF Collapsed, Collapse

(* Every variable keeps its type, whatever the parameters are.             *)
THEOREM TypeCorrect == Spec => []TypeOK
<1>1. Init => TypeOK
  BY ConstantsAssumption DEF Init, TypeOK, RuleNames, Status, Verdict, Outcome
<1>2. TypeOK /\ [Next]_vars => TypeOK'
  <2> SUFFICES ASSUME TypeOK, [Next]_vars PROVE TypeOK'
    OBVIOUS
  <2> USE ConstantsAssumption DEF TypeOK, db, rows, actorVars, compVars
  <2>1. ASSUME NEW x \in Submissions, Enqueue(x) PROVE TypeOK'
    BY <2>1 DEF Enqueue, Status, RuleNames
  <2>2. ASSUME NEW j \in Jobs, Prioritize(j) PROVE TypeOK'
    BY <2>2 DEF Prioritize
  <2>3. ASSUME NEW j \in Jobs, NEW s \in {"processing", "failed"}, WorkerStatus(j, s)
        PROVE TypeOK'
    BY <2>3 DEF WorkerStatus, Status
  <2>4. ASSUME NEW j \in Jobs, WorkerVerdict(j) PROVE TypeOK'
    BY <2>4 DEF WorkerVerdict, Status, Verdict
  <2>5. CASE ActorStart
    BY <2>5 DEF ActorStart
  <2>6. CASE ActorReset
    BY <2>6 DEF ActorReset, Status
  <2>7. CASE ActorFetch
    BY <2>7 DEF ActorFetch, Outcome
  <2>8. CASE ActorTakeLock
    BY <2>8 DEF ActorTakeLock
  <2>9. ASSUME NEW j \in Jobs, NEW o \in Outcomes, ActorJob(j, o) PROVE TypeOK'
    BY <2>9 DEF ActorJob, Outcome
  <2>10. CASE ActorCommit
    <3>1. \A r \in Rules, o \in Outcome : Cardinality(Judged(r, o)) \in Nat
      BY JobSets DEF Judged
    <3>2. tp' \in [Rules -> Nat] /\ fp' \in [Rules -> Nat]
      BY <2>10, <3>1 DEF ActorCommit, Outcome
    <3>3. status' \in [Jobs -> Status] /\ findings' \in [Jobs -> Nat]
      BY <2>10 DEF ActorCommit, Status
    <3>4. verdict' \in [Jobs -> Verdict]
      BY <2>10 DEF ActorCommit, Verdict, Outcome
    <3> QED BY <2>10, <3>2, <3>3, <3>4 DEF ActorCommit, Outcome
  <2>11. CASE ActorAbort
    BY <2>11 DEF ActorAbort, Outcome
  <2>12. ASSUME NEW c \in Compactors, CompactStart(c) PROVE TypeOK'
    BY <2>12 DEF CompactStart
  <2>13. ASSUME NEW c \in Compactors, CompactDevice(c) PROVE TypeOK'
    <3>1. PICK d \in devs[c], K \in SUBSET Pending :
            /\ plan' = [plan EXCEPT ![c] = @ \cup {Collapsed(k) : k \in K}]
            /\ devs' = [devs EXCEPT ![c] = @ \ {d}]
      BY <2>13 DEF CompactDevice
    <3>2. {Collapsed(k) : k \in K} \in SUBSET Collapse
      BY CollapsedType
    <3> QED BY <2>13, <3>1, <3>2 DEF CompactDevice
  <2>14. ASSUME NEW c \in Compactors, CompactCommit(c) PROVE TypeOK'
    <3>1. \A j \in Jobs : (\E x \in plan[c] : x.keep = j)
                          => (CHOOSE x \in plan[c] : x.keep = j).count \in Nat
      BY DEF Collapse
    <3>2. cc' \in [Jobs -> Nat] /\ status' \in [Jobs -> Status]
      BY <2>14, <3>1 DEF CompactCommit, Status
    <3> QED BY <2>14, <3>2 DEF CompactCommit, Release
  <2>15. ASSUME NEW c \in Compactors, CompactTimeout(c) PROVE TypeOK'
    BY <2>15 DEF CompactTimeout, Release
  <2>16. CASE Tick
    BY <2>16 DEF Tick
  <2>17. CASE Crash
    BY <2>17 DEF Crash, Outcome
  <2>18. CASE UNCHANGED vars
    BY <2>18 DEF vars
  <2> QED BY SMTT(30), <2>1, <2>2, <2>3, <2>4, <2>5, <2>6, <2>7, <2>8, <2>9, <2>10, <2>11,
             <2>12, <2>13, <2>14, <2>15, <2>16, <2>17, <2>18 DEF Next, ActorStep
<1> QED BY <1>1, <1>2, PTL DEF Spec

-----------------------------------------------------------------------------
(* A pass in flight holds the lock; it will keep a job of the group it     *)
(* collapses, none that any of its groups drops, and none that has been    *)
(* collapsed since; devices it has yet to read are not in its plan.        *)
PlanInv ==
  \A c \in Compactors :
    /\ cpc[c] = "scan" => lock = c
    /\ cpc[c] = "idle" => plan[c] = {}
    /\ \A x \in plan[c] :
         /\ status[x.keep] \notin {"absent", "compacted"}
         /\ dev[x.keep] \notin devs[c]
         /\ \A i \in x.drop : SameGroup(i, x.keep) /\ status[i] # "absent"
         /\ \A y \in plan[c] : x.keep \notin y.drop

RepInv == TypeOK /\ PlanInv /\ CompactedIsRepresented

(* A step that writes no row key, compacts nothing and leaves the passes   *)
(* alone keeps the invariant.                                              *)
LEMMA NoCompaction ==
  ASSUME RepInv, TypeOK', UNCHANGED compVars,
         \A j \in Jobs : status[j] # "absent" =>
            /\ dev'[j] = dev[j] /\ rule'[j] = rule[j] /\ status'[j] # "absent",
         \A j \in Jobs : status'[j] = "compacted" => status[j] = "compacted"
  PROVE  PlanInv' /\ CompactedIsRepresented'
<1>1. PlanInv'
  <2> SUFFICES ASSUME NEW c \in Compactors
               PROVE  /\ cpc[c] = "scan" => lock = c
                      /\ cpc[c] = "idle" => plan[c] = {}
                      /\ \A x \in plan[c] :
                           /\ status'[x.keep] \notin {"absent", "compacted"}
                           /\ dev'[x.keep] \notin devs[c]
                           /\ \A i \in x.drop : SameGroup(i, x.keep)' /\ status'[i] # "absent"
                           /\ \A y \in plan[c] : x.keep \notin y.drop
    BY DEF PlanInv, compVars, SameGroup
  <2>1. \A x \in plan[c] : x.keep \in Jobs /\ x.drop \in SUBSET Jobs
    BY DEF RepInv, TypeOK, Collapse
  <2> QED BY <2>1 DEF RepInv, PlanInv, SameGroup
<1>2. CompactedIsRepresented'
  <2> SUFFICES ASSUME NEW j \in Jobs, status'[j] = "compacted"
               PROVE  \E k \in Jobs : SameGroup(j, k)' /\ status'[k] \notin {"absent", "compacted"}
    BY DEF CompactedIsRepresented
  <2>1. PICK k \in Jobs : SameGroup(j, k) /\ status[k] \notin {"absent", "compacted"}
    BY DEF RepInv, CompactedIsRepresented
  <2> QED BY <2>1 DEF SameGroup
<1> QED BY <1>1, <1>2

(* Reading a device adds its groups to the plan; the rows do not move.     *)
LEMMA DeviceRead ==
  ASSUME RepInv, NEW c \in Compactors, CompactDevice(c)
  PROVE  PlanInv' /\ CompactedIsRepresented'
<1> USE DEF RepInv
<1>1. PICK d \in devs[c], K \in SUBSET Pending :
        /\ Keepers(d, K)
        /\ plan' = [plan EXCEPT ![c] = @ \cup {Collapsed(k) : k \in K}]
        /\ devs' = [devs EXCEPT ![c] = @ \ {d}]
  BY DEF CompactDevice
<1>2. UNCHANGED <<status, dev, rule, lock, cpc>>
  BY DEF CompactDevice, db, rows
<1>3. CompactedIsRepresented'
  BY <1>2 DEF CompactedIsRepresented, SameGroup
<1>4. ASSUME NEW k \in K
      PROVE  /\ Collapsed(k).keep = k /\ Collapsed(k).drop = Group(k) \ {k}
             /\ k \in Jobs /\ status[k] = "pending" /\ dev[k] = d
             /\ \A i \in Group(k) : SameGroup(i, k) /\ status[i] = "pending" /\ dev[i] = d
             /\ \A l \in K : k \notin Group(l) \ {l}
  BY <1>1 DEF Collapsed, Keepers, Group, Pending, SameGroup
<1>5. \A x \in plan[c] : /\ dev[x.keep] # d
                          /\ \A i \in x.drop : dev[i] # d
  BY <1>1 DEF PlanInv, SameGroup
<1>6. cpc[c] = "scan"
  BY DEF CompactDevice
<1>7. ASSUME NEW x \in plan'[c]
      PROVE  /\ status[x.keep] \notin {"absent", "compacted"}
             /\ dev[x.keep] \notin devs'[c]
             /\ \A i \in x.drop : SameGroup(i, x.keep) /\ status[i] # "absent"
             /\ \A y \in plan'[c] : x.keep \notin y.drop
  <2>1. plan'[c] = plan[c] \cup {Collapsed(k) : k \in K} /\ devs'[c] = devs[c] \ {d}
    BY <1>1 DEF TypeOK
  <2>2. CASE x \in plan[c]
    <3>1. \A y \in plan[c] : x.keep \notin y.drop
      BY <2>2 DEF PlanInv
    <3>2. \A k \in K : x.keep \notin Collapsed(k).drop
      BY <2>2, <1>4, <1>5
    <3> QED BY <2>1, <2>2, <3>1, <3>2 DEF PlanInv
  <2>3. CASE \E k \in K : x = Collapsed(k)
    <3>1. PICK k \in K : x = Collapsed(k)
      BY <2>3
    <3>2. \A y \in plan[c] : k \notin y.drop
      BY <1>4, <1>5
    <3>3. \A l \in K : k \notin Collapsed(l).drop
      BY <1>4
    <3> QED BY <2>1, <3>1, <3>2, <3>3, <1>4
  <2> QED BY <2>1, <2>2, <2>3
<1>8. PlanInv'
  <2> SUFFICES ASSUME NEW b \in Compactors
               PROVE  /\ cpc[b] = "scan" => lock = b
                      /\ cpc[b] = "idle" => plan'[b] = {}
                      /\ \A x \in plan'[b] :
                           /\ status[x.keep] \notin {"absent", "compacted"}
                           /\ dev[x.keep] \notin devs'[b]
                           /\ \A i \in x.drop : SameGroup(i, x.keep) /\ status[i] # "absent"
                           /\ \A y \in plan'[b] : x.keep \notin y.drop
    BY <1>2 DEF PlanInv, SameGroup
  <2>1. CASE b = c
    BY <2>1, <1>6, <1>7 DEF PlanInv
  <2>2. CASE b # c
    <3>1. plan'[b] = plan[b] /\ devs'[b] = devs[b]
      BY <1>1, <2>2 DEF TypeOK
    <3> QED BY <3>1 DEF PlanInv
  <2> QED BY <2>1, <2>2
<1> QED BY <1>3, <1>8

(* The pass writes: what it drops is represented by what it keeps, and     *)
(* what represented an older collapsed job is kept or hands over.          *)
LEMMA PassCommits ==
  ASSUME RepInv, NEW c \in Compactors, CompactCommit(c)
  PROVE  PlanInv' /\ CompactedIsRepresented'
<1> USE DEF RepInv
<1>1. UNCHANGED <<dev, rule>>
  BY DEF CompactCommit
<1>2. \A b \in Compactors : plan'[b] = {}
  <2>1. \A b \in Compactors : b # c => plan[b] = {}
    BY DEF CompactCommit, PlanInv, TypeOK
  <2> QED BY <2>1 DEF CompactCommit, Release, TypeOK
<1>3. \A b \in Compactors : cpc'[b] = "scan" => FALSE
  <2>1. \A b \in Compactors : b # c => cpc[b] # "scan"
    BY DEF CompactCommit, PlanInv
  <2> QED BY <2>1 DEF CompactCommit, Release, TypeOK
<1>4. PlanInv'
  BY <1>2, <1>3 DEF PlanInv
<1>5. \A x \in plan[c] : x.keep \in Jobs /\ x.drop \in SUBSET Jobs
  BY DEF TypeOK, Collapse
<1>6. \A j \in Jobs : status'[j] = IF j \in Dropped(plan[c]) THEN "compacted" ELSE status[j]
  BY DEF CompactCommit
<1>7. ASSUME NEW x \in plan[c]
      PROVE  status'[x.keep] \notin {"absent", "compacted"}
  BY <1>5, <1>6 DEF PlanInv, Dropped
<1>8. ASSUME NEW j \in Jobs, status'[j] = "compacted"
      PROVE  \E k \in Jobs : SameGroup(j, k) /\ status'[k] \notin {"absent", "compacted"}
  <2>1. CASE j \in Dropped(plan[c])
    <3>1. PICK x \in plan[c] : j \in x.drop
      BY <2>1 DEF Dropped
    <3> QED BY <3>1, <1>5, <1>7 DEF PlanInv
  <2>2. CASE j \notin Dropped(plan[c])
    <3>1. PICK k \in Jobs : SameGroup(j, k) /\ status[k] \notin {"absent", "compacted"}
      BY <2>2, <1>6, <1>8 DEF CompactedIsRepresented
    <3>2. CASE k \in Dropped(plan[c])
      <4>1. PICK x \in plan[c] : k \in x.drop
        BY <3>2 DEF Dropped
      <4>2. SameGroup(j, x.keep)
        BY <3>1, <4>1 DEF PlanInv, SameGroup
      <4> QED BY <4>1, <4>2, <1>5, <1>7
    <3>3. CASE k \notin Dropped(plan[c])
      BY <3>1, <3>3, <1>6
    <3> QED BY <3>2, <3>3
  <2> QED BY <2>1, <2>2
<1>9. CompactedIsRepresented'
  BY <1>1, <1>8 DEF CompactedIsRepresented, SameGroup
<1> QED BY <1>4, <1>9

LEMMA RepInvariant == Spec => []RepInv
<1>1. Init => PlanInv /\ CompactedIsRepresented
  BY DEF Init, PlanInv, CompactedIsRepresented
<1>2. RepInv /\ TypeOK' /\ [Next]_vars => PlanInv' /\ CompactedIsRepresented'
  <2> SUFFICES ASSUME RepInv, TypeOK', [Next]_vars
               PROVE  PlanInv' /\ CompactedIsRepresented'
    OBVIOUS
  <2> USE DEF RepInv, TypeOK, db, rows
  <2>1. ASSUME NEW x \in Submissions, Enqueue(x) PROVE PlanInv' /\ CompactedIsRepresented'
    BY <2>1, NoCompaction DEF Enqueue
  <2>2. ASSUME NEW j \in Jobs, Prioritize(j) PROVE PlanInv' /\ CompactedIsRepresented'
    BY <2>2, NoCompaction DEF Prioritize
  <2>3. ASSUME NEW j \in Jobs, NEW s \in {"processing", "failed"}, WorkerStatus(j, s)
        PROVE PlanInv' /\ CompactedIsRepresented'
    BY <2>3, NoCompaction DEF WorkerStatus
  <2>4. ASSUME NEW j \in Jobs, WorkerVerdict(j) PROVE PlanInv' /\ CompactedIsRepresented'
    BY <2>4, NoCompaction DEF WorkerVerdict
  <2>5. CASE ActorStart
    BY <2>5, NoCompaction DEF ActorStart
  <2>6. CASE ActorReset
    BY <2>6, NoCompaction DEF ActorReset
  <2>7. CASE ActorFetch
    BY <2>7, NoCompaction DEF ActorFetch
  <2>8. CASE ActorTakeLock
    BY <2>8, NoCompaction DEF ActorTakeLock
  <2>9. ASSUME NEW j \in Jobs, NEW o \in Outcomes, ActorJob(j, o)
        PROVE PlanInv' /\ CompactedIsRepresented'
    BY <2>9, NoCompaction DEF ActorJob
  <2>10. CASE ActorCommit
    BY <2>10, NoCompaction DEF ActorCommit
  <2>11. CASE ActorAbort
    BY <2>11, NoCompaction DEF ActorAbort
  <2>12. ASSUME NEW c \in Compactors, CompactStart(c)
         PROVE PlanInv' /\ CompactedIsRepresented'
    <3>1. \A b \in Compactors : plan'[b] = {}
      BY <2>12, ConstantsAssumption DEF CompactStart, PlanInv
    <3>2. \A b \in Compactors : cpc'[b] = "scan" => b = c
      BY <2>12, ConstantsAssumption DEF CompactStart, PlanInv
    <3> QED BY <2>12, <3>1, <3>2 DEF CompactStart, PlanInv, CompactedIsRepresented, SameGroup
  <2>13. ASSUME NEW c \in Compactors, CompactDevice(c)
         PROVE PlanInv' /\ CompactedIsRepresented'
    BY <2>13, DeviceRead
  <2>14. ASSUME NEW c \in Compactors, CompactCommit(c)
         PROVE PlanInv' /\ CompactedIsRepresented'
    BY <2>14, PassCommits
  <2>15. ASSUME NEW c \in Compactors, CompactTimeout(c)
         PROVE PlanInv' /\ CompactedIsRepresented'
    <3>1. \A b \in Compactors : b # c => cpc[b] # "scan" /\ plan[b] = {}
      BY <2>15 DEF CompactTimeout, PlanInv
    <3> QED BY <2>15, <3>1 DEF CompactTimeout, Release, PlanInv, CompactedIsRepresented, SameGroup
  <2>16. CASE Tick
    BY <2>16, NoCompaction DEF Tick
  <2>17. CASE Crash
    BY <2>17 DEF Crash, PlanInv, CompactedIsRepresented, SameGroup
  <2>18. CASE UNCHANGED vars
    BY <2>18, NoCompaction DEF vars
  <2> QED BY <2>1, <2>2, <2>3, <2>4, <2>5, <2>6, <2>7, <2>8, <2>9, <2>10, <2>11,
             <2>12, <2>13, <2>14, <2>15, <2>16, <2>17, <2>18 DEF Next, ActorStep
<1> QED BY <1>1, <1>2, TypeCorrect, PTL DEF Spec, RepInv

(* No group of events disappears: whatever an external worker, the actor   *)
(* and overlapping compactions do, a collapsed job has one of its device   *)
(* and rule that was not collapsed.                                        *)
THEOREM Represented == Spec => []CompactedIsRepresented
<1>1. RepInv => CompactedIsRepresented
  BY DEF RepInv
<1> QED BY <1>1, RepInvariant, PTL

-----------------------------------------------------------------------------
(* What a pass will count is what the kept job counts now and the jobs it  *)
(* drops: nobody else writes a count while the pass holds the lock.        *)
PlanCounts ==
  \A c \in Compactors : \A x \in plan[c] :
    /\ x.count = cc[x.keep] + Cardinality(x.drop)
    /\ \A y \in plan[c] : x.keep = y.keep => x = y

CountedFor(countedBy, k) == {j \in Jobs : status[j] = "compacted" /\ countedBy[j] = k}
Counts(countedBy) ==
  /\ \A j \in Jobs : status[j] = "compacted" =>
       SameGroup(j, countedBy[j]) /\ status[countedBy[j]] # "absent"
  /\ \A k \in Jobs : Cardinality(CountedFor(countedBy, k)) <= cc[k]
EachIsCounted == PlanCounts /\ \E countedBy \in [Jobs -> Jobs] : Counts(countedBy)

(* A step that writes no count and no plan, and compacts nothing.          *)
LEMMA NoCountWritten ==
  ASSUME RepInv, EachIsCounted, cc' = cc,
         \A c \in Compactors : plan'[c] = plan[c] \/ plan'[c] = {},
         \A j \in Jobs : status[j] # "absent" =>
            /\ dev'[j] = dev[j] /\ rule'[j] = rule[j] /\ status'[j] # "absent",
         \A j \in Jobs : status'[j] = "compacted" => status[j] = "compacted"
  PROVE  EachIsCounted'
<1>1. PICK countedBy \in [Jobs -> Jobs] : Counts(countedBy)
  BY DEF EachIsCounted
<1>2. PlanCounts'
  BY DEF EachIsCounted, PlanCounts
<1>3. ASSUME NEW j \in Jobs, status'[j] = "compacted"
      PROVE  SameGroup(j, countedBy[j])' /\ status'[countedBy[j]] # "absent"
  <2>1. status[j] = "compacted" /\ countedBy[j] \in Jobs
    BY <1>3
  <2>2. SameGroup(j, countedBy[j]) /\ status[countedBy[j]] # "absent"
    BY <1>1, <2>1 DEF Counts
  <2> QED BY <2>1, <2>2 DEF SameGroup
<1>4. ASSUME NEW k \in Jobs PROVE Cardinality(CountedFor(countedBy, k)') <= cc[k]
  <2>1. /\ CountedFor(countedBy, k)' \in SUBSET CountedFor(countedBy, k)
        /\ CountedFor(countedBy, k) \in SUBSET Jobs
    BY DEF CountedFor
  <2>2. /\ Cardinality(CountedFor(countedBy, k)') <= Cardinality(CountedFor(countedBy, k))
        /\ Cardinality(CountedFor(countedBy, k)') \in Nat
        /\ Cardinality(CountedFor(countedBy, k)) \in Nat
    BY <2>1, JobSets, FS_Subset
  <2>3. Cardinality(CountedFor(countedBy, k)) <= cc[k] /\ cc[k] \in Nat
    BY <1>1 DEF Counts, RepInv, TypeOK
  <2> QED BY <2>2, <2>3
<1>5. Counts(countedBy)'
  BY <1>3, <1>4 DEF Counts
<1> QED BY <1>2, <1>5 DEF EachIsCounted

(* The groups of a device have each their own job to keep, and none is of  *)
(* another device that the pass has read.                                  *)
LEMMA GroupsCounted ==
  ASSUME RepInv, EachIsCounted, NEW c \in Compactors, CompactDevice(c)
  PROVE  EachIsCounted'
<1>1. PICK d \in devs[c], K \in SUBSET Pending :
        /\ Keepers(d, K)
        /\ plan' = [plan EXCEPT ![c] = @ \cup {Collapsed(k) : k \in K}]
  BY DEF CompactDevice
<1>2. UNCHANGED <<status, dev, rule, cc>>
  BY DEF CompactDevice, db, rows
<1>3. /\ \A x \in plan[c] : dev[x.keep] # d
      /\ \A k \in K : dev[k] = d
  BY <1>1 DEF RepInv, PlanInv, Keepers
<1>4. \A b \in Compactors : plan'[b] = IF b = c THEN plan[c] \cup {Collapsed(k) : k \in K} ELSE plan[b]
  BY <1>1 DEF RepInv, TypeOK
<1>5. \A k \in K : /\ Collapsed(k).keep = k
                   /\ Collapsed(k).count = cc[k] + Cardinality(Collapsed(k).drop)
  BY DEF Collapsed
<1>6. ASSUME NEW b \in Compactors, NEW x \in plan'[b]
      PROVE  /\ x.count = cc[x.keep] + Cardinality(x.drop)
             /\ \A y \in plan'[b] : x.keep = y.keep => x = y
  <2>1. CASE b # c
    BY <1>4, <2>1 DEF EachIsCounted, PlanCounts
  <2>2. CASE b = c /\ x \in plan[c]
    <3>1. /\ x.count = cc[x.keep] + Cardinality(x.drop)
          /\ \A y \in plan[c] : x.keep = y.keep => x = y
      BY <2>2 DEF EachIsCounted, PlanCounts
    <3>2. \A k \in K : x.keep # Collapsed(k).keep
      BY <1>3, <1>5, <2>2
    <3>3. \A y \in plan'[b] : y \in plan[c] \/ \E k \in K : y = Collapsed(k)
      BY <1>4, <2>2
    <3>4. \A y \in plan'[b] : x.keep = y.keep => x = y
      BY <3>1, <3>2, <3>3
    <3> QED BY <3>1, <3>4
  <2>3. CASE b = c /\ \E k \in K : x = Collapsed(k)
    <3>1. PICK k \in K : x = Collapsed(k)
      BY <2>3
    <3>2. x.keep = k /\ x.count = cc[x.keep] + Cardinality(x.drop)
      BY <1>5, <3>1
    <3>3. \A y \in plan[c] : x.keep # y.keep
      BY <1>3, <3>2
    <3>4. \A l \in K : x.keep = Collapsed(l).keep => x = Collapsed(l)
      BY <1>5, <3>1, <3>2
    <3>5. \A y \in plan'[b] : y \in plan[c] \/ \E l \in K : y = Collapsed(l)
      BY <1>4, <2>3
    <3>6. \A y \in plan'[b] : x.keep = y.keep => x = y
      BY <3>3, <3>4, <3>5
    <3> QED BY <3>2, <3>6
  <2> QED BY <1>4, <2>1, <2>2, <2>3
<1>7. PlanCounts'
  BY <1>2, <1>6 DEF PlanCounts
<1>8. \E countedBy \in [Jobs -> Jobs] : Counts(countedBy)'
  BY <1>2 DEF EachIsCounted, Counts, CountedFor, SameGroup
<1> QED BY <1>7, <1>8 DEF EachIsCounted

(* The pass writes: what it drops is counted by what it keeps.             *)
LEMMA DropsCounted ==
  ASSUME RepInv, EachIsCounted, NEW c \in Compactors, CompactCommit(c)
  PROVE  EachIsCounted'
<1>1. PICK before \in [Jobs -> Jobs] : Counts(before)
  BY DEF EachIsCounted
<1>2. /\ UNCHANGED <<dev, rule>> /\ \A b \in Compactors : plan'[b] = {}
      /\ \A j \in Jobs : status'[j] = IF j \in Dropped(plan[c]) THEN "compacted" ELSE status[j]
      /\ cc' = [j \in Jobs |-> IF \E x \in plan[c] : x.keep = j
                               THEN (CHOOSE x \in plan[c] : x.keep = j).count ELSE cc[j]]
  <2>1. \A b \in Compactors : b # c => plan[b] = {}
    BY DEF CompactCommit, RepInv, PlanInv, TypeOK
  <2>2. \A b \in Compactors : plan'[b] = {}
    BY <2>1 DEF CompactCommit, Release, RepInv, TypeOK
  <2> QED BY <2>2 DEF CompactCommit
<1>3. ASSUME NEW x \in plan[c]
      PROVE  /\ x.keep \in Jobs /\ x.drop \in SUBSET Jobs /\ status[x.keep] # "absent"
             /\ \A j \in x.drop : SameGroup(j, x.keep)
             /\ x.count = cc[x.keep] + Cardinality(x.drop)
             /\ \A y \in plan[c] : x.keep = y.keep => x = y
  <2>1. x \in Collapse
    BY DEF RepInv, TypeOK
  <2>2. x.keep \in Jobs /\ x.drop \in SUBSET Jobs
    BY <2>1 DEF Collapse
  <2> QED BY <2>2 DEF RepInv, PlanInv, EachIsCounted, PlanCounts
<1>4. PICK by \in [Dropped(plan[c]) -> plan[c]] : \A j \in Dropped(plan[c]) : j \in by[j].drop
  <2> DEFINE by == [j \in Dropped(plan[c]) |-> CHOOSE x \in plan[c] : j \in x.drop]
  <2>1. \A j \in Dropped(plan[c]) : by[j] \in plan[c] /\ j \in by[j].drop
    BY DEF Dropped
  <2>2. by \in [Dropped(plan[c]) -> plan[c]]
    BY <2>1
  <2> QED BY <2>1, <2>2
<1>5. PICK countedBy \in [Jobs -> Jobs] :
        \A j \in Jobs : countedBy[j] = IF j \in Dropped(plan[c]) THEN by[j].keep ELSE before[j]
  <2> DEFINE after == [j \in Jobs |-> IF j \in Dropped(plan[c]) THEN by[j].keep ELSE before[j]]
  <2>1. after \in [Jobs -> Jobs]
    BY <1>3, <1>4
  <2> QED BY <2>1
<1>6. ASSUME NEW j \in Jobs, status'[j] = "compacted"
      PROVE  SameGroup(j, countedBy[j])' /\ status'[countedBy[j]] # "absent"
  <2>1. SameGroup(j, countedBy[j]) /\ status[countedBy[j]] # "absent" /\ countedBy[j] \in Jobs
    <3>1. CASE j \in Dropped(plan[c])
      BY <1>3, <1>4, <1>5, <3>1
    <3>2. CASE j \notin Dropped(plan[c])
      BY <1>1, <1>2, <1>5, <1>6, <3>2 DEF Counts
    <3> QED BY <3>1, <3>2
  <2> QED BY <1>2, <2>1 DEF SameGroup
<1>7. ASSUME NEW k \in Jobs PROVE Cardinality(CountedFor(countedBy, k)') <= cc'[k]
  <2>1. PICK new \in SUBSET Jobs : new = CountedFor(countedBy, k)'
    BY DEF CountedFor
  <2>2. PICK old \in SUBSET Jobs : old = CountedFor(before, k)
    BY DEF CountedFor
  <2>3. Cardinality(old) <= cc[k] /\ cc[k] \in Nat
    BY <1>1, <2>2 DEF Counts, RepInv, TypeOK
  <2>4. \A j \in new : status'[j] = "compacted" /\ countedBy[j] = k
    BY <2>1 DEF CountedFor
  <2>5. \A j \in new : j \in old \/ \E x \in plan[c] : x.keep = k /\ j \in x.drop
    <3> SUFFICES ASSUME NEW j \in new
                 PROVE  j \in old \/ \E x \in plan[c] : x.keep = k /\ j \in x.drop
      OBVIOUS
    <3>1. CASE j \in Dropped(plan[c])
      BY <1>4, <1>5, <2>4, <3>1
    <3>2. CASE j \notin Dropped(plan[c])
      BY <1>2, <1>5, <2>2, <2>4, <3>2 DEF CountedFor
    <3> QED BY <3>1, <3>2
  <2>6. CASE \E x \in plan[c] : x.keep = k
    <3>1. PICK x \in plan[c] : x.keep = k
      BY <2>6
    <3>2. /\ x.drop \in SUBSET Jobs /\ x.count = cc[k] + Cardinality(x.drop)
          /\ \A y \in plan[c] : y.keep = k => y = x
      BY <1>3, <3>1
    <3>3. cc'[k] = x.count
      BY <1>2, <3>1, <3>2
    <3>4. new \in SUBSET (old \cup x.drop)
      BY <2>5, <3>2
    <3>5. /\ IsFiniteSet(old) /\ IsFiniteSet(x.drop) /\ IsFiniteSet(old \cup x.drop)
          /\ Cardinality(old) \in Nat /\ Cardinality(x.drop) \in Nat
          /\ Cardinality(old \cup x.drop) \in Nat /\ Cardinality(old \cap x.drop) \in Nat
          /\ Cardinality(new) \in Nat
      <4>1. old \cup x.drop \in SUBSET Jobs /\ old \cap x.drop \in SUBSET Jobs
        BY <3>2
      <4> QED BY <3>2, <4>1, JobSets
    <3>6. Cardinality(old \cup x.drop)
            = Cardinality(old) + Cardinality(x.drop) - Cardinality(old \cap x.drop)
      BY <3>5, FS_Union
    <3>7. Cardinality(new) <= Cardinality(old \cup x.drop)
      BY <3>4, <3>5, FS_Subset
    <3>8. Cardinality(new) <= cc'[k]
      BY <2>3, <3>2, <3>3, <3>5, <3>6, <3>7
    <3> QED BY <2>1, <3>8
  <2>7. CASE ~\E x \in plan[c] : x.keep = k
    <3>1. cc'[k] = cc[k] /\ new \in SUBSET old
      BY <1>2, <2>5, <2>7
    <3>2. IsFiniteSet(old) /\ Cardinality(old) \in Nat /\ Cardinality(new) \in Nat
      BY JobSets
    <3>3. Cardinality(new) <= Cardinality(old)
      BY <3>1, <3>2, FS_Subset
    <3>4. Cardinality(new) <= cc'[k]
      BY <2>3, <3>1, <3>2, <3>3
    <3> QED BY <2>1, <3>4
  <2> QED BY <2>6, <2>7
<1>8. Counts(countedBy)'
  BY <1>6, <1>7 DEF Counts
<1>9. PlanCounts'
  BY <1>2 DEF PlanCounts
<1> QED BY <1>8, <1>9 DEF EachIsCounted

LEMMA CountsInitially == Init => EachIsCounted
<1> SUFFICES ASSUME Init PROVE EachIsCounted
  OBVIOUS
<1> DEFINE self == [j \in Jobs |-> j]
<1>1. self \in [Jobs -> Jobs] /\ PlanCounts
  BY DEF Init, PlanCounts
<1> HIDE DEF self
<1>2. \A k \in Jobs : CountedFor(self, k) = {}
  BY DEF Init, CountedFor
<1>3. \A k \in Jobs : Cardinality(CountedFor(self, k)) = 0
  BY <1>2, FS_EmptySet, Zenon
<1>4. Counts(self)
  BY <1>3 DEF Init, Counts
<1> QED BY <1>1, <1>4 DEF EachIsCounted

LEMMA CountsInductive == RepInv /\ EachIsCounted /\ [Next]_vars => EachIsCounted'
<1> SUFFICES ASSUME RepInv, EachIsCounted, [Next]_vars PROVE EachIsCounted'
  OBVIOUS
<1>1. ASSUME NEW c \in Compactors, CompactDevice(c) PROVE EachIsCounted'
  BY <1>1, GroupsCounted
<1>2. ASSUME NEW c \in Compactors, CompactCommit(c) PROVE EachIsCounted'
  BY <1>2, DropsCounted
<1> USE DEF db, rows, compVars
<1>3. ASSUME NEW x \in Submissions, Enqueue(x) PROVE EachIsCounted'
  BY <1>3, NoCountWritten DEF Enqueue, RepInv, TypeOK
<1>4. CASE \/ \E j \in Jobs : Prioritize(j) \/ WorkerVerdict(j)
           \/ \E j \in Jobs, s \in {"processing", "failed"} : WorkerStatus(j, s)
  BY <1>4, NoCountWritten DEF Prioritize, WorkerVerdict, WorkerStatus, RepInv, TypeOK
<1>5. CASE ActorReset \/ ActorCommit
  BY <1>5, NoCountWritten DEF ActorReset, ActorCommit, RepInv, TypeOK
<1>6. CASE \/ ActorStart \/ ActorFetch \/ ActorTakeLock
           \/ \E j \in Jobs, o \in Outcomes : ActorJob(j, o)
           \/ ActorAbort \/ Tick \/ UNCHANGED vars
  <2>1. UNCHANGED <<status, dev, rule, cc, plan>>
    BY <1>6 DEF ActorStart, ActorFetch, ActorTakeLock, ActorJob, ActorAbort, Tick, vars
  <2> QED BY <2>1, NoCountWritten
<1>7. CASE Crash \/ \E c \in Compactors : CompactStart(c) \/ CompactTimeout(c)
  <2>1. UNCHANGED <<status, dev, rule, cc>>
    BY <1>7 DEF Crash, CompactStart, CompactTimeout
  <2>2. \A b \in Compactors : plan'[b] = plan[b] \/ plan'[b] = {}
    BY <1>7 DEF Crash, CompactStart, CompactTimeout, Release, RepInv, TypeOK
  <2> QED BY <2>1, <2>2, NoCountWritten
<1> QED BY <1>1, <1>2, <1>3, <1>4, <1>5, <1>6, <1>7 DEF Next, ActorStep

(* compaction.py:97.  Every job a pass collapsed is counted in the         *)
(* compacted_count of a job of its group, for any jobs, devices and rules, *)
(* however passes, cycles, requests and crashes overlap.                   *)
THEOREM CollapsesStayCounted == Spec => []CollapsesAreCounted
<1>1. EachIsCounted => CollapsesAreCounted
  BY DEF EachIsCounted, Counts, CountedFor, CollapsesAreCounted
<1> QED BY <1>1, CountsInitially, CountsInductive, RepInvariant, PTL DEF Spec

-----------------------------------------------------------------------------
(* Without an external worker nothing is ever marked `processing` where    *)
(* another session sees it, and what is pending, or in a batch, has no     *)
(* finding yet - even if a compaction collapsed it in the meantime.        *)
OnceInv ==
  /\ stuck = {}
  /\ batch # {} => apc \in {"lock", "work"}
  /\ batch \subseteq Live
  /\ \A j \in Jobs : /\ status[j] # "processing"
                     /\ status[j] \in {"absent", "pending"} => findings[j] = 0
                     /\ j \in batch => findings[j] = 0
                     /\ findings[j] <= 1
  /\ \A c \in Compactors : \A x \in plan[c] : x.drop \subseteq Live

OnceSafe == TypeOK /\ OnceInv

LEMMA OnceInductive ==
  ASSUME ~Worker, OnceSafe, [Next]_vars PROVE OnceInv'
<1> USE ConstantsAssumption DEF OnceSafe, TypeOK, OnceInv, Live, db, rows, actorVars, compVars
<1>1. ASSUME NEW x \in Submissions, Enqueue(x) PROVE OnceInv'
  BY <1>1 DEF Enqueue, Collapse
<1>2. ASSUME NEW j \in Jobs, Prioritize(j) PROVE OnceInv'
  BY <1>2 DEF Prioritize
<1>3. ASSUME NEW j \in Jobs, NEW s \in {"processing", "failed"}, WorkerStatus(j, s)
      PROVE OnceInv'
  BY <1>3 DEF WorkerStatus
<1>4. ASSUME NEW j \in Jobs, WorkerVerdict(j) PROVE OnceInv'
  BY <1>4 DEF WorkerVerdict
<1>5. CASE ActorStart
  BY <1>5 DEF ActorStart
<1>6. CASE ActorReset
  BY <1>6 DEF ActorReset
<1>7. CASE ActorFetch
  BY <1>7 DEF ActorFetch, IsBatch, Pending
<1>8. CASE ActorTakeLock
  BY <1>8 DEF ActorTakeLock
<1>9. ASSUME NEW j \in Jobs, NEW o \in Outcomes, ActorJob(j, o) PROVE OnceInv'
  BY <1>9 DEF ActorJob
<1>10. CASE ActorCommit
  BY <1>10 DEF ActorCommit, Collapse
<1>11. CASE ActorAbort
  BY <1>11 DEF ActorAbort
<1>12. ASSUME NEW c \in Compactors, CompactStart(c) PROVE OnceInv'
  BY <1>12 DEF CompactStart
<1>13. ASSUME NEW c \in Compactors, CompactDevice(c) PROVE OnceInv'
  <2>1. PICK d \in devs[c], K \in SUBSET Pending :
          plan' = [plan EXCEPT ![c] = @ \cup {Collapsed(k) : k \in K}]
    BY <1>13 DEF CompactDevice
  <2>2. \A k \in K : Collapsed(k).drop \subseteq Live
    BY DEF Collapsed, Group, Pending
  <2>3. \A b \in Compactors : \A x \in plan'[b] : x.drop \subseteq Live
    BY <2>1, <2>2
  <2> QED BY <1>13, <2>3 DEF CompactDevice
<1>14. ASSUME NEW c \in Compactors, CompactCommit(c) PROVE OnceInv'
  <2>1. \A b \in Compactors : \A x \in plan'[b] : x \in plan[b]
    BY <1>14 DEF CompactCommit, Release
  <2>2. \A j \in Dropped(plan[c]) : status[j] # "absent"
    BY DEF Dropped
  <2>3. \A j \in Jobs : status'[j] = IF j \in Dropped(plan[c]) THEN "compacted" ELSE status[j]
    BY <1>14 DEF CompactCommit
  <2>4. UNCHANGED <<findings, apc, stuck, batch>>
    BY <1>14 DEF CompactCommit
  <2>5. \A b \in Compactors : \A x \in plan'[b] : x.drop \subseteq Live'
    BY <2>1, <2>2, <2>3
  <2> QED BY <2>2, <2>3, <2>4, <2>5
<1>15. ASSUME NEW c \in Compactors, CompactTimeout(c) PROVE OnceInv'
  BY <1>15 DEF CompactTimeout, Release
<1>16. CASE Tick
  BY <1>16 DEF Tick
<1>17. CASE Crash
  BY <1>17 DEF Crash
<1>18. CASE UNCHANGED vars
  BY <1>18 DEF vars
<1> QED BY <1>1, <1>2, <1>3, <1>4, <1>5, <1>6, <1>7, <1>8, <1>9, <1>10, <1>11,
           <1>12, <1>13, <1>14, <1>15, <1>16, <1>17, <1>18 DEF Next, ActorStep

LEMMA OnceInvariant == ASSUME ~Worker PROVE Spec => []OnceSafe
<1>1. Init => OnceSafe
  <2>1. Init => TypeOK
    BY ConstantsAssumption DEF Init, TypeOK, RuleNames, Status, Verdict, Outcome
  <2> QED BY <2>1 DEF Init, OnceSafe, OnceInv, Live
<1>2. OnceSafe /\ [Next]_vars => OnceInv'
  BY OnceInductive
<1> QED BY <1>1, <1>2, TypeCorrect, PTL DEF Spec, OnceSafe

(* As long as the agent is the only worker, no job gets a second finding:  *)
(* not after a crash, an aborted cycle or a compaction during the cycle.   *)
THEOREM AtMostOneFinding == ASSUME ~Worker PROVE Spec => []OneFindingPerJob
<1>1. OnceSafe => OneFindingPerJob
  BY DEF OnceSafe, OnceInv, OneFindingPerJob
<1> QED BY <1>1, OnceInvariant, PTL

-----------------------------------------------------------------------------
(* Counting verdicts.  A job that is waiting or in a batch has none yet,   *)
(* so what a commit adds to a rule's counters was not counted before.      *)
JudgedAs(r, v) == {j \in Jobs : rule[j] = r /\ verdict[j] = v}

CountedInv ==
  /\ \A j \in Jobs : status[j] \in {"absent", "pending"} \/ j \in batch => verdict[j] = "none"
  /\ CountersMatchVerdicts

LEMMA CountsAsJudged ==
  CountersMatchVerdicts <=>
    /\ \A j \in Jobs : (verdict[j] = "TP") <=> (findings[j] = 1)
    /\ \A r \in Rules : /\ tp[r] = Cardinality(JudgedAs(r, "TP"))
                        /\ fp[r] = Cardinality(JudgedAs(r, "FP"))
BY DEF CountersMatchVerdicts, JudgedAs

LEMMA DisjointCount ==
  ASSUME NEW S, NEW T, IsFiniteSet(S), IsFiniteSet(T), S \cap T = {}
  PROVE  Cardinality(S \cup T) = Cardinality(S) + Cardinality(T)
<1>1. Cardinality(S) \in Nat /\ Cardinality(T) \in Nat /\ Cardinality({}) = 0
  BY FS_CardinalityType, FS_EmptySet
<1>2. Cardinality(S \cup T) = Cardinality(S) + Cardinality(T) - Cardinality(S \cap T)
  BY FS_Union
<1>3. Cardinality(S \cap T) = 0
  BY <1>1
<1> QED BY <1>1, <1>2, <1>3

(* A step that leaves verdicts and their counts alone; the rule of a job   *)
(* without a verdict may be set.                                           *)
LEMMA CountsUntouched ==
  ASSUME CountedInv, UNCHANGED <<verdict, findings, tp, fp>>,
         \A j \in Jobs : verdict[j] # "none" => rule'[j] = rule[j]
  PROVE  CountersMatchVerdicts'
<1>1. ASSUME NEW r \in Rules, NEW v \in {"TP", "FP"}
      PROVE  JudgedAs(r, v)' = JudgedAs(r, v)
  BY <1>1 DEF JudgedAs
<1>2. /\ \A j \in Jobs : (verdict'[j] = "TP") <=> (findings'[j] = 1)
      /\ \A r \in Rules : /\ tp'[r] = Cardinality(JudgedAs(r, "TP")')
                          /\ fp'[r] = Cardinality(JudgedAs(r, "FP")')
  BY <1>1, CountsAsJudged DEF CountedInv
<1> QED BY <1>2 DEF CountersMatchVerdicts, JudgedAs

LEMMA VerdictsCommitted ==
  ASSUME OnceSafe, CountedInv, ActorCommit
  PROVE  CountedInv'
<1> USE DEF OnceSafe, OnceInv, TypeOK
<1>1. \A j \in batch : verdict[j] = "none" /\ findings[j] = 0 /\ j \in Jobs
  BY DEF CountedInv
<1>2. /\ \A j \in Jobs : verdict'[j] = IF j \in batch /\ outcome[j] # "failed"
                                       THEN outcome[j] ELSE verdict[j]
      /\ \A j \in Jobs : findings'[j] = IF j \in batch /\ outcome[j] = "TP"
                                        THEN findings[j] + 1 ELSE findings[j]
      /\ \A j \in Jobs : status'[j] = IF j \notin batch THEN status[j]
                                      ELSE IF outcome[j] = "failed" THEN "failed" ELSE "done"
      /\ rule' = rule /\ batch' = {}
  BY DEF ActorCommit
<1>3. \A j \in Jobs : (verdict'[j] = "TP") <=> (findings'[j] = 1)
  BY <1>1, <1>2 DEF CountedInv, CountersMatchVerdicts
<1>4. \A j \in Jobs : status'[j] \in {"absent", "pending"} \/ j \in batch' => verdict'[j] = "none"
  BY <1>2 DEF CountedInv
<1>5. ASSUME NEW r \in Rules, NEW v \in {"TP", "FP"}
      PROVE  Cardinality(JudgedAs(r, v)') = Cardinality(JudgedAs(r, v)) + Cardinality(Judged(r, v))
  <2>1. JudgedAs(r, v)' = JudgedAs(r, v) \cup Judged(r, v)
    BY <1>1, <1>2, <1>5 DEF JudgedAs, Judged
  <2>2. JudgedAs(r, v) \cap Judged(r, v) = {}
    BY <1>1, <1>5 DEF JudgedAs, Judged
  <2>3. JudgedAs(r, v) \in SUBSET Jobs /\ Judged(r, v) \in SUBSET Jobs
    BY DEF JudgedAs, Judged
  <2>4. /\ IsFiniteSet(JudgedAs(r, v)) /\ IsFiniteSet(Judged(r, v))
        /\ Cardinality(JudgedAs(r, v)) \in Nat /\ Cardinality(Judged(r, v)) \in Nat
    BY <2>3, JobSets
  <2> HIDE DEF OnceSafe, OnceInv, TypeOK
  <2>5. Cardinality(JudgedAs(r, v) \cup Judged(r, v))
          = Cardinality(JudgedAs(r, v)) + Cardinality(Judged(r, v))
    BY <2>2, <2>4, DisjointCount
  <2> QED BY <2>1, <2>5
<1>6. \A r \in Rules : /\ tp'[r] = tp[r] + Cardinality(Judged(r, "TP"))
                       /\ fp'[r] = fp[r] + Cardinality(Judged(r, "FP"))
  BY DEF ActorCommit
<1>7. \A r \in Rules : /\ tp'[r] = Cardinality(JudgedAs(r, "TP")')
                       /\ fp'[r] = Cardinality(JudgedAs(r, "FP")')
  BY <1>5, <1>6, CountsAsJudged DEF CountedInv
<1>8. CountersMatchVerdicts'
  BY <1>3, <1>7 DEF CountersMatchVerdicts, JudgedAs
<1> QED BY <1>4, <1>8 DEF CountedInv

LEMMA CountedInductive ==
  ASSUME ~Worker, OnceSafe, CountedInv, [Next]_vars PROVE CountedInv'
<1> DEFINE Waits(j) == status[j] \in {"absent", "pending"} \/ j \in batch
<1> USE DEF db, rows, actorVars, compVars
(* Every step but the commit keeps the verdicts, and lets no judged job    *)
(* wait again.                                                             *)
<1>1. ASSUME UNCHANGED <<verdict, findings, tp, fp>>,
             \A j \in Jobs : verdict[j] # "none" => rule'[j] = rule[j],
             \A j \in Jobs : Waits(j)' => Waits(j)
      PROVE  CountedInv'
  BY <1>1, CountsUntouched DEF CountedInv
<1>2. ASSUME NEW x \in Submissions, Enqueue(x) PROVE CountedInv'
  <2>1. PICK i \in Jobs : /\ status[i] = "absent"
                          /\ status' = [status EXCEPT ![i] = "pending"]
                          /\ rule' = [rule EXCEPT ![i] = x.rule]
    BY <1>2 DEF Enqueue
  <2>2. verdict[i] = "none"
    BY <2>1 DEF CountedInv
  <2>3. UNCHANGED <<verdict, findings, tp, fp, batch>>
    BY <1>2 DEF Enqueue
  <2>4. \A j \in Jobs : verdict[j] # "none" => rule'[j] = rule[j]
    BY <2>1, <2>2 DEF OnceSafe, TypeOK
  <2>5. \A j \in Jobs : Waits(j)' => Waits(j)
    BY <2>1, <2>3 DEF OnceSafe, TypeOK
  <2> QED BY <1>1, <2>3, <2>4, <2>5
<1>3. CASE \E j \in Jobs : Prioritize(j)
  BY <1>1, <1>3 DEF Prioritize
<1>4. ASSUME NEW j \in Jobs,
             (\E s \in {"processing", "failed"} : WorkerStatus(j, s)) \/ WorkerVerdict(j)
      PROVE  CountedInv'
  BY <1>4 DEF WorkerStatus, WorkerVerdict
<1>5. CASE ActorStart \/ ActorTakeLock \/ Tick \/ \E j \in Jobs, o \in Outcomes : ActorJob(j, o)
  BY <1>1, <1>5 DEF ActorStart, ActorTakeLock, Tick, ActorJob
<1>6. CASE ActorReset
  <2>1. \A j \in Jobs : status'[j] = status[j]
    BY <1>6 DEF ActorReset, OnceSafe, OnceInv, TypeOK
  <2> QED BY <1>1, <1>6, <2>1 DEF ActorReset
<1>7. CASE ActorFetch
  <2>1. batch' \subseteq Pending
    BY <1>7 DEF ActorFetch, IsBatch
  <2> QED BY <1>1, <1>7, <2>1 DEF ActorFetch, Pending
<1>8. CASE ActorCommit
  BY <1>8, VerdictsCommitted
<1>9. CASE ActorAbort \/ Crash
  BY <1>1, <1>9 DEF ActorAbort, Crash
<1>10. ASSUME NEW c \in Compactors, CompactStart(c) \/ CompactDevice(c) \/ CompactTimeout(c)
       PROVE  CountedInv'
  BY <1>1, <1>10 DEF CompactStart, CompactDevice, CompactTimeout
<1>11. ASSUME NEW c \in Compactors, CompactCommit(c) PROVE CountedInv'
  <2>1. \A j \in Jobs : status'[j] \in {"compacted", status[j]}
    BY <1>11 DEF CompactCommit
  <2> QED BY <1>1, <1>11, <2>1 DEF CompactCommit
<1>12. CASE UNCHANGED vars
  BY <1>1, <1>12 DEF vars
<1> QED BY <1>2, <1>3, <1>4, <1>5, <1>6, <1>7, <1>8, <1>9, <1>10, <1>11, <1>12
        DEF Next, ActorStep

(* Verdicts, findings and the rules' counters are committed together: they *)
(* agree for any batches, rules, crashes, aborts and compactions.          *)
THEOREM CountersAgree == ASSUME ~Worker PROVE Spec => []CountersMatchVerdicts
<1>1. Init => CountedInv
  <2> SUFFICES ASSUME Init PROVE CountedInv
    OBVIOUS
  <2>1. \A r \in Rules : JudgedAs(r, "TP") = {} /\ JudgedAs(r, "FP") = {}
    BY DEF Init, JudgedAs
  <2>2. \A r \in Rules : tp[r] = 0 /\ fp[r] = 0
    BY DEF Init
  <2>3. Cardinality({}) = 0
    BY FS_EmptySet
  <2>4. \A j \in Jobs : (verdict[j] = "TP") <=> (findings[j] = 1)
    BY DEF Init
  <2>5. CountersMatchVerdicts
    BY <2>1, <2>2, <2>3, <2>4, CountsAsJudged
  <2> QED BY <2>5 DEF Init, CountedInv
<1>2. OnceSafe /\ CountedInv /\ [Next]_vars => CountedInv'
  BY CountedInductive
<1>3. CountedInv => CountersMatchVerdicts
  BY DEF CountedInv
<1> QED BY <1>1, <1>2, <1>3, OnceInvariant, PTL DEF Spec

-----------------------------------------------------------------------------
(* A step that closes open cases for good, and files only closed ones, is  *)
(* a Close of WorkOnce (of no case, when nothing changes).                 *)
LEMMA ClosingStep ==
  ASSUME \A j \in Jobs :
               Case'[j] # Case[j] => Case[j] = "open" /\ Case'[j] = "closed",
         Filed \subseteq Filed',
         \A j \in Filed' \ Filed : j \in Jobs /\ Case'[j] = "closed" /\ Case[j] # "none"
  PROVE  Abstract!Close
<1> DEFINE S == {j \in Jobs : Case'[j] = "closed" /\ Case[j] # "none"}
           F == Filed' \ Filed
<1>1. S \in SUBSET {j \in Jobs : Case[j] # "none"} /\ F \in SUBSET (S \ Filed)
  OBVIOUS
<1>2. Case' = [j \in Jobs |-> Case'[j]]
  BY DEF Case
<1>3. Case' = [j \in Jobs |-> IF j \in S THEN "closed" ELSE Case[j]]
  <2>1. \A j \in Jobs : Case'[j] = IF j \in S THEN "closed" ELSE Case[j]
    BY DEF Case
  <2> QED BY <1>2, <2>1
<1>4. Filed' = Filed \cup F
  OBVIOUS
<1> QED BY <1>1, <1>3, <1>4 DEF Abstract!Close

(* Every step of the queue is a Submit, a Close or a stutter of WorkOnce.  *)
LEMMA StepRefines ==
  ASSUME ~Worker, OnceSafe, OnceInv', [Next]_vars
  PROVE  [Abstract!Next]_<<Case, Filed>>
<1> USE ConstantsAssumption DEF OnceSafe, TypeOK, OnceInv, Live, db, rows, actorVars, compVars
<1> DEFINE Still == UNCHANGED <<status, findings>>
<1>1. ASSUME Still PROVE [Abstract!Next]_<<Case, Filed>>
  BY <1>1 DEF Case, Filed
<1>2. ASSUME NEW x \in Submissions, Enqueue(x) PROVE Abstract!Submit
  <2>1. PICK j \in Jobs : status[j] = "absent" /\ status' = [status EXCEPT ![j] = "pending"]
    BY <1>2 DEF Enqueue
  <2>2. Case[j] = "none" /\ Case' = [Case EXCEPT ![j] = "open"]
    BY <2>1 DEF Case
  <2>3. Filed' = Filed
    BY <1>2 DEF Enqueue, Filed
  <2> QED BY <2>2, <2>3 DEF Abstract!Submit
<1>3. CASE ActorCommit
  <2>1. \A j \in Jobs :
               Case'[j] # Case[j] => Case[j] = "open" /\ Case'[j] = "closed"
    BY <1>3 DEF ActorCommit, Case
  <2>2. Filed \subseteq Filed'
    BY <1>3 DEF ActorCommit, Filed
  <2>3. \A j \in Filed' \ Filed : j \in Jobs /\ Case'[j] = "closed" /\ Case[j] # "none"
    BY <1>3 DEF ActorCommit, Filed, Case
  <2> QED BY <2>1, <2>2, <2>3, ClosingStep DEF Abstract!Next
<1>4. ASSUME NEW c \in Compactors, CompactCommit(c) PROVE Abstract!Close
  <2>1. \A j \in Dropped(plan[c]) : status[j] # "absent"
    BY DEF Dropped
  <2>2. \A j \in Jobs :
               Case'[j] # Case[j] => Case[j] = "open" /\ Case'[j] = "closed"
    BY <1>4, <2>1 DEF CompactCommit, Case, Status
  <2>3. Filed' = Filed
    BY <1>4 DEF CompactCommit, Filed
  <2> QED BY <2>2, <2>3, ClosingStep
<1>5. CASE ActorReset
  <2>1. status' = status /\ findings' = findings
    BY <1>5 DEF ActorReset
  <2> QED BY <2>1, <1>1
<1>6. CASE \E j \in Jobs : Prioritize(j)
  BY <1>6, <1>1 DEF Prioritize
<1>7. CASE (\E j \in Jobs, s \in {"processing", "failed"} : WorkerStatus(j, s))
           \/ \E j \in Jobs : WorkerVerdict(j)
  BY <1>7 DEF WorkerStatus, WorkerVerdict
<1>8. CASE \/ ActorStart \/ ActorFetch \/ ActorTakeLock \/ ActorAbort
           \/ \E j \in Jobs, o \in Outcomes : ActorJob(j, o)
  BY <1>8, <1>1 DEF ActorStart, ActorFetch, ActorTakeLock, ActorAbort, ActorJob
<1>9. CASE \E c \in Compactors : CompactStart(c) \/ CompactDevice(c) \/ CompactTimeout(c)
  BY <1>9, <1>1 DEF CompactStart, CompactDevice, CompactTimeout
<1>10. CASE Tick \/ Crash \/ UNCHANGED vars
  BY <1>10, <1>1 DEF Tick, Crash, vars
<1> QED BY <1>2, <1>3, <1>4, <1>5, <1>6, <1>7, <1>8, <1>9, <1>10
        DEF Next, ActorStep, Abstract!Next

(* The queue with the agent as its only worker implements WorkOnce: a job  *)
(* comes in once, is closed once, and is filed at most once.               *)
THEOREM Refinement == ASSUME ~Worker PROVE Spec => WorkedOnce
<1>1. Init => Abstract!Init
  BY DEF Init, Abstract!Init, Case, Filed
<1>2. OnceSafe /\ OnceSafe' /\ [Next]_vars => [Abstract!Next]_<<Case, Filed>>
  BY StepRefines DEF OnceSafe
<1> QED BY <1>1, <1>2, OnceInvariant, PTL DEF Spec, WorkedOnce, Abstract!Spec
=============================================================================
