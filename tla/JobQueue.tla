------------------------------ MODULE JobQueue ------------------------------
(***************************************************************************)
(* The investigation queue: the `jobs` and `findings` tables and the four  *)
(* parties that write them - the producers (rule engine, Pi-hole, the      *)
(* submit endpoint), the queue API an external worker drives, the actor    *)
(* cycle of the agent, and the compaction job.                             *)
(*                                                                         *)
(* SQLite as the code opens it (WAL, autoflush off): a SELECT reads what   *)
(* is committed and takes no lock; the first flush of a session takes the  *)
(* write lock, which is held until commit or rollback.  Only the actor     *)
(* holds it for longer than one step: it flushes before its first LLM call *)
(* and commits after the last.  Every other session reads first and writes *)
(* everything at its commit, so what it writes may rest on a stale read.   *)
(***************************************************************************)
EXTENDS Integers, FiniteSets

CONSTANTS
  MaxJobs,      \* bound: rows ever inserted in `jobs`
  Devices,      \* MACs
  NoDevice,     \* device_id IS NULL
  Rules,        \* rules with a row in `rules` (rule_id set)
  Custom,       \* the rule_name of jobs without a rule_id
  Submissions,  \* what producers enqueue: records [dev, rule, prio]
  BatchLimit,   \* jobs per actor cycle (20 in the code)
  Compactors,   \* threads that may call run_compaction
  Api,          \* the compactor that runs on the event loop, if any
  Worker,       \* TRUE when an external worker uses the queue API
  Outcomes,     \* what triage and investigation may conclude: TP, FP, unsure, failed
  MaxTime,      \* bound: clock ticks; a tick is the two-hour staleness age
  MaxFaults,    \* bound: crashes and aborted actor cycles
  MaxVerdicts,  \* bound: verdicts an external worker submits for one job
  MaxCollapsed  \* bound: no pass starts once a compacted_count reaches it

ASSUME ConstantsAssumption ==
  /\ MaxJobs \in Nat /\ MaxTime \in Nat /\ MaxFaults \in Nat /\ MaxVerdicts \in Nat
  /\ MaxCollapsed \in Nat
  /\ BatchLimit \in Nat \ {0}
  /\ Submissions \subseteq [dev : Devices \cup {NoDevice}, rule : Rules \cup {Custom},
                            prio : 0..3]  \* 0 highest .. 3 lowest
  /\ Outcomes \subseteq {"TP", "FP", "unsure", "failed"}
  /\ NoDevice \notin Devices
  /\ Custom \notin Rules
  /\ "free" \notin Compactors
  /\ Worker \in BOOLEAN

Jobs      == 1..MaxJobs
RuleNames == Rules \cup {Custom}
Status    == {"absent", "pending", "processing", "done", "compacted", "failed"}
Verdict   == {"none", "TP", "FP", "unsure", "worker"}
Outcome   == {"none", "TP", "FP", "unsure", "failed"}
(* One group a compaction pass collapses: the job kept, those dropped, and *)
(* the compacted_count the kept one will carry.                            *)
Collapse  == [keep : Jobs, drop : SUBSET Jobs, count : Nat]

VARIABLES
  status, dev, rule, prio, created, cc, verdict,  \* the columns of `jobs`
  findings,                                       \* rows of `findings` per job
  tp, fp,                                         \* rules.true/false_positive_count
  now, faults,
  apc, stuck, batch, outcome,                     \* the actor's cycle and its session
  lock, cpc, devs, plan                           \* _compaction_lock, compaction sessions

rows      == <<status, dev, rule, prio, created, cc, verdict>>
db        == <<rows, findings, tp, fp>>
actorVars == <<apc, stuck, batch, outcome>>
compVars  == <<lock, cpc, devs, plan>>
vars      == <<db, now, faults, actorVars, compVars>>

TypeOK ==
  /\ status \in [Jobs -> Status]
  /\ dev \in [Jobs -> Devices \cup {NoDevice}]
  /\ rule \in [Jobs -> RuleNames]
  /\ prio \in [Jobs -> 0..3]
  /\ created \in [Jobs -> Nat]
  /\ cc \in [Jobs -> Nat]
  /\ verdict \in [Jobs -> Verdict]
  /\ findings \in [Jobs -> Nat]
  /\ tp \in [Rules -> Nat] /\ fp \in [Rules -> Nat]
  /\ now \in Nat /\ faults \in Nat
  /\ apc \in {"idle", "reset", "fetch", "lock", "work"}
  /\ stuck \in SUBSET Jobs
  /\ batch \in SUBSET Jobs
  /\ outcome \in [Jobs -> Outcome]
  /\ lock \in Compactors \cup {"free"}
  /\ cpc \in [Compactors -> {"idle", "scan"}]
  /\ devs \in [Compactors -> SUBSET Devices]
  /\ plan \in [Compactors -> SUBSET Collapse]

Init ==
  /\ status = [j \in Jobs |-> "absent"]
  /\ dev = [j \in Jobs |-> NoDevice]
  /\ rule = [j \in Jobs |-> Custom]
  /\ prio = [j \in Jobs |-> 2]
  /\ created = [j \in Jobs |-> 0]
  /\ cc = [j \in Jobs |-> 0]
  /\ verdict = [j \in Jobs |-> "none"]
  /\ findings = [j \in Jobs |-> 0]
  /\ tp = [r \in Rules |-> 0] /\ fp = [r \in Rules |-> 0]
  /\ now = 0 /\ faults = 0
  /\ apc = "idle" /\ stuck = {} /\ batch = {} /\ outcome = [j \in Jobs |-> "none"]
  /\ lock = "free"
  /\ cpc = [c \in Compactors |-> "idle"]
  /\ devs = [c \in Compactors |-> {}]
  /\ plan = [c \in Compactors |-> {}]

Live      == {j \in Jobs : status[j] # "absent"}
Pending   == {j \in Jobs : status[j] = "pending"}
SameGroup(i, j) == dev[i] = dev[j] /\ rule[i] = rule[j]
(* ORDER BY priority ASC, created_at DESC; ties come in any order.         *)
Before(i, j) == \/ prio[i] < prio[j]
                \/ prio[i] = prio[j] /\ created[i] > created[j]
(* The actor is the only session that keeps SQLite's write lock between    *)
(* steps; meanwhile a writer waits, and after 5 s fails with no effect.    *)
WriteLockFree == apc # "work"
(* A compaction requested over HTTP runs on the event loop, so no handler  *)
(* runs until it returns.                                                  *)
LoopFree == \A c \in Compactors : c = Api => cpc[c] = "idle"

-----------------------------------------------------------------------------
(* Producers and the queue API.                                            *)

(* enqueue_job and POST /queue/submit: ids are handed out in order.        *)
Enqueue(x) ==
  /\ WriteLockFree
  /\ \E j \in Jobs :
       /\ status[j] = "absent"
       /\ \A i \in Jobs : status[i] = "absent" => j <= i
       /\ status' = [status EXCEPT ![j] = "pending"]
       /\ dev' = [dev EXCEPT ![j] = x.dev]
       /\ rule' = [rule EXCEPT ![j] = x.rule]
       /\ prio' = [prio EXCEPT ![j] = x.prio]
       /\ created' = [created EXCEPT ![j] = now]
  /\ UNCHANGED <<cc, verdict, findings, tp, fp, now, faults, actorVars, compVars>>

(* Mutant: a step up instead of the highest class users can ask for.       *)
PrioritizeByOne(j) ==
  /\ WriteLockFree /\ LoopFree /\ j \in Live
  /\ prio' = [prio EXCEPT ![j] = @ - 1]
  /\ UNCHANGED <<status, dev, rule, created, cc, verdict, findings, tp, fp, now,
                 faults, actorVars, compVars>>

Prioritize(j) ==
  /\ WriteLockFree /\ LoopFree
  /\ j \in Live
  /\ prio' = [prio EXCEPT ![j] = 1]
  /\ UNCHANGED <<status, dev, rule, created, cc, verdict, findings, tp, fp, now,
                 faults, actorVars, compVars>>

(* PUT /queue/jobs/{id}/status accepts any job, whatever its status.       *)
WorkerStatus(j, s) ==
  /\ Worker /\ WriteLockFree /\ LoopFree
  /\ j \in Live
  /\ status' = [status EXCEPT ![j] = s]
  /\ UNCHANGED <<dev, rule, prio, created, cc, verdict, findings, tp, fp, now,
                 faults, actorVars, compVars>>

(* PUT /queue/jobs/{id}/verdict: done, the verdict, and one more Finding.  *)
WorkerVerdict(j) ==
  /\ Worker /\ WriteLockFree /\ LoopFree
  /\ j \in Live
  /\ findings[j] < MaxVerdicts
  /\ status' = [status EXCEPT ![j] = "done"]
  /\ verdict' = [verdict EXCEPT ![j] = "worker"]
  /\ findings' = [findings EXCEPT ![j] = @ + 1]
  /\ UNCHANGED <<dev, rule, prio, created, cc, tp, fp, now, faults, actorVars, compVars>>

-----------------------------------------------------------------------------
(* The actor cycle: a session that resets stuck jobs, then a session that  *)
(* reads a batch, works through it under the write lock and commits once.  *)

(* Mutant: the cycle trusts that nothing is stuck.                         *)
ActorStartTrusting ==
  /\ apc = "idle" /\ apc' = "reset" /\ stuck' = {}
  /\ UNCHANGED <<db, now, faults, batch, outcome, compVars>>

ActorStart ==
  /\ apc = "idle"
  /\ apc' = "reset"
  /\ stuck' = {j \in Jobs : status[j] = "processing"}
  /\ UNCHANGED <<db, now, faults, batch, outcome, compVars>>

(* Mutant: the cycle ends early when there is nothing to reset.            *)
ActorResetOrLeave ==
  /\ apc = "reset"
  /\ apc' = IF stuck = {} THEN "idle" ELSE "fetch"
  /\ status' = [j \in Jobs |-> IF j \in stuck THEN "pending" ELSE status[j]]
  /\ stuck' = {}
  /\ UNCHANGED <<dev, rule, prio, created, cc, verdict, findings, tp, fp, now,
                 faults, batch, outcome, compVars>>

ActorReset ==
  /\ apc = "reset"
  /\ apc' = "fetch"
  /\ status' = [j \in Jobs |-> IF j \in stuck THEN "pending" ELSE status[j]]
  /\ stuck' = {}
  /\ UNCHANGED <<dev, rule, prio, created, cc, verdict, findings, tp, fp, now,
                 faults, batch, outcome, compVars>>

(* The first BatchLimit pending jobs in the queue's order.                 *)
IsBatch(B) ==
  /\ B \subseteq Pending
  /\ Cardinality(B) <= BatchLimit
  /\ B # Pending => Cardinality(B) = BatchLimit
  /\ \A i \in Pending \ B, j \in B : ~Before(i, j)

ActorFetch ==
  /\ apc = "fetch"
  /\ \E B \in SUBSET Jobs :
       /\ IsBatch(B)
       /\ batch' = B
       /\ apc' = IF B = {} THEN "idle" ELSE "lock"
  /\ outcome' = [j \in Jobs |-> "none"]
  /\ UNCHANGED <<db, now, faults, stuck, compVars>>

(* The flush of the first `status = processing`: the write lock is taken   *)
(* here, after the batch was read.                                         *)
ActorTakeLock ==
  /\ apc = "lock"
  /\ apc' = "work"
  /\ UNCHANGED <<db, now, faults, stuck, batch, outcome, compVars>>

(* Triage and investigation of one job; nothing is visible before commit.  *)
ActorJob(j, o) ==
  /\ apc = "work"
  /\ j \in batch /\ outcome[j] = "none"
  /\ outcome' = [outcome EXCEPT ![j] = o]
  /\ UNCHANGED <<db, now, faults, apc, stuck, batch, compVars>>

Judged(r, o) == {j \in batch : rule[j] = r /\ outcome[j] = o}

ActorCommit ==
  /\ apc = "work"
  /\ \A j \in batch : outcome[j] # "none"
  /\ status' = [j \in Jobs |-> IF j \notin batch THEN status[j]
                               ELSE IF outcome[j] = "failed" THEN "failed" ELSE "done"]
  /\ verdict' = [j \in Jobs |-> IF j \in batch /\ outcome[j] # "failed"
                                THEN outcome[j] ELSE verdict[j]]
  /\ findings' = [j \in Jobs |-> IF j \in batch /\ outcome[j] = "TP"
                                 THEN findings[j] + 1 ELSE findings[j]]
  /\ tp' = [r \in Rules |-> tp[r] + Cardinality(Judged(r, "TP"))]
  /\ fp' = [r \in Rules |-> fp[r] + Cardinality(Judged(r, "FP"))]
  /\ apc' = "idle"
  /\ batch' = {}
  /\ outcome' = [j \in Jobs |-> "none"]
  /\ UNCHANGED <<dev, rule, prio, created, cc, now, faults, stuck, compVars>>

(* Mutants: findings, or counters, saved in sessions of their own.         *)
EndCycle ==
  /\ apc \in {"reset", "lock", "work"} /\ faults < MaxFaults /\ faults' = faults + 1
  /\ apc' = "idle" /\ stuck' = {} /\ batch' = {} /\ outcome' = [j \in Jobs |-> "none"]
  /\ UNCHANGED <<rows, now, compVars>>
ActorAbortKeepingFindings ==
  /\ EndCycle
  /\ findings' = [j \in Jobs |-> IF outcome[j] = "TP" THEN findings[j] + 1 ELSE findings[j]]
  /\ UNCHANGED <<tp, fp>>
ActorAbortKeepingCounts ==
  /\ EndCycle
  /\ tp' = [r \in Rules |-> tp[r] + Cardinality(Judged(r, "TP"))]
  /\ UNCHANGED <<findings, fp>>

(* An exception that leaves the session unusable - a flush that timed out  *)
(* on the lock, a commit that failed - rolls the whole cycle back.         *)
ActorAbort ==
  /\ apc \in {"reset", "lock", "work"}
  /\ faults < MaxFaults
  /\ faults' = faults + 1
  /\ apc' = "idle"
  /\ stuck' = {}
  /\ batch' = {}
  /\ outcome' = [j \in Jobs |-> "none"]
  /\ UNCHANGED <<db, now, compVars>>

-----------------------------------------------------------------------------
(* Compaction: one pass at a time, guarded by _compaction_lock.            *)

Stale(d) == {j \in Pending : dev[j] = d /\ created[j] < now}

(* Mutant: no _compaction_lock.                                            *)
CompactStartUnlocked(c) ==
  /\ cpc[c] = "idle"
  /\ \A j \in Jobs : cc[j] < MaxCollapsed
  /\ lock' = c
  /\ cpc' = [cpc EXCEPT ![c] = "scan"]
  /\ devs' = [devs EXCEPT ![c] = {d \in Devices : Cardinality(Stale(d)) > 1}]
  /\ plan' = [plan EXCEPT ![c] = {}]
  /\ UNCHANGED <<db, now, faults, actorVars>>

(* A second caller finds the lock taken and returns 0.                     *)
CompactStart(c) ==
  /\ lock = "free"
  /\ cpc[c] = "idle"
  /\ \A j \in Jobs : cc[j] < MaxCollapsed
  /\ lock' = c
  /\ cpc' = [cpc EXCEPT ![c] = "scan"]
  /\ devs' = [devs EXCEPT ![c] = {d \in Devices : Cardinality(Stale(d)) > 1}]
  /\ plan' = [plan EXCEPT ![c] = {}]
  /\ UNCHANGED <<db, now, faults, actorVars>>

(* What _compact_device decides from the pending jobs of d: of every rule  *)
(* with more than one, keep a first job in the queue's order (K holds the  *)
(* kept ones) and drop the others.                                         *)
Group(j) == {i \in Pending : SameGroup(i, j)}

Keepers(d, K) ==
  /\ \A k \in K : /\ dev[k] = d
                 /\ Cardinality(Group(k)) > 1
                 /\ \A i \in Group(k) : ~Before(i, k)
  /\ \A j \in Pending : dev[j] = d /\ Cardinality(Group(j)) > 1
                         => \E k \in K : SameGroup(j, k)
  /\ \A k, l \in K : SameGroup(k, l) => k = l

(* Mutant: the count starts afresh with every pass.                        *)
CollapsedAfresh(k) == [keep |-> k, drop |-> Group(k) \ {k},
                       count |-> Cardinality(Group(k) \ {k})]

Collapsed(k) == [keep |-> k, drop |-> Group(k) \ {k},
                 count |-> cc[k] + Cardinality(Group(k) \ {k})]

CompactDevice(c) ==
  /\ cpc[c] = "scan"
  /\ \E d \in devs[c], K \in SUBSET Pending :
       /\ Keepers(d, K)
       /\ plan' = [plan EXCEPT ![c] = @ \cup {Collapsed(k) : k \in K}]
       /\ devs' = [devs EXCEPT ![c] = @ \ {d}]
  /\ UNCHANGED <<db, now, faults, actorVars, lock, cpc>>

Dropped(P) == UNION {x.drop : x \in P}

Release(c) ==
  /\ lock' = "free"
  /\ cpc' = [cpc EXCEPT ![c] = "idle"]
  /\ devs' = [devs EXCEPT ![c] = {}]
  /\ plan' = [plan EXCEPT ![c] = {}]

(* Mutant: the kept job's whole row is written back as it was read.        *)
CompactCommitWholeRow(c) ==
  /\ cpc[c] = "scan" /\ devs[c] = {}
  /\ plan[c] = {} \/ WriteLockFree
  /\ status' = [j \in Jobs |-> IF j \in Dropped(plan[c]) THEN "compacted"
                               ELSE IF \E x \in plan[c] : x.keep = j THEN "pending"
                               ELSE status[j]]
  /\ Release(c)
  /\ UNCHANGED <<dev, rule, prio, created, cc, verdict, findings, tp, fp, now, faults, actorVars>>

(* The pass writes what it decided, whatever the rows say by now.          *)
CompactCommit(c) ==
  /\ cpc[c] = "scan" /\ devs[c] = {}
  /\ plan[c] = {} \/ WriteLockFree
  /\ status' = [j \in Jobs |-> IF j \in Dropped(plan[c]) THEN "compacted" ELSE status[j]]
  /\ cc' = [j \in Jobs |-> IF \E x \in plan[c] : x.keep = j
                           THEN (CHOOSE x \in plan[c] : x.keep = j).count ELSE cc[j]]
  /\ Release(c)
  /\ UNCHANGED <<dev, rule, prio, created, verdict, findings, tp, fp, now, faults, actorVars>>

(* The commit waited 5 s for the actor's lock: rolled back.                *)
CompactTimeout(c) ==
  /\ cpc[c] = "scan" /\ devs[c] = {}
  /\ plan[c] # {} /\ ~WriteLockFree
  /\ Release(c)
  /\ UNCHANGED <<db, now, faults, actorVars>>

-----------------------------------------------------------------------------
Tick ==
  /\ now < MaxTime
  /\ now' = now + 1
  /\ UNCHANGED <<db, faults, actorVars, compVars>>

(* The process dies and restarts: sessions, locks and threads are gone,    *)
(* the committed rows remain.                                              *)
Crash ==
  /\ faults < MaxFaults
  /\ faults' = faults + 1
  /\ apc' = "idle" /\ stuck' = {} /\ batch' = {} /\ outcome' = [j \in Jobs |-> "none"]
  /\ lock' = "free"
  /\ cpc' = [c \in Compactors |-> "idle"]
  /\ devs' = [c \in Compactors |-> {}]
  /\ plan' = [c \in Compactors |-> {}]
  /\ UNCHANGED <<db, now>>

ActorStep ==
  \/ ActorStart
  \/ ActorReset
  \/ ActorFetch
  \/ ActorTakeLock
  \/ \E j \in Jobs, o \in Outcomes : ActorJob(j, o)
  \/ ActorCommit

Next ==
  \/ \E x \in Submissions : Enqueue(x)
  \/ \E j \in Jobs : Prioritize(j)
  \/ \E j \in Jobs, s \in {"processing", "failed"} : WorkerStatus(j, s)
  \/ \E j \in Jobs : WorkerVerdict(j)
  \/ ActorStep
  \/ ActorAbort
  \/ \E c \in Compactors : CompactStart(c)
  \/ \E c \in Compactors : CompactDevice(c)
  \/ \E c \in Compactors : CompactCommit(c)
  \/ \E c \in Compactors : CompactTimeout(c)
  \/ Tick
  \/ Crash

Spec == Init /\ [][Next]_vars

(* APScheduler runs the actor every interval for as long as the process is *)
(* up; the assumption is that the LLM endpoint answers (otherwise run()    *)
(* returns before the queue is touched) and that finitely many cycles      *)
(* abort, which MaxFaults bounds.                                          *)
FairSpec == Spec /\ WF_vars(ActorStep)

-----------------------------------------------------------------------------
(* Of the jobs collapsed away, each still has one of its own kind (same    *)
(* device, same rule) that was not: compaction never makes every trace of  *)
(* an event group disappear, whatever commits between its read and its     *)
(* write.  compaction.py:64-104 under _compaction_lock.                    *)
CompactedIsRepresented ==
  \A j \in Jobs : status[j] = "compacted" =>
    \E k \in Jobs : SameGroup(j, k) /\ status[k] \notin {"absent", "compacted"}

(* Every job a pass collapsed is counted in the compacted_count of a job   *)
(* of its group, and no count is less than the jobs it is to account for:  *)
(* no overlap of passes loses an increment.  compaction.py:97.             *)
CollapsesAreCounted ==
  \E countedBy \in [Jobs -> Jobs] :
    /\ \A j \in Jobs : status[j] = "compacted" => SameGroup(j, countedBy[j])
    /\ \A k \in Jobs :
         Cardinality({j \in Jobs : status[j] = "compacted" /\ countedBy[j] = k}) <= cc[k]

(* models.py:283 declares one finding per job (uselist=False).  With the   *)
(* agent as the only worker it is so, across crashes, aborted cycles and   *)
(* compactions that overlap a cycle.                                       *)
OneFindingPerJob == \A j \in Jobs : findings[j] <= 1

(* Findings, verdicts and the rule's counters are committed together: no   *)
(* crash or abort in the middle of a cycle leaves one without the others.  *)
(* orchestrator.py:318-359.                                                *)
CountersMatchVerdicts ==
  /\ \A j \in Jobs : (verdict[j] = "TP") <=> (findings[j] = 1)
  /\ \A r \in Rules :
       /\ tp[r] = Cardinality({j \in Jobs : rule[j] = r /\ verdict[j] = "TP"})
       /\ fp[r] = Cardinality({j \in Jobs : rule[j] = r /\ verdict[j] = "FP"})

(* The queue without an external worker implements WorkOnce.               *)
Case == [j \in Jobs |-> IF status[j] = "absent" THEN "none"
                        ELSE IF status[j] \in {"pending", "processing"} THEN "open"
                        ELSE "closed"]
Filed == {j \in Jobs : findings[j] > 0}
Abstract == INSTANCE WorkOnce WITH case <- Case, filed <- Filed
WorkedOnce == Abstract!Spec
=============================================================================
