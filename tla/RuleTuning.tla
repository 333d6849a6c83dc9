----------------------------- MODULE RuleTuning -----------------------------
(***************************************************************************)
(* How a rule changes: the critic of the agent, the rules API and the seed *)
(* of the shipped rules, on the tables `rules` and `rule_versions`.        *)
(*                                                                         *)
(* The critic reads the rules once, asks an LLM about one after the other  *)
(* and commits everything at the end.  SQLAlchemy flushes only then, and   *)
(* updates only the columns that differ from what the session loaded.  Two *)
(* critics may run: the scheduled one and one the metric check triggers.   *)
(* Requests run on the event loop, one at a time; they read and commit.    *)
(* An id is the highest there is plus one: that of the last rule is used   *)
(* again when it is deleted, and `born` tells one rule from the next.      *)
(*                                                                         *)
(* Left out: description and action, which the seed overwrites like        *)
(* `params` and no version keeps, priority and notes, which only a PUT     *)
(* writes, and the actor's writes to the counters (JobQueue has them).     *)
(***************************************************************************)
EXTENDS Integers, FiniteSets, Sequences

CONSTANTS
  Rules,        \* ids in `rules`
  System,       \* those shipped in default_rules.yaml
  Shipped,      \* severity, cooldown and parameters of each shipped rule
  History,      \* fires and feedback of each rule there is at the start
  Critics,      \* threads that may run the critic
  Metric,       \* the one of them the metric check triggers
  Answers,      \* what the LLM may say
  Consensus,    \* require_consensus
  Conservatism,
  MaxChanges,   \* max_rule_changes_per_day
  MinSamples, FpPercent,  \* min_samples, fp_threshold
  Burst,        \* the 50 fires after which a rule without feedback is looked at
  Edits,        \* what a PUT may set: records with fields among Columns
  MaxTime,      \* bound: the clock's last value; a tick is a day
  MaxOps,       \* bound: requests and bursts of fires
  MaxCycles,    \* bound: critic cycles
  MaxFaults     \* bound: failed commits and restarts

Columns    == {"sev", "cool", "on", "params"}
Severities == {"info", "low", "medium", "high", "critical"}  \* models.py:43
RuleChoices == {"KEEP", "RAISE", "LOWER", "DISABLE"}

ASSUME ConstantsAssumption ==
  /\ Rules \subseteq Nat \ {0} /\ Rules # {}
  /\ System \subseteq DOMAIN History /\ DOMAIN History \subseteq Rules
  /\ Shipped \in [System -> [sev : Severities, cool : Nat, params : Nat]]
  /\ History \in [DOMAIN History -> [fires : Nat, tp : Nat, fp : Nat]]
  /\ IsFiniteSet(Critics) /\ Critics # {}
  /\ Answers \subseteq RuleChoices /\ Consensus \in BOOLEAN
  /\ Conservatism \in {"conservative", "moderate", "aggressive"}
  /\ MaxChanges \in Nat /\ MinSamples \in Nat /\ FpPercent \in 0..100
  /\ Burst \in Nat \ {0}
  /\ \A e \in Edits : /\ "sev" \in DOMAIN e => e.sev \in Severities
                      /\ "cool" \in DOMAIN e => e.cool \in Nat
                      /\ "on" \in DOMAIN e => e.on \in BOOLEAN
                      /\ "params" \in DOMAIN e => e.params \in Nat
  /\ MaxTime \in Nat \ {0} /\ MaxOps \in Nat /\ MaxCycles \in Nat /\ MaxFaults \in Nat

Row        == [state : {"none", "there"}, born : Nat, sev : Severities, cool : Nat,
               params : Nat, on : BOOLEAN, frozen : BOOLEAN, approved : BOOLEAN,
               tuned : BOOLEAN, fires : Nat, tp : Nat, fp : Nat]
(* `by` tells the critic from an agent's request; changed_by does not.     *)
Version    == [num : Nat \ {0}, by : {"critic", "agent", "user"}, period : Nat, born : Nat,
               sev : Severities, cool : Nat, on : BOOLEAN, params : Nat, fires : Nat]
NoRow      == [state |-> "none", born |-> 0, sev |-> "medium", cool |-> 300,
               params |-> 0, on |-> TRUE, frozen |-> FALSE, approved |-> TRUE,
               tuned |-> FALSE, fires |-> 0, tp |-> 0, fp |-> 0]
AnyRule    == CHOOSE r \in Rules : TRUE
NoCall     == [rule |-> 0]

VARIABLES
  row, versions,          \* rules, and rule_versions per rule in the order of ids
  now, faults, ops, cycles,
  changes, lastReset,     \* _changes_today, _last_change_reset (0 is None)
  period,                 \* how often _changes_today was set to 0
  pc, copy, todo, cur, pend,  \* each critic: its session and locals
  froze,                  \* each critic: rules frozen since it read them
  api                     \* the request between its read and its commit

criticVars == <<pc, copy, todo, cur, pend, froze>>
dayVars    == <<changes, lastReset, period>>
boundVars  == <<now, faults, ops, cycles>>
vars       == <<row, versions, boundVars, dayVars, criticVars, api>>

Pending == [rule : Rules, new : Row, version : Version]

TypeOK ==
  /\ row \in [Rules -> Row]
  /\ versions \in [Rules -> Seq(Version)]
  /\ now \in 1..MaxTime /\ faults \in 0..MaxFaults /\ ops \in 0..MaxOps
  /\ cycles \in 0..MaxCycles
  /\ changes \in Nat /\ lastReset \in 0..now /\ period \in Nat
  /\ pc \in [Critics -> {"idle", "pick", "ask", "commit"}]
  /\ copy \in [Critics -> [Rules -> Row]] /\ cur \in [Critics -> Rules]
  /\ todo \in [Critics -> SUBSET Rules] /\ froze \in [Critics -> SUBSET Rules]
  /\ pend \in [Critics -> SUBSET Pending]
  /\ api # NoCall => /\ api.rule \in Rules /\ api.old \in Row /\ api.new \in Row
                     /\ api.version \in Version

(* _seed_default_rules on one rule: a frozen one is left alone, any other  *)
(* shipped one gets the file's parameters, and the file's severity and     *)
(* cooldown unless it was tuned.                                           *)
Seeded(r, x) ==
  IF r \notin System \/ (x.state = "there" /\ x.frozen) THEN x
  ELSE LET tuned == x.state = "there" /\ x.tuned
       IN [x EXCEPT !.state = "there", !.params = Shipped[r].params,
                    !.sev = IF tuned THEN @ ELSE Shipped[r].sev,
                    !.cool = IF tuned THEN @ ELSE Shipped[r].cool]

Init ==
  /\ row = [r \in Rules |->
       IF r \notin DOMAIN History THEN NoRow
       ELSE Seeded(r, [NoRow EXCEPT !.state = "there", !.fires = History[r].fires,
                                    !.tp = History[r].tp, !.fp = History[r].fp])]
  /\ versions = [r \in Rules |-> <<>>]
  /\ now = 1 /\ faults = 0 /\ ops = 0 /\ cycles = 0
  /\ changes = 0 /\ lastReset = 0 /\ period = 0
  /\ pc = [c \in Critics |-> "idle"]
  /\ copy = [c \in Critics |-> [r \in Rules |-> NoRow]]
  /\ todo = [c \in Critics |-> {}] /\ froze = [c \in Critics |-> {}]
  /\ cur = [c \in Critics |-> AnyRule]
  /\ pend = [c \in Critics |-> {}]
  /\ api = NoCall

-----------------------------------------------------------------------------
(* Versions and the write of a session.                                    *)
Numbers(r) == {versions[r][i].num : i \in DOMAIN versions[r]}

(* Mutants: numbers from zero, and the number of rows for the highest.     *)
NextNumberFromZero(r) == IF versions[r] = <<>> THEN 0
                         ELSE (CHOOSE n \in Numbers(r) : \A m \in Numbers(r) : n >= m) + 1
NextNumberByCount(r) == Len(versions[r]) + 1
NextNumber(r) == IF versions[r] = <<>> THEN 1
                 ELSE (CHOOSE n \in Numbers(r) : \A m \in Numbers(r) : n >= m) + 1

(* _snapshot_rule: the row as the session loaded it.                       *)
Snapshot(r, x, by) ==
  [num |-> NextNumber(r), by |-> by, period |-> period, born |-> x.born,
   sev |-> x.sev, cool |-> x.cool, on |-> x.on, params |-> x.params, fires |-> x.fires]

(* The UPDATE of a row loaded as `old` and left as `new`; last_tuned is    *)
(* always new.                                                             *)
Merged(x, old, new) ==
  [x EXCEPT !.sev  = IF new.sev # old.sev THEN new.sev ELSE @,
            !.cool = IF new.cool # old.cool THEN new.cool ELSE @,
            !.on   = IF new.on # old.on THEN new.on ELSE @,
            !.params = IF new.params # old.params THEN new.params ELSE @,
            !.tuned = TRUE]

-----------------------------------------------------------------------------
(* The critic.                                                             *)
Tunable(r) == /\ row[r].state = "there"
              /\ row[r].on /\ ~row[r].frozen /\ row[r].approved

HighFp(x) == x.tp + x.fp > 0 /\ 100 * x.fp > FpPercent * (x.tp + x.fp)

(* _run_metric_check.                                                      *)
MetricTriggers ==
  \E r \in Rules :
    /\ Tunable(r)
    /\ \/ row[r].tp + row[r].fp >= MinSamples /\ HighFp(row[r])
       \/ row[r].fires > Burst /\ ~row[r].tuned

(* A cycle resets the count once a day and reads the rules.                *)
StartDay ==
  IF lastReset = 0 \/ now > lastReset
  THEN changes' = 0 /\ lastReset' = now /\ period' = period + 1
  ELSE UNCHANGED dayVars

(* Mutant: frozen rules are read like the others.                          *)
CriticStartFrozenToo(c) ==
  /\ pc[c] = "idle" /\ pc' = [pc EXCEPT ![c] = "pick"]
  /\ cycles < MaxCycles /\ cycles' = cycles + 1
  /\ c = Metric => MetricTriggers
  /\ StartDay
  /\ copy' = [copy EXCEPT ![c] = row]
  /\ todo' = [todo EXCEPT ![c] = {r \in Rules : row[r].state = "there" /\ row[r].on}]
  /\ UNCHANGED <<row, versions, now, faults, ops, cur, pend, froze, api>>

CriticStart(c) ==
  /\ pc[c] = "idle"
  /\ cycles < MaxCycles
  /\ cycles' = cycles + 1
  /\ c = Metric => MetricTriggers
  /\ StartDay
  /\ copy' = [copy EXCEPT ![c] = row]
  /\ todo' = [todo EXCEPT ![c] = {r \in Rules : Tunable(r)}]
  /\ pc' = [pc EXCEPT ![c] = "pick"]
  /\ UNCHANGED <<row, versions, now, faults, ops, cur, pend, froze, api>>

(* _needs_evaluation.  A rule that fired has a last_fired, which comes     *)
(* back from SQLite without a time zone: the idle gate subtracts it from a *)
(* time that has one, and raises.                                          *)
NoisySince(r, x) ==
  /\ x.tp + x.fp = 0 /\ x.fires > Burst
  /\ \/ ~x.tuned
     \/ \E i \in DOMAIN versions[r] :
          /\ versions[r][i].num + 1 = NextNumber(r)
          /\ x.fires - versions[r][i].fires >= Burst
Sampled(x) == x.fires >= MinSamples
NeedsEvaluation(r, x) == Sampled(x) /\ (HighFp(x) \/ NoisySince(r, x))
GateRaises(r, x) == Sampled(x) /\ ~NeedsEvaluation(r, x) /\ x.fires > 0

Skip(c, r) ==
  /\ todo' = [todo EXCEPT ![c] = @ \ {r}]
  /\ UNCHANGED <<pc, cur>>

(* Mutant: one change more than the limit.                                 *)
LimitReachedLate == changes > MaxChanges
LimitReached == changes >= MaxChanges

(* The rules come as the scan of the table finds them.                     *)
IsNext(c, r) == r \in todo[c] /\ \A q \in todo[c] : r <= q

CriticConsider(c, r) ==
  /\ pc[c] = "pick" /\ IsNext(c, r)
  /\ ~GateRaises(r, copy[c][r])
  /\ IF ~NeedsEvaluation(r, copy[c][r]) THEN Skip(c, r)
     ELSE /\ todo' = [todo EXCEPT ![c] = @ \ {r}]
          /\ pc' = [pc EXCEPT ![c] = IF LimitReached THEN "commit" ELSE "ask"]
          /\ cur' = [cur EXCEPT ![c] = r]
  /\ UNCHANGED <<row, versions, boundVars, dayVars, copy, pend, froze, api>>

(* _run_consensus on the valid answers so far: another question, a choice, *)
(* or none.                                                                *)
Agreed(v, n) == {a \in RuleChoices : Cardinality({i \in DOMAIN v : v[i] = a}) >= n}

Verdict(v) ==
  IF ~Consensus THEN v[1]
  ELSE IF Agreed(v, 2) # {} THEN CHOOSE a \in Agreed(v, 2) : TRUE
  ELSE IF Len(v) < 3 THEN "more"
  ELSE "none"

(* What is said until there is a verdict, and the changes decided.         *)
Dialogues == {v \in UNION {[1..n -> Answers] : n \in 1..3} :
                /\ Verdict(v) # "more"
                /\ \A n \in 1..(Len(v) - 1) : Verdict(SubSeq(v, 1, n)) = "more"}
Decisions == {Verdict(v) : v \in Dialogues} \ {"none", "KEEP"}

(* sanity_check_rule_eval.                                                 *)
Sane(a, x) == /\ a = "DISABLE" => x.tp = 0
              /\ a = "RAISE" => x.fires > 0

(* severity_order, and the index of a severity that is not in it.          *)
Ladder  == <<"low", "medium", "high", "critical">>
Rung(s) == IF \E i \in DOMAIN Ladder : Ladder[i] = s
           THEN CHOOSE i \in DOMAIN Ladder : Ladder[i] = s ELSE 2
AtLeast(m, n) == IF n >= m THEN n ELSE m
AtMost(m, n)  == IF n <= m THEN n ELSE m
Higher(s) == Ladder[AtMost(Len(Ladder), Rung(s) + 1)]
Lower(s)  == Ladder[AtLeast(1, Rung(s) - 1)]

Raised(x) ==
  [x EXCEPT !.sev = Higher(@),
            !.cool = IF Conservatism = "aggressive" /\ @ > 60
                     THEN AtLeast(60, @ \div 2) ELSE @]
Lowered(x) ==
  [x EXCEPT !.sev = Lower(@),
            !.cool = IF Conservatism # "conservative"
                     THEN AtMost(3600, (3 * @) \div 2) ELSE @]
Disabled(x) ==
  IF Conservatism = "conservative" THEN [x EXCEPT !.sev = Lower(@)]
  ELSE [x EXCEPT !.on = FALSE]

Changed(a, x) == CASE a = "RAISE" -> Raised(x)
                   [] a = "LOWER" -> Lowered(x)
                   [] a = "DISABLE" -> Disabled(x)

(* The answers lead to no change: they disagree, or the LLM fails.         *)
CriticKeeps(c) ==
  /\ pc[c] = "ask"
  /\ pc' = [pc EXCEPT ![c] = "pick"]
  /\ UNCHANGED <<row, versions, boundVars, dayVars, copy, todo, cur, pend, froze, api>>

(* _apply_rule_change: the session's copy changes, the version waits.      *)
CriticApplies(c, a) ==
  /\ pc[c] = "ask"
  /\ LET r == cur[c]
         x == copy[c][r]
     IN /\ Sane(a, x)
        /\ pend' = [pend EXCEPT ![c] =
             @ \cup {[rule |-> r, new |-> Changed(a, x), version |-> Snapshot(r, x, "critic")]}]
  /\ changes' = changes + 1
  /\ pc' = [pc EXCEPT ![c] = "pick"]
  /\ UNCHANGED <<row, versions, boundVars, lastReset, period, copy, todo, cur, froze, api>>

Stop(c) ==
  /\ pc' = [pc EXCEPT ![c] = "idle"]
  /\ copy' = [copy EXCEPT ![c] = [r \in Rules |-> NoRow]]
  /\ todo' = [todo EXCEPT ![c] = {}]
  /\ pend' = [pend EXCEPT ![c] = {}]
  /\ froze' = [froze EXCEPT ![c] = {}]
  /\ cur' = [cur EXCEPT ![c] = AnyRule]

AllConsidered(c) == (pc[c] = "pick" /\ todo[c] = {}) \/ pc[c] = "commit"
PendingOf(c, r)  == {p \in pend[c] : p.rule = r}
Committable(c)   == \A p \in pend[c] : row[p.rule].state = "there"

(* Mutant: the whole row is written back.                                  *)
CriticCommitWholeRow(c) ==
  /\ AllConsidered(c) /\ Committable(c)
  /\ row' = [r \in Rules |->
       IF PendingOf(c, r) = {} THEN row[r]
       ELSE LET p == CHOOSE p \in PendingOf(c, r) : TRUE
            IN [row[r] EXCEPT !.sev = p.new.sev, !.cool = p.new.cool,
                              !.on = p.new.on, !.params = p.new.params, !.tuned = TRUE]]
  /\ versions' = [r \in Rules |->
       IF PendingOf(c, r) = {} THEN versions[r]
       ELSE Append(versions[r], (CHOOSE p \in PendingOf(c, r) : TRUE).version)]
  /\ Stop(c)
  /\ UNCHANGED <<boundVars, dayVars, api>>

CriticCommit(c) ==
  /\ AllConsidered(c)
  /\ Committable(c)
  /\ row' = [r \in Rules |->
       IF PendingOf(c, r) = {} THEN row[r]
       ELSE Merged(row[r], copy[c][r], (CHOOSE p \in PendingOf(c, r) : TRUE).new)]
  /\ versions' = [r \in Rules |->
       IF PendingOf(c, r) = {} THEN versions[r]
       ELSE Append(versions[r], (CHOOSE p \in PendingOf(c, r) : TRUE).version)]
  /\ Stop(c)
  /\ UNCHANGED <<boundVars, dayVars, api>>

(* The cycle is rolled back, and what it counted stays counted: a rule it  *)
(* changed is gone, ...                                                    *)
CriticLosesRule(c) ==
  /\ AllConsidered(c) /\ ~Committable(c)
  /\ Stop(c)
  /\ UNCHANGED <<row, versions, boundVars, dayVars, api>>

(* ... the idle gate raises, ...                                           *)
CriticRaises(c, r) ==
  /\ pc[c] = "pick" /\ IsNext(c, r)
  /\ GateRaises(r, copy[c][r])
  /\ Stop(c)
  /\ UNCHANGED <<row, versions, boundVars, dayVars, api>>

(* ... or the commit waits too long for another writer.                    *)
CriticAbort(c) ==
  /\ AllConsidered(c) /\ pend[c] # {}
  /\ faults < MaxFaults
  /\ faults' = faults + 1
  /\ Stop(c)
  /\ UNCHANGED <<row, versions, now, ops, cycles, dayVars, api>>

-----------------------------------------------------------------------------
(* The rules API.                                                          *)
Request == /\ api = NoCall
           /\ ops < MaxOps
           /\ ops' = ops + 1
           /\ UNCHANGED <<now, faults, cycles, dayVars>>
CriticsKeep == UNCHANGED <<pc, copy, todo, cur, pend>>

Ids == {q \in Rules : row[q].state = "there"}

CreateRule(r, by) ==
  /\ Request
  /\ r \notin System /\ r - 1 \in Ids \cup {0} /\ \A q \in Ids : q < r
  /\ row' = [row EXCEPT ![r] = [NoRow EXCEPT !.state = "there", !.born = row[r].born + 1,
                                             !.approved = (by = "user")]]
  /\ CriticsKeep
  /\ UNCHANGED <<versions, froze, api>>

(* The snapshots go with the rule (cascade).                               *)
DeleteRule(r) ==
  /\ Request
  /\ row[r].state = "there" /\ r \notin System
  /\ row' = [row EXCEPT ![r] = [NoRow EXCEPT !.born = row[r].born]]
  /\ versions' = [versions EXCEPT ![r] = <<>>]
  /\ CriticsKeep
  /\ UNCHANGED <<froze, api>>

Given(e, f, old) == IF f \in DOMAIN e THEN e[f] ELSE old
Edited(x, e) == [x EXCEPT !.sev = Given(e, "sev", @), !.cool = Given(e, "cool", @),
                          !.on = Given(e, "on", @), !.params = Given(e, "params", @)]

UpdateRule(r, by, e) ==
  /\ Request
  /\ row[r].state = "there"
  /\ by # "user" => ~row[r].frozen
  /\ api' = [rule |-> r, by |-> by, old |-> row[r], new |-> Edited(row[r], e),
             version |-> Snapshot(r, row[r], by)]
  /\ CriticsKeep
  /\ UNCHANGED <<row, versions, froze>>

(* The first of the versions with that number.                             *)
RollbackRule(r, n) ==
  /\ Request
  /\ row[r].state = "there"
  /\ \E i \in DOMAIN versions[r] :
       /\ versions[r][i].num = n
       /\ \A j \in DOMAIN versions[r] : versions[r][j].num = n => i <= j
       /\ LET e == [f \in Columns |-> versions[r][i][f]]
          IN api' = [rule |-> r, by |-> "user", old |-> row[r], new |-> Edited(row[r], e),
                     version |-> Snapshot(r, row[r], "user")]
  /\ CriticsKeep
  /\ UNCHANGED <<row, versions, froze>>

(* Mutant: last_tuned is left as it was.                                   *)
ApiCommitUntuned ==
  /\ api # NoCall
  /\ LET r == api.rule
     IN /\ row' = [row EXCEPT ![r] = [Merged(@, api.old, api.new) EXCEPT !.tuned = row[r].tuned]]
        /\ versions' = [versions EXCEPT ![r] = Append(@, api.version)]
  /\ api' = NoCall
  /\ UNCHANGED <<boundVars, dayVars, criticVars>>

ApiCommit ==
  /\ api # NoCall
  /\ LET r == api.rule
     IN /\ row' = [row EXCEPT ![r] = Merged(@, api.old, api.new)]
        /\ versions' = [versions EXCEPT ![r] = Append(@, api.version)]
  /\ api' = NoCall
  /\ UNCHANGED <<boundVars, dayVars, criticVars>>

ApiFails ==
  /\ api # NoCall
  /\ faults < MaxFaults
  /\ faults' = faults + 1
  /\ api' = NoCall
  /\ UNCHANGED <<row, versions, now, ops, cycles, dayVars, criticVars>>

(* Freezing the frozen, and the like, changes nothing.                     *)
FreezeRule(r) ==
  /\ Request
  /\ row[r].state = "there" /\ ~row[r].frozen
  /\ row' = [row EXCEPT ![r].frozen = TRUE]
  /\ froze' = [c \in Critics |-> IF pc[c] = "idle"
                                 THEN froze[c] ELSE froze[c] \cup {r}]
  /\ CriticsKeep
  /\ UNCHANGED <<versions, api>>

UnfreezeRule(r) ==
  /\ Request
  /\ row[r].state = "there" /\ row[r].frozen
  /\ row' = [row EXCEPT ![r].frozen = FALSE]
  /\ CriticsKeep
  /\ UNCHANGED <<versions, froze, api>>

ApproveRule(r) ==
  /\ Request
  /\ row[r].state = "there" /\ ~row[r].approved
  /\ row' = [row EXCEPT ![r].approved = TRUE]
  /\ CriticsKeep
  /\ UNCHANGED <<versions, froze, api>>

(* The dashboard's switch: no version, no last_tuned.  What a critic       *)
(* commits between its read and its write is as if committed after it.     *)
ToggleRule(r) ==
  /\ Request
  /\ row[r].state = "there"
  /\ row' = [row EXCEPT ![r].on = ~@]
  /\ CriticsKeep
  /\ UNCHANGED <<versions, froze, api>>

RuleFeedback(r, f) ==
  /\ Request
  /\ row[r].state = "there"
  /\ row' = [row EXCEPT ![r][f] = @ + 1]
  /\ CriticsKeep
  /\ UNCHANGED <<versions, froze, api>>

-----------------------------------------------------------------------------
(* The engine counts Burst fires of a rule.                                *)
Fires(r) ==
  /\ ops < MaxOps
  /\ ops' = ops + 1
  /\ row[r].state = "there" /\ row[r].on /\ row[r].approved
  /\ row' = [row EXCEPT ![r].fires = @ + Burst]
  /\ UNCHANGED <<versions, now, faults, cycles, dayVars, criticVars, api>>

NextDay ==
  /\ now < MaxTime
  /\ now' = now + 1
  /\ UNCHANGED <<row, versions, faults, ops, cycles, dayVars, criticVars, api>>

(* The process restarts: sessions and the day's count are gone, the seed   *)
(* runs.                                                                   *)
Restart ==
  /\ faults < MaxFaults
  /\ faults' = faults + 1
  /\ row' = [r \in Rules |-> Seeded(r, row[r])]
  /\ changes' = 0 /\ lastReset' = 0 /\ period' = period + 1
  /\ pc' = [c \in Critics |-> "idle"]
  /\ copy' = [c \in Critics |-> [r \in Rules |-> NoRow]]
  /\ todo' = [c \in Critics |-> {}] /\ froze' = [c \in Critics |-> {}]
  /\ cur' = [c \in Critics |-> AnyRule]
  /\ pend' = [c \in Critics |-> {}]
  /\ api' = NoCall
  /\ UNCHANGED <<versions, now, ops, cycles>>

CriticStep(c) ==
  \/ CriticStart(c)
  \/ \E r \in Rules : CriticConsider(c, r)
  \/ CriticKeeps(c)
  \/ \E a \in Decisions : CriticApplies(c, a)
  \/ CriticCommit(c)
  \/ CriticLosesRule(c)
  \/ \E r \in Rules : CriticRaises(c, r)
  \/ CriticAbort(c)

Next ==
  \/ \E c \in Critics : CriticStep(c)
  \/ \E r \in Rules, by \in {"agent", "user"} : CreateRule(r, by)
  \/ \E r \in Rules : DeleteRule(r)
  \/ \E r \in Rules, by \in {"agent", "user"}, e \in Edits : UpdateRule(r, by, e)
  \/ \E r \in Rules : \E n \in Numbers(r) : RollbackRule(r, n)
  \/ ApiCommit
  \/ ApiFails
  \/ \E r \in Rules : FreezeRule(r)
  \/ \E r \in Rules : UnfreezeRule(r)
  \/ \E r \in Rules : ApproveRule(r)
  \/ \E r \in Rules : ToggleRule(r)
  \/ \E r \in Rules, f \in {"tp", "fp"} : RuleFeedback(r, f)
  \/ \E r \in Rules : Fires(r)
  \/ NextDay
  \/ Restart

Spec == Init /\ [][Next]_vars

-----------------------------------------------------------------------------
(* Critic c commits a change of r.                                         *)
Tunes(c, r) == /\ pc[c] # "idle" /\ pc'[c] = "idle"
               /\ PendingOf(c, r) # {} /\ versions'[r] # versions[r]

(* A frozen rule is changed for the agent only by a critic cycle that read *)
(* it before it was frozen, and never by a request: once the cycles under  *)
(* way are over, a freeze holds (orchestrator.py:527-535, rules.py:105).   *)
FreezeHolds ==
  [][/\ \A c \in Critics, r \in Rules : Tunes(c, r) /\ row[r].frozen => r \in froze[c]
     /\ \A r \in Rules :
          api # NoCall /\ api' = NoCall /\ api.rule = r /\ api.by = "agent"
            /\ versions'[r] # versions[r] => ~row[r].frozen]_vars

(* The versions of a rule are snapshots of it and their numbers have no    *)
(* gaps, so that every number up to the last can be rolled back to, even   *)
(* when two sessions took the same one (rules.py:338-344) - but for what a *)
(* critic cycle saves that had read a rule before it was deleted: it goes, *)
(* with a number of its own, to the rule that got the id (models.py:39).   *)
VersionsContinue ==
  \A r \in Rules : \A i \in DOMAIN versions[r] :
    LET v == versions[r][i]
    IN \/ v.born = row[r].born /\ (v.num = 1 \/ v.num - 1 \in Numbers(r))
       \/ v.born < row[r].born /\ v.by = "critic"

(* The critic switches no rule on: one that was disabled while the critic  *)
(* thought about it stays disabled (orchestrator.py:715-747).              *)
CriticNeverEnables ==
  [][\A c \in Critics, r \in Rules : Tunes(c, r) /\ ~row[r].on => ~row'[r].on]_vars

(* In one period of the daily counter the critic changes at most one rule  *)
(* per further thread more than the limit, whatever is committed when and  *)
(* wherever the counter is reset (orchestrator.py:492-497, 559, 620).      *)
ChangesOf(p) ==
  UNION {{<<r, i>> : i \in {j \in DOMAIN versions[r] :
            versions[r][j].by = "critic" /\ versions[r][j].period = p}} : r \in Rules}
DailyChangesBounded ==
  \A p \in 1..period :
    Cardinality(ChangesOf(p)) <= MaxChanges + Cardinality(Critics) - 1

(* "preserve runtime-tuned fields (severity, cooldown, enabled)"           *)
(* (main.py:323): a restart leaves these of a rule that has versions as    *)
(* they were, whoever made them, and switches no rule; of a rule that is   *)
(* frozen, or not shipped, it leaves everything.                           *)
Restarts == faults' = faults + 1 /\ period' = period + 1 /\ versions' = versions
RestartKeepsTuning ==
  [][Restarts => \A r \in Rules :
       /\ versions[r] # <<>> => row'[r].sev = row[r].sev /\ row'[r].cool = row[r].cool
       /\ row[r].state = "there" => row'[r].on = row[r].on
       /\ row[r].frozen \/ r \notin System => row'[r] = row[r]]_vars
=============================================================================
