--------------------------- MODULE RuleEngine_proofs ---------------------------
(***************************************************************************)
(* Proofs about the rule engine, for any threads, rules, groups and ports, *)
(* any cooldowns, thresholds and windows, and any number of edits, events  *)
(* and failures.                                                           *)
(***************************************************************************)
EXTENDS RuleEngine, TLAPS

LEMMA NothingTyped == NoEvent \in Event /\ NoRule \in CachedRule
BY ConstantsAssumption DEF NoEvent, NoRule, Event, CachedRule, Versions

LEMMA VersionsAreNumbers ==
  /\ 0 \in Versions
  /\ \A v \in Versions : v < MaxVersion => v + 1 \in Versions
<1>1. MaxVersion \in Nat
  BY ConstantsAssumption
<1> QED BY <1>1 DEF Versions

-----------------------------------------------------------------------------
LEMMA TypeInit == Init => TypeOK
<1> SUFFICES ASSUME Init PROVE TypeOK
  OBVIOUS
<1>1. NoKey \in Key
  BY NothingTyped DEF NoKey, Key, CachedRule, Event
<1> QED BY <1>1, VersionsAreNumbers, NothingTyped, ConstantsAssumption DEF Init, TypeOK, PCs

LEMMA PlaceTyped ==
  ASSUME TypeOK, NEW t \in Threads
  PROVE  /\ cur[t].rule \in Rules /\ cur[t].ver \in Versions
         /\ ev[t].grp \in Groups
         /\ held[t].rule \in Rules /\ held[t].list \in Nat
         /\ \A d, l \in Nat : KeyOf(t, d, l) \in Key
<1>1. cur[t] \in CachedRule /\ held[t] \in Key /\ ev[t] \in Event
  BY DEF TypeOK
<1> QED BY <1>1 DEF CachedRule, Key, Event, KeyOf

LEMMA ListsTyped ==
  ASSUME TypeOK, NEW l
  PROVE  /\ Of(l) \subseteq Entry
         /\ \A S \in SUBSET Entry : Assign(l, S) => entries' \in SUBSET Entry
BY DEF TypeOK, Of, Assign

LEMMA GetRulesTyped ==
  ASSUME TypeOK, NEW t \in Threads, GetRules(t), events' \in Nat, ev' \in [Threads -> Event]
  PROVE  TypeOK'
<1>1. cache \in SUBSET CachedRule /\ {} \in SUBSET CachedRule
  BY DEF TypeOK
<1>2. todo' \in [Threads -> SUBSET CachedRule]
  BY <1>1 DEF TypeOK, GetRules
<1>3. pc' \in [Threads -> PCs]
  BY DEF TypeOK, GetRules, Goto, PCs
<1> QED BY <1>2, <1>3 DEF TypeOK, GetRules, engineVars, windowVars, placeVars, dbVars, fireVars, fates

LEMMA LeaveTyped ==
  ASSUME TypeOK, NEW t \in Threads, Leave(t),
         UNCHANGED <<now, faults, events, dbVars, api, engineVars, fireVars, buf, todo, snap>>
  PROVE  TypeOK'
<1>1. NoKey \in Key
  BY NothingTyped DEF NoKey, Key, CachedRule, Event
<1> QED BY <1>1, NothingTyped DEF TypeOK, Leave, PCs, engineVars, windowVars, dbVars, fireVars, fates

LEMMA SweepTyped ==
  ASSUME TypeOK, NEW t \in Threads, SweepStep(t)
  PROVE  TypeOK'
<1> USE DEF TypeOK, Goto, SweepUnchanged, engineVars, windowVars, placeVars, dbVars, fireVars, fates
<1>p. \A l \in PCs : Goto(t, l) => pc' \in [Threads -> PCs]
  OBVIOUS
<1>k. held[t].rule \in Rules
  BY PlaceTyped
<1>1. CASE SweepRule(t)
  <2>1. PICK d \in sweep[t] :
          /\ sweep' = [sweep EXCEPT ![t] = @ \ {d}]
          /\ held' = [held EXCEPT ![t] = [NoKey EXCEPT !.rule = d.rule, !.dict = d.dict]]
          /\ items' = [items EXCEPT ![t] = {k \in keys : k.dict = d.dict}]
    BY <1>1 DEF SweepRule
  <2>2. d \in Dict
    OBVIOUS
  <2>3. [NoKey EXCEPT !.rule = d.rule, !.dict = d.dict] \in Key
    BY <2>2, NothingTyped DEF NoKey, Key, Dict, Event
  <2>4. held' \in [Threads -> Key] /\ sweep' \in [Threads -> SUBSET Dict]
        /\ items' \in [Threads -> SUBSET Key]
    BY <2>1, <2>3
  <2>5. pc' \in [Threads -> PCs]
    BY <1>1, <1>p DEF SweepRule, PCs
  <2> QED BY <1>1, <2>4, <2>5 DEF SweepRule
<1>2. CASE SweepFilter(t)
  <2>1. PICK k \in items[t] :
          /\ items' = [items EXCEPT ![t] = @ \ {k}]
          /\ held' = [held EXCEPT ![t] = k]
          /\ snap' = [snap EXCEPT ![t] = {x \in Of(k.list) : when[t] - x.at < MaxAge}]
    BY <1>2 DEF SweepFilter
  <2>2. {x \in Of(k.list) : when[t] - x.at < MaxAge} \in SUBSET Entry
    BY ListsTyped
  <2>3. held' \in [Threads -> Key] /\ items' \in [Threads -> SUBSET Key]
        /\ snap' \in [Threads -> SUBSET Entry]
    BY <2>1, <2>2
  <2>4. pc' \in [Threads -> PCs]
    BY <1>2, <1>p DEF SweepFilter, PCs
  <2> QED BY <1>2, <2>3, <2>4 DEF SweepFilter
<1>3. CASE SweepAssign(t)
  <2>1. entries' \in SUBSET Entry
    BY <1>3, ListsTyped DEF SweepAssign
  <2>2. swept' \in [Threads -> BOOLEAN]
    <3>1. swept' = [q \in Threads |-> swept[q] \/ (pc[q] = "count" /\ held[q].list = held[t].list)]
      BY <1>3 DEF SweepAssign
    <3> QED BY Zenon, <3>1
  <2>3. pc' \in [Threads -> PCs] /\ snap' \in [Threads -> SUBSET Entry]
    BY <1>3, <1>p DEF SweepAssign, PCs
  <2> QED BY <1>3, <2>1, <2>2, <2>3 DEF SweepAssign
<1>4. CASE SweepCheck(t)
  <2>1. pc' \in [Threads -> PCs]
    BY <1>4 DEF SweepCheck, PCs
  <2> QED BY <1>4, <2>1 DEF SweepCheck
<1>5. CASE SweepDelete(t)
  <2>1. pc' \in [Threads -> PCs] /\ keys' \in SUBSET Key
    BY <1>5, <1>p DEF SweepDelete, PCs
  <2> QED BY <1>5, <2>1 DEF SweepDelete
<1>6. CASE SweepDone(t)
  <2>1. pc' \in [Threads -> PCs]
    BY <1>6 DEF SweepDone, PCs
  <2> QED BY <1>6, <2>1 DEF SweepDone
<1>7. CASE SweepDrop(t)
  <2>1. pc' \in [Threads -> PCs]
    BY <1>7, <1>p DEF SweepDrop, PCs
  <2> QED BY <1>7, <1>k, <2>1 DEF SweepDrop
<1>8. CASE SweepRaises(t)
  BY <1>8, LeaveTyped DEF SweepRaises
<1>9. CASE SweepEnd(t)
  BY <1>9, GetRulesTyped DEF SweepEnd
<1> QED BY <1>1, <1>2, <1>3, <1>4, <1>5, <1>6, <1>7, <1>8, <1>9 DEF SweepStep

LEMMA WindowTyped ==
  ASSUME TypeOK, NEW t \in Threads, WindowStep(t)
  PROVE  TypeOK'
<1> USE DEF TypeOK, Goto, engineVars, windowVars, placeVars, dbVars, fireVars, fates
<1>p. \A l \in PCs : Goto(t, l) => pc' \in [Threads -> PCs]
  OBVIOUS
<1>k. /\ cur[t].rule \in Rules
      /\ \A d, l \in Nat : KeyOf(t, d, l) \in Key
  BY PlaceTyped
<1>n. NoKey \in Key
  BY NothingTyped DEF NoKey, Key, CachedRule, Event
<1>1. CASE ReadTime(t)
  <2>1. pc' \in [Threads -> PCs]
    BY <1>1, <1>p DEF ReadTime, PCs
  <2> QED BY <1>1, <2>1 DEF ReadTime
<1>2. CASE FindList(t)
  <2> DEFINE d == windows[cur[t].rule]
             found == {k \in keys : k.dict = d /\ k.grp = ev[t].grp}
  <2>1. pc' \in [Threads -> PCs]
    BY <1>2, <1>p DEF FindList, PCs
  <2>2. d \in Nat /\ made + 1 \in Nat
    BY <1>k
  <2>3. held' \in [Threads -> Key] /\ keys' \in SUBSET Key /\ made' \in Nat
    <3>1. CASE found # {}
      <4>1. (CHOOSE k \in found : TRUE) \in Key
        BY <3>1
      <4>2. held' = [held EXCEPT ![t] = CHOOSE k \in found : TRUE] /\ UNCHANGED <<keys, made>>
        BY <1>2, <3>1 DEF FindList
      <4> QED BY <4>1, <4>2
    <3>2. CASE found = {}
      <4>1. /\ made' = made + 1 /\ held' = [held EXCEPT ![t] = KeyOf(t, d, made + 1)]
            /\ keys' = keys \cup {KeyOf(t, d, made + 1)}
        BY <1>2, <3>2 DEF FindList
      <4>2. KeyOf(t, d, made + 1) \in Key
        BY <1>k, <2>2
      <4> QED BY <2>2, <4>1, <4>2
    <3> QED BY <3>1, <3>2
  <2> QED BY <1>2, <2>1, <2>3 DEF FindList
<1>3. CASE MissDict(t)
  <2>1. pc' \in [Threads -> PCs]
    BY <1>3, <1>p DEF MissDict, PCs
  <2> QED BY <1>3, <2>1 DEF MissDict
<1>4. CASE CreateDict(t)
  <2>1. pc' \in [Threads -> PCs]
    BY <1>4, <1>p DEF CreateDict, PCs
  <2>2. KeyOf(t, made + 1, made + 2) \in Key
    BY <1>k
  <2>3. held' \in [Threads -> Key] /\ keys' \in SUBSET Key /\ made' \in Nat
        /\ windows' \in [Rules -> Nat]
    BY <1>4, <1>k, <2>2 DEF CreateDict
  <2> QED BY <1>4, <2>1, <2>3 DEF CreateDict
<1>5. CASE AppendEntry(t)
  <2>1. pc' \in [Threads -> PCs]
    BY <1>5, <1>p DEF AppendEntry, PCs
  <2>2. [list |-> held[t].list, ev |-> ev[t], at |-> when[t]] \in Entry
    BY PlaceTyped DEF Entry
  <2> QED BY <1>5, <2>1, <2>2 DEF AppendEntry
<1>6. CASE PruneEntries(t)
  <2>1. pc' \in [Threads -> PCs]
    BY <1>6, <1>p DEF PruneEntries, PCs
  <2>2. {x \in Of(held[t].list) : x.at >= when[t] - Window} \in SUBSET Entry
    BY ListsTyped
  <2> QED BY <1>6, <2>1, <2>2 DEF PruneEntries
<1>7. CASE WriteEntries(t)
  <2>1. pc' \in [Threads -> PCs]
    BY <1>7, <1>p DEF WriteEntries, PCs
  <2>2. entries' \in SUBSET Entry
    BY <1>7, ListsTyped DEF WriteEntries
  <2> QED BY <1>7, <2>1, <2>2 DEF WriteEntries
<1>8. CASE CountEntries(t)
  <2>1. CASE Size(cur[t].rule, Of(held[t].list)) >= Threshold
    <3>1. snap' = [snap EXCEPT ![t] = Of(held[t].list)] /\ Goto(t, "clear") /\ UNCHANGED held
      BY <1>8, <2>1 DEF CountEntries
    <3>2. Of(held[t].list) \in SUBSET Entry
      BY ListsTyped
    <3>3. pc' \in [Threads -> PCs]
      BY <3>1, <1>p DEF PCs
    <3> QED BY <1>8, <3>1, <3>2, <3>3 DEF CountEntries
  <2>2. CASE ~(Size(cur[t].rule, Of(held[t].list)) >= Threshold)
    <3>1. held' = [held EXCEPT ![t] = NoKey] /\ Goto(t, "pick") /\ UNCHANGED snap
      BY <1>8, <2>2 DEF CountEntries
    <3>2. pc' \in [Threads -> PCs]
      BY <3>1, <1>p DEF PCs
    <3> QED BY <1>8, <1>n, <3>1, <3>2 DEF CountEntries
  <2> QED BY <2>1, <2>2
<1>9. CASE ClearEntries(t)
  <2>1. pc' \in [Threads -> PCs]
    BY <1>9, <1>p DEF ClearEntries, PCs
  <2>2. entries' \in SUBSET Entry
    BY <1>9 DEF ClearEntries, Assign
  <2> QED BY <1>9, <1>n, <2>1, <2>2 DEF ClearEntries
<1> QED BY <1>1, <1>2, <1>3, <1>4, <1>5, <1>6, <1>7, <1>8, <1>9 DEF WindowStep

LEMMA TypeNext == TypeOK /\ [Next]_vars => TypeOK'
<1> SUFFICES ASSUME TypeOK, [Next]_vars PROVE TypeOK'
  OBVIOUS
<1>a. \A t \in Threads : cur[t].rule \in Rules
  BY PlaceTyped
<1>w. Workers \subseteq Threads /\ Loop \in Threads
  BY DEF Threads
<1> USE DEF TypeOK, PCs, Goto, callVars, placeVars, engineVars, windowVars, fireVars, fates, dbVars
<1>h. ASSUME NEW t \in Workers, NEW g \in Groups, NEW p \in Ports, Hand(t, g, p)
      PROVE  events' \in Nat /\ ev' \in [Threads -> Event]
  <2>1. events + 1 \in Nat /\ [id |-> events + 1, grp |-> g, port |-> p] \in Event
    BY DEF Event
  <2> QED BY <1>h, <1>w, <2>1 DEF Hand
<1>1. ASSUME NEW t \in Workers, NEW g \in Groups, NEW p \in Ports, Evaluate(t, g, p)
      PROVE  TypeOK'
  BY <1>1, <1>h, <1>w, GetRulesTyped DEF Evaluate
<1>2. ASSUME NEW t \in Workers, NEW g \in Groups, NEW p \in Ports, EvaluatePruning(t, g, p)
      PROVE  TypeOK'
  <2>1. events' \in Nat /\ ev' \in [Threads -> Event]
    BY <1>2, <1>h DEF EvaluatePruning
  <2>2. \A r \in Rules : [rule |-> r, dict |-> windows[r]] \in Dict
    BY DEF Dict
  <2>3. sweep' \in [Threads -> SUBSET Dict]
    BY <1>2, <1>w, <2>2 DEF EvaluatePruning
  <2> QED BY <1>2, <1>w, <2>1, <2>3 DEF EvaluatePruning
<1>3. CASE FireRule
  BY <1>3, <1>w, GetRulesTyped DEF FireRule
<1>4. ASSUME NEW t \in Threads, ReadRules(t) PROVE TypeOK'
  <2>1. \A r \in Rules : [rule |-> r, ver |-> ver[r]] \in CachedRule
    BY DEF CachedRule
  <2>2. buf' \in [Threads -> SUBSET CachedRule]
    BY <1>4, <2>1 DEF ReadRules
  <2> QED BY <1>4, <2>2 DEF ReadRules
<1>5. ASSUME NEW t \in Threads, ReadRulesFails(t) PROVE TypeOK'
  BY <1>5 DEF ReadRulesFails
<1>6. ASSUME NEW t \in Threads, InstallRules(t) PROVE TypeOK'
  BY <1>6 DEF InstallRules
<1>7. ASSUME NEW t \in Threads, StampRules(t) PROVE TypeOK'
  BY <1>7 DEF StampRules
<1>8. ASSUME NEW t \in Threads, DropRule(t) PROVE TypeOK'
  BY <1>8 DEF DropRule
<1>9. ASSUME NEW t \in Threads, CheckCooldown(t) PROVE TypeOK'
  BY <1>9 DEF CheckCooldown
<1>10. ASSUME NEW t \in Threads, Return(t) PROVE TypeOK'
  BY <1>10, LeaveTyped DEF Return
<1>11. ASSUME NEW t \in Threads, Fire(t) PROVE TypeOK'
  BY <1>11 DEF Fire
<1>12. ASSUME NEW t \in Threads, StartCooldown(t) PROVE TypeOK'
  BY <1>12, <1>a DEF StartCooldown
<1>13. ASSUME NEW t \in Threads, WriteRecord(t) \/ LoseRecord(t) \/ OnlyLog(t) PROVE TypeOK'
  <2>1. \A f \in [Rules -> SUBSET Nat] : Noted(f, t) \in [Rules -> SUBSET Nat]
    BY <1>a DEF Noted
  <2>2. CASE WriteRecord(t)
    BY <2>1, <2>2 DEF WriteRecord
  <2>3. CASE LoseRecord(t)
    BY <2>1, <2>3 DEF LoseRecord
  <2>4. CASE OnlyLog(t)
    BY <2>1, <2>4 DEF OnlyLog
  <2> QED BY <1>13, <2>2, <2>3, <2>4
<1>14. ASSUME NEW t \in Threads, ThreadStep(t) PROVE TypeOK'
  BY <1>4, <1>5, <1>6, <1>7, <1>8, <1>9, <1>10, <1>11, <1>12, <1>13, <1>14, WindowTyped
     DEF ThreadStep
<1>15. ASSUME NEW t \in Workers, SweepStep(t) PROVE TypeOK'
  BY <1>15, <1>w, SweepTyped
<1>16. ASSUME NEW r \in Rules, NEW b \in BOOLEAN, UpdateRule(r, b) \/ EditQuietly(r, b)
       PROVE  TypeOK'
  <2>1. Commit(r, b) /\ api' \in {"idle", "invalidate"}
    BY <1>16 DEF UpdateRule, EditQuietly
  <2>2. ver[r] \in Versions /\ ver[r] < MaxVersion
    BY <2>1 DEF Commit
  <2>3. ver[r] + 1 \in Versions
    BY <2>2, VersionsAreNumbers
  <2> QED BY <2>1, <2>2, <2>3 DEF Commit
<1>17. CASE Invalidate \/ CriticInvalidates
  BY <1>17 DEF Invalidate, CriticInvalidates
<1>18. CASE Tick
  BY <1>18 DEF Tick
<1>19. CASE Restart
  <2>1. NoKey \in Key
    BY NothingTyped DEF NoKey, Key, CachedRule, Event
  <2> QED BY <1>19, <2>1, NothingTyped DEF Restart
<1>20. CASE UNCHANGED vars
  BY <1>20 DEF vars
<1> QED BY <1>1, <1>2, <1>3, <1>14, <1>15, <1>16, <1>17, <1>18, <1>19, <1>20 DEF Next

(* Every variable of the engine has its type.                              *)
THEOREM TypeCorrect == Spec => []TypeOK
<1> QED BY TypeInit, TypeNext, PTL DEF Spec
-----------------------------------------------------------------------------
(* What a step inside a sweep or inside _check_windowed leaves alone: all  *)
(* but the windows, the thread's place in them and its snapshot.           *)
Sweeping  == {"sweep", "items", "assign", "check", "delete", "drop"}
Windowing == {"time", "find", "create", "append", "prune", "write", "count", "clear", "fire"}

Apart == UNCHANGED <<now, faults, events, dbVars, api, cache, cacheTs, last, fireVars,
                     began, ev, buf, todo, cur, degraded>>

LEMMA SweepShape ==
  ASSUME NEW t \in Threads, SweepStep(t)
  PROVE  /\ pc[t] \in Sweeping
         /\ \/ /\ \E l \in Sweeping : pc' = [pc EXCEPT ![t] = l]
               /\ Apart /\ UNCHANGED when
            \/ /\ Leave(t)
               /\ UNCHANGED <<now, faults, events, dbVars, api, engineVars, fireVars, buf, todo, snap>>
            \/ GetRules(t) /\ UNCHANGED <<events, ev>>
<1> USE DEF Sweeping, Apart, SweepUnchanged, Goto
<1>1. CASE SweepRule(t)
  BY <1>1 DEF SweepRule
<1>2. CASE SweepFilter(t)
  BY <1>2 DEF SweepFilter
<1>3. CASE SweepAssign(t)
  BY <1>3 DEF SweepAssign
<1>4. CASE SweepCheck(t)
  <2>1. pc' = [pc EXCEPT ![t] = "delete"] \/ pc' = [pc EXCEPT ![t] = "items"]
    BY <1>4 DEF SweepCheck
  <2> QED BY <1>4, <2>1 DEF SweepCheck
<1>5. CASE SweepDelete(t)
  BY <1>5 DEF SweepDelete, placeVars
<1>6. CASE SweepDone(t)
  <2>1. pc' = [pc EXCEPT ![t] = "sweep"] \/ pc' = [pc EXCEPT ![t] = "drop"]
    BY <1>6 DEF SweepDone
  <2> QED BY <1>6, <2>1 DEF SweepDone
<1>7. CASE SweepDrop(t)
  BY <1>7 DEF SweepDrop
<1>8. CASE SweepRaises(t)
  BY <1>8 DEF SweepRaises
<1>9. CASE SweepEnd(t)
  BY <1>9 DEF SweepEnd
<1> QED BY <1>1, <1>2, <1>3, <1>4, <1>5, <1>6, <1>7, <1>8, <1>9 DEF SweepStep

LEMMA WindowShape ==
  ASSUME NEW t \in Threads, WindowStep(t)
  PROVE  /\ pc[t] \in Windowing /\ pc[t] # "fire"
         /\ Apart
         /\ \/ /\ pc[t] = "time" /\ pc' = [pc EXCEPT ![t] = "find"]
               /\ when' = [when EXCEPT ![t] = now]
            \/ /\ pc[t] # "time"
               /\ \E l \in (Windowing \ {"time"}) \cup {"pick"} : pc' = [pc EXCEPT ![t] = l]
               /\ UNCHANGED when
<1> USE DEF Windowing, Apart, Goto, engineVars, windowVars
<1>1. CASE ReadTime(t)
  BY <1>1 DEF ReadTime
<1>2. CASE FindList(t)
  BY <1>2 DEF FindList
<1>3. CASE MissDict(t)
  BY <1>3 DEF MissDict
<1>4. CASE CreateDict(t)
  BY <1>4 DEF CreateDict
<1>5. CASE AppendEntry(t)
  BY <1>5 DEF AppendEntry
<1>6. CASE PruneEntries(t)
  BY <1>6 DEF PruneEntries
<1>7. CASE WriteEntries(t)
  BY <1>7 DEF WriteEntries
<1>8. CASE CountEntries(t)
  <2>1. pc' = [pc EXCEPT ![t] = "clear"] \/ pc' = [pc EXCEPT ![t] = "pick"]
    BY <1>8 DEF CountEntries
  <2> QED BY <1>8, <2>1 DEF CountEntries
<1>9. CASE ClearEntries(t)
  BY <1>9 DEF ClearEntries
<1> QED BY <1>1, <1>2, <1>3, <1>4, <1>5, <1>6, <1>7, <1>8, <1>9 DEF WindowStep

-----------------------------------------------------------------------------
(* The clock.  Whatever was stamped was stamped in the past, a call under  *)
(* way began at most MaxLag ago, and the times it took lie between.        *)
Timed ==
  /\ cacheTs <= now
  /\ \A r \in Rules : last[r] <= now
  /\ \A t \in Threads, r \in Rules : mine[t][r] <= now
  /\ \A t \in Threads : began[t] <= now /\ when[t] <= now
  /\ \A t \in Threads : pc[t] # "idle" => now - began[t] <= MaxLag
  /\ \A t \in Threads :
       pc[t] \in Sweeping \cup {"find", "create", "append", "prune", "write", "count", "store"}
         => began[t] <= when[t]

LEMMA TimedInit == Init => Timed
<1>1. Start \in Nat
  BY ConstantsAssumption
<1> QED BY <1>1 DEF Init, Timed, Sweeping

LEMMA TimedNext == TypeOK /\ Timed /\ [Next]_vars => Timed'
<1> SUFFICES ASSUME TypeOK, Timed, [Next]_vars PROVE Timed'
  OBVIOUS
<1>t. /\ now \in Nat /\ cacheTs \in Nat /\ last \in [Rules -> Nat]
      /\ mine \in [Threads -> [Rules -> Nat]] /\ pc \in [Threads -> PCs]
      /\ began \in [Threads -> Nat] /\ when \in [Threads -> Nat]
      /\ MaxLag \in Nat
      /\ Workers \subseteq Threads /\ Loop \in Threads
  BY ConstantsAssumption DEF TypeOK, Threads
<1>r. \A t \in Threads : cur[t].rule \in Rules
  BY PlaceTyped
<1> USE <1>t DEF Timed, Sweeping, Goto, callVars, engineVars, fireVars, dbVars
<1>1. ASSUME NEW t \in Threads, pc[t] \in {"idle"} \cup Sweeping, GetRules(t) PROVE Timed'
  BY <1>1 DEF GetRules
<1>2. ASSUME NEW t \in Workers, NEW g \in Groups, NEW p \in Ports, EvaluatePruning(t, g, p)
      PROVE  Timed'
  BY <1>2 DEF EvaluatePruning
<1>3. ASSUME NEW t \in Workers, SweepStep(t) PROVE Timed'
  <2>0. pc[t] \in Sweeping
    BY <1>3, SweepShape
  <2>1. CASE \E l \in Sweeping : pc' = [pc EXCEPT ![t] = l] /\ Apart /\ UNCHANGED when
    BY <2>0, <2>1 DEF Apart
  <2>2. CASE Leave(t) /\ UNCHANGED <<now, engineVars, fireVars>>
    BY <2>0, <2>2 DEF Leave
  <2>3. CASE GetRules(t)
    BY <1>1, <2>0, <2>3
  <2> QED BY <1>3, <2>1, <2>2, <2>3, SweepShape
<1>4. ASSUME NEW t \in Threads, ReadRules(t) \/ ReadRulesFails(t) \/ InstallRules(t) PROVE Timed'
  BY <1>4 DEF ReadRules, ReadRulesFails, InstallRules
<1>5. ASSUME NEW t \in Threads, StampRules(t) PROVE Timed'
  BY <1>5 DEF StampRules
<1>6. ASSUME NEW t \in Threads, DropRule(t) \/ CheckCooldown(t) PROVE Timed'
  BY <1>6 DEF DropRule, CheckCooldown
<1>7. ASSUME NEW t \in Threads, Return(t) PROVE Timed'
  BY <1>7 DEF Return, Leave
<1>8. ASSUME NEW t \in Threads, WindowStep(t) PROVE Timed'
  <2>0. pc[t] \in Windowing /\ pc[t] # "fire" /\ Apart
    BY <1>8, WindowShape
  <2>1. CASE pc' = [pc EXCEPT ![t] = "find"] /\ when' = [when EXCEPT ![t] = now]
    BY <2>0, <2>1 DEF Apart, Windowing
  <2>2. ASSUME pc[t] # "time", UNCHANGED when,
               NEW l \in (Windowing \ {"time"}) \cup {"pick"}, pc' = [pc EXCEPT ![t] = l],
               pc[t] \notin {"count", "clear"}
        PROVE  Timed'
    <3>1. l \in {"find", "create", "append", "prune", "write", "count"}
            => pc[t] \in {"find", "create", "append", "prune", "write"}
      BY <2>0, <2>2 DEF Windowing
    <3> QED BY <2>0, <2>2, <3>1 DEF Apart, Windowing
  <2>3. CASE CountEntries(t)
    <3>1. pc' = [pc EXCEPT ![t] = "clear"] \/ pc' = [pc EXCEPT ![t] = "pick"]
      BY <2>3 DEF CountEntries
    <3> QED BY <2>0, <2>3, <3>1 DEF Apart, CountEntries
  <2>4. CASE ClearEntries(t)
    BY <2>0, <2>4 DEF Apart, ClearEntries
  <2>5. CASE ~CountEntries(t) /\ ~ClearEntries(t)
    <3>1. pc[t] \notin {"count", "clear"}
      BY <1>8, <2>5 DEF WindowStep, ReadTime, FindList, MissDict, CreateDict, AppendEntry,
                        PruneEntries, WriteEntries
    <3> QED BY <1>8, <2>1, <2>2, <3>1, WindowShape
  <2> QED BY <2>3, <2>4, <2>5
<1>9. ASSUME NEW t \in Threads, Fire(t) PROVE Timed'
  BY <1>9 DEF Fire
<1>10. ASSUME NEW t \in Threads, StartCooldown(t) PROVE Timed'
  BY <1>r, <1>10 DEF StartCooldown
<1>11. ASSUME NEW t \in Threads, WriteRecord(t) \/ LoseRecord(t) \/ OnlyLog(t) PROVE Timed'
  BY <1>11 DEF WriteRecord, LoseRecord, OnlyLog
<1>12. ASSUME NEW r \in Rules, NEW b \in BOOLEAN, Commit(r, b) PROVE Timed'
  BY <1>12 DEF Commit
<1>13. CASE Invalidate \/ CriticInvalidates
  BY <1>13 DEF Invalidate, CriticInvalidates
<1>14. CASE Tick
  BY <1>14 DEF Tick
<1>15. CASE Restart
  BY <1>15 DEF Restart
<1>16. CASE UNCHANGED vars
  BY <1>16 DEF vars
<1>17. ASSUME NEW t \in Threads, ThreadStep(t) PROVE Timed'
  BY <1>4, <1>5, <1>6, <1>7, <1>8, <1>9, <1>10, <1>11, <1>17 DEF ThreadStep
<1>18. ASSUME NEW t \in Workers, NEW g \in Groups, NEW p \in Ports, Evaluate(t, g, p)
       PROVE  Timed'
  BY <1>1, <1>18 DEF Evaluate, Hand
<1>19. CASE FireRule
  BY <1>1, <1>19 DEF FireRule, LoopFree
<1> QED BY <1>2, <1>3, <1>12, <1>13, <1>14, <1>15, <1>16, <1>17, <1>18, <1>19
        DEF Next, UpdateRule, EditQuietly

-----------------------------------------------------------------------------
(* What is in _last_fired is at most a call's length older than any fire   *)
(* of a thread: whoever stores an older stamp read it during a call that   *)
(* is not over.  Once a thread has found a rule cooled, the rule stays so  *)
(* for the thread until it fires it: time moves on, and nobody else fires  *)
(* in its name.                                                            *)
Cool(t, x) == mine[t][x.rule] = 0 \/ now - mine[t][x.rule] >= Cooldown[x.ver] - MaxLag

Rested ==
  /\ \A t \in Threads, r \in Rules : mine[t][r] <= last[r] + MaxLag
  /\ \A t \in Threads : pc[t] \in Windowing => Cool(t, cur[t])

LEMMA RestedInit == Init => Rested
BY ConstantsAssumption DEF Init, Rested, Windowing

LEMMA RestedNext == TypeOK /\ Timed /\ Rested /\ [Next]_vars => Rested'
<1> SUFFICES ASSUME TypeOK, Timed, Rested, [Next]_vars PROVE Rested'
  OBVIOUS
<1>t. /\ now \in Nat /\ last \in [Rules -> Nat] /\ mine \in [Threads -> [Rules -> Nat]]
      /\ pc \in [Threads -> PCs] /\ cur \in [Threads -> CachedRule]
      /\ when \in [Threads -> Nat] /\ began \in [Threads -> Nat]
      /\ Cooldown \in [Versions -> Nat] /\ MaxLag \in Nat
      /\ Workers \subseteq Threads /\ Loop \in Threads
  BY ConstantsAssumption DEF TypeOK, Threads
<1>r. \A t \in Threads : cur[t].rule \in Rules /\ cur[t].ver \in Versions
  BY <1>t DEF CachedRule
<1>m. \A t \in Threads, r \in Rules : mine[t][r] <= now
  BY DEF Timed
<1> USE <1>t DEF Rested, Cool, Windowing, Goto, callVars, engineVars, fireVars, dbVars
<1>1. ASSUME NEW t \in Threads, GetRules(t) PROVE Rested'
  BY <1>1 DEF GetRules
<1>2. ASSUME NEW t \in Workers, NEW g \in Groups, NEW p \in Ports, EvaluatePruning(t, g, p)
      PROVE  Rested'
  BY <1>2 DEF EvaluatePruning
<1>3. ASSUME NEW t \in Workers, SweepStep(t) PROVE Rested'
  <2>1. CASE \E l \in Sweeping : pc' = [pc EXCEPT ![t] = l] /\ Apart
    BY <2>1 DEF Apart, Sweeping
  <2>2. CASE Leave(t) /\ UNCHANGED <<now, engineVars, fireVars>>
    BY <2>2 DEF Leave
  <2> QED BY <1>1, <1>3, <2>1, <2>2, SweepShape
<1>4. ASSUME NEW t \in Threads, ReadRules(t) \/ ReadRulesFails(t) \/ InstallRules(t)
                                \/ StampRules(t) \/ DropRule(t)
      PROVE  Rested'
  BY <1>4 DEF ReadRules, ReadRulesFails, InstallRules, StampRules, DropRule
<1>5. ASSUME NEW t \in Threads, CheckCooldown(t) PROVE Rested'
  <2>1. PICK x \in todo[t] : Cooled(x) /\ cur' = [cur EXCEPT ![t] = x]
    BY <1>5 DEF CheckCooldown
  <2>2. x \in CachedRule
    BY DEF TypeOK
  <2>3. x.rule \in Rules /\ x.ver \in Versions
    BY <2>2 DEF CachedRule
  <2>4. Cool(t, x)
    BY <1>m, <2>1, <2>3 DEF Cooled
  <2>5. UNCHANGED <<now, last, mine>> /\ \A q \in Threads \ {t} : pc'[q] = pc[q]
    BY <1>5 DEF CheckCooldown
  <2> QED BY <2>1, <2>3, <2>4, <2>5
<1>6. ASSUME NEW t \in Threads, Return(t) PROVE Rested'
  BY <1>6 DEF Return, Leave
<1>7. ASSUME NEW t \in Threads, WindowStep(t) PROVE Rested'
  <2>1. /\ pc[t] \in Windowing /\ Apart
        /\ \A q \in Threads \ {t} : pc'[q] = pc[q]
    BY <1>7, WindowShape
  <2> QED BY <2>1 DEF Apart
<1>8. ASSUME NEW t \in Threads, Fire(t) PROVE Rested'
  BY <1>8 DEF Fire
<1>9. ASSUME NEW t \in Threads, StartCooldown(t) PROVE Rested'
  <2>1. /\ pc[t] = "store" /\ pc' = [pc EXCEPT ![t] = "act"]
        /\ last' = [last EXCEPT ![cur[t].rule] = when[t]]
        /\ mine' = [mine EXCEPT ![t][cur[t].rule] = when[t]]
        /\ UNCHANGED <<now, cur>>
    BY <1>9 DEF StartCooldown
  <2>2. now <= when[t] + MaxLag
    BY <2>1 DEF Timed
  <2>3. \A q \in Threads, r \in Rules :
          /\ last'[r] = IF r = cur[t].rule THEN when[t] ELSE last[r]
          /\ mine'[q][r] = IF q = t /\ r = cur[t].rule THEN when[t] ELSE mine[q][r]
    BY <1>r, <2>1
  <2>4. \A q \in Threads, r \in Rules : mine'[q][r] <= last'[r] + MaxLag
    BY <1>m, <2>2, <2>3
  <2>5. \A q \in Threads : pc'[q] \in Windowing => q # t /\ pc[q] \in Windowing
    BY <2>1
  <2>6. \A q \in Threads : pc'[q] \in Windowing => Cool(q, cur[q])'
    BY <1>r, <2>1, <2>3, <2>5
  <2> QED BY <2>4, <2>6
<1>10. ASSUME NEW t \in Threads, WriteRecord(t) \/ LoseRecord(t) \/ OnlyLog(t) PROVE Rested'
  BY <1>10 DEF WriteRecord, LoseRecord, OnlyLog
<1>11. ASSUME NEW r \in Rules, NEW b \in BOOLEAN, Commit(r, b) PROVE Rested'
  BY <1>11 DEF Commit
<1>12. CASE Invalidate \/ CriticInvalidates
  BY <1>12 DEF Invalidate, CriticInvalidates
<1>13. CASE Tick
  BY <1>r, <1>13 DEF Tick
<1>14. CASE Restart
  BY <1>14 DEF Restart
<1>15. CASE UNCHANGED vars
  BY <1>15 DEF vars
<1>16. ASSUME NEW t \in Threads, ThreadStep(t) PROVE Rested'
  BY <1>4, <1>5, <1>6, <1>7, <1>8, <1>9, <1>10, <1>16 DEF ThreadStep
<1> QED BY <1>1, <1>2, <1>3, <1>11, <1>12, <1>13, <1>14, <1>15, <1>16
        DEF Next, Evaluate, FireRule, UpdateRule, EditQuietly

(* engine.py:397-407, 452.  However many threads evaluate, none of them    *)
(* fires a rule again within the rule's cooldown less a call's length.     *)
THEOREM CooldownHolds == Spec => CooldownPerThread
<1>1. Init => TypeOK /\ Timed /\ Rested
  BY TypeInit, TimedInit, RestedInit
<1>2. TypeOK /\ Timed /\ Rested /\ [Next]_vars => (TypeOK /\ Timed /\ Rested)'
  BY TypeNext, TimedNext, RestedNext
<1>3. Rested => [\A t \in Threads, r \in Rules :
                   Fires(t, r) => \/ mine[t][r] = 0
                                  \/ now - mine[t][r] >= Cooldown[cur[t].ver] - MaxLag]_vars
  BY DEF Rested, Fires, Cool, Windowing
<1> QED BY <1>1, <1>2, <1>3, PTL DEF Spec, CooldownPerThread
-----------------------------------------------------------------------------
LEMMA RecordedInit == Init => SilenceHasRecord
BY DEF Init, SilenceHasRecord

(* The stamp of every fire goes, with the fire's outcome, to one of the    *)
(* three sets; until then its thread holds it.                             *)
LEMMA RecordedNext == TypeOK /\ SilenceHasRecord /\ [Next]_vars => SilenceHasRecord'
<1> SUFFICES ASSUME TypeOK, SilenceHasRecord, [Next]_vars PROVE SilenceHasRecord'
  OBVIOUS
<1>t. /\ last \in [Rules -> Nat] /\ pc \in [Threads -> PCs] /\ when \in [Threads -> Nat]
      /\ recorded \in [Rules -> SUBSET Nat] /\ lost \in [Rules -> SUBSET Nat]
      /\ logged \in [Rules -> SUBSET Nat] /\ cur \in [Threads -> CachedRule]
      /\ Workers \subseteq Threads /\ Loop \in Threads
  BY DEF TypeOK, Threads
<1>r. \A t \in Threads : cur[t].rule \in Rules
  BY PlaceTyped
<1> USE <1>t DEF SilenceHasRecord, Goto, callVars, engineVars, fireVars, fates, dbVars
<1>k. ASSUME UNCHANGED <<last, fates>>,
             \A q \in Threads : pc[q] = "act" =>
               pc'[q] = "act" /\ cur'[q] = cur[q] /\ when'[q] = when[q]
      PROVE  SilenceHasRecord'
  BY <1>k
<1>1. ASSUME NEW t \in Threads, pc[t] \in {"idle"} \cup Sweeping, GetRules(t)
      PROVE  SilenceHasRecord'
  BY <1>1, <1>k DEF GetRules, Sweeping
<1>2. ASSUME NEW t \in Workers, NEW g \in Groups, NEW p \in Ports, EvaluatePruning(t, g, p)
      PROVE  SilenceHasRecord'
  BY <1>2, <1>k DEF EvaluatePruning, Hand
<1>3. ASSUME NEW t \in Workers, SweepStep(t) PROVE SilenceHasRecord'
  <2>0. pc[t] \in Sweeping
    BY <1>3, SweepShape
  <2>1. CASE \E l \in Sweeping : pc' = [pc EXCEPT ![t] = l] /\ Apart /\ UNCHANGED when
    BY <1>k, <2>0, <2>1 DEF Apart, Sweeping
  <2>2. CASE Leave(t) /\ UNCHANGED <<engineVars, fireVars>>
    BY <1>k, <2>0, <2>2 DEF Leave, Sweeping
  <2> QED BY <1>1, <1>3, <2>0, <2>1, <2>2, SweepShape
<1>4. ASSUME NEW t \in Threads, ReadRules(t) \/ ReadRulesFails(t) \/ InstallRules(t)
                                \/ StampRules(t) \/ DropRule(t)
      PROVE  SilenceHasRecord'
  BY <1>4, <1>k DEF ReadRules, ReadRulesFails, InstallRules, StampRules, DropRule
<1>5. ASSUME NEW t \in Threads, CheckCooldown(t) PROVE SilenceHasRecord'
  BY <1>5, <1>k DEF CheckCooldown
<1>6. ASSUME NEW t \in Threads, Return(t) PROVE SilenceHasRecord'
  BY <1>6, <1>k DEF Return, Leave
<1>7. ASSUME NEW t \in Threads, WindowStep(t) PROVE SilenceHasRecord'
  <2>1. /\ pc[t] # "act" /\ Apart
        /\ \A q \in Threads \ {t} : pc'[q] = pc[q] /\ when'[q] = when[q]
    BY <1>7, WindowShape DEF Windowing
  <2> QED BY <1>k, <2>1 DEF Apart
<1>8. ASSUME NEW t \in Threads, Fire(t) PROVE SilenceHasRecord'
  BY <1>8, <1>k DEF Fire
<1>9. ASSUME NEW t \in Threads, StartCooldown(t) PROVE SilenceHasRecord'
  BY <1>r, <1>9 DEF StartCooldown
<1>10. ASSUME NEW t \in Threads, WriteRecord(t) \/ LoseRecord(t) \/ OnlyLog(t)
       PROVE  SilenceHasRecord'
  <2>1. \A f \in [Rules -> SUBSET Nat] : \A r \in Rules :
          /\ f[r] \subseteq Noted(f, t)[r]
          /\ r = cur[t].rule => when[t] \in Noted(f, t)[r]
    BY <1>r DEF Noted
  <2>2. /\ pc' = [pc EXCEPT ![t] = "pick"] /\ UNCHANGED <<last, cur, when>>
    BY <1>10 DEF WriteRecord, LoseRecord, OnlyLog
  <2>3. \A r \in Rules :
          /\ recorded[r] \cup lost[r] \cup logged[r]
               \subseteq recorded'[r] \cup lost'[r] \cup logged'[r]
          /\ r = cur[t].rule => when[t] \in recorded'[r] \cup lost'[r] \cup logged'[r]
    <3>1. CASE WriteRecord(t)
      BY <2>1, <3>1 DEF WriteRecord
    <3>2. CASE LoseRecord(t)
      BY <2>1, <3>2 DEF LoseRecord
    <3>3. CASE OnlyLog(t)
      BY <2>1, <3>3 DEF OnlyLog
    <3> QED BY <1>10, <3>1, <3>2, <3>3
  <2> QED BY <2>2, <2>3
<1>11. ASSUME NEW r \in Rules, NEW b \in BOOLEAN, Commit(r, b) PROVE SilenceHasRecord'
  BY <1>11, <1>k DEF Commit
<1>12. CASE Invalidate \/ CriticInvalidates \/ Tick
  BY <1>12, <1>k DEF Invalidate, CriticInvalidates, Tick
<1>13. CASE Restart
  BY <1>13 DEF Restart
<1>14. CASE UNCHANGED vars
  BY <1>14, <1>k DEF vars
<1>15. ASSUME NEW t \in Threads, ThreadStep(t) PROVE SilenceHasRecord'
  BY <1>4, <1>5, <1>6, <1>7, <1>8, <1>9, <1>10, <1>15 DEF ThreadStep
<1>16. ASSUME NEW t \in Workers, NEW g \in Groups, NEW p \in Ports, Evaluate(t, g, p)
       PROVE  SilenceHasRecord'
  BY <1>1, <1>16 DEF Evaluate, Hand
<1>17. CASE FireRule
  BY <1>1, <1>17 DEF FireRule, LoopFree
<1> QED BY <1>2, <1>3, <1>11, <1>12, <1>13, <1>14, <1>15, <1>16, <1>17
        DEF Next, UpdateRule, EditQuietly

(* engine.py:452-490.  A rule is silent only on account of a fire whose    *)
(* record exists, is being written, failed to be written, or of one that   *)
(* was only to be logged.                                                  *)
THEOREM SilenceIsExplained == Spec => []SilenceHasRecord
<1>1. Init => TypeOK /\ SilenceHasRecord
  BY TypeInit, RecordedInit
<1>2. TypeOK /\ SilenceHasRecord /\ [Next]_vars => (TypeOK /\ SilenceHasRecord)'
  BY TypeNext, RecordedNext
<1> QED BY <1>1, <1>2, PTL DEF Spec

-----------------------------------------------------------------------------
(* How old a stale copy of a rule can be, wherever it is: a read list is   *)
(* as new as its call; the cache is at most a call's length older than its *)
(* stamp, or than the stamp it is about to get; a list in use is at most   *)
(* the time to live older than that.                                       *)
OfPast(S)     == \A x \in S : x.ver <= ver[x.rule]
Ended(x)      == ended[x.rule][x.ver]
NoOlder(S, m) == \A x \in S : x.ver < ver[x.rule] => m <= Ended(x)

Aged ==
  /\ OfPast(cache) /\ NoOlder(cache, cacheTs - MaxLag)
  /\ \A t \in Threads : OfPast(buf[t]) /\ NoOlder(buf[t], began[t])
  /\ \A t \in Threads : pc[t] = "stamp" => NoOlder(cache, began[t] - MaxLag)
  /\ \A t \in Threads : OfPast(todo[t])
  /\ \A t \in Threads : ~degraded[t] => NoOlder(todo[t], began[t] - TTL - MaxLag + 1)
  /\ \A t \in Threads :
       pc[t] \in Windowing =>
         /\ OfPast({cur[t]})
         /\ ~degraded[t] => NoOlder({cur[t]}, began[t] - TTL - MaxLag + 1)
  /\ \A t \in Threads : pc[t] # "install" => buf[t] = {}
  /\ \A t \in Threads : pc[t] \in {"idle"} \cup Sweeping => todo[t] = {}

LEMMA AgedInit == Init => Aged
BY DEF Init, Aged, OfPast, NoOlder, Windowing

(* A new version is newer than anything a limit in the past allows.        *)
LEMMA CommitAges ==
  ASSUME TypeOK, NEW r \in Rules, NEW b \in BOOLEAN, Commit(r, b),
         NEW S \in SUBSET CachedRule, OfPast(S)
  PROVE  /\ \A x \in S : x.ver <= ver'[x.rule]
         /\ \A m \in Int : m <= now /\ NoOlder(S, m) =>
              \A x \in S : x.ver < ver'[x.rule] => m <= ended'[x.rule][x.ver]
<1>t. /\ now \in Nat /\ ver \in [Rules -> Nat] /\ ver \in [Rules -> Versions]
      /\ ended \in [Rules -> [Versions -> Nat]]
  BY DEF TypeOK, Versions
<1>s. \A x \in S : x.rule \in Rules /\ x.ver \in Versions /\ x.ver \in Nat
  BY DEF CachedRule, Versions
<1>1. /\ ver' = [ver EXCEPT ![r] = ver[r] + 1]
      /\ ended' = [ended EXCEPT ![r] = [ended[r] EXCEPT ![ver[r]] = now]]
  BY DEF Commit
<1>2. \A q \in Rules : ver'[q] = IF q = r THEN ver[r] + 1 ELSE ver[q]
  BY <1>t, <1>1
<1>3. ASSUME NEW x \in S PROVE x.ver <= ver[x.rule] /\ x.ver <= ver'[x.rule]
  BY <1>t, <1>s, <1>2, <1>3 DEF OfPast
<1>4. ASSUME NEW m \in Int, m <= now, NoOlder(S, m), NEW x \in S, x.ver < ver'[x.rule]
      PROVE  m <= ended'[x.rule][x.ver]
  <2>1. CASE x.rule = r /\ x.ver = ver[r]
    BY <1>t, <1>s, <1>1, <1>4, <2>1
  <2>2. CASE ~(x.rule = r /\ x.ver = ver[r])
    <3>1. x.ver < ver[x.rule]
      BY <1>t, <1>s, <1>2, <1>3, <1>4, <2>2
    <3>2. ended'[x.rule][x.ver] = ended[x.rule][x.ver]
      BY <1>t, <1>s, <1>1, <2>2
    <3> QED BY <1>4, <3>1, <3>2 DEF NoOlder, Ended
  <2> QED BY <2>1, <2>2
<1> QED BY <1>3, <1>4

LEMMA CommitKeepsAge ==
  ASSUME TypeOK, Timed, Aged, NEW r \in Rules, NEW b \in BOOLEAN, Commit(r, b)
  PROVE  Aged'
<1>t. /\ now \in Nat /\ cacheTs \in Nat /\ cache \in SUBSET CachedRule
      /\ MaxLag \in Nat /\ TTL \in Nat /\ cacheTs <= now
      /\ \A t \in Threads : /\ began[t] \in Nat /\ began[t] <= now
                            /\ buf[t] \in SUBSET CachedRule /\ todo[t] \in SUBSET CachedRule
                            /\ {cur[t]} \in SUBSET CachedRule
  BY ConstantsAssumption DEF TypeOK, Timed
<1>1. UNCHANGED <<now, cache, cacheTs, pc, cur, buf, todo, began, degraded>>
  BY DEF Commit, callVars, engineVars
<1>2. ASSUME NEW S \in SUBSET CachedRule, OfPast(S) PROVE \A x \in S : x.ver <= ver'[x.rule]
  BY <1>2, CommitAges
<1>3. ASSUME NEW S \in SUBSET CachedRule, OfPast(S), NEW m \in Int, m <= now, NoOlder(S, m)
      PROVE  \A x \in S : x.ver < ver'[x.rule] => m <= ended'[x.rule][x.ver]
  BY <1>3, CommitAges
<1>4. OfPast(cache)' /\ NoOlder(cache, cacheTs - MaxLag)'
  <2>1. cacheTs - MaxLag \in Int /\ cacheTs - MaxLag <= now
    BY <1>t
  <2>2. OfPast(cache) /\ NoOlder(cache, cacheTs - MaxLag)
    BY DEF Aged
  <2> QED BY <1>t, <1>1, <1>2, <1>3, <2>1, <2>2 DEF OfPast, NoOlder, Ended
<1>5. ASSUME NEW t \in Threads
      PROVE  /\ OfPast(buf[t])' /\ NoOlder(buf[t], began[t])'
             /\ pc'[t] = "stamp" => NoOlder(cache, began[t] - MaxLag)'
             /\ OfPast(todo[t])'
             /\ ~degraded'[t] => NoOlder(todo[t], began[t] - TTL - MaxLag + 1)'
             /\ pc'[t] \in Windowing =>
                  /\ OfPast({cur[t]})'
                  /\ ~degraded'[t] => NoOlder({cur[t]}, began[t] - TTL - MaxLag + 1)'
             /\ pc'[t] # "install" => buf'[t] = {}
             /\ pc'[t] \in {"idle"} \cup Sweeping => todo'[t] = {}
  <2>1. /\ began[t] \in Int
        /\ began[t] - MaxLag \in Int /\ began[t] - MaxLag <= now
        /\ began[t] - TTL - MaxLag + 1 \in Int /\ TTL # 0 => began[t] - TTL - MaxLag + 1 <= now
    BY <1>t
  <2>2. TTL # 0
    BY ConstantsAssumption
  <2>3. OfPast(buf[t])' /\ NoOlder(buf[t], began[t])'
    <3>1. OfPast(buf[t]) /\ NoOlder(buf[t], began[t])
      BY DEF Aged
    <3> QED BY <1>t, <1>1, <1>2, <1>3, <2>1, <3>1 DEF OfPast, NoOlder, Ended
  <2>4. ASSUME pc[t] = "stamp" PROVE NoOlder(cache, began[t] - MaxLag)'
    <3>1. OfPast(cache) /\ NoOlder(cache, began[t] - MaxLag)
      BY <2>4 DEF Aged
    <3> QED BY <1>t, <1>1, <1>3, <2>1, <3>1 DEF NoOlder, Ended
  <2>5. OfPast(todo[t])'
    <3>1. OfPast(todo[t])
      BY DEF Aged
    <3> QED BY <1>t, <1>1, <1>2, <3>1 DEF OfPast
  <2>6. ASSUME ~degraded[t] PROVE NoOlder(todo[t], began[t] - TTL - MaxLag + 1)'
    <3>1. OfPast(todo[t]) /\ NoOlder(todo[t], began[t] - TTL - MaxLag + 1)
      BY <2>6 DEF Aged
    <3> QED BY <1>t, <1>1, <1>3, <2>1, <2>2, <3>1 DEF NoOlder, Ended
  <2>7. ASSUME pc[t] \in Windowing
        PROVE  OfPast({cur[t]})'
    <3>1. OfPast({cur[t]})
      BY <2>7 DEF Aged
    <3> QED BY <1>t, <1>1, <1>2, <3>1 DEF OfPast
  <2>8. ASSUME pc[t] \in Windowing, ~degraded[t]
        PROVE  NoOlder({cur[t]}, began[t] - TTL - MaxLag + 1)'
    <3>1. OfPast({cur[t]}) /\ NoOlder({cur[t]}, began[t] - TTL - MaxLag + 1)
      BY <2>8 DEF Aged
    <3> QED BY <1>t, <1>1, <1>3, <2>1, <2>2, <3>1 DEF NoOlder, Ended
  <2> QED BY <1>1, <2>3, <2>4, <2>5, <2>6, <2>7, <2>8 DEF Aged
<1> QED BY <1>4, <1>5 DEF Aged

LEMMA AgedNext == TypeOK /\ Timed /\ Aged /\ [Next]_vars => Aged'
<1> SUFFICES ASSUME TypeOK, Timed, Aged, [Next]_vars PROVE Aged'
  OBVIOUS
<1>t. /\ now \in Nat /\ cacheTs \in Nat /\ cache \in SUBSET CachedRule
      /\ pc \in [Threads -> PCs] /\ cur \in [Threads -> CachedRule]
      /\ buf \in [Threads -> SUBSET CachedRule] /\ todo \in [Threads -> SUBSET CachedRule]
      /\ began \in [Threads -> Nat] /\ degraded \in [Threads -> BOOLEAN]
      /\ MaxLag \in Nat /\ TTL \in Nat \ {0}
  BY ConstantsAssumption DEF TypeOK
<1>v. /\ ver \in [Rules -> Versions] /\ ended \in [Rules -> [Versions -> Nat]]
      /\ Versions \subseteq Nat
      /\ \A x \in CachedRule : x.rule \in Rules /\ x.ver \in Versions
  BY DEF TypeOK, CachedRule, Versions
<1>e. \A x \in CachedRule : Ended(x) \in Nat
  BY <1>v DEF Ended
<1>m. /\ cacheTs <= now
      /\ \A t \in Threads : began[t] <= now
      /\ \A t \in Threads : pc[t] # "idle" => now <= began[t] + MaxLag
  BY <1>t DEF Timed
<1>c. \A r \in Rules, b \in BOOLEAN : Commit(r, b) => Aged'
  BY CommitKeepsAge
<1>s. Workers \subseteq Threads /\ Loop \in Threads
  BY DEF Threads
<1> USE <1>t DEF Aged, OfPast, NoOlder, Ended, Windowing, Sweeping, Goto, callVars, engineVars, fireVars, dbVars
<1>1. ASSUME NEW t \in Threads, pc[t] \in {"idle"} \cup Sweeping, GetRules(t) PROVE Aged'
  BY <1>1, <1>e DEF GetRules, Fresh
<1>17. ASSUME NEW t \in Workers, NEW g \in Groups, NEW p \in Ports, EvaluatePruning(t, g, p)
       PROVE  Aged'
  BY <1>17, <1>s DEF EvaluatePruning, Hand
<1>18. ASSUME NEW t \in Workers, SweepStep(t) PROVE Aged'
  <2>0. t \in Threads /\ pc[t] \in Sweeping
    BY <1>18, <1>s, SweepShape
  <2>1. ASSUME NEW l \in Sweeping, pc' = [pc EXCEPT ![t] = l], Apart PROVE Aged'
    BY <2>0, <2>1 DEF Apart
  <2>2. CASE Leave(t) /\ UNCHANGED <<now, dbVars, engineVars, buf, todo>>
    BY <2>0, <2>2 DEF Leave
  <2>3. CASE GetRules(t)
    BY <1>1, <2>0, <2>3
  <2> QED BY <1>18, <2>0, <2>1, <2>2, <2>3, SweepShape
<1>2. ASSUME NEW t \in Threads, ReadRules(t) PROVE Aged'
  <2>0. /\ buf'[t] = {[rule |-> r, ver |-> ver[r]] : r \in {q \in Rules : on[q]}}
        /\ \A q \in Threads \ {t} : buf'[q] = buf[q]
    BY <1>2 DEF ReadRules
  <2>1. \A x \in buf'[t] : x.ver = ver[x.rule] /\ x.rule \in Rules
    BY <2>0
  <2>2. \A x \in buf'[t] : x.ver \in Nat
    BY <1>v, <2>1
  <2> QED BY <1>2, <2>0, <2>1, <2>2 DEF ReadRules
<1>3. ASSUME NEW t \in Threads, ReadRulesFails(t) PROVE Aged'
  BY <1>3 DEF ReadRulesFails
<1>4. ASSUME NEW t \in Threads, InstallRules(t) PROVE Aged'
  BY <1>4, <1>e, <1>m DEF InstallRules
<1>5. ASSUME NEW t \in Threads, StampRules(t) PROVE Aged'
  BY <1>5, <1>e DEF StampRules
<1>6. ASSUME NEW t \in Threads, DropRule(t) \/ CheckCooldown(t) PROVE Aged'
  <2>1. CASE DropRule(t)
    BY SMTT(30), <2>1 DEF DropRule
  <2>2. CASE CheckCooldown(t)
    BY SMTT(30), <2>2 DEF CheckCooldown
  <2> QED BY <1>6, <2>1, <2>2
<1>7. ASSUME NEW t \in Threads, Return(t) PROVE Aged'
  BY <1>7 DEF Return, Leave
<1>8. ASSUME NEW t \in Threads, WindowStep(t) PROVE Aged'
  <2>1. /\ pc[t] \in Windowing /\ Apart
        /\ \E l \in Windowing \cup {"pick"} : pc' = [pc EXCEPT ![t] = l]
    BY <1>8, WindowShape
  <2> QED BY <2>1 DEF Apart
<1>9. ASSUME NEW t \in Threads, Fire(t) \/ StartCooldown(t) PROVE Aged'
  <2>1. CASE Fire(t)
    BY SMTT(30), <2>1 DEF Fire
  <2>2. CASE StartCooldown(t)
    BY SMTT(30), <2>2 DEF StartCooldown
  <2> QED BY <1>9, <2>1, <2>2
<1>10. ASSUME NEW t \in Threads, WriteRecord(t) \/ LoseRecord(t) \/ OnlyLog(t) PROVE Aged'
  <2>1. CASE WriteRecord(t)
    BY SMTT(30), <2>1 DEF WriteRecord
  <2>2. CASE LoseRecord(t)
    BY SMTT(30), <2>2 DEF LoseRecord
  <2>3. CASE OnlyLog(t)
    BY SMTT(30), <2>3 DEF OnlyLog
  <2> QED BY <1>10, <2>1, <2>2, <2>3
<1>11. CASE Invalidate \/ CriticInvalidates
  BY <1>11, <1>e DEF Invalidate, CriticInvalidates
<1>12. CASE Tick
  BY <1>12 DEF Tick
<1>13. CASE Restart
  BY <1>13 DEF Restart
<1>14. CASE UNCHANGED vars
  BY <1>14 DEF vars
<1>15. ASSUME NEW t \in Threads, ThreadStep(t) PROVE Aged'
  BY <1>2, <1>3, <1>4, <1>5, <1>6, <1>7, <1>8, <1>9, <1>10, <1>15 DEF ThreadStep
<1>16. ASSUME NEW r \in Rules, NEW b \in BOOLEAN, Commit(r, b) PROVE Aged'
  BY <1>c, <1>16
<1>19. ASSUME NEW t \in Workers, NEW g \in Groups, NEW p \in Ports, Evaluate(t, g, p)
       PROVE  Aged'
  BY <1>1, <1>19, <1>s DEF Evaluate, Hand
<1>20. CASE FireRule
  BY <1>1, <1>20, <1>s DEF FireRule, LoopFree
<1> QED BY <1>11, <1>12, <1>13, <1>14, <1>15, <1>16, <1>17, <1>18, <1>19, <1>20
        DEF Next, UpdateRule, EditQuietly

(* engine.py:193-228.  However refreshes, edits and invalidations overlap, *)
(* a rule that was replaced is acted on for less than the cache's time to  *)
(* live and two calls' length, unless the database could not be read.      *)
THEOREM StalenessHolds == Spec => []StalenessIsBounded
<1>1. Init => TypeOK /\ Timed /\ Aged
  BY TypeInit, TimedInit, AgedInit
<1>2. TypeOK /\ Timed /\ Aged /\ [Next]_vars => (TypeOK /\ Timed /\ Aged)'
  BY TypeNext, TimedNext, AgedNext
<1>3. TypeOK /\ Timed /\ Aged => StalenessIsBounded
  <2> SUFFICES ASSUME TypeOK, Timed, Aged, NEW t \in Threads,
                      pc[t] = "fire", ~degraded[t], cur[t].ver < ver[cur[t].rule]
               PROVE  now - ended[cur[t].rule][cur[t].ver] < TTL + 2 * MaxLag
    BY DEF StalenessIsBounded
  <2>1. cur[t].rule \in Rules /\ cur[t].ver \in Versions
    BY DEF TypeOK, CachedRule
  <2>2. /\ ended[cur[t].rule][cur[t].ver] \in Nat
        /\ now \in Nat /\ began[t] \in Nat /\ TTL \in Nat /\ MaxLag \in Nat
    BY <2>1, ConstantsAssumption DEF TypeOK
  <2>3. began[t] - TTL - MaxLag + 1 <= ended[cur[t].rule][cur[t].ver]
    BY DEF Aged, NoOlder, Ended, Windowing
  <2>4. now - began[t] <= MaxLag
    BY DEF Timed
  <2> QED BY <2>2, <2>3, <2>4
<1> QED BY <1>1, <1>2, <1>3, PTL DEF Spec

-----------------------------------------------------------------------------
(* How old a window entry can be when a thread counts it: what other       *)
(* threads append or write back they read during a call that is not over,  *)
(* so it is at most a call's length older than the span that thread kept.  *)
Reached(t) ==
  /\ Size(cur[t].rule, snap[t]) >= Threshold
  /\ \A x, y \in snap[t] : x.at - y.at <= Span(t) + 2 * MaxLag

DatedAt(t) ==
  /\ \A x \in snap[t] : x.at <= now
  /\ pc[t] = "assign" => \A x \in snap[t] : x.list = held[t].list /\ when[t] - x.at < MaxAge
  /\ pc[t] = "write" => \A x \in snap[t] : x.list = held[t].list /\ x.at >= when[t] - Window
  /\ pc[t] = "count" => \A x \in Of(held[t].list) : x.at >= began[t] - Span(t) - MaxLag
  /\ pc[t] = "clear" => Reached(t)
  /\ pc[t] = "fire" /\ t # Loop /\ cur[t].rule \in Windowed => Reached(t)

Dated == (\A x \in entries : x.at <= now) /\ \A t \in Threads : DatedAt(t)

LEMMA DatedInit == Init => Dated
BY DEF Init, Dated, DatedAt

LEMMA SpanGrows ==
  ASSUME TypeOK, TypeOK', NEW t \in Threads, swept'[t] = swept[t] \/ swept'[t]
  PROVE  /\ Span(t) \in Nat /\ Span(t)' \in Nat /\ Span(t) <= Span(t)'
         /\ Window <= Span(t)
         /\ swept'[t] => MaxAge <= Span(t)'
<1>1. Window \in Nat /\ MaxAge \in Nat /\ swept[t] \in BOOLEAN /\ swept'[t] \in BOOLEAN
  BY ConstantsAssumption DEF TypeOK
<1> QED BY <1>1 DEF Span, Longer

(* One thread's step disturbs the others only by what it adds to the       *)
(* lists they are counting.                                                *)
Elsewhere(t) == \A q \in Threads \ {t} :
  /\ pc'[q] = pc[q] /\ snap'[q] = snap[q] /\ held'[q] = held[q] /\ cur'[q] = cur[q]
  /\ began'[q] = began[q] /\ when'[q] = when[q]

LEMMA DatedElsewhere ==
  ASSUME TypeOK, TypeOK', Timed, Dated, NEW t \in Threads, UNCHANGED now, Elsewhere(t),
         \A q \in Threads \ {t} : swept'[q] = swept[q] \/ swept'[q],
         \A x \in entries' \ entries :
           /\ x.at <= now
           /\ \A q \in Threads \ {t} :
                pc[q] = "count" /\ x.list = held[q].list => x.at >= now - MaxLag - Span(q)',
         DatedAt(t)'
  PROVE  Dated'
<1>t. /\ now \in Nat /\ MaxLag \in Nat /\ began \in [Threads -> Nat]
      /\ entries \subseteq Entry /\ entries' \subseteq Entry /\ \A x \in Entry : x.at \in Nat
      /\ \A q \in Threads : snap[q] \subseteq Entry
  BY ConstantsAssumption DEF TypeOK, Entry
<1>1. \A x \in entries' : x.at <= now
  BY DEF Dated
<1>2. ASSUME NEW q \in Threads \ {t} PROVE DatedAt(q)'
  <2>1. Span(q) \in Nat /\ Span(q)' \in Nat /\ Span(q) <= Span(q)'
    BY SpanGrows
  <2>2. began[q] <= now
    BY DEF Timed
  <2>3. Reached(q) => Reached(q)'
    BY <1>t, <2>1 DEF Reached, Elsewhere
  <2>4. ASSUME pc[q] = "count", NEW x \in Of(held[q].list)'
        PROVE  x.at >= began[q] - Span(q)' - MaxLag
    <3>1. x \in entries' /\ x.list = held[q].list
      BY <2>4 DEF Of, Elsewhere
    <3>2. CASE x \in entries
      <4>1. x.at >= began[q] - Span(q) - MaxLag
        BY <2>4, <3>1, <3>2 DEF Dated, DatedAt, Of
      <4> QED BY <1>t, <2>1, <3>1, <4>1
    <3>3. CASE x \notin entries
      <4>1. x.at >= now - MaxLag - Span(q)'
        BY <2>4, <3>1, <3>3
      <4> QED BY <1>t, <2>1, <2>2, <3>1, <4>1
    <3> QED BY <3>2, <3>3
  <2> QED BY <2>3, <2>4 DEF Dated, DatedAt, Elsewhere
<1> QED BY <1>1, <1>2 DEF Dated

(* A thread that is at none of the places DatedAt speaks of.               *)
LEMMA DatedQuietly ==
  ASSUME TypeOK, TypeOK', Timed, Dated, NEW t \in Threads, UNCHANGED now, Elsewhere(t),
         \A q \in Threads \ {t} : swept'[q] = swept[q],
         entries' \subseteq entries, snap'[t] \subseteq snap[t],
         pc'[t] \notin {"assign", "write", "count", "clear", "fire"}
  PROVE  Dated'
<1>1. DatedAt(t)'
  BY DEF Dated, DatedAt
<1> QED BY <1>1, DatedElsewhere

LEMMA SweepKeepsDates ==
  ASSUME TypeOK, TypeOK', Timed, Dated, NEW t \in Threads, SweepStep(t)
  PROVE  Dated'
<1>t. /\ pc \in [Threads -> PCs] /\ held \in [Threads -> Key]
      /\ snap \in [Threads -> SUBSET Entry] /\ items \in [Threads -> SUBSET Key]
      /\ swept \in [Threads -> BOOLEAN] /\ when \in [Threads -> Nat]
      /\ now \in Nat /\ MaxLag \in Nat /\ MaxAge \in Nat /\ \A x \in Entry : x.at \in Nat
      /\ began \in [Threads -> Nat] /\ cur \in [Threads -> CachedRule]
      /\ ev \in [Threads -> Event] /\ degraded \in [Threads -> BOOLEAN]
  BY ConstantsAssumption DEF TypeOK, Entry
<1> USE <1>t DEF Elsewhere, Goto, SweepUnchanged, windowVars, placeVars
<1>1. CASE SweepRule(t)
  <2>1. Elsewhere(t) /\ UNCHANGED <<now, entries, snap, swept>> /\ pc'[t] = "items"
    BY <1>1 DEF SweepRule
  <2> QED BY <2>1, DatedQuietly
<1>2. CASE SweepFilter(t)
  <2>1. PICK k \in items[t] :
          /\ held' = [held EXCEPT ![t] = k]
          /\ snap' = [snap EXCEPT ![t] = {x \in Of(k.list) : when[t] - x.at < MaxAge}]
    BY <1>2 DEF SweepFilter
  <2>2. /\ Elsewhere(t) /\ UNCHANGED <<now, entries, swept, when>> /\ pc'[t] = "assign"
        /\ held'[t] = k
    BY <1>2, <2>1 DEF SweepFilter
  <2>3. \A x \in snap'[t] : /\ x \in entries /\ x.list = k.list
                            /\ when[t] - x.at < MaxAge
    BY <2>1 DEF Of
  <2>4. DatedAt(t)'
    BY <2>2, <2>3 DEF Dated, DatedAt
  <2> QED BY <2>2, <2>4, DatedElsewhere
<1>3. CASE SweepAssign(t)
  <2>1. /\ Elsewhere(t) /\ UNCHANGED <<now, held>> /\ pc[t] = "assign" /\ pc'[t] = "check"
        /\ snap'[t] = {}
    BY <1>3 DEF SweepAssign
  <2>2. \A x \in entries' : x \in entries \/ x \in snap[t]
    BY <1>3 DEF SweepAssign, Assign
  <2>3. \A q \in Threads : swept'[q] = (swept[q] \/ (pc[q] = "count" /\ held[q].list = held[t].list))
    BY <1>3 DEF SweepAssign
  <2>4. \A x \in snap[t] : /\ x.at \in Nat /\ x.at <= now /\ x.list = held[t].list
                           /\ when[t] - x.at < MaxAge
    BY <2>1 DEF Dated, DatedAt
  <2>5. when[t] >= now - MaxLag
    BY <2>1 DEF Timed, Sweeping
  <2>6. ASSUME NEW x \in snap[t], NEW q \in Threads \ {t}, pc[q] = "count", x.list = held[q].list
        PROVE  x.at >= now - MaxLag - Span(q)'
    <3>1. swept'[q]
      BY <2>3, <2>4, <2>6
    <3>2. Span(q)' \in Nat /\ MaxAge <= Span(q)'
      BY <3>1, SpanGrows
    <3> QED BY <2>4, <2>5, <3>2
  <2>7. \A q \in Threads \ {t} : swept'[q] = swept[q] \/ swept'[q]
    BY <2>3
  <2>8. DatedAt(t)'
    BY <2>1 DEF DatedAt
  <2>9. \A x \in entries' \ entries :
           /\ x.at <= now
           /\ \A q \in Threads \ {t} :
                pc[q] = "count" /\ x.list = held[q].list => x.at >= now - MaxLag - Span(q)'
    BY <2>2, <2>4, <2>6
  <2> QED BY <2>1, <2>7, <2>8, <2>9, DatedElsewhere
<1>4. CASE SweepCheck(t)
  <2>1. /\ Elsewhere(t) /\ UNCHANGED <<now, entries, snap, swept>>
        /\ pc'[t] \in {"delete", "items"}
    BY <1>4 DEF SweepCheck
  <2> QED BY <2>1, DatedQuietly
<1>5. CASE SweepDelete(t)
  <2>1. Elsewhere(t) /\ UNCHANGED <<now, entries, snap, swept>> /\ pc'[t] = "items"
    BY <1>5 DEF SweepDelete
  <2> QED BY <2>1, DatedQuietly
<1>6. CASE SweepDone(t)
  <2>1. Elsewhere(t) /\ UNCHANGED <<now, entries, snap, swept>> /\ pc'[t] \in {"sweep", "drop"}
    BY <1>6 DEF SweepDone
  <2> QED BY <2>1, DatedQuietly
<1>7. CASE SweepDrop(t)
  <2>1. Elsewhere(t) /\ UNCHANGED <<now, entries, snap, swept>> /\ pc'[t] = "sweep"
    BY <1>7 DEF SweepDrop
  <2> QED BY <2>1, DatedQuietly
<1>8. CASE SweepRaises(t)
  <2>1. /\ Elsewhere(t) /\ UNCHANGED <<now, entries, snap>> /\ pc'[t] = "idle"
        /\ \A q \in Threads \ {t} : swept'[q] = swept[q]
    BY <1>8 DEF SweepRaises, Leave, engineVars
  <2> QED BY <2>1, DatedQuietly
<1>9. CASE SweepEnd(t)
  <2>1. Elsewhere(t) /\ UNCHANGED <<now, entries, snap, swept>> /\ pc'[t] \in {"pick", "read"}
    BY <1>9 DEF SweepEnd, GetRules, engineVars
  <2> QED BY <2>1, DatedQuietly
<1> QED BY <1>1, <1>2, <1>3, <1>4, <1>5, <1>6, <1>7, <1>8, <1>9 DEF SweepStep

LEMMA WindowKeepsDates ==
  ASSUME TypeOK, TypeOK', Timed, Dated, NEW t \in Threads, WindowStep(t)
  PROVE  Dated'
<1>t. /\ pc \in [Threads -> PCs] /\ held \in [Threads -> Key]
      /\ snap \in [Threads -> SUBSET Entry] /\ swept \in [Threads -> BOOLEAN]
      /\ when \in [Threads -> Nat] /\ began \in [Threads -> Nat]
      /\ cur \in [Threads -> CachedRule] /\ ev \in [Threads -> Event]
      /\ now \in Nat /\ MaxLag \in Nat /\ Window \in Nat /\ \A x \in Entry : x.at \in Nat
      /\ entries \subseteq Entry
  BY ConstantsAssumption DEF TypeOK, Entry
<1>m. /\ began[t] <= now /\ when[t] <= now
      /\ pc[t] # "idle" => now <= began[t] + MaxLag
      /\ pc[t] \in {"append", "prune", "write", "count"} => began[t] <= when[t]
  BY <1>t DEF Timed
<1>g. \A q \in Threads : swept'[q] = swept[q] =>
        Span(q)' \in Nat /\ Window <= Span(q)' /\ Span(q)' = Span(q)
  BY SpanGrows DEF Span
<1> USE <1>t DEF Elsewhere, Goto, engineVars, windowVars, placeVars
<1>1. CASE ReadTime(t)
  <2>1. Elsewhere(t) /\ UNCHANGED <<now, entries, snap, swept>> /\ pc'[t] = "find"
    BY <1>1 DEF ReadTime
  <2> QED BY <2>1, DatedQuietly
<1>2. CASE FindList(t)
  <2>1. /\ UNCHANGED <<now, entries, snap, swept, cur, began, when>> /\ pc'[t] = "append"
        /\ \A q \in Threads \ {t} : pc'[q] = pc[q]
    BY <1>2 DEF FindList
  <2>2. \A q \in Threads \ {t} : held'[q] = held[q]
    <3>1. \E k : held' = [held EXCEPT ![t] = k]
      BY <1>2 DEF FindList
    <3> QED BY <3>1
  <2>3. Elsewhere(t)
    BY <2>1, <2>2
  <2> QED BY <2>1, <2>3, DatedQuietly
<1>3. CASE MissDict(t)
  <2>1. Elsewhere(t) /\ UNCHANGED <<now, entries, snap, swept>> /\ pc'[t] = "create"
    BY <1>3 DEF MissDict
  <2> QED BY <2>1, DatedQuietly
<1>4. CASE CreateDict(t)
  <2>1. Elsewhere(t) /\ UNCHANGED <<now, entries, snap, swept>> /\ pc'[t] = "append"
    BY <1>4 DEF CreateDict
  <2> QED BY <2>1, DatedQuietly
<1>5. CASE AppendEntry(t)
  <2>1. /\ Elsewhere(t) /\ UNCHANGED <<now, snap, swept>>
        /\ pc[t] = "append" /\ pc'[t] = "prune"
        /\ entries' = entries \cup {[list |-> held[t].list, ev |-> ev[t], at |-> when[t]]}
    BY <1>5 DEF AppendEntry
  <2>2. \A x \in entries' \ entries : x.at = when[t]
    BY <2>1
  <2>3. when[t] <= now /\ when[t] >= now - MaxLag
    BY <1>m, <2>1
  <2>4. DatedAt(t)'
    BY <2>1 DEF Dated, DatedAt
  <2>5. \A x \in entries' \ entries :
           /\ x.at <= now
           /\ \A q \in Threads \ {t} :
                pc[q] = "count" /\ x.list = held[q].list => x.at >= now - MaxLag - Span(q)'
    BY <1>g, <2>1, <2>2, <2>3
  <2> QED BY <2>1, <2>4, <2>5, DatedElsewhere
<1>6. CASE PruneEntries(t)
  <2>1. /\ Elsewhere(t) /\ UNCHANGED <<now, entries, swept, held, when>> /\ pc'[t] = "write"
        /\ snap'[t] = {x \in Of(held[t].list) : x.at >= when[t] - Window}
    BY <1>6 DEF PruneEntries
  <2>2. \A x \in snap'[t] : x \in entries /\ x.list = held[t].list /\ x.at >= when[t] - Window
    BY <2>1 DEF Of
  <2>3. DatedAt(t)'
    BY <2>1, <2>2 DEF Dated, DatedAt
  <2> QED BY <2>1, <2>3, DatedElsewhere
<1>7. CASE WriteEntries(t)
  <2>1. /\ Elsewhere(t) /\ UNCHANGED <<now, held, began, when>>
        /\ pc[t] = "write" /\ pc'[t] = "count" /\ snap'[t] = {}
        /\ entries' = (entries \ Of(held[t].list)) \cup snap[t]
        /\ \A q \in Threads \ {t} : swept'[q] = swept[q]
    BY <1>7 DEF WriteEntries, Assign
  <2>2. \A x \in snap[t] : /\ x.at \in Nat /\ x.at <= now
                           /\ x.at >= when[t] - Window
    BY <2>1 DEF Dated, DatedAt
  <2>3. when[t] >= began[t] /\ when[t] >= now - MaxLag
    BY <1>m, <2>1
  <2>4. \A x \in Of(held[t].list)' : x \in snap[t]
    BY <2>1 DEF Of
  <2>5. swept'[t] = FALSE
    BY <1>7 DEF WriteEntries
  <2>6. Span(t)' = Window
    BY <2>5 DEF Span
  <2>7. DatedAt(t)'
    <3>1. \A x \in Of(held[t].list)' : x.at >= began[t] - Window - MaxLag
      BY <2>2, <2>3, <2>4
    <3> QED BY <2>1, <2>6, <3>1 DEF DatedAt
  <2>8. \A x \in entries' \ entries :
           /\ x.at <= now
           /\ \A q \in Threads \ {t} :
                pc[q] = "count" /\ x.list = held[q].list => x.at >= now - MaxLag - Span(q)'
    BY <1>g, <2>1, <2>2, <2>3
  <2> QED BY <2>1, <2>7, <2>8, DatedElsewhere
<1>8. CASE CountEntries(t)
  <2>1. /\ pc[t] = "count" /\ UNCHANGED <<now, entries, swept, cur, began, when>>
        /\ \A q \in Threads \ {t} : pc'[q] = pc[q]
    BY <1>8 DEF CountEntries
  <2>2. CASE Size(cur[t].rule, Of(held[t].list)) >= Threshold
    <3>1. /\ snap'[t] = Of(held[t].list) /\ pc'[t] = "clear" /\ UNCHANGED held
          /\ \A q \in Threads \ {t} : snap'[q] = snap[q]
      BY <1>8, <2>2 DEF CountEntries
    <3>2. \A x \in Of(held[t].list) : /\ x.at \in Nat /\ x.at <= now
                                      /\ x.at >= began[t] - Span(t) - MaxLag
      BY <2>1 DEF Dated, DatedAt, Of
    <3>3. \A x, y \in snap'[t] : x.at - y.at <= Span(t)' + 2 * MaxLag
      BY <1>m, <1>g, <2>1, <3>1, <3>2
    <3>4. DatedAt(t)'
      BY <2>1, <2>2, <3>1, <3>2, <3>3 DEF DatedAt, Reached
    <3>5. Elsewhere(t)
      BY <2>1, <3>1
    <3> QED BY <2>1, <3>4, <3>5, DatedElsewhere
  <2>3. CASE ~(Size(cur[t].rule, Of(held[t].list)) >= Threshold)
    <3>1. /\ UNCHANGED snap /\ pc'[t] = "pick"
          /\ \A q \in Threads \ {t} : held'[q] = held[q]
      BY <1>8, <2>3 DEF CountEntries
    <3>2. Elsewhere(t)
      BY <2>1, <3>1
    <3> QED BY <2>1, <3>1, <3>2, DatedQuietly
  <2> QED BY <2>2, <2>3
<1>9. CASE ClearEntries(t)
  <2>1. /\ Elsewhere(t) /\ UNCHANGED <<now, snap, swept, cur>>
        /\ pc[t] = "clear" /\ pc'[t] = "fire" /\ entries' \subseteq entries
    BY <1>9 DEF ClearEntries, Assign
  <2>2. Reached(t)'
    BY <1>g, <2>1 DEF Dated, DatedAt, Reached
  <2>3. DatedAt(t)'
    BY <2>1, <2>2 DEF Dated, DatedAt
  <2> QED BY <2>1, <2>3, DatedElsewhere
<1> QED BY <1>1, <1>2, <1>3, <1>4, <1>5, <1>6, <1>7, <1>8, <1>9 DEF WindowStep

LEMMA DatedNext == TypeOK /\ Timed /\ Dated /\ [Next]_vars => Dated'
<1> SUFFICES ASSUME TypeOK, Timed, Dated, [Next]_vars PROVE Dated'
  OBVIOUS
<1>o. TypeOK'
  BY TypeNext
<1>t. /\ now \in Nat /\ pc \in [Threads -> PCs] /\ cur \in [Threads -> CachedRule]
      /\ snap \in [Threads -> SUBSET Entry] /\ swept \in [Threads -> BOOLEAN]
      /\ began \in [Threads -> Nat] /\ when \in [Threads -> Nat]
      /\ held \in [Threads -> Key] /\ entries \subseteq Entry
      /\ \A x \in Entry : x.at \in Nat
      /\ Workers \subseteq Threads /\ Loop \in Threads
  BY DEF TypeOK, Entry, Threads
<1> USE <1>t DEF Elsewhere, Goto, callVars, placeVars, engineVars, windowVars, fireVars, dbVars
<1>1. ASSUME NEW t \in Threads, GetRules(t) PROVE Dated'
  <2>1. Elsewhere(t) /\ UNCHANGED <<now, entries, snap, swept>> /\ pc'[t] \in {"pick", "read"}
    BY <1>1 DEF GetRules
  <2> QED BY <1>o, <2>1, DatedQuietly
<1>2. ASSUME NEW t \in Workers, NEW g \in Groups, NEW p \in Ports, EvaluatePruning(t, g, p)
      PROVE  Dated'
  <2>1. Elsewhere(t) /\ UNCHANGED <<now, entries, snap, swept>> /\ pc'[t] = "sweep"
    BY <1>2 DEF EvaluatePruning
  <2> QED BY <1>o, <2>1, DatedQuietly
<1>3. ASSUME NEW t \in Threads, ReadRules(t) \/ ReadRulesFails(t) \/ InstallRules(t)
                                \/ StampRules(t) \/ DropRule(t)
      PROVE  Dated'
  <2>1. /\ Elsewhere(t) /\ UNCHANGED <<now, entries, snap, swept>>
        /\ pc'[t] \in {"install", "pick", "stamp"}
    BY <1>3 DEF ReadRules, ReadRulesFails, InstallRules, StampRules, DropRule
  <2> QED BY <1>o, <2>1, DatedQuietly
<1>4. ASSUME NEW t \in Threads, CheckCooldown(t) PROVE Dated'
  <2>1. PICK x \in todo[t] :
          /\ cur' = [cur EXCEPT ![t] = x]
          /\ Goto(t, IF t # Loop /\ x.rule \in Windowed THEN "time" ELSE "fire")
    BY <1>4 DEF CheckCooldown
  <2>2. /\ Elsewhere(t) /\ UNCHANGED <<now, entries, snap, swept>> /\ cur'[t] = x
        /\ pc'[t] = IF t # Loop /\ x.rule \in Windowed THEN "time" ELSE "fire"
    BY <1>4, <2>1 DEF CheckCooldown
  <2>3. DatedAt(t)'
    BY <2>2 DEF Dated, DatedAt
  <2> QED BY <1>o, <2>2, <2>3, DatedElsewhere
<1>5. ASSUME NEW t \in Threads, Return(t) PROVE Dated'
  <2>1. /\ Elsewhere(t) /\ UNCHANGED <<now, entries, snap>> /\ pc'[t] = "idle"
        /\ \A q \in Threads \ {t} : swept'[q] = swept[q]
    BY <1>5 DEF Return, Leave
  <2> QED BY <1>o, <2>1, DatedQuietly
<1>6. ASSUME NEW t \in Threads, Fire(t) PROVE Dated'
  <2>1. /\ Elsewhere(t) /\ UNCHANGED <<now, entries>> /\ pc'[t] = "store" /\ snap'[t] = {}
        /\ \A q \in Threads \ {t} : swept'[q] = swept[q]
    BY <1>6 DEF Fire
  <2> QED BY <1>o, <2>1, DatedQuietly
<1>7. ASSUME NEW t \in Threads, StartCooldown(t) \/ WriteRecord(t) \/ LoseRecord(t) \/ OnlyLog(t)
      PROVE  Dated'
  <2>1. Elsewhere(t) /\ UNCHANGED <<now, entries, snap, swept>> /\ pc'[t] \in {"act", "pick"}
    BY <1>7 DEF StartCooldown, WriteRecord, LoseRecord, OnlyLog
  <2> QED BY <1>o, <2>1, DatedQuietly
<1>8. ASSUME NEW t \in Threads, ThreadStep(t) PROVE Dated'
  BY <1>o, <1>3, <1>4, <1>5, <1>6, <1>7, <1>8, WindowKeepsDates DEF ThreadStep
<1>s. ASSUME UNCHANGED <<pc, cur, snap, held, began, when, swept, entries>>
      PROVE  (\A x \in entries : x.at <= now') /\ (\A q \in Threads : \A x \in snap[q] : x.at <= now')
               => Dated'
  BY <1>s DEF Dated, DatedAt, Reached, Span, Of
<1>9. ASSUME NEW r \in Rules, NEW b \in BOOLEAN, Commit(r, b) PROVE Dated'
  BY <1>9, <1>s DEF Commit, Dated, DatedAt
<1>10. CASE Invalidate \/ CriticInvalidates
  BY <1>10, <1>s DEF Invalidate, CriticInvalidates, Dated, DatedAt
<1>11. CASE Tick
  BY <1>11, <1>s DEF Tick, Dated, DatedAt
<1>12. CASE Restart
  BY <1>12 DEF Restart, Dated, DatedAt
<1>13. CASE UNCHANGED vars
  BY <1>13, <1>s DEF vars, Dated, DatedAt
<1>14. ASSUME NEW t \in Workers, SweepStep(t) PROVE Dated'
  BY <1>o, <1>14, SweepKeepsDates
<1> QED BY <1>1, <1>2, <1>8, <1>9, <1>10, <1>11, <1>12, <1>13, <1>14
        DEF Next, Evaluate, FireRule, UpdateRule, EditQuietly

(* engine.py:324-369, 563-572.  What a windowed rule fires on reaches its  *)
(* threshold and is no wider than the window, or what a sweep that         *)
(* overlapped it kept, and two calls' length, however threads append,      *)
(* prune, write back and clear one another's entries.                      *)
THEOREM WindowIsKept == Spec => []WindowHolds
<1>1. Init => TypeOK /\ Timed /\ Dated
  BY TypeInit, TimedInit, DatedInit
<1>2. TypeOK /\ Timed /\ Dated /\ [Next]_vars => (TypeOK /\ Timed /\ Dated)'
  BY TypeNext, TimedNext, DatedNext
<1>3. Dated => WindowHolds
  BY ConstantsAssumption DEF Dated, DatedAt, Reached, WindowHolds, Threads
<1> QED BY <1>1, <1>2, <1>3, PTL DEF Spec
=============================================================================
