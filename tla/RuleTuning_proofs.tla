--------------------------- MODULE RuleTuning_proofs ---------------------------
(***************************************************************************)
(* Proofs about how rules change, for any rules, critics, answers, edits   *)
(* and limits, and any number of requests, cycles and failures.            *)
(***************************************************************************)
EXTENDS RuleTuning, FiniteSetTheorems, WellFoundedInduction, TLAPS

-----------------------------------------------------------------------------
(* Values.                                                                 *)
LEMMA NoRowTyped == NoRow \in Row /\ AnyRule \in Rules
BY ConstantsAssumption DEF NoRow, Row, AnyRule, Severities

LEMMA RungBounds == \A s : Rung(s) \in 1..4
BY DEF Rung, Ladder

LEMMA LadderTyped == \A n \in 1..4 : Ladder[n] \in Severities
BY DEF Ladder, Severities

LEMMA StepsTyped == \A s : Higher(s) \in Severities /\ Lower(s) \in Severities
<1> TAKE s
<1>1. Rung(s) \in 1..4 /\ Len(Ladder) = 4
  BY RungBounds DEF Ladder
<1>2. AtMost(Len(Ladder), Rung(s) + 1) \in 1..4 /\ AtLeast(1, Rung(s) - 1) \in 1..4
  BY <1>1 DEF AtMost, AtLeast
<1> QED BY <1>2, LadderTyped DEF Higher, Lower

LEMMA ChangedTyped ==
  ASSUME NEW x \in Row, NEW a \in {"RAISE", "LOWER", "DISABLE"}
  PROVE  Changed(a, x) \in Row /\ Changed(a, x).on \in {FALSE, x.on}
<1>1. AtLeast(60, x.cool \div 2) \in Nat /\ AtMost(3600, (3 * x.cool) \div 2) \in Nat
  BY DEF Row, AtLeast, AtMost
<1>2. Higher(x.sev) \in Severities /\ Lower(x.sev) \in Severities
  BY StepsTyped
<1>c. ASSUME NEW s \in Severities, NEW c \in Nat
      PROVE  /\ [x EXCEPT !.sev = s, !.cool = c] \in Row
             /\ [x EXCEPT !.sev = s, !.cool = c].on = x.on
  BY DEF Row
<1>3. Raised(x) \in Row /\ Raised(x).on = x.on
  <2>1. (IF Conservatism = "aggressive" /\ x.cool > 60
         THEN AtLeast(60, x.cool \div 2) ELSE x.cool) \in Nat
    BY <1>1 DEF Row
  <2> QED BY <1>c, <1>2, <2>1 DEF Raised
<1>4. Lowered(x) \in Row /\ Lowered(x).on = x.on
  <2>1. (IF Conservatism # "conservative"
         THEN AtMost(3600, (3 * x.cool) \div 2) ELSE x.cool) \in Nat
    BY <1>1 DEF Row
  <2> QED BY <1>c, <1>2, <2>1 DEF Lowered
<1>5. Disabled(x) \in Row /\ Disabled(x).on \in {FALSE, x.on}
  BY <1>2 DEF Disabled, Row
<1> QED BY <1>3, <1>4, <1>5 DEF Changed

LEMMA MergedTyped ==
  ASSUME NEW x \in Row, NEW old \in Row, NEW new \in Row
  PROVE  /\ Merged(x, old, new) \in Row
         /\ Merged(x, old, new).state = x.state /\ Merged(x, old, new).frozen = x.frozen
         /\ Merged(x, old, new).born = x.born
         /\ Merged(x, old, new).on \in {x.on, new.on}
         /\ new.on = old.on => Merged(x, old, new).on = x.on
BY DEF Merged, Row

LEMMA EditedTyped ==
  ASSUME NEW x \in Row, NEW e,
         "sev" \in DOMAIN e => e.sev \in Severities,
         "cool" \in DOMAIN e => e.cool \in Nat,
         "on" \in DOMAIN e => e.on \in BOOLEAN,
         "params" \in DOMAIN e => e.params \in Nat
  PROVE  Edited(x, e) \in Row
<1>1. Given(e, "sev", x.sev) \in Severities
  BY DEF Given, Row
<1>2. Given(e, "cool", x.cool) \in Nat
  BY DEF Given, Row
<1>3. Given(e, "on", x.on) \in BOOLEAN
  BY DEF Given, Row
<1>4. Given(e, "params", x.params) \in Nat
  BY DEF Given, Row
<1> QED BY <1>1, <1>2, <1>3, <1>4 DEF Edited, Row

LEMMA SeededTyped ==
  ASSUME NEW r \in Rules, NEW x \in Row
  PROVE  /\ Seeded(r, x) \in Row
         /\ Seeded(r, x).frozen = x.frozen /\ Seeded(r, x).on = x.on
         /\ Seeded(r, x).born = x.born
         /\ Seeded(r, x).state = x.state \/ Seeded(r, x).state = "there"
BY ConstantsAssumption DEF Seeded, Row

(* A verdict that is a decision is one of the three changes.               *)
LEMMA DecisionsAreChanges == Decisions \subseteq {"RAISE", "LOWER", "DISABLE"}
<1> SUFFICES ASSUME NEW v \in Dialogues, Verdict(v) # "none"
             PROVE  Verdict(v) \in RuleChoices
  BY DEF Decisions, RuleChoices
<1>1. Verdict(v) # "more"
  BY DEF Dialogues
<1>2. PICK n \in 1..3 : v \in [1..n -> Answers]
  BY DEF Dialogues
<1>3. v[1] \in RuleChoices
  BY <1>2, ConstantsAssumption
<1>4. Agreed(v, 2) \subseteq RuleChoices
  BY DEF Agreed
<1> QED BY <1>1, <1>3, <1>4 DEF Verdict

-----------------------------------------------------------------------------
(* Versions.  A rule's versions have a highest number; each continues the  *)
(* others or was taken by a critic of a rule that had the id before.       *)
Continues(n, r) == n \in Nat \ {0} /\ (n = 1 \/ n - 1 \in Numbers(r))
Fits(v, r) == \/ v.born = row[r].born /\ Continues(v.num, r)
              \/ v.born < row[r].born /\ v.by = "critic"
Whole(r) ==
  /\ \E k \in Nat : \A n \in Numbers(r) : n <= k
  /\ row[r].state = "none" => versions[r] = <<>>
  /\ \A i \in DOMAIN versions[r] : Fits(versions[r][i], r)
Numbered == \A r \in Rules : Whole(r)

LEMMA HighestOf ==
  ASSUME NEW k \in Nat, NEW S \in SUBSET Nat, S # {}, \A n \in S : n <= k
  PROVE  \E n \in S : \A m \in S : n >= m
<1> DEFINE below == {k - n : n \in S}
<1>0. \A n \in S : k - n \in Nat
  OBVIOUS
<1>1. below \in SUBSET Nat /\ below # {}
  BY <1>0
<1> HIDE DEF below
<1>2. PICK d \in below : \A e \in below : d <= e
  <2>1. PICK d \in below : \A e \in below : <<e, d>> \notin OpToRel(<, Nat)
    BY <1>1, NatLessThanWellFounded, WFMin, Zenon
  <2>2. ASSUME NEW e \in below PROVE d <= e
    <3>1. ~(e < d)
      BY <1>1, <2>1 DEF OpToRel
    <3> QED BY <1>1, <3>1
  <2> QED BY <2>2
<1>3. PICK n \in S : d = k - n
  BY <1>2 DEF below
<1>4. ASSUME NEW m \in S PROVE n >= m
  <2>1. k - n <= k - m
    BY <1>2, <1>3 DEF below
  <2> QED BY <1>3, <2>1
<1> QED BY <1>4

LEMMA NumbersAppended ==
  ASSUME NEW s \in Seq(Version), NEW v \in Version
  PROVE  /\ Append(s, v) \in Seq(Version)
         /\ {Append(s, v)[i].num : i \in DOMAIN Append(s, v)}
              = {s[i].num : i \in DOMAIN s} \cup {v.num}
<1>1. /\ Append(s, v) \in Seq(Version) /\ Len(Append(s, v)) = Len(s) + 1 /\ Len(s) \in Nat
      /\ \A i \in 1..Len(s) : Append(s, v)[i] = s[i]
      /\ Append(s, v)[Len(s) + 1] = v
  OBVIOUS
<1>2. DOMAIN s = 1..Len(s) /\ DOMAIN Append(s, v) = 1..(Len(s) + 1)
  BY <1>1
<1> QED BY <1>1, <1>2

LEMMA NumbersTyped ==
  ASSUME NEW r \in Rules, versions[r] \in Seq(Version)
  PROVE  Numbers(r) \subseteq Nat \ {0}
<1>1. \A i \in DOMAIN versions[r] : versions[r][i] \in Version
  OBVIOUS
<1> QED BY <1>1 DEF Numbers, Version

LEMMA NextNumberContinues ==
  ASSUME NEW r \in Rules, versions[r] \in Seq(Version), Whole(r)
  PROVE  Continues(NextNumber(r), r)
<1>1. DOMAIN versions[r] = 1..Len(versions[r]) /\ Len(versions[r]) \in Nat
  OBVIOUS
<1>2. CASE versions[r] = <<>>
  BY <1>2 DEF NextNumber, Continues
<1>3. CASE versions[r] # <<>>
  <2>1. Len(versions[r]) # 0
    BY <1>3
  <2>2. versions[r][1].num \in Numbers(r)
    BY <1>1, <2>1 DEF Numbers
  <2>3. PICK k \in Nat : \A n \in Numbers(r) : n <= k
    BY DEF Whole
  <2>4. Numbers(r) \subseteq Nat \ {0}
    BY NumbersTyped
  <2>5. \E n \in Numbers(r) : \A m \in Numbers(r) : n >= m
    BY <2>2, <2>3, <2>4, HighestOf
  <2> DEFINE top == CHOOSE n \in Numbers(r) : \A m \in Numbers(r) : n >= m
  <2>6. top \in Numbers(r)
    BY <2>5
  <2>7. NextNumber(r) = top + 1
    BY <1>3 DEF NextNumber
  <2> HIDE DEF top
  <2> QED BY <2>4, <2>6, <2>7 DEF Continues
<1> QED BY <1>2, <1>3

LEMMA SnapshotTyped ==
  ASSUME NEW r \in Rules, versions[r] \in Seq(Version), Whole(r),
         period \in Nat, NEW x \in Row, NEW by \in {"critic", "agent", "user"}
  PROVE  /\ Snapshot(r, x, by) \in Version /\ Continues(Snapshot(r, x, by).num, r)
         /\ Snapshot(r, x, by).born = x.born /\ Snapshot(r, x, by).by = by
<1>1. Continues(NextNumber(r), r)
  BY NextNumberContinues
<1> QED BY <1>1 DEF Snapshot, Version, Continues, Row

-----------------------------------------------------------------------------
(* What a critic or a request holds.  If a rule a critic works on is       *)
(* frozen now, it was frozen since; no row is newer than the critic's copy *)
(* of it without its id having been given away; the number a version took  *)
(* still continues those of its rule, as long as that rule is there; no    *)
(* change switches a rule on.                                              *)
Working(c) == todo[c] \cup {p.rule : p \in pend[c]} \cup (IF pc[c] = "ask" THEN {cur[c]} ELSE {})

Held(c, p) ==
  /\ p.new.on \in {FALSE, copy[c][p.rule].on}
  /\ p.version.by = "critic" /\ p.version.born <= row[p.rule].born
  /\ row[p.rule].state = "there" /\ p.version.born = row[p.rule].born
       => Continues(p.version.num, p.rule)
ApiHeld == /\ Continues(api.version.num, api.rule)
           /\ api.version.born = row[api.rule].born /\ row[api.rule].state = "there"
           /\ api.by = "agent" => ~row[api.rule].frozen

Waiting ==
  /\ \A c \in Critics : pc[c] = "idle" => pend[c] = {} /\ todo[c] = {}
  /\ \A c \in Critics : \A r \in Working(c) : row[r].frozen => r \in froze[c]
  /\ \A c \in Critics : \A r \in Rules : copy[c][r].born <= row[r].born
  /\ \A c \in Critics : \A p \in pend[c] : Held(c, p)
  /\ api # NoCall => ApiHeld

IInv == TypeOK /\ Numbered /\ Waiting

LEMMA Initially == Init => IInv
<1> SUFFICES ASSUME Init PROVE IInv
  OBVIOUS
<1>1. row \in [Rules -> Row]
  <2> DEFINE Was(a, b, d) == [NoRow EXCEPT !.state = "there", !.fires = a, !.tp = b, !.fp = d]
  <2>1. ASSUME NEW a \in Nat, NEW b \in Nat, NEW d \in Nat
        PROVE  Was(a, b, d) \in Row
    <3>1. ASSUME NEW x \in Row
          PROVE  [x EXCEPT !.state = "there", !.fires = a, !.tp = b, !.fp = d] \in Row
      BY DEF Row
    <3> QED BY <3>1, NoRowTyped
  <2>2. \A r \in DOMAIN History :
          History[r].fires \in Nat /\ History[r].tp \in Nat /\ History[r].fp \in Nat
    BY ConstantsAssumption
  <2>3. \A r \in Rules : (IF r \notin DOMAIN History THEN NoRow
          ELSE Seeded(r, Was(History[r].fires, History[r].tp, History[r].fp))) \in Row
    <3> HIDE DEF Was
    <3> QED BY <2>1, <2>2, NoRowTyped, SeededTyped
  <2>4. row = [r \in Rules |-> IF r \notin DOMAIN History THEN NoRow
          ELSE Seeded(r, Was(History[r].fires, History[r].tp, History[r].fp))]
    BY Zenon DEF Init
  <2> HIDE DEF Was
  <2> QED BY <2>3, <2>4
<1>2. versions \in [Rules -> Seq(Version)]
  <2>1. versions = [r \in Rules |-> <<>>]
    BY Zenon DEF Init
  <2> QED BY <2>1
<1>3. MaxTime \in Nat \ {0} /\ MaxOps \in Nat /\ MaxCycles \in Nat /\ MaxFaults \in Nat
  BY ConstantsAssumption
<1>4. TypeOK
  <2>1. /\ now \in 1..MaxTime /\ faults \in 0..MaxFaults /\ ops \in 0..MaxOps
        /\ cycles \in 0..MaxCycles /\ changes \in Nat /\ lastReset \in 0..now
        /\ period \in Nat
    <3>1. /\ now = 1 /\ faults = 0 /\ ops = 0 /\ cycles = 0 /\ changes = 0
          /\ lastReset = 0 /\ period = 0
      BY Zenon DEF Init
    <3> QED BY <1>3, <3>1
  <2>2. pc \in [Critics -> {"idle", "pick", "ask", "commit"}]
    BY DEF Init
  <2>3. copy \in [Critics -> [Rules -> Row]] /\ cur \in [Critics -> Rules]
    BY NoRowTyped DEF Init
  <2>4. /\ todo \in [Critics -> SUBSET Rules] /\ froze \in [Critics -> SUBSET Rules]
        /\ pend \in [Critics -> SUBSET Pending]
    BY DEF Init
  <2>5. api = NoCall
    BY DEF Init
  <2> QED BY <1>1, <1>2, <2>1, <2>2, <2>3, <2>4, <2>5 DEF TypeOK
<1>5. Numbered
  <2>1. ASSUME NEW r \in Rules
        PROVE  Whole(r)
    <3>1. versions[r] = <<>>
      BY DEF Init
    <3>2. DOMAIN versions[r] = {}
      BY <3>1
    <3> QED BY <3>1, <3>2 DEF Numbers, Whole
  <2> QED BY <2>1 DEF Numbered
<1>6. Waiting
  <2>1. pc = [c \in Critics |-> "idle"] /\ todo = [c \in Critics |-> {}]
        /\ pend = [c \in Critics |-> {}] /\ api = NoCall
        /\ copy = [c \in Critics |-> [r \in Rules |-> NoRow]]
    BY Zenon DEF Init
  <2>2. \A r \in Rules : NoRow.born <= row[r].born
    BY <1>1 DEF NoRow, Row
  <2> QED BY <2>1, <2>2 DEF Waiting, Working
<1> QED BY <1>4, <1>5, <1>6 DEF IInv

(* What a new row or a new version must be is what the actions give.       *)
LEMMA DecidedTyped ==
  ASSUME IInv, NEW c \in Critics, NEW a \in Decisions
  PROVE  LET r == cur[c]
             p == [rule |-> r, new |-> Changed(a, copy[c][r]),
                   version |-> Snapshot(r, copy[c][r], "critic")]
         IN p \in Pending /\ Held(c, p)
<1> DEFINE r == cur[c]
           x == copy[c][r]
           p == [rule |-> r, new |-> Changed(a, x), version |-> Snapshot(r, x, "critic")]
<1>1. r \in Rules /\ x \in Row /\ versions[r] \in Seq(Version) /\ period \in Nat /\ Whole(r)
  BY DEF IInv, TypeOK, Numbered
<1>2. /\ Snapshot(r, x, "critic") \in Version /\ Continues(Snapshot(r, x, "critic").num, r)
      /\ Snapshot(r, x, "critic").born = x.born /\ Snapshot(r, x, "critic").by = "critic"
  BY <1>1, SnapshotTyped
<1>3. Changed(a, x) \in Row /\ Changed(a, x).on \in {FALSE, x.on}
  BY <1>1, DecisionsAreChanges, ChangedTyped
<1>4. x.born <= row[r].born
  BY <1>1 DEF IInv, Waiting
<1>5. /\ p.rule = r /\ p.new = Changed(a, x) /\ p.version = Snapshot(r, x, "critic")
      /\ p \in Pending
  BY <1>1, <1>2, <1>3 DEF Pending
<1> HIDE DEF p
<1>6. Held(c, p)
  BY <1>2, <1>3, <1>4, <1>5 DEF Held
<1> QED BY <1>5, <1>6 DEF p

LEMMA RequestTyped ==
  ASSUME IInv, NEW r \in Rules, NEW by \in {"agent", "user"}
  PROVE  /\ Snapshot(r, row[r], by) \in Version /\ Continues(Snapshot(r, row[r], by).num, r)
         /\ Snapshot(r, row[r], by).born = row[r].born
<1>1. row[r] \in Row /\ versions[r] \in Seq(Version) /\ period \in Nat /\ Whole(r)
  BY DEF IInv, TypeOK, Numbered
<1> QED BY <1>1, SnapshotTyped

(* A commit stores at most one version per rule, which fits.               *)
LEMMA StoredTyped ==
  ASSUME NEW r \in Rules, versions[r] \in Seq(Version), NEW v \in Version,
         versions'[r] = Append(versions[r], v)
  PROVE  versions'[r] \in Seq(Version) /\ Numbers(r)' = Numbers(r) \cup {v.num}
BY SMTT(30), NumbersAppended DEF Numbers

LEMMA StillFits ==
  ASSUME NEW r, NEW v, Fits(v, r), row'[r].born = row[r].born, Numbers(r) \subseteq Numbers(r)'
  PROVE  \/ v.born = row'[r].born /\ Continues(v.num, r)'
         \/ v.born < row'[r].born /\ v.by = "critic"
BY DEF Fits, Continues

LEMMA StoredWhole ==
  ASSUME NEW r \in Rules, versions[r] \in Seq(Version), NEW v \in Version, Whole(r),
         versions'[r] = Append(versions[r], v), Fits(v, r),
         row'[r].born = row[r].born, row'[r].state = "there"
  PROVE  Whole(r)'
<1>1. Numbers(r)' = Numbers(r) \cup {v.num}
  BY StoredTyped
<1>2. \E k \in Nat : \A n \in Numbers(r)' : n <= k
  <2>1. PICK k \in Nat : \A n \in Numbers(r) : n <= k
    BY DEF Whole
  <2>2. Numbers(r) \subseteq Nat /\ v.num \in Nat
    BY NumbersTyped DEF Version
  <2>3. \A n \in Numbers(r)' : n <= k + v.num
    BY <1>1, <2>1, <2>2
  <2>4. k + v.num \in Nat
    BY <2>2
  <2> QED BY <2>3, <2>4
<1>3. /\ DOMAIN versions'[r] = 1..(Len(versions[r]) + 1) /\ Len(versions[r]) \in Nat
      /\ DOMAIN versions[r] = 1..Len(versions[r])
      /\ versions'[r][Len(versions[r]) + 1] = v
      /\ \A j \in 1..Len(versions[r]) : versions'[r][j] = versions[r][j]
  OBVIOUS
<1>4. ASSUME NEW i \in DOMAIN versions'[r]
      PROVE  Fits(versions'[r][i], r)
  BY <1>3 DEF Whole
<1>5. ASSUME NEW i \in DOMAIN versions'[r], NEW u, u = versions'[r][i]
      PROVE  \/ u.born = row'[r].born /\ Continues(u.num, r)'
             \/ u.born < row'[r].born /\ u.by = "critic"
  <2>1. Fits(u, r)
    BY <1>4, <1>5
  <2> QED BY <1>1, <2>1, StillFits
<1>6. ASSUME NEW i \in DOMAIN versions'[r]
      PROVE  Fits(versions[r][i], r)'
  <2>1. PICK u : u = versions'[r][i]
    OBVIOUS
  <2>2. \/ u.born = row'[r].born /\ Continues(u.num, r)'
        \/ u.born < row'[r].born /\ u.by = "critic"
    BY <1>5, <2>1
  <2> QED BY <2>1, <2>2 DEF Fits, Continues, Numbers
<1> QED BY <1>2, <1>6 DEF Whole

LEMMA CommitStores ==
  ASSUME IInv, NEW c \in Critics, CriticCommit(c), NEW r \in Rules
  PROVE  \/ versions'[r] = versions[r] /\ row'[r] = row[r]
         \/ \E p \in pend[c] :
              /\ p.rule = r /\ p \in Pending /\ Fits(p.version, r) /\ row[r].state = "there"
              /\ versions'[r] = Append(versions[r], p.version)
              /\ p.new.on \in {FALSE, copy[c][r].on}
              /\ row'[r] = Merged(row[r], copy[c][r], p.new)
<1>1. CASE PendingOf(c, r) = {}
  BY <1>1 DEF CriticCommit
<1>2. CASE PendingOf(c, r) # {}
  <2> DEFINE p == CHOOSE p \in PendingOf(c, r) : TRUE
  <2>1. p \in PendingOf(c, r)
    BY <1>2
  <2>2. p \in pend[c] /\ p.rule = r /\ p \in Pending
    BY <2>1 DEF PendingOf, IInv, TypeOK
  <2>3. row[r].state = "there"
    BY <2>2 DEF CriticCommit, Committable
  <2>5. versions'[r] = Append(versions[r], p.version) /\ row'[r] = Merged(row[r], copy[c][r], p.new)
    BY <1>2 DEF CriticCommit
  <2> HIDE DEF p
  <2>4. Held(c, p) /\ p.version.born \in Nat /\ row[r].born \in Nat
    BY <2>2 DEF IInv, Waiting, TypeOK, Pending, Version, Row
  <2>7. /\ p.version.by = "critic" /\ p.version.born <= row[r].born
        /\ p.version.born = row[r].born => Continues(p.version.num, r)
        /\ p.new.on \in {FALSE, copy[c][r].on}
    BY <2>2, <2>3, <2>4 DEF Held
  <2>8. p.version.born < row[r].born \/ p.version.born = row[r].born
    BY <2>4, <2>7
  <2>6. Fits(p.version, r) /\ p.new.on \in {FALSE, copy[c][r].on}
    BY <2>7, <2>8 DEF Fits
  <2> QED BY <2>2, <2>3, <2>5, <2>6
<1> QED BY <1>1, <1>2
-----------------------------------------------------------------------------
(* One lemma per kind of step: each keeps the invariant.                   *)
LEMMA BornTyped ==
  ASSUME NEW rows \in [Rules -> Row]
  PROVE  \A r \in Rules : rows[r].born \in Nat /\ rows[r].born <= rows[r].born
<1> SUFFICES ASSUME NEW r \in Rules PROVE rows[r].born \in Nat
  OBVIOUS
<1>1. rows[r] \in Row
  OBVIOUS
<1> QED BY <1>1 DEF Row

LEMMA SameNumbers ==
  ASSUME NEW r, versions'[r] = versions[r]
  PROVE  Numbers(r)' = Numbers(r) /\ \A n : Continues(n, r)' <=> Continues(n, r)
BY DEF Numbers, Continues

LEMMA StaysWhole ==
  ASSUME NEW r, Whole(r), versions'[r] = versions[r], row'[r].born = row[r].born,
         row'[r].state = row[r].state \/ row'[r].state = "there"
  PROVE  Whole(r)'
<1>1. Numbers(r)' = Numbers(r) /\ \A n : Continues(n, r)' <=> Continues(n, r)
  BY SameNumbers
<1> QED BY <1>1 DEF Whole, Fits, Continues, Numbers

(* A rule without versions, which has none after the step either.          *)
LEMMA EmptyWhole ==
  ASSUME NEW r, versions'[r] = <<>>
  PROVE  Whole(r)'
<1>1. DOMAIN versions'[r] = {}
  OBVIOUS
<1>2. Numbers(r)' = {}
  BY <1>1 DEF Numbers
<1> QED BY <1>1, <1>2 DEF Whole

(* What is held stays so when the rule it is about keeps its birth and     *)
(* loses no number, or gets a later birth.                                 *)
LEMMA StillHeld ==
  ASSUME NEW c, NEW p, Held(c, p), copy'[c][p.rule].on = copy[c][p.rule].on,
         p.version.born \in Nat, row[p.rule].born \in Nat, row'[p.rule].born \in Nat,
         row[p.rule].born <= row'[p.rule].born,
         row'[p.rule].state = "there" /\ row'[p.rule].born = row[p.rule].born =>
           /\ row[p.rule].state = "there"
           /\ Numbers(p.rule) \subseteq Numbers(p.rule)'
  PROVE  Held(c, p)'
<1>1. row'[p.rule].state = "there" /\ p.version.born = row'[p.rule].born
        => Continues(p.version.num, p.rule)'
  BY DEF Held, Continues
<1>2. p.version.born <= row'[p.rule].born
  BY DEF Held
<1> QED BY <1>1, <1>2 DEF Held, Continues, Numbers

LEMMA ApiStillHeld ==
  ASSUME IInv, api # NoCall, api' = api, row'[api.rule].state = row[api.rule].state,
         row'[api.rule].born = row[api.rule].born,
         row'[api.rule].frozen => row[api.rule].frozen,
         Numbers(api.rule) \subseteq Numbers(api.rule)'
  PROVE  ApiHeld'
<1>1. ApiHeld
  BY DEF IInv, Waiting
<1>2. PICK q, v : q = api.rule /\ v = api.version
  OBVIOUS
<1>3. Continues(v.num, q)'
  BY <1>1, <1>2 DEF ApiHeld, Continues, Numbers
<1> QED BY <1>1, <1>2, <1>3 DEF ApiHeld, Continues, Numbers

(* A write to the rows alone: it takes no rule away and freezes none that  *)
(* a cycle works on without telling it.                                    *)
LEMMA RowsWritten ==
  ASSUME IInv, versions' = versions, UNCHANGED <<now, faults, cycles, dayVars>>,
         UNCHANGED <<pc, copy, todo, cur, pend, api>>,
         ops' \in 0..MaxOps, row' \in [Rules -> Row],
         froze' \in [Critics -> SUBSET Rules],
         \A r \in Rules :
           \/ row'[r].state = row[r].state /\ row'[r].born = row[r].born
           \/ row[r].state = "none" /\ row[r].born < row'[r].born,
         \A c \in Critics : froze[c] \subseteq froze'[c],
         \A r \in Rules : row'[r].frozen =>
           row[r].frozen \/ (/\ api = NoCall
                             /\ \A c \in Critics : pc[c] # "idle" => r \in froze'[c])
  PROVE  IInv'
<1>t. TypeOK /\ Numbered /\ Waiting
  BY DEF IInv
<1>1. TypeOK'
  BY <1>t DEF TypeOK, dayVars
<1>b. \A r \in Rules : /\ row[r].born \in Nat /\ row'[r].born \in Nat
                       /\ row[r].born <= row'[r].born
  <2>1. \A r \in Rules : row[r].born \in Nat /\ row'[r].born \in Nat
    BY <1>t, BornTyped DEF TypeOK
  <2>2. \A r \in Rules : row[r].born = row'[r].born \/ row[r].born < row'[r].born
    OBVIOUS
  <2> QED BY <2>1, <2>2
<1>2. Numbered'
  <2>1. ASSUME NEW r \in Rules
        PROVE  Whole(r)'
    <3>1. CASE row'[r].state = row[r].state /\ row'[r].born = row[r].born
      BY <1>t, <3>1, StaysWhole DEF Numbered
    <3>2. CASE row[r].state = "none"
      <4>1. versions'[r] = <<>>
        BY <1>t, <3>2 DEF Numbered, Whole
      <4> QED BY <4>1, EmptyWhole
    <3> QED BY <3>1, <3>2
  <2> QED BY <2>1 DEF Numbered
<1>3. Waiting'
  <2>1. \A c \in Critics : Working(c)' = Working(c) /\ Working(c) \subseteq Rules
    BY <1>t DEF Working, TypeOK, Pending
  <2>2. ASSUME NEW c \in Critics, NEW r \in Working(c)'
        PROVE  row'[r].frozen => r \in froze'[c]
    <3>1. r \in Working(c) /\ r \in Rules /\ (row[r].frozen => r \in froze[c])
      BY <1>t, <2>1 DEF Waiting
    <3>2. pc[c] # "idle"
      BY <1>t, <3>1 DEF Waiting, Working
    <3> QED BY <3>1, <3>2
  <2>3. ASSUME NEW c \in Critics, NEW p \in pend[c]
        PROVE  Held(c, p)'
    <3>1. p.rule \in Rules /\ p.version.born \in Nat
      BY <1>t DEF TypeOK, Pending, Version
    <3>2. Held(c, p)
      BY <1>t DEF Waiting
    <3>3. Numbers(p.rule)' = Numbers(p.rule)
      BY SameNumbers
    <3>4. row'[p.rule].born = row[p.rule].born => row'[p.rule].state = row[p.rule].state
      BY <1>b, <3>1
    <3> QED BY <1>b, <3>1, <3>2, <3>3, <3>4, StillHeld
  <2>4. api' # NoCall => ApiHeld'
    <3> SUFFICES ASSUME api # NoCall PROVE ApiHeld'
      OBVIOUS
    <3>1. api.rule \in Rules /\ row[api.rule].state = "there"
      BY <1>t DEF TypeOK, Waiting, ApiHeld
    <3>2. /\ row'[api.rule].state = row[api.rule].state
          /\ row'[api.rule].born = row[api.rule].born
          /\ row'[api.rule].frozen => row[api.rule].frozen
      BY <3>1
    <3>3. Numbers(api.rule)' = Numbers(api.rule)
      BY DEF Numbers
    <3> QED BY <3>2, <3>3, ApiStillHeld
  <2>5. ASSUME NEW c \in Critics, NEW r \in Rules
        PROVE  copy'[c][r].born <= row'[r].born
    <3>1. copy[c][r].born <= row[r].born /\ copy[c][r].born \in Nat
      BY <1>t DEF Waiting, TypeOK, Row
    <3> QED BY <1>b, <3>1
  <2>6. \A c \in Critics : pc'[c] = "idle" => pend'[c] = {} /\ todo'[c] = {}
    BY <1>t DEF Waiting
  <2> QED BY <2>2, <2>3, <2>4, <2>5, <2>6 DEF Waiting
<1> QED BY <1>1, <1>2, <1>3 DEF IInv

LEMMA RowStep ==
  ASSUME IInv,
         \/ \E r \in Rules, by \in {"agent", "user"} : CreateRule(r, by)
         \/ \E r \in Rules : \/ FreezeRule(r) \/ UnfreezeRule(r) \/ ApproveRule(r)
                           \/ ToggleRule(r) \/ Fires(r)
         \/ \E r \in Rules, f \in {"tp", "fp"} : RuleFeedback(r, f)
  PROVE  IInv'
<1>t. /\ row \in [Rules -> Row] /\ ops \in 0..MaxOps /\ froze \in [Critics -> SUBSET Rules]
      /\ NoRow \in Row /\ Burst \in Nat /\ MaxOps \in Nat
  BY NoRowTyped, ConstantsAssumption DEF IInv, TypeOK
<1>o. ASSUME ops < MaxOps, ops' = ops + 1
      PROVE  ops' \in 0..MaxOps
  BY <1>t, <1>o
<1>w. ASSUME NEW r \in Rules, NEW x \in Row, row' = [row EXCEPT ![r] = x],
             \/ x.state = row[r].state /\ x.born = row[r].born
             \/ row[r].state = "none" /\ row[r].born < x.born
      PROVE  /\ row' \in [Rules -> Row] /\ row'[r] = x
             /\ \A q \in Rules :
                  \/ row'[q].state = row[q].state /\ row'[q].born = row[q].born
                  \/ row[q].state = "none" /\ row[q].born < row'[q].born
             /\ \A q \in Rules : q # r => row'[q] = row[q]
  BY <1>t, <1>w
<1>1. ASSUME NEW r \in Rules, NEW by \in {"agent", "user"}, CreateRule(r, by)
      PROVE  IInv'
  <2> DEFINE x == [NoRow EXCEPT !.state = "there", !.born = row[r].born + 1,
                                !.approved = (by = "user")]
  <2>1. row' = [row EXCEPT ![r] = x] /\ row[r].state = "none"
    <3>1. r \in Nat /\ (row[r].state = "there" => r < r)
      BY <1>1, ConstantsAssumption DEF CreateRule, Ids
    <3>2. row[r].state \in {"none", "there"}
      BY <1>t DEF Row
    <3>3. row[r].state = "none"
      BY <3>1, <3>2
    <3>4. row' = [row EXCEPT ![r] = x]
      BY <1>1 DEF CreateRule
    <3> QED BY <3>3, <3>4
  <2>2. x \in Row /\ x.born = row[r].born + 1 /\ row[r].born < x.born
    <3>1. (by = "user") \in BOOLEAN /\ row[r].born + 1 \in Nat /\ row[r].born < row[r].born + 1
      BY <1>t DEF Row
    <3> QED BY <1>t, <3>1 DEF Row
  <2>3. x.frozen = FALSE
    BY DEF NoRow
  <2> HIDE DEF x
  <2>4. /\ row' \in [Rules -> Row] /\ row'[r] = x
        /\ \A q \in Rules :
                  \/ row'[q].state = row[q].state /\ row'[q].born = row[q].born
                  \/ row[q].state = "none" /\ row[q].born < row'[q].born
        /\ \A q \in Rules : q # r => row'[q] = row[q]
    BY <1>w, <2>1, <2>2
  <2> QED BY <1>1, <1>o, <1>t, <2>3, <2>4, RowsWritten DEF CreateRule, Request, CriticsKeep
<1>2. ASSUME NEW r \in Rules, FreezeRule(r)
      PROVE  IInv'
  <2> DEFINE x == [row[r] EXCEPT !.frozen = TRUE]
  <2>1. row' = [row EXCEPT ![r] = x] /\ x \in Row /\ x.state = row[r].state /\ x.born = row[r].born
    BY <1>t, <1>2 DEF FreezeRule, Row
  <2> HIDE DEF x
  <2>2. /\ row' \in [Rules -> Row]
        /\ \A q \in Rules :
                  \/ row'[q].state = row[q].state /\ row'[q].born = row[q].born
                  \/ row[q].state = "none" /\ row[q].born < row'[q].born
        /\ \A q \in Rules : q # r => row'[q] = row[q]
    BY <1>w, <2>1
  <2>3. /\ froze' \in [Critics -> SUBSET Rules] /\ api = NoCall
        /\ \A c \in Critics : froze[c] \subseteq froze'[c]
        /\ \A c \in Critics : pc[c] # "idle" => r \in froze'[c]
    BY <1>t, <1>2 DEF FreezeRule, Request
  <2> QED BY <1>2, <1>o, <2>2, <2>3, RowsWritten DEF FreezeRule, Request, CriticsKeep
<1>3. ASSUME NEW r \in Rules, UnfreezeRule(r)
      PROVE  IInv'
  <2> DEFINE x == [row[r] EXCEPT !.frozen = FALSE]
  <2>1. row' = [row EXCEPT ![r] = x] /\ x \in Row /\ x.state = row[r].state /\ x.born = row[r].born
        /\ ~x.frozen
    BY <1>t, <1>3 DEF UnfreezeRule, Row
  <2> HIDE DEF x
  <2>2. /\ row' \in [Rules -> Row] /\ row'[r] = x
        /\ \A q \in Rules :
                  \/ row'[q].state = row[q].state /\ row'[q].born = row[q].born
                  \/ row[q].state = "none" /\ row[q].born < row'[q].born
        /\ \A q \in Rules : q # r => row'[q] = row[q]
    BY <1>w, <2>1
  <2> QED BY <1>3, <1>o, <1>t, <2>1, <2>2, RowsWritten DEF UnfreezeRule, Request, CriticsKeep
<1>4. ASSUME NEW r \in Rules, ApproveRule(r)
      PROVE  IInv'
  <2> DEFINE x == [row[r] EXCEPT !.approved = TRUE]
  <2>1. row' = [row EXCEPT ![r] = x] /\ x \in Row /\ x.state = row[r].state /\ x.born = row[r].born
        /\ x.frozen = row[r].frozen
    BY <1>t, <1>4 DEF ApproveRule, Row
  <2> HIDE DEF x
  <2>2. /\ row' \in [Rules -> Row] /\ row'[r] = x
        /\ \A q \in Rules :
                  \/ row'[q].state = row[q].state /\ row'[q].born = row[q].born
                  \/ row[q].state = "none" /\ row[q].born < row'[q].born
        /\ \A q \in Rules : q # r => row'[q] = row[q]
    BY <1>w, <2>1
  <2> QED BY <1>4, <1>o, <1>t, <2>1, <2>2, RowsWritten DEF ApproveRule, Request, CriticsKeep
<1>7. ASSUME NEW r \in Rules, ToggleRule(r)
      PROVE  IInv'
  <2> DEFINE x == [row[r] EXCEPT !.on = ~@]
  <2>1. row' = [row EXCEPT ![r] = x]
    BY <1>7 DEF ToggleRule
  <2>2. x \in Row /\ x.state = row[r].state /\ x.born = row[r].born
        /\ x.frozen = row[r].frozen
    <3>1. PICK v \in BOOLEAN : v = ~row[r].on
      OBVIOUS
    <3>2. x = [row[r] EXCEPT !.on = v]
      BY <3>1, Zenon
    <3> QED BY <1>t, <3>2 DEF Row
  <2> HIDE DEF x
  <2>3. /\ row' \in [Rules -> Row] /\ row'[r] = x
        /\ \A q \in Rules :
             \/ row'[q].state = row[q].state /\ row'[q].born = row[q].born
             \/ row[q].state = "none" /\ row[q].born < row'[q].born
        /\ \A q \in Rules : q # r => row'[q] = row[q]
    BY <1>w, <2>1, <2>2
  <2> QED BY <1>7, <1>o, <1>t, <2>2, <2>3, RowsWritten DEF ToggleRule, Request, CriticsKeep
<1>5. ASSUME NEW r \in Rules, Fires(r)
      PROVE  IInv'
  <2> DEFINE x == [row[r] EXCEPT !.fires = @ + Burst]
  <2>1. row' = [row EXCEPT ![r] = x] /\ x \in Row /\ x.state = row[r].state /\ x.born = row[r].born
        /\ x.frozen = row[r].frozen
    BY <1>t, <1>5 DEF Fires, Row
  <2> HIDE DEF x
  <2>2. /\ row' \in [Rules -> Row] /\ row'[r] = x
        /\ \A q \in Rules :
                  \/ row'[q].state = row[q].state /\ row'[q].born = row[q].born
                  \/ row[q].state = "none" /\ row[q].born < row'[q].born
        /\ \A q \in Rules : q # r => row'[q] = row[q]
    BY <1>w, <2>1
  <2> QED BY <1>5, <1>o, <1>t, <2>1, <2>2, RowsWritten DEF Fires, criticVars
<1>6. ASSUME NEW r \in Rules, NEW f \in {"tp", "fp"}, RuleFeedback(r, f)
      PROVE  IInv'
  <2> DEFINE x == [row[r] EXCEPT ![f] = @ + 1]
  <2>1. row' = [row EXCEPT ![r] = x]
    BY <1>6 DEF RuleFeedback
  <2>2. x \in Row /\ x.state = row[r].state /\ x.born = row[r].born
        /\ x.frozen = row[r].frozen
    BY <1>t DEF Row
  <2> HIDE DEF x
  <2>3. /\ row' \in [Rules -> Row] /\ row'[r] = x
        /\ \A q \in Rules :
                  \/ row'[q].state = row[q].state /\ row'[q].born = row[q].born
                  \/ row[q].state = "none" /\ row[q].born < row'[q].born
        /\ \A q \in Rules : q # r => row'[q] = row[q]
    BY <1>w, <2>1, <2>2
  <2> QED BY <1>6, <1>o, <1>t, <2>2, <2>3, RowsWritten DEF RuleFeedback, Request, CriticsKeep
<1> QED BY <1>1, <1>2, <1>3, <1>4, <1>5, <1>6, <1>7

(* A critic's step that writes neither rules nor versions.                 *)
LEMMA CriticMoves ==
  ASSUME IInv, TypeOK', UNCHANGED <<row, versions, api>>, NEW c \in Critics,
         \A d \in Critics \ {c} : /\ pc'[d] = pc[d] /\ copy'[d] = copy[d] /\ todo'[d] = todo[d]
                                  /\ cur'[d] = cur[d] /\ pend'[d] = pend[d]
                                  /\ froze'[d] = froze[d],
         pc'[c] = "idle" => pend'[c] = {} /\ todo'[c] = {},
         \A r \in Working(c)' : row[r].frozen => r \in froze'[c],
         \A r \in Rules : copy'[c][r].born <= row[r].born,
         \A p \in pend'[c] : copy'[c] = copy[c] /\ Held(c, p)
  PROVE  IInv'
<1>t. TypeOK /\ Numbered /\ Waiting
  BY DEF IInv
<1>1. \A r \in Rules : Numbers(r)' = Numbers(r) /\ \A n : Continues(n, r)' <=> Continues(n, r)
  BY SameNumbers
<1>2. Numbered'
  BY <1>t, StaysWhole DEF Numbered
<1>3. Waiting'
  <2>1. \A d \in Critics \ {c} : Working(d)' = Working(d)
    BY DEF Working
  <2>2. ASSUME NEW d \in Critics, NEW r \in Working(d)'
        PROVE  row'[r].frozen => r \in froze'[d]
    <3>1. CASE d = c
      BY <3>1
    <3>2. CASE d # c
      BY <1>t, <2>1, <3>2 DEF Waiting
    <3> QED BY <3>1, <3>2
  <2>3. ASSUME NEW d \in Critics, NEW p \in pend'[d]
        PROVE  Held(d, p)'
    <3>1. p.rule \in Rules
      BY DEF TypeOK, Pending
    <3>2. copy'[d] = copy[d] /\ Held(d, p)
      BY <1>t DEF Waiting
    <3> QED BY <1>1, <3>1, <3>2 DEF Held, Continues, Numbers
  <2>4. api' # NoCall => ApiHeld'
    BY <1>t DEF Waiting, ApiHeld, Continues, Numbers
  <2>5. \A d \in Critics : pc'[d] = "idle" => pend'[d] = {} /\ todo'[d] = {}
    BY <1>t DEF Waiting
  <2>6. ASSUME NEW d \in Critics, NEW r \in Rules
        PROVE  copy'[d][r].born <= row'[r].born
    BY <1>t DEF Waiting
  <2> QED BY <2>2, <2>3, <2>4, <2>5, <2>6 DEF Waiting
<1> QED BY <1>2, <1>3 DEF IInv

LEMMA StopTyped ==
  ASSUME TypeOK, NEW c \in Critics, Stop(c)
  PROVE  /\ pc' \in [Critics -> {"idle", "pick", "ask", "commit"}]
         /\ copy' \in [Critics -> [Rules -> Row]] /\ cur' \in [Critics -> Rules]
         /\ todo' \in [Critics -> SUBSET Rules] /\ froze' \in [Critics -> SUBSET Rules]
         /\ pend' \in [Critics -> SUBSET Pending]
         /\ pc'[c] = "idle" /\ todo'[c] = {} /\ pend'[c] = {} /\ Working(c)' = {}
         /\ \A r \in Rules : copy'[c][r].born <= row[r].born
         /\ \A d \in Critics \ {c} :
              /\ pc'[d] = pc[d] /\ copy'[d] = copy[d] /\ todo'[d] = todo[d]
              /\ cur'[d] = cur[d] /\ pend'[d] = pend[d] /\ froze'[d] = froze[d]
<1>1. [r \in Rules |-> NoRow] \in [Rules -> Row] /\ AnyRule \in Rules
  BY NoRowTyped
<1>2. /\ pc'[c] = "idle" /\ todo'[c] = {} /\ pend'[c] = {}
      /\ pc' \in [Critics -> {"idle", "pick", "ask", "commit"}]
      /\ todo' \in [Critics -> SUBSET Rules] /\ froze' \in [Critics -> SUBSET Rules]
      /\ pend' \in [Critics -> SUBSET Pending]
  BY DEF TypeOK, Stop
<1>3. copy' \in [Critics -> [Rules -> Row]] /\ cur' \in [Critics -> Rules]
  BY <1>1 DEF TypeOK, Stop
<1>4. Working(c)' = {}
  BY <1>2 DEF Working
<1>5. \A d \in Critics \ {c} :
              /\ pc'[d] = pc[d] /\ copy'[d] = copy[d] /\ todo'[d] = todo[d]
              /\ cur'[d] = cur[d] /\ pend'[d] = pend[d] /\ froze'[d] = froze[d]
  BY DEF TypeOK, Stop
<1>6. ASSUME NEW r \in Rules
      PROVE  copy'[c][r].born <= row[r].born
  <2>1. copy'[c][r] = NoRow
    BY DEF TypeOK, Stop
  <2>2. row[r].born \in Nat
    BY DEF TypeOK, Row
  <2> QED BY <2>1, <2>2 DEF NoRow
<1> QED BY <1>2, <1>3, <1>4, <1>5, <1>6

LEMMA CriticGivesUp ==
  ASSUME IInv, NEW c \in Critics,
         CriticLosesRule(c) \/ (\E r \in Rules : CriticRaises(c, r)) \/ CriticAbort(c)
  PROVE  IInv'
<1>1. /\ Stop(c) /\ UNCHANGED <<row, versions, now, ops, cycles, dayVars, api>>
      /\ faults' = faults \/ (faults < MaxFaults /\ faults' = faults + 1)
  BY DEF CriticLosesRule, CriticRaises, CriticAbort, boundVars
<1>t. TypeOK /\ MaxFaults \in Nat
  BY ConstantsAssumption DEF IInv
<1>2. /\ pc' \in [Critics -> {"idle", "pick", "ask", "commit"}]
      /\ copy' \in [Critics -> [Rules -> Row]] /\ cur' \in [Critics -> Rules]
      /\ todo' \in [Critics -> SUBSET Rules] /\ froze' \in [Critics -> SUBSET Rules]
      /\ pend' \in [Critics -> SUBSET Pending]
      /\ pc'[c] = "idle" /\ todo'[c] = {} /\ pend'[c] = {} /\ Working(c)' = {}
      /\ \A r \in Rules : copy'[c][r].born <= row[r].born
      /\ \A d \in Critics \ {c} :
              /\ pc'[d] = pc[d] /\ copy'[d] = copy[d] /\ todo'[d] = todo[d]
              /\ cur'[d] = cur[d] /\ pend'[d] = pend[d] /\ froze'[d] = froze[d]
  BY <1>1, <1>t, StopTyped
<1>3. faults' \in 0..MaxFaults
  BY <1>1, <1>t DEF TypeOK
<1>4. TypeOK'
  BY <1>1, <1>2, <1>3, <1>t DEF TypeOK, dayVars
<1> QED BY <1>1, <1>2, <1>4, CriticMoves

LEMMA CriticReads ==
  ASSUME IInv, NEW c \in Critics, CriticStart(c)
  PROVE  IInv'
<1>t. TypeOK /\ Waiting /\ MaxCycles \in Nat /\ MaxTime \in Nat
  BY ConstantsAssumption DEF IInv
<1>1. /\ cycles' \in 0..MaxCycles /\ now' = now /\ now \in Nat
      /\ changes' \in Nat /\ lastReset' \in 0..now' /\ period' \in Nat
  BY SMTT(30), <1>t DEF TypeOK, CriticStart, StartDay, dayVars
<1>2. /\ copy' = [copy EXCEPT ![c] = row]
      /\ todo' = [todo EXCEPT ![c] = {r \in Rules : Tunable(r)}]
      /\ pc' = [pc EXCEPT ![c] = "pick"] /\ pc[c] = "idle"
      /\ UNCHANGED <<row, versions, now, faults, ops, cur, pend, froze, api>>
  BY DEF CriticStart
<1>3. TypeOK'
  <2>1. copy' \in [Critics -> [Rules -> Row]]
    BY <1>2, <1>t DEF TypeOK
  <2>2. /\ todo' \in [Critics -> SUBSET Rules]
        /\ pc' \in [Critics -> {"idle", "pick", "ask", "commit"}]
    BY <1>2, <1>t DEF TypeOK
  <2> QED BY <1>1, <1>2, <1>t, <2>1, <2>2 DEF TypeOK
<1>4. /\ pc'[c] = "pick" /\ todo'[c] = {r \in Rules : Tunable(r)} /\ pend'[c] = {}
      /\ \A d \in Critics \ {c} :
              /\ pc'[d] = pc[d] /\ copy'[d] = copy[d] /\ todo'[d] = todo[d]
              /\ cur'[d] = cur[d] /\ pend'[d] = pend[d] /\ froze'[d] = froze[d]
  BY <1>2, <1>t DEF TypeOK, Waiting
<1>5. Working(c)' = {r \in Rules : Tunable(r)}
  BY <1>4 DEF Working
<1>6. \A r \in Rules : copy'[c][r].born <= row[r].born
  BY <1>2, <1>t DEF TypeOK, Row
<1> QED BY <1>2, <1>3, <1>4, <1>5, <1>6, CriticMoves DEF Tunable

LEMMA CriticThinks ==
  ASSUME IInv, NEW c \in Critics,
         (\E r \in Rules : CriticConsider(c, r)) \/ CriticKeeps(c)
  PROVE  IInv'
<1>t. TypeOK /\ Waiting
  BY DEF IInv
<1>1. /\ UNCHANGED <<row, versions, boundVars, dayVars, copy, pend, froze, api>>
      /\ \E S \in SUBSET todo[c], q \in Rules, l \in {"pick", "ask", "commit"} :
           /\ todo' = [todo EXCEPT ![c] = S] /\ cur' = [cur EXCEPT ![c] = q]
           /\ pc' = [pc EXCEPT ![c] = l] /\ (l = "ask" => q \in todo[c])
  <2>1. CASE CriticKeeps(c)
    <3>1. /\ todo' = [todo EXCEPT ![c] = todo[c]] /\ cur' = [cur EXCEPT ![c] = cur[c]]
          /\ pc' = [pc EXCEPT ![c] = "pick"] /\ cur[c] \in Rules
      BY <1>t, <2>1 DEF TypeOK, CriticKeeps
    <3> QED BY <2>1, <3>1 DEF CriticKeeps
  <2>2. ASSUME NEW r \in Rules, CriticConsider(c, r)
        PROVE  \E S \in SUBSET todo[c], q \in Rules, l \in {"pick", "ask", "commit"} :
           /\ todo' = [todo EXCEPT ![c] = S] /\ cur' = [cur EXCEPT ![c] = q]
           /\ pc' = [pc EXCEPT ![c] = l] /\ (l = "ask" => q \in todo[c])
    <3>1. /\ r \in todo[c] /\ pc[c] = "pick" /\ todo' = [todo EXCEPT ![c] = todo[c] \ {r}]
          /\ \/ UNCHANGED <<pc, cur>>
             \/ /\ pc' = [pc EXCEPT ![c] = IF LimitReached THEN "commit" ELSE "ask"]
                /\ cur' = [cur EXCEPT ![c] = r]
      BY <2>2 DEF CriticConsider, IsNext, Skip
    <3>2. CASE UNCHANGED <<pc, cur>>
      <4>1. cur' = [cur EXCEPT ![c] = cur[c]] /\ pc' = [pc EXCEPT ![c] = "pick"] /\ cur[c] \in Rules
        BY <1>t, <3>1, <3>2 DEF TypeOK
      <4> QED BY <3>1, <4>1
    <3>3. CASE /\ pc' = [pc EXCEPT ![c] = IF LimitReached THEN "commit" ELSE "ask"]
               /\ cur' = [cur EXCEPT ![c] = r]
      <4>1. (IF LimitReached THEN "commit" ELSE "ask") \in {"pick", "ask", "commit"}
        OBVIOUS
      <4> QED BY <3>1, <3>3, <4>1
    <3> QED BY <3>1, <3>2, <3>3
  <2> QED BY <2>1, <2>2 DEF CriticConsider, CriticKeeps
<1>2. PICK S \in SUBSET todo[c], q \in Rules, l \in {"pick", "ask", "commit"} :
           /\ todo' = [todo EXCEPT ![c] = S] /\ cur' = [cur EXCEPT ![c] = q]
           /\ pc' = [pc EXCEPT ![c] = l] /\ (l = "ask" => q \in todo[c])
  BY <1>1
<1>3. TypeOK'
  <2>1. /\ todo' \in [Critics -> SUBSET Rules] /\ cur' \in [Critics -> Rules]
        /\ pc' \in [Critics -> {"idle", "pick", "ask", "commit"}]
    BY <1>2, <1>t DEF TypeOK
  <2> QED BY <1>1, <1>t, <2>1 DEF TypeOK, boundVars, dayVars
<1>4. /\ pc'[c] = l /\ todo'[c] = S /\ cur'[c] = q /\ pend' = pend /\ copy' = copy /\ froze' = froze
      /\ \A d \in Critics \ {c} :
              /\ pc'[d] = pc[d] /\ todo'[d] = todo[d] /\ cur'[d] = cur[d]
  BY <1>1, <1>2, <1>t DEF TypeOK
<1>5. Working(c)' \subseteq Working(c)
  BY <1>2, <1>4 DEF Working
<1>6. /\ \A r \in Working(c)' : row[r].frozen => r \in froze'[c]
      /\ \A r \in Rules : copy'[c][r].born <= row[r].born
      /\ \A p \in pend'[c] : copy'[c] = copy[c] /\ Held(c, p)
  BY <1>4, <1>5, <1>t DEF Waiting
<1> QED BY <1>1, <1>3, <1>4, <1>6, CriticMoves

LEMMA CriticDecides ==
  ASSUME IInv, NEW c \in Critics, NEW a \in Decisions, CriticApplies(c, a)
  PROVE  IInv'
<1>t. TypeOK /\ Waiting
  BY DEF IInv
<1> DEFINE r == cur[c]
           p == [rule |-> r, new |-> Changed(a, copy[c][r]),
                 version |-> Snapshot(r, copy[c][r], "critic")]
<1>1. p \in Pending /\ Held(c, p) /\ p.rule = r
  BY DecidedTyped
<1>2. /\ pend' = [pend EXCEPT ![c] = pend[c] \cup {p}] /\ changes' = changes + 1
      /\ pc' = [pc EXCEPT ![c] = "pick"] /\ pc[c] = "ask"
      /\ UNCHANGED <<row, versions, boundVars, lastReset, period, copy, todo, cur, froze, api>>
  BY DEF CriticApplies
<1> HIDE DEF p
<1>3. TypeOK'
  <2>1. /\ pend' \in [Critics -> SUBSET Pending]
        /\ pc' \in [Critics -> {"idle", "pick", "ask", "commit"}]
    BY <1>1, <1>2, <1>t DEF TypeOK
  <2>2. changes' \in Nat
    BY <1>2, <1>t DEF TypeOK
  <2> QED BY <1>2, <1>t, <2>1, <2>2 DEF TypeOK, boundVars
<1>4. /\ pc'[c] = "pick" /\ pend'[c] = pend[c] \cup {p}
      /\ \A d \in Critics \ {c} : pc'[d] = pc[d] /\ pend'[d] = pend[d]
  BY <1>2, <1>t DEF TypeOK
<1>5. Working(c)' \subseteq Working(c)
  <2>1. Working(c)' = todo[c] \cup {x.rule : x \in pend[c] \cup {p}}
    BY <1>2, <1>4 DEF Working
  <2>2. Working(c) = todo[c] \cup {x.rule : x \in pend[c]} \cup {r}
    BY <1>2 DEF Working
  <2> QED BY <1>1, <2>1, <2>2
<1>6. /\ \A q \in Working(c)' : row[q].frozen => q \in froze'[c]
      /\ \A q \in Rules : copy'[c][q].born <= row[q].born
      /\ \A x \in pend'[c] : copy'[c] = copy[c] /\ Held(c, x)
  <2>1. \A q \in Working(c)' : row[q].frozen => q \in froze'[c]
    <3>1. \A q \in Working(c) : row[q].frozen => q \in froze[c]
      BY <1>t DEF Waiting
    <3> QED BY <1>2, <1>5, <3>1
  <2>2. \A x \in pend[c] : Held(c, x)
    BY <1>t DEF Waiting
  <2>3. \A q \in Rules : copy'[c][q].born <= row[q].born
    BY <1>2, <1>t DEF Waiting
  <2> QED BY <1>1, <1>2, <1>4, <2>1, <2>2, <2>3
<1> QED BY <1>2, <1>3, <1>4, <1>6, CriticMoves

(* A commit, of a cycle or of a request, leaves every rule's row and       *)
(* versions as they were or stores a version that fits them.               *)
Commits(r) ==
  \/ versions'[r] = versions[r] /\ row'[r] = row[r]
  \/ \E v \in Version, old \in Row, new \in Row :
       /\ Fits(v, r) /\ row[r].state = "there" /\ versions'[r] = Append(versions[r], v)
       /\ row'[r] = Merged(row[r], old, new)

LEMMA CommitKeeps ==
  ASSUME IInv, NEW r \in Rules, Commits(r)
  PROVE  /\ row'[r] \in Row /\ versions'[r] \in Seq(Version) /\ Whole(r)'
         /\ row'[r].state = row[r].state /\ row'[r].frozen = row[r].frozen
         /\ row'[r].born = row[r].born /\ Numbers(r) \subseteq Numbers(r)'
<1>t. row[r] \in Row /\ versions[r] \in Seq(Version) /\ Whole(r)
  BY DEF IInv, TypeOK, Numbered
<1>1. CASE versions'[r] = versions[r] /\ row'[r] = row[r]
  BY <1>1, <1>t, SameNumbers, StaysWhole
<1>2. ASSUME NEW v \in Version, NEW old \in Row, NEW new \in Row, Fits(v, r),
             row[r].state = "there",
             versions'[r] = Append(versions[r], v), row'[r] = Merged(row[r], old, new)
      PROVE  /\ row'[r] \in Row /\ versions'[r] \in Seq(Version) /\ Whole(r)'
             /\ row'[r].state = row[r].state /\ row'[r].frozen = row[r].frozen
             /\ row'[r].born = row[r].born /\ Numbers(r) \subseteq Numbers(r)'
  <2>1. /\ row'[r] \in Row /\ row'[r].state = row[r].state /\ row'[r].frozen = row[r].frozen
        /\ row'[r].born = row[r].born
    BY <1>2, <1>t, MergedTyped
  <2>2. versions'[r] \in Seq(Version) /\ Numbers(r)' = Numbers(r) \cup {v.num}
    BY <1>2, <1>t, StoredTyped
  <2>3. Whole(r)'
    BY <1>2, <1>t, <2>1, StoredWhole
  <2> QED BY <2>1, <2>2, <2>3
<1> QED BY <1>1, <1>2 DEF Commits

LEMMA CriticStores ==
  ASSUME IInv, NEW c \in Critics, CriticCommit(c)
  PROVE  IInv'
<1>t. TypeOK /\ Waiting
  BY DEF IInv
<1>0. Stop(c) /\ UNCHANGED <<boundVars, dayVars, api>>
  BY DEF CriticCommit
<1>1. /\ pc' \in [Critics -> {"idle", "pick", "ask", "commit"}]
      /\ copy' \in [Critics -> [Rules -> Row]] /\ cur' \in [Critics -> Rules]
      /\ todo' \in [Critics -> SUBSET Rules] /\ froze' \in [Critics -> SUBSET Rules]
      /\ pend' \in [Critics -> SUBSET Pending]
      /\ pc'[c] = "idle" /\ todo'[c] = {} /\ pend'[c] = {} /\ Working(c)' = {}
      /\ \A r \in Rules : copy'[c][r].born <= row[r].born
      /\ \A d \in Critics \ {c} :
              /\ pc'[d] = pc[d] /\ copy'[d] = copy[d] /\ todo'[d] = todo[d]
              /\ cur'[d] = cur[d] /\ pend'[d] = pend[d] /\ froze'[d] = froze[d]
  BY <1>0, <1>t, StopTyped
<1>2. ASSUME NEW r \in Rules
      PROVE  Commits(r)
  <2>1. CASE versions'[r] = versions[r] /\ row'[r] = row[r]
    BY <2>1 DEF Commits
  <2>2. ASSUME NEW p \in pend[c], p.rule = r, p \in Pending, Fits(p.version, r),
               row[r].state = "there", versions'[r] = Append(versions[r], p.version),
               row'[r] = Merged(row[r], copy[c][r], p.new)
        PROVE  Commits(r)
    <3>1. p.version \in Version /\ p.new \in Row /\ copy[c][r] \in Row
      BY <1>t, <2>2 DEF Pending, TypeOK
    <3> QED BY <2>2, <3>1 DEF Commits
  <2> QED BY <2>1, <2>2, CommitStores
<1>3. row' \in [Rules -> Row] /\ versions' \in [Rules -> Seq(Version)] /\ Numbered'
  <2>1. \A r \in Rules : row'[r] \in Row /\ versions'[r] \in Seq(Version)
    BY <1>2, CommitKeeps
  <2>2. Numbered'
    BY <1>2, CommitKeeps DEF Numbered
  <2>3. row' \in [Rules -> Row]
    <3>1. row' = [r \in Rules |-> row'[r]]
      BY DEF CriticCommit
    <3> QED BY <2>1, <3>1
  <2>4. versions' \in [Rules -> Seq(Version)]
    <3>1. versions' = [r \in Rules |-> versions'[r]]
      BY DEF CriticCommit
    <3> QED BY <2>1, <3>1
  <2> QED BY <2>2, <2>3, <2>4
<1>4. TypeOK'
  BY <1>0, <1>1, <1>3, <1>t DEF TypeOK, boundVars, dayVars
<1>5. Waiting'
  <2>1. \A d \in Critics \ {c} : Working(d)' = Working(d) /\ Working(d) \subseteq Rules
    BY <1>1, <1>t DEF Working, TypeOK, Pending
  <2>2. ASSUME NEW d \in Critics, NEW r \in Working(d)'
        PROVE  row'[r].frozen => r \in froze'[d]
    <3>1. d # c
      BY <1>1
    <3>2. r \in Working(d) /\ r \in Rules /\ froze'[d] = froze[d]
      BY <1>1, <2>1, <3>1
    <3>3. row'[r].frozen = row[r].frozen
      BY <1>2, <3>2, CommitKeeps
    <3> QED BY <1>t, <3>2, <3>3 DEF Waiting
  <2>3. ASSUME NEW d \in Critics, NEW p \in pend'[d]
        PROVE  Held(d, p)'
    <3>1. d # c
      BY <1>1
    <3>2. p \in pend[d] /\ p.rule \in Rules /\ copy'[d] = copy[d] /\ p.version.born \in Nat
      BY <1>1, <1>t, <3>1 DEF TypeOK, Pending, Version
    <3>3. Held(d, p)
      BY <1>t, <3>2 DEF Waiting
    <3>4. /\ row'[p.rule].state = row[p.rule].state /\ row'[p.rule].born = row[p.rule].born
          /\ Numbers(p.rule) \subseteq Numbers(p.rule)'
      BY <1>2, <3>2, CommitKeeps
    <3>5. row[p.rule].born \in Nat
      BY <1>t, <3>2 DEF TypeOK, Row
    <3> QED BY <3>2, <3>3, <3>4, <3>5, StillHeld
  <2>4. ASSUME NEW d \in Critics, NEW r \in Rules
        PROVE  copy'[d][r].born <= row'[r].born
    <3>1. row'[r].born = row[r].born
      BY <1>2, CommitKeeps
    <3>2. CASE d = c
      BY <1>1, <3>1, <3>2
    <3>3. CASE d # c
      BY <1>1, <1>t, <3>1, <3>3 DEF Waiting
    <3> QED BY <3>2, <3>3
  <2>5. \A d \in Critics : pc'[d] = "idle" => pend'[d] = {} /\ todo'[d] = {}
    BY <1>1, <1>t DEF Waiting
  <2>6. api' = api /\ (api # NoCall => api.rule \in Rules)
    BY <1>0, <1>t DEF TypeOK
  <2>7. api' # NoCall => ApiHeld'
    BY <1>2, <2>6, CommitKeeps, ApiStillHeld
  <2> QED BY <2>2, <2>3, <2>4, <2>5, <2>7 DEF Waiting
<1> QED BY <1>3, <1>4, <1>5 DEF IInv

(* A step of the API that leaves the critics alone.                        *)
LEMMA CriticsWait ==
  ASSUME IInv, TypeOK', UNCHANGED criticVars,
         \A r \in Rules :
           /\ Whole(r)' /\ row[r].born <= row'[r].born
           /\ row'[r].frozen => row[r].frozen
           /\ row'[r].state = "there" /\ row'[r].born = row[r].born =>
                row[r].state = "there" /\ Numbers(r) \subseteq Numbers(r)',
         api' # NoCall => ApiHeld'
  PROVE  IInv'
<1>t. TypeOK /\ Waiting
  BY DEF IInv
<1>1. /\ pc' = pc /\ copy' = copy /\ todo' = todo /\ cur' = cur /\ pend' = pend /\ froze' = froze
      /\ \A c \in Critics : Working(c)' = Working(c) /\ Working(c) \subseteq Rules
  BY SMTT(30), <1>t DEF criticVars, Working, TypeOK, Pending
<1>b. \A r \in Rules : row[r].born \in Nat /\ row'[r].born \in Nat
  BY <1>t DEF TypeOK, Row
<1>2. ASSUME NEW c \in Critics, NEW r \in Working(c)'
      PROVE  row'[r].frozen => r \in froze'[c]
  <2>1. r \in Rules /\ (row[r].frozen => r \in froze[c])
    BY <1>1, <1>t DEF Waiting
  <2> QED BY <1>1, <2>1
<1>3. ASSUME NEW c \in Critics, NEW p \in pend'[c]
      PROVE  Held(c, p)'
  <2>0. p \in pend[c] /\ pend[c] \in SUBSET Pending
    BY <1>1, <1>t DEF TypeOK
  <2>1. p.rule \in Rules /\ p.version.born \in Nat
    BY <2>0 DEF Pending, Version
  <2>2. Held(c, p)
    BY <1>t, <2>0 DEF Waiting
  <2> QED BY <1>1, <1>b, <2>1, <2>2, StillHeld
<1>5. ASSUME NEW c \in Critics, NEW r \in Rules
      PROVE  copy'[c][r].born <= row'[r].born
  <2>1. copy[c][r].born <= row[r].born /\ copy[c][r].born \in Nat
    BY <1>t DEF Waiting, TypeOK, Row
  <2> QED BY <1>1, <1>b, <2>1
<1>4. Waiting'
  BY <1>1, <1>2, <1>3, <1>5, <1>t DEF Waiting
<1> QED BY <1>4 DEF IInv, Numbered

LEMMA RequestHeld ==
  ASSUME IInv, NEW r \in Rules,
         \/ \E by \in {"agent", "user"}, e \in Edits : UpdateRule(r, by, e)
         \/ \E n \in Numbers(r) : RollbackRule(r, n)
  PROVE  IInv'
<1>t. TypeOK /\ Waiting /\ Numbered /\ row[r] \in Row /\ MaxOps \in Nat /\ ops \in 0..MaxOps
      /\ versions[r] \in Seq(Version)
  BY ConstantsAssumption DEF IInv, TypeOK
<1>1. \E by \in {"agent", "user"}, new \in Row :
        /\ api' = [rule |-> r, by |-> by, old |-> row[r], new |-> new,
                   version |-> Snapshot(r, row[r], by)]
        /\ by = "agent" => ~row[r].frozen
  <2>1. ASSUME NEW by \in {"agent", "user"}, NEW e \in Edits, UpdateRule(r, by, e)
        PROVE  /\ Edited(row[r], e) \in Row
               /\ api' = [rule |-> r, by |-> by, old |-> row[r], new |-> Edited(row[r], e),
                          version |-> Snapshot(r, row[r], by)]
               /\ by = "agent" => ~row[r].frozen
    <3>1. Edited(row[r], e) \in Row
      BY <1>t, ConstantsAssumption, EditedTyped
    <3> QED BY <2>1, <3>1 DEF UpdateRule
  <2>2. ASSUME NEW n \in Numbers(r), RollbackRule(r, n)
        PROVE  \E new \in Row :
                 api' = [rule |-> r, by |-> "user", old |-> row[r], new |-> new,
                         version |-> Snapshot(r, row[r], "user")]
    <3>1. PICK i \in DOMAIN versions[r] :
            api' = [rule |-> r, by |-> "user", old |-> row[r],
                    new |-> Edited(row[r], [f \in Columns |-> versions[r][i][f]]),
                    version |-> Snapshot(r, row[r], "user")]
      BY <2>2 DEF RollbackRule
    <3> DEFINE e == [f \in Columns |-> versions[r][i][f]]
    <3>2. versions[r][i] \in Version
      BY <1>t
    <3>3. e.sev \in Severities /\ e.cool \in Nat /\ e.on \in BOOLEAN /\ e.params \in Nat
      BY <3>2 DEF Columns, Version
    <3> HIDE DEF e
    <3>4. Edited(row[r], e) \in Row
      BY <1>t, <3>3, EditedTyped
    <3> QED BY <3>1, <3>4 DEF e
  <2> QED BY <2>1, <2>2
<1>2. PICK by \in {"agent", "user"}, new \in Row :
        /\ api' = [rule |-> r, by |-> by, old |-> row[r], new |-> new,
                   version |-> Snapshot(r, row[r], by)]
        /\ by = "agent" => ~row[r].frozen
  BY <1>1
<1>3. /\ UNCHANGED <<row, versions, froze, pc, copy, todo, cur, pend, now, faults, cycles, dayVars>>
      /\ ops < MaxOps /\ ops' = ops + 1 /\ row[r].state = "there"
  BY DEF UpdateRule, RollbackRule, Request, CriticsKeep
<1> DEFINE s == Snapshot(r, row[r], by)
<1>4. s \in Version /\ Continues(s.num, r) /\ s.born = row[r].born
  BY RequestTyped
<1>5. /\ api'.rule = r /\ api'.by = by /\ api'.old = row[r] /\ api'.new = new
      /\ api'.version = s
  BY <1>2
<1> HIDE DEF s
<1>6. TypeOK'
  <2>1. ops' \in 0..MaxOps
    BY <1>3, <1>t
  <2> QED BY <1>3, <1>4, <1>5, <1>t, <2>1 DEF TypeOK, dayVars
<1>7. \A q \in Rules : Numbers(q)' = Numbers(q) /\ \A n : Continues(n, q)' <=> Continues(n, q)
  BY <1>3, SameNumbers
<1>8. ApiHeld'
  <2>1. PICK n, m : n = s.num /\ m = s.born
    OBVIOUS
  <2>2. Continues(n, r)'
    BY <1>4, <1>7, <2>1
  <2>3. n = api'.version.num /\ m = api'.version.born
    BY <1>5, <2>1
  <2> QED BY <1>2, <1>3, <1>4, <1>5, <2>1, <2>2, <2>3 DEF ApiHeld, Continues, Numbers
<1>9. \A q \in Rules : Whole(q)' /\ row[q].born <= row'[q].born
  BY <1>3, <1>t, StaysWhole, BornTyped DEF Numbered, TypeOK
<1> QED BY <1>3, <1>6, <1>7, <1>8, <1>9, CriticsWait DEF criticVars

LEMMA RequestStored ==
  ASSUME IInv, ApiCommit
  PROVE  IInv'
<1>t. TypeOK /\ Waiting /\ Numbered
  BY DEF IInv
<1>1. PICK r \in Rules : r = api.rule
  BY <1>t DEF ApiCommit, TypeOK
<1>2. /\ row' = [row EXCEPT ![r] = Merged(row[r], api.old, api.new)]
      /\ versions' = [versions EXCEPT ![r] = Append(versions[r], api.version)]
      /\ api' = NoCall /\ UNCHANGED <<boundVars, dayVars, criticVars>>
      /\ api.old \in Row /\ api.new \in Row /\ api.version \in Version
      /\ Fits(api.version, r) /\ row[r].state = "there"
  BY <1>1, <1>t DEF ApiCommit, TypeOK, Waiting, ApiHeld, Fits
<1>3. ASSUME NEW q \in Rules
      PROVE  Commits(q)
  <2>1. q # r => row'[q] = row[q] /\ versions'[q] = versions[q]
    BY <1>2, <1>t DEF TypeOK
  <2>2. /\ row'[r] = Merged(row[r], api.old, api.new)
        /\ versions'[r] = Append(versions[r], api.version)
    BY <1>2, <1>t DEF TypeOK
  <2> QED BY <1>2, <2>1, <2>2 DEF Commits
<1>4. \A q \in Rules :
         /\ row'[q] \in Row /\ versions'[q] \in Seq(Version) /\ Whole(q)'
         /\ row'[q].state = row[q].state /\ row'[q].frozen = row[q].frozen
         /\ row'[q].born = row[q].born /\ Numbers(q) \subseteq Numbers(q)'
  BY <1>3, CommitKeeps
<1>5. row' \in [Rules -> Row] /\ versions' \in [Rules -> Seq(Version)]
  <2>1. row' = [q \in Rules |-> row'[q]] /\ versions' = [q \in Rules |-> versions'[q]]
    BY <1>2, <1>t DEF TypeOK
  <2> QED BY <1>4, <2>1
<1>6. TypeOK'
  BY <1>2, <1>5, <1>t DEF TypeOK, boundVars, dayVars, criticVars
<1>7. \A q \in Rules : row[q].born <= row'[q].born
  BY <1>4, <1>t DEF TypeOK, Row
<1> QED BY <1>2, <1>4, <1>6, <1>7, CriticsWait

LEMMA RuleDeleted ==
  ASSUME IInv, NEW r \in Rules, DeleteRule(r)
  PROVE  IInv'
<1>t. TypeOK /\ Waiting /\ Numbered /\ MaxOps \in Nat
  BY ConstantsAssumption DEF IInv
<1> DEFINE x == [NoRow EXCEPT !.born = row[r].born]
<1>1. /\ row' = [row EXCEPT ![r] = x] /\ versions' = [versions EXCEPT ![r] = <<>>]
      /\ UNCHANGED <<froze, api, pc, copy, todo, cur, pend, now, faults, cycles, dayVars>>
      /\ ops < MaxOps /\ ops' = ops + 1 /\ api = NoCall
  BY DEF DeleteRule, Request, CriticsKeep
<1>2. x \in Row /\ x.state = "none" /\ x.frozen = FALSE /\ x.born = row[r].born
  <2>1. row[r].born \in Nat
    BY <1>t DEF TypeOK, Row
  <2>2. x \in Row
    BY <2>1, NoRowTyped DEF Row
  <2>3. x.state = "none" /\ x.frozen = FALSE /\ x.born = row[r].born
    BY DEF NoRow
  <2> QED BY <2>2, <2>3
<1> HIDE DEF x
<1>3. /\ row' \in [Rules -> Row] /\ row'[r] = x
      /\ \A q \in Rules : q # r => row'[q] = row[q]
  BY <1>1, <1>2, <1>t DEF TypeOK
<1>4. /\ versions' \in [Rules -> Seq(Version)] /\ versions'[r] = <<>>
      /\ \A q \in Rules : q # r => versions'[q] = versions[q]
  <2>1. <<>> \in Seq(Version)
    OBVIOUS
  <2> QED BY <1>1, <1>t, <2>1 DEF TypeOK
<1>5. TypeOK'
  <2>1. ops' \in 0..MaxOps
    BY <1>1, <1>t DEF TypeOK
  <2> QED BY <1>1, <1>3, <1>4, <1>t, <2>1 DEF TypeOK, dayVars
<1>6. ASSUME NEW q \in Rules, q # r
      PROVE  Whole(q)' /\ Numbers(q)' = Numbers(q)
  BY <1>3, <1>4, <1>6, <1>t, SameNumbers, StaysWhole DEF Numbered
<1>7. Whole(r)'
  BY <1>4, EmptyWhole
<1>8. \A q \in Rules : row[q].born <= row'[q].born
  <2>1. \A q \in Rules : row'[q].born = row[q].born
    BY <1>2, <1>3
  <2> QED BY <1>t, <2>1, BornTyped DEF TypeOK
<1>9. ASSUME NEW q \in Rules
      PROVE  /\ row'[q].frozen => row[q].frozen
             /\ row'[q].state = "there" => row[q].state = "there" /\ Numbers(q) \subseteq Numbers(q)'
  BY <1>2, <1>3, <1>6
<1> QED BY <1>1, <1>5, <1>6, <1>7, <1>8, <1>9, CriticsWait DEF criticVars

LEMMA OtherStep ==
  ASSUME IInv, ApiFails \/ NextDay \/ UNCHANGED vars
  PROVE  IInv'
<1>t. TypeOK /\ Waiting /\ Numbered /\ MaxFaults \in Nat /\ MaxTime \in Nat
  BY ConstantsAssumption DEF IInv
<1>1. /\ UNCHANGED <<row, versions, ops, cycles, dayVars, criticVars>>
      /\ faults' = faults \/ (faults < MaxFaults /\ faults' = faults + 1)
      /\ now' = now \/ (now < MaxTime /\ now' = now + 1)
      /\ api' = api \/ api' = NoCall
  BY DEF ApiFails, NextDay, vars, boundVars
<1>2. TypeOK'
  <2>1. faults' \in 0..MaxFaults /\ now' \in 1..MaxTime /\ lastReset \in 0..now'
    BY <1>1, <1>t DEF TypeOK
  <2> QED BY <1>1, <1>t, <2>1 DEF TypeOK, dayVars, criticVars
<1>3. \A q \in Rules : Numbers(q)' = Numbers(q) /\ Whole(q)' /\ row[q].born <= row'[q].born
  BY <1>1, <1>t, SameNumbers, StaysWhole DEF Numbered, TypeOK, Row
<1>5. api' # NoCall => ApiHeld'
  BY <1>1, <1>t DEF Waiting, ApiHeld, Continues, Numbers
<1>7. UNCHANGED criticVars
  BY <1>1
<1> QED BY <1>1, <1>2, <1>3, <1>5, <1>7, CriticsWait

LEMMA Restarted ==
  ASSUME IInv, Restart
  PROVE  IInv'
<1>t. TypeOK /\ Numbered /\ MaxFaults \in Nat
  BY ConstantsAssumption DEF IInv
<1>1. /\ row' \in [Rules -> Row]
      /\ versions' = versions /\ now' = now /\ ops' = ops /\ cycles' = cycles
      /\ faults < MaxFaults /\ faults' = faults + 1
      /\ changes' = 0 /\ lastReset' = 0 /\ period' = period + 1 /\ api' = NoCall
  BY <1>t, SeededTyped DEF Restart, TypeOK
<1>2. /\ pc' = [c \in Critics |-> "idle"] /\ todo' = [c \in Critics |-> {}]
      /\ froze' = [c \in Critics |-> {}] /\ pend' = [c \in Critics |-> {}]
      /\ copy' = [c \in Critics |-> [r \in Rules |-> NoRow]]
      /\ cur' = [c \in Critics |-> AnyRule]
  BY DEF Restart
<1>3. TypeOK'
  <2>1. copy' \in [Critics -> [Rules -> Row]] /\ cur' \in [Critics -> Rules]
    BY <1>2, NoRowTyped
  <2>2. /\ todo' \in [Critics -> SUBSET Rules] /\ froze' \in [Critics -> SUBSET Rules]
        /\ pend' \in [Critics -> SUBSET Pending]
        /\ pc' \in [Critics -> {"idle", "pick", "ask", "commit"}]
    BY <1>2
  <2>3. faults' \in 0..MaxFaults /\ lastReset' \in 0..now' /\ period' \in Nat /\ changes' \in Nat
    BY <1>1, <1>t DEF TypeOK
  <2> QED BY <1>1, <1>t, <2>1, <2>2, <2>3 DEF TypeOK
<1>4. Numbered'
  <2>1. ASSUME NEW r \in Rules
        PROVE  Whole(r)'
    <3>1. row'[r] = Seeded(r, row[r]) /\ row[r] \in Row
      BY <1>t DEF Restart, TypeOK
    <3>2. row'[r].born = row[r].born /\ (row'[r].state = row[r].state \/ row'[r].state = "there")
      BY <3>1, SeededTyped
    <3> QED BY <1>1, <1>t, <3>2, StaysWhole DEF Numbered
  <2> QED BY <2>1 DEF Numbered
<1>5. Waiting'
  <2>1. \A c \in Critics : Working(c)' = {}
    BY <1>2 DEF Working
  <2>2. ASSUME NEW c \in Critics, NEW r \in Rules
        PROVE  copy'[c][r].born <= row'[r].born
    <3>1. row'[r].born \in Nat /\ copy'[c][r] = NoRow
      BY <1>1, <1>2 DEF Row
    <3> QED BY <3>1 DEF NoRow
  <2>3. \A c \in Critics : pend'[c] = {} /\ todo'[c] = {}
    BY <1>2
  <2> QED BY <1>1, <2>1, <2>2, <2>3 DEF Waiting
<1> QED BY <1>3, <1>4, <1>5 DEF IInv

LEMMA Steps == IInv /\ [Next]_vars => IInv'
<1> SUFFICES ASSUME IInv, [Next]_vars PROVE IInv'
  OBVIOUS
<1>1. ASSUME NEW c \in Critics, CriticStep(c)
      PROVE  IInv'
  BY <1>1, CriticReads, CriticThinks, CriticDecides, CriticStores, CriticGivesUp
     DEF CriticStep
<1> QED BY <1>1, RowStep, RuleDeleted, RequestHeld, RequestStored, OtherStep, Restarted
           DEF Next

-----------------------------------------------------------------------------
(* The rows, versions, sessions and requests have their types.             *)
THEOREM TypeCorrect == Spec => []TypeOK
<1>1. IInv => TypeOK
  BY DEF IInv
<1> QED BY Initially, Steps, <1>1, PTL DEF Spec

(* The versions of a rule are its own, numbered without a gap, but for     *)
(* those a critic took of a rule that had its id before, whatever sessions *)
(* took the same number, failed or lost their rule, for any number of      *)
(* critics (rules.py:338-344, orchestrator.py:701-706).                    *)
THEOREM VersionsStayNumbered == Spec => []VersionsContinue
<1>1. IInv => VersionsContinue
  BY DEF IInv, Numbered, Whole, Fits, Continues, VersionsContinue
<1> QED BY Initially, Steps, <1>1, PTL DEF Spec

(* A freeze holds against every agent's request and every cycle that read  *)
(* the rules after it (orchestrator.py:527-535, rules.py:105).             *)
THEOREM FreezeIsKept == Spec => FreezeHolds
<1>1. ASSUME IInv
      PROVE  /\ \A c \in Critics, r \in Rules : Tunes(c, r) /\ row[r].frozen => r \in froze[c]
             /\ \A r \in Rules :
                  api # NoCall /\ api' = NoCall /\ api.rule = r /\ api.by = "agent"
                    /\ versions'[r] # versions[r] => ~row[r].frozen
  <2>1. ASSUME NEW c \in Critics, NEW r \in Rules, Tunes(c, r), row[r].frozen
        PROVE  r \in froze[c]
    <3>1. r \in Working(c)
      BY <2>1 DEF Tunes, PendingOf, Working
    <3> QED BY <1>1, <2>1, <3>1 DEF IInv, Waiting
  <2> QED BY <1>1, <2>1 DEF IInv, Waiting, ApiHeld
<1> QED BY Initially, Steps, <1>1, PTL DEF Spec, FreezeHolds

(* A rule that is off when a cycle commits stays off                       *)
(* (orchestrator.py:715-747).                                              *)
THEOREM CriticKeepsOff == Spec => CriticNeverEnables
<1>1. ASSUME IInv, [Next]_vars, NEW c \in Critics, NEW r \in Rules, Tunes(c, r), ~row[r].on
      PROVE  ~row'[r].on
  <2>t. TypeOK
    BY <1>1 DEF IInv
  <2>1. versions'[r] # versions[r] /\ pc[c] # "idle" /\ pc'[c] = "idle"
    BY <1>1 DEF Tunes
  <2>2. CASE \E d \in Critics : CriticCommit(d)
    <3>1. PICK d \in Critics : CriticCommit(d)
      BY <2>2
    <3>0. \E p \in pend[d] :
            /\ p.rule = r /\ p \in Pending /\ Fits(p.version, r) /\ row[r].state = "there"
            /\ versions'[r] = Append(versions[r], p.version)
            /\ p.new.on \in {FALSE, copy[d][r].on}
            /\ row'[r] = Merged(row[r], copy[d][r], p.new)
      BY <1>1, <2>1, <3>1, CommitStores
    <3>2. PICK p \in pend[d] : /\ p \in Pending /\ p.new.on \in {FALSE, copy[d][r].on}
                               /\ row'[r] = Merged(row[r], copy[d][r], p.new)
      BY <3>0
    <3>3. row[r] \in Row /\ copy[d][r] \in Row /\ p.new \in Row
      BY <2>t, <3>2 DEF TypeOK, Pending
    <3> DEFINE x == row'[r]
    <3>4. x.on \in {row[r].on, p.new.on} /\ (p.new.on = copy[d][r].on => x.on = row[r].on)
      BY <3>2, <3>3, MergedTyped
    <3>5. row[r].on = FALSE
      BY <1>1, <3>3 DEF Row
    <3>6. x.on = FALSE
      BY <3>2, <3>4, <3>5
    <3> QED BY <3>6
  <2>3. CASE ~\E d \in Critics : CriticCommit(d)
    <3>1. versions' = versions \/ pc' = pc
      BY <1>1, <2>3 DEF Next, CriticStep, CriticStart, CriticConsider, CriticKeeps,
         CriticApplies, CriticLosesRule, CriticRaises, CriticAbort, CreateRule, DeleteRule,
         UpdateRule, RollbackRule, ApiCommit, ApiFails, FreezeRule, UnfreezeRule, ApproveRule,
         ToggleRule, RuleFeedback, Fires, NextDay, Restart, CriticsKeep, criticVars, vars
    <3> QED BY <2>1, <3>1
  <2> QED BY <2>2, <2>3
<1>2. ASSUME IInv, [Next]_vars
      PROVE  \A c \in Critics, r \in Rules : Tunes(c, r) /\ ~row[r].on => ~row'[r].on
  BY <1>1, <1>2
<1> QED BY Initially, Steps, <1>2, PTL DEF Spec, CriticNeverEnables
-----------------------------------------------------------------------------
(* A shipped rule is always there, and a rule that has versions was tuned: *)
(* the seed of a restart leaves its severity and cooldown alone.           *)
Kept(r) ==
  /\ r \in System => row[r].state = "there"
  /\ versions[r] # <<>> => row[r].tuned /\ row[r].state # "none"
KeptInv == \A r \in Rules : Kept(r)

(* A step on rule r that leaves its versions, and whether it was tuned.    *)
LEMMA StaysKept ==
  ASSUME NEW r \in Rules, Kept(r), versions'[r] = versions[r], row'[r].tuned = row[r].tuned,
         row'[r].state = row[r].state
  PROVE  Kept(r)'
BY DEF Kept

(* A stored version marks its rule as tuned.                               *)
LEMMA StoredKept ==
  ASSUME NEW r \in Rules, Kept(r), row[r] \in Row, NEW old, NEW new,
         row'[r] = Merged(row[r], old, new), row[r].state = "there"
  PROVE  Kept(r)'
<1>1. row'[r].tuned /\ row'[r].state = row[r].state
  BY DEF Merged, Row
<1> QED BY <1>1 DEF Kept

(* Writing one field of one row.                                           *)
LEMMA OneRow ==
  ASSUME IInv, KeptInv, versions' = versions, NEW r \in Rules, NEW x,
         row' = [row EXCEPT ![r] = x], x.tuned = row[r].tuned, x.state = row[r].state
  PROVE  KeptInv'
<1>1. /\ row'[r] = x
      /\ \A q \in Rules : q # r => row'[q] = row[q]
  BY DEF IInv, TypeOK
<1> QED BY <1>1, StaysKept DEF KeptInv

LEMMA KeptByWrites ==
  ASSUME IInv, KeptInv,
         \/ \E r \in Rules, by \in {"agent", "user"} : CreateRule(r, by)
         \/ \E r \in Rules : DeleteRule(r)
         \/ \E r \in Rules : \/ FreezeRule(r) \/ UnfreezeRule(r) \/ ApproveRule(r)
                           \/ ToggleRule(r) \/ Fires(r)
         \/ \E r \in Rules, f \in {"tp", "fp"} : RuleFeedback(r, f)
  PROVE  KeptInv'
<1>t. row \in [Rules -> Row] /\ versions \in [Rules -> Seq(Version)]
  BY DEF IInv, TypeOK
<1>1. ASSUME NEW r \in Rules, NEW by \in {"agent", "user"}, CreateRule(r, by)
      PROVE  KeptInv'
  <2>1. /\ versions' = versions /\ r \notin System
        /\ \A q \in Rules : q # r => row'[q] = row[q]
    BY <1>1, <1>t DEF CreateRule
  <2>2. versions[r] = <<>>
    <3>1. r \in Nat /\ (row[r].state = "there" => r < r)
      BY <1>1, ConstantsAssumption DEF CreateRule, Ids
    <3>2. row[r].state \in {"none", "there"}
      BY <1>t DEF Row
    <3> QED BY <3>1, <3>2 DEF KeptInv, Kept
  <2>3. Kept(r)'
    BY <2>1, <2>2 DEF Kept
  <2> QED BY <2>1, <2>3, StaysKept DEF KeptInv
<1>2. ASSUME NEW r \in Rules, DeleteRule(r)
      PROVE  KeptInv'
  <2>1. /\ versions'[r] = <<>> /\ r \notin System
        /\ \A q \in Rules : q # r => row'[q] = row[q] /\ versions'[q] = versions[q]
    BY <1>2, <1>t DEF DeleteRule
  <2>2. Kept(r)'
    BY <2>1 DEF Kept
  <2> QED BY <2>1, <2>2, StaysKept DEF KeptInv
<1>3. ASSUME NEW r \in Rules, FreezeRule(r) \/ UnfreezeRule(r) \/ ApproveRule(r)
                             \/ ToggleRule(r) \/ Fires(r)
      PROVE  KeptInv'
  <2>1. /\ versions' = versions
        /\ \E x : /\ row' = [row EXCEPT ![r] = x]
                  /\ x.tuned = row[r].tuned /\ x.state = row[r].state
    <3>1. ASSUME NEW v \in {TRUE, FALSE}
          PROVE  /\ [row[r] EXCEPT !.frozen = v].tuned = row[r].tuned
                 /\ [row[r] EXCEPT !.frozen = v].state = row[r].state
                 /\ [row[r] EXCEPT !.approved = v].tuned = row[r].tuned
                 /\ [row[r] EXCEPT !.approved = v].state = row[r].state
      BY <1>t DEF Row
    <3>2. /\ [row[r] EXCEPT !.fires = @ + Burst].tuned = row[r].tuned
          /\ [row[r] EXCEPT !.fires = @ + Burst].state = row[r].state
      BY <1>t DEF Row
    <3>3. CASE FreezeRule(r)
      BY <3>1, <3>3 DEF FreezeRule
    <3>4. CASE UnfreezeRule(r)
      BY <3>1, <3>4 DEF UnfreezeRule
    <3>5. CASE ApproveRule(r)
      BY <3>1, <3>5 DEF ApproveRule
    <3>6. CASE Fires(r)
      BY <3>2, <3>6 DEF Fires
    <3>7. CASE ToggleRule(r)
      <4>1. /\ [row[r] EXCEPT !.on = ~@].tuned = row[r].tuned
            /\ [row[r] EXCEPT !.on = ~@].state = row[r].state
        BY <1>t DEF Row
      <4> QED BY <3>7, <4>1 DEF ToggleRule
    <3> QED BY <1>3, <3>3, <3>4, <3>5, <3>6, <3>7
  <2> QED BY <2>1, OneRow
<1>4. ASSUME NEW r \in Rules, NEW f \in {"tp", "fp"}, RuleFeedback(r, f)
      PROVE  KeptInv'
  <2> DEFINE x == [row[r] EXCEPT ![f] = @ + 1]
  <2>1. versions' = versions /\ row' = [row EXCEPT ![r] = x]
    BY <1>4 DEF RuleFeedback
  <2>2. x.tuned = row[r].tuned /\ x.state = row[r].state
    BY <1>t DEF Row
  <2> HIDE DEF x
  <2> QED BY <2>1, <2>2, OneRow
<1> QED BY <1>1, <1>2, <1>3, <1>4

LEMMA KeptByCommits ==
  ASSUME IInv, KeptInv, ApiCommit \/ \E c \in Critics : CriticCommit(c)
  PROVE  KeptInv'
<1>t. /\ row \in [Rules -> Row] /\ versions \in [Rules -> Seq(Version)]
      /\ pend \in [Critics -> SUBSET Pending]
  BY DEF IInv, TypeOK
<1>1. CASE ApiCommit
  <2>1. PICK r \in Rules : r = api.rule
    BY <1>1 DEF ApiCommit, IInv, TypeOK
  <2>2. /\ row'[r] = Merged(row[r], api.old, api.new) /\ row[r].state = "there"
        /\ \A q \in Rules : q # r => row'[q] = row[q] /\ versions'[q] = versions[q]
    BY <1>1, <1>t, <2>1 DEF ApiCommit, IInv, Waiting, ApiHeld
  <2>3. Kept(r)'
    BY <1>t, <2>2, StoredKept DEF KeptInv
  <2> QED BY <2>2, <2>3, StaysKept DEF KeptInv
<1>2. ASSUME NEW c \in Critics, CriticCommit(c), NEW r \in Rules
      PROVE  Kept(r)'
  <2>1. CASE versions'[r] = versions[r] /\ row'[r] = row[r]
    BY <2>1, StaysKept DEF KeptInv
  <2>2. ASSUME NEW p \in pend[c], p.rule = r, row'[r] = Merged(row[r], copy[c][r], p.new)
        PROVE  Kept(r)'
    <3>1. row[r].state = "there"
      BY <1>2, <2>2 DEF CriticCommit, Committable
    <3> QED BY <1>t, <2>2, <3>1, StoredKept DEF KeptInv
  <2> QED BY <1>2, <2>1, <2>2, CommitStores
<1> QED BY <1>1, <1>2 DEF KeptInv

(* What the seed of a restart does to a rule.                              *)
LEMMA SeedKeeps ==
  ASSUME IInv, KeptInv, Restart, NEW r \in Rules
  PROVE  /\ Kept(r)'
         /\ versions[r] # <<>> => row'[r].sev = row[r].sev /\ row'[r].cool = row[r].cool
         /\ row'[r].on = row[r].on
         /\ row[r].frozen \/ r \notin System => row'[r] = row[r]
<1>1. versions' = versions /\ row'[r] = Seeded(r, row[r]) /\ row[r] \in Row
  BY DEF Restart, IInv, TypeOK
<1>2. Kept(r) /\ row[r].state \in {"none", "there"}
  BY <1>1 DEF KeptInv, Row
<1>3. CASE r \notin System \/ row[r].frozen
  <2>1. row'[r] = row[r]
    BY <1>1, <1>2, <1>3 DEF Seeded, Kept
  <2> QED BY <1>1, <1>2, <2>1, StaysKept
<1>4. CASE r \in System /\ ~row[r].frozen
  <2>1. row[r].state = "there"
    BY <1>2, <1>4 DEF Kept
  <2>2. /\ row'[r].state = "there" /\ row'[r].on = row[r].on /\ row'[r].tuned = row[r].tuned
        /\ row[r].tuned => row'[r].sev = row[r].sev /\ row'[r].cool = row[r].cool
    BY <1>1, <1>4, <2>1 DEF Seeded, Row
  <2>3. Kept(r)'
    BY <1>1, <1>2, <2>1, <2>2, StaysKept
  <2> QED BY <1>2, <1>4, <2>2, <2>3 DEF Kept
<1> QED BY <1>3, <1>4

LEMMA KeptSteps == IInv /\ KeptInv /\ [Next]_vars => KeptInv'
<1> SUFFICES ASSUME IInv, KeptInv, [Next]_vars PROVE KeptInv'
  OBVIOUS
<1>1. ASSUME row' = row, versions' = versions
      PROVE  KeptInv'
  BY <1>1 DEF KeptInv, Kept
<1>2. CASE Restart
  BY <1>2, SeedKeeps DEF KeptInv
<1>3. ASSUME NEW c \in Critics, CriticStep(c)
      PROVE  KeptInv'
  <2>1. CASE CriticCommit(c)
    BY <2>1, KeptByCommits
  <2>2. CASE ~CriticCommit(c)
    BY <1>1, <1>3, <2>2 DEF CriticStep, CriticStart, CriticConsider, CriticKeeps,
       CriticApplies, CriticLosesRule, CriticRaises, CriticAbort
  <2> QED BY <2>1, <2>2
<1>4. CASE \/ ApiFails \/ NextDay \/ UNCHANGED vars
           \/ \E r \in Rules, by \in {"agent", "user"}, e \in Edits : UpdateRule(r, by, e)
           \/ \E r \in Rules : \E n \in Numbers(r) : RollbackRule(r, n)
  BY <1>1, <1>4 DEF ApiFails, NextDay, UpdateRule, RollbackRule, vars
<1> QED BY <1>2, <1>3, <1>4, KeptByWrites, KeptByCommits DEF Next

LEMMA KeptInitially == Init => KeptInv
<1> SUFFICES ASSUME Init, NEW r \in Rules PROVE Kept(r)
  BY DEF KeptInv
<1>1. versions[r] = <<>>
  <2>1. versions = [q \in Rules |-> <<>>]
    BY Zenon DEF Init
  <2> QED BY <2>1
<1>2. ASSUME r \in System
      PROVE  row[r].state = "there"
  <2>1. r \in DOMAIN History
    BY <1>2, ConstantsAssumption
  <2> DEFINE x == [NoRow EXCEPT !.state = "there", !.fires = History[r].fires,
                               !.tp = History[r].tp, !.fp = History[r].fp]
  <2>2. row[r] = Seeded(r, x)
    <3> DEFINE Was(q) == [NoRow EXCEPT !.state = "there", !.fires = History[q].fires,
                                       !.tp = History[q].tp, !.fp = History[q].fp]
    <3>1. row = [q \in Rules |-> IF q \notin DOMAIN History THEN NoRow ELSE Seeded(q, Was(q))]
      BY Zenon DEF Init
    <3>2. x = Was(r)
      BY Zenon
    <3> HIDE DEF x, Was
    <3> QED BY <2>1, <3>1, <3>2
  <2>3. x.state = "there" /\ x.frozen = FALSE /\ x.tuned = FALSE
    BY DEF NoRow
  <2>4. "state" \in DOMAIN x
    BY DEF NoRow
  <2> HIDE DEF x
  <2> QED BY <1>2, <2>2, <2>3, <2>4 DEF Seeded
<1> QED BY <1>1, <1>2 DEF Kept

(* A restart keeps what was tuned of a rule that has versions, every       *)
(* switch, and all of a rule that is frozen or not shipped, for any rules  *)
(* and any edits (main.py:323).                                            *)
THEOREM RestartKeeps == Spec => RestartKeepsTuning
<1>1. ASSUME IInv, KeptInv, [Next]_vars, Restarts, NEW r \in Rules
      PROVE  /\ versions[r] # <<>> => row'[r].sev = row[r].sev /\ row'[r].cool = row[r].cool
             /\ row[r].state = "there" => row'[r].on = row[r].on
             /\ row[r].frozen \/ r \notin System => row'[r] = row[r]
  <2>1. faults \in Nat /\ period \in Nat
    BY <1>1, ConstantsAssumption DEF IInv, TypeOK
  <2>2. faults' # faults
    BY <1>1, <2>1 DEF Restarts
  <2>3. Restart \/ ApiFails \/ \E c \in Critics : CriticAbort(c)
    BY <1>1, <2>2 DEF Next, CriticStep, CriticStart, CriticConsider, CriticKeeps,
       CriticApplies, CriticCommit, CriticLosesRule, CriticRaises, CreateRule, DeleteRule,
       UpdateRule, RollbackRule, ApiCommit, FreezeRule, UnfreezeRule, ApproveRule,
       ToggleRule, RuleFeedback, Fires, NextDay, Request, boundVars, vars
  <2> QED BY <1>1, <2>3, SeedKeeps DEF ApiFails, CriticAbort
<1>2. ASSUME IInv, KeptInv, [Next]_vars
      PROVE  Restarts => \A r \in Rules :
               /\ versions[r] # <<>> => row'[r].sev = row[r].sev /\ row'[r].cool = row[r].cool
               /\ row[r].state = "there" => row'[r].on = row[r].on
               /\ row[r].frozen \/ r \notin System => row'[r] = row[r]
  BY <1>1, <1>2
<1> QED BY Initially, KeptInitially, Steps, KeptSteps, <1>2, PTL DEF Spec, RestartKeepsTuning

-----------------------------------------------------------------------------
(* The daily limit.  A change counts against a period from the moment it   *)
(* is applied to a session, and its version is stored when that session    *)
(* commits: what is stored and what is in flight is together at most the   *)
(* counter, and for a past period at most what the counter can reach.      *)
InFlight(p) ==
  UNION {{<<c, q>> : q \in {x \in pend[c] : x.version.period = p}} : c \in Critics}
Asking == {c \in Critics : pc[c] = "ask"}
Bound  == MaxChanges + Cardinality(Critics) - 1
Quota(p) == IF p = period THEN changes ELSE IF p < period THEN Bound ELSE 0

Spent(p) ==
  /\ IsFiniteSet(ChangesOf(p)) /\ IsFiniteSet(InFlight(p))
  /\ Cardinality(ChangesOf(p)) + Cardinality(InFlight(p)) <= Quota(p)

BudgetInv ==
  /\ changes + Cardinality(Asking) <= Bound
  /\ \A p \in Nat : Spent(p)
  /\ api # NoCall => api.version.by # "critic"

LEMMA BoundTyped ==
  ASSUME TypeOK
  PROVE  /\ Bound \in Nat /\ MaxChanges \in Nat /\ Cardinality(Critics) \in Nat
         /\ Cardinality(Critics) >= 1 /\ changes \in Nat /\ period \in Nat
         /\ \A S \in SUBSET Critics : /\ IsFiniteSet(S) /\ Cardinality(S) \in Nat
                                     /\ Cardinality(S) <= Cardinality(Critics)
<1>1. IsFiniteSet(Critics) /\ Critics # {} /\ MaxChanges \in Nat
  BY ConstantsAssumption
<1>2. Cardinality(Critics) \in Nat /\ Cardinality(Critics) # 0
  BY <1>1, FS_CardinalityType, FS_EmptySet
<1>3. changes \in Nat /\ period \in Nat
  BY DEF TypeOK
<1>4. ASSUME NEW S \in SUBSET Critics
      PROVE  /\ IsFiniteSet(S) /\ Cardinality(S) \in Nat
             /\ Cardinality(S) <= Cardinality(Critics)
  BY <1>1, FS_Subset, FS_CardinalityType
<1> QED BY <1>1, <1>2, <1>3, <1>4 DEF Bound

LEMMA QuotaTyped ==
  ASSUME TypeOK, NEW p \in Nat
  PROVE  Quota(p) \in Nat
BY BoundTyped DEF Quota

(* Fewer changes under a quota that did not shrink.                        *)
LEMMA SpentLess ==
  ASSUME TypeOK, TypeOK', NEW p \in Nat, Spent(p),
         ChangesOf(p)' \subseteq ChangesOf(p), InFlight(p)' \subseteq InFlight(p),
         Quota(p) <= Quota(p)'
  PROVE  Spent(p)'
<1>1. /\ IsFiniteSet(ChangesOf(p)') /\ Cardinality(ChangesOf(p)') <= Cardinality(ChangesOf(p))
      /\ IsFiniteSet(InFlight(p)') /\ Cardinality(InFlight(p)') <= Cardinality(InFlight(p))
  BY FS_Subset DEF Spent
<1>2. /\ Cardinality(ChangesOf(p)) \in Nat /\ Cardinality(ChangesOf(p)') \in Nat
      /\ Cardinality(InFlight(p)) \in Nat /\ Cardinality(InFlight(p)') \in Nat
  BY <1>1, FS_CardinalityType DEF Spent
<1>3. Quota(p) \in Nat
  BY QuotaTyped
<1>4. Quota(p)' \in Nat
  <2>1. Bound \in Nat /\ Bound' = Bound
    BY BoundTyped DEF Bound
  <2>2. changes' \in Nat /\ period' \in Nat
    BY DEF TypeOK
  <2> QED BY <2>1, <2>2 DEF Quota
<1>5. Cardinality(ChangesOf(p)') + Cardinality(InFlight(p)') <= Quota(p)'
  BY <1>1, <1>2, <1>3, <1>4 DEF Spent
<1> QED BY <1>1, <1>5 DEF Spent
(* Which steps of a rule's versions, and of a critic's pending changes,    *)
(* add no change.                                                          *)
LEMMA NoMoreStored ==
  ASSUME TypeOK, NEW p,
         \A r \in Rules : \/ versions'[r] = versions[r]
                         \/ versions'[r] = <<>>
                         \/ \E v : /\ versions'[r] = Append(versions[r], v)
                                  /\ v.by # "critic"
  PROVE  ChangesOf(p)' \subseteq ChangesOf(p)
<1> SUFFICES ASSUME NEW r \in Rules, NEW i \in DOMAIN versions'[r],
                    versions'[r][i].by = "critic", versions'[r][i].period = p
             PROVE  i \in DOMAIN versions[r] /\ versions[r][i] = versions'[r][i]
  BY DEF ChangesOf
<1>1. versions[r] \in Seq(Version)
  BY DEF TypeOK
<1>2. CASE versions'[r] = versions[r]
  BY <1>2
<1>3. CASE versions'[r] = <<>>
  <2>1. DOMAIN versions'[r] = {}
    BY <1>3
  <2> QED BY <2>1
<1>4. ASSUME NEW v, versions'[r] = Append(versions[r], v), v.by # "critic"
      PROVE  i \in DOMAIN versions[r] /\ versions[r][i] = versions'[r][i]
  <2>1. /\ DOMAIN versions'[r] = 1..(Len(versions[r]) + 1) /\ Len(versions[r]) \in Nat
        /\ DOMAIN versions[r] = 1..Len(versions[r])
        /\ versions'[r][Len(versions[r]) + 1] = v
        /\ \A j \in 1..Len(versions[r]) : versions'[r][j] = versions[r][j]
    BY <1>1, <1>4
  <2>2. i # Len(versions[r]) + 1
    BY <1>4, <2>1
  <2> QED BY <2>1, <2>2
<1> QED BY <1>2, <1>3, <1>4

LEMMA FlyingMembers ==
  ASSUME NEW p
  PROVE  /\ \A z : z \in InFlight(p) <=>
                \E d \in Critics : \E x \in pend[d] : x.version.period = p /\ z = <<d, x>>
         /\ \A z : z \in InFlight(p)' <=>
                \E d \in Critics : \E x \in pend'[d] : x.version.period = p /\ z = <<d, x>>
BY DEF InFlight

LEMMA StillFlying ==
  ASSUME NEW p, \A d \in Critics : pend[d] \subseteq pend'[d], NEW z \in InFlight(p)
  PROVE  z \in InFlight(p)'
<1>1. PICK d \in Critics : \E x \in pend[d] : x.version.period = p /\ z = <<d, x>>
  BY FlyingMembers
<1>2. PICK x \in pend[d] : x.version.period = p /\ z = <<d, x>>
  BY <1>1
<1>3. x \in pend'[d]
  OBVIOUS
<1> QED BY <1>2, <1>3, FlyingMembers

LEMMA NoMoreInFlight ==
  ASSUME NEW p, \A c \in Critics : pend'[c] \subseteq pend[c]
  PROVE  InFlight(p)' \subseteq InFlight(p)
BY DEF InFlight

(* Such steps keep the budget as long as nobody new asks and the counter   *)
(* stays.                                                                  *)
LEMMA BudgetStays ==
  ASSUME IInv, IInv', BudgetInv, UNCHANGED <<changes, period>>,
         \A c \in Critics : pc'[c] = "ask" => pc[c] = "ask",
         \A c \in Critics : pend'[c] \subseteq pend[c],
         \A r \in Rules : \/ versions'[r] = versions[r]
                         \/ versions'[r] = <<>>
                         \/ \E v : /\ versions'[r] = Append(versions[r], v)
                                  /\ v.by # "critic",
         api' # NoCall => api'.version.by # "critic"
  PROVE  BudgetInv'
<1>t. TypeOK /\ TypeOK'
  BY DEF IInv
<1>1. changes' + Cardinality(Asking') <= Bound
  <2>1. Asking' \in SUBSET Asking /\ Asking \in SUBSET Critics /\ Asking' \in SUBSET Critics
    BY DEF Asking
  <2>2. /\ IsFiniteSet(Asking) /\ Cardinality(Asking) \in Nat /\ Cardinality(Asking') \in Nat
        /\ changes \in Nat /\ Bound \in Nat
    BY <1>t, <2>1, BoundTyped
  <2>3. Cardinality(Asking') <= Cardinality(Asking)
    BY <2>1, <2>2, FS_Subset
  <2> QED BY <2>2, <2>3 DEF BudgetInv
<1>2. ASSUME NEW p \in Nat
      PROVE  Spent(p)'
  <2>1. Quota(p) \in Nat /\ Quota(p)' = Quota(p)
    BY <1>t, QuotaTyped DEF Quota, Bound
  <2>2. Quota(p) <= Quota(p)'
    BY <2>1
  <2>3. ChangesOf(p)' \subseteq ChangesOf(p)
    BY <1>t, NoMoreStored
  <2>4. InFlight(p)' \subseteq InFlight(p)
    BY NoMoreInFlight
  <2>5. Spent(p)
    BY DEF BudgetInv
  <2> QED BY <1>t, <2>2, <2>3, <2>4, <2>5, SpentLess
<1>3. Bound' = Bound
  BY DEF Bound
<1> QED BY <1>1, <1>2, <1>3 DEF BudgetInv

(* Reading the rules, perhaps with a new period.                           *)
LEMMA BudgetOfStart ==
  ASSUME IInv, IInv', BudgetInv, NEW c \in Critics, CriticStart(c)
  PROVE  BudgetInv'
<1>t. TypeOK /\ TypeOK'
  BY DEF IInv
<1>1. /\ pc[c] = "idle" /\ pc' = [pc EXCEPT ![c] = "pick"]
      /\ UNCHANGED <<versions, pend, api>>
      /\ UNCHANGED dayVars \/ (changes' = 0 /\ period' = period + 1)
  BY DEF CriticStart, StartDay
<1>2. CASE UNCHANGED dayVars
  <2>1. \A d \in Critics : pc'[d] = "ask" => pc[d] = "ask"
    BY <1>1, <1>t DEF TypeOK
  <2>2. UNCHANGED <<changes, period>>
    BY <1>2 DEF dayVars
  <2>3. api' # NoCall => api'.version.by # "critic"
    BY <1>1 DEF BudgetInv
  <2> QED BY <1>1, <2>1, <2>2, <2>3, BudgetStays
<1>3. CASE changes' = 0 /\ period' = period + 1
  <2>1. 0 + Cardinality(Asking') <= Bound
    <3>1. Asking' \in SUBSET (Critics \ {c})
      BY <1>1, <1>t DEF Asking, TypeOK
    <3>2. IsFiniteSet(Critics)
      BY ConstantsAssumption
    <3>3. /\ IsFiniteSet(Critics \ {c})
          /\ Cardinality(Critics \ {c}) = Cardinality(Critics) - 1
      BY <3>2, FS_RemoveElement
    <3>4. Cardinality(Asking') <= Cardinality(Critics) - 1 /\ Cardinality(Asking') \in Nat
      BY <3>1, <3>3, FS_Subset, FS_CardinalityType
    <3> QED BY <3>4, <1>t, BoundTyped DEF Bound
  <2>2. ASSUME NEW p \in Nat
        PROVE  Spent(p)'
    <3>1. ChangesOf(p)' = ChangesOf(p) /\ InFlight(p)' = InFlight(p)
      BY <1>1 DEF ChangesOf, InFlight
    <3>2. Quota(p) <= Quota(p)'
      <4>1. Cardinality(Asking) \in Nat
        BY <1>t, BoundTyped DEF Asking
      <4>2. changes <= Bound /\ Bound \in Nat /\ changes \in Nat /\ period \in Nat
        BY <1>t, <4>1, BoundTyped DEF BudgetInv
      <4>3. Quota(p)' = IF p = period + 1 THEN 0 ELSE IF p < period + 1 THEN Bound ELSE 0
        BY <1>3 DEF Quota, Bound
      <4> QED BY <4>2, <4>3 DEF Quota
    <3>3. Spent(p)
      BY DEF BudgetInv
    <3> QED BY <1>t, <3>1, <3>2, <3>3, SpentLess
  <2> QED BY <1>1, <1>3, <2>1, <2>2 DEF BudgetInv, Bound
<1> QED BY <1>1, <1>2, <1>3

(* A critic asks only below the limit, so all together ask for at most one *)
(* change each more than is left.                                          *)
LEMMA BudgetOfAsking ==
  ASSUME IInv, IInv', BudgetInv, NEW c \in Critics, NEW r \in Rules, CriticConsider(c, r)
  PROVE  BudgetInv'
<1>t. TypeOK /\ TypeOK'
  BY DEF IInv
<1>1. /\ pc[c] = "pick" /\ UNCHANGED <<versions, pend, api, changes, period>>
      /\ pc' = pc \/ pc' = [pc EXCEPT ![c] = IF LimitReached THEN "commit" ELSE "ask"]
  BY DEF CriticConsider, Skip, dayVars
<1>2. api' # NoCall => api'.version.by # "critic"
  BY <1>1 DEF BudgetInv
<1>3. CASE pc' = pc \/ LimitReached
  <2>1. \A d \in Critics : pc'[d] = "ask" => pc[d] = "ask"
    BY <1>1, <1>3, <1>t DEF TypeOK
  <2> QED BY <1>1, <1>2, <2>1, BudgetStays
<1>4. CASE ~LimitReached
  <2>1. changes' + Cardinality(Asking') <= Bound'
    <3>1. Asking' \in SUBSET Critics
      BY DEF Asking
    <3>2. /\ Cardinality(Asking') \in Nat /\ Cardinality(Asking') <= Cardinality(Critics)
          /\ Cardinality(Critics) \in Nat /\ changes \in Nat /\ MaxChanges \in Nat
      BY <1>t, <3>1, BoundTyped
    <3>3. changes + 1 <= MaxChanges
      BY <1>4, <3>2 DEF LimitReached
    <3> QED BY <1>1, <3>2, <3>3 DEF Bound
  <2>2. ASSUME NEW p \in Nat
        PROVE  Spent(p)'
    <3>1. ChangesOf(p)' = ChangesOf(p) /\ InFlight(p)' = InFlight(p) /\ Quota(p)' = Quota(p)
      BY <1>1 DEF ChangesOf, InFlight, Quota, Bound
    <3> QED BY <3>1 DEF BudgetInv, Spent
  <2> QED BY <1>2, <2>1, <2>2 DEF BudgetInv
<1> QED BY <1>3, <1>4

(* Applying a change counts it and puts it in flight.                      *)
LEMMA BudgetOfChange ==
  ASSUME IInv, IInv', BudgetInv, NEW c \in Critics, NEW a \in Decisions, CriticApplies(c, a)
  PROVE  BudgetInv'
<1>t. TypeOK /\ TypeOK'
  BY DEF IInv
<1> DEFINE q == [rule |-> cur[c], new |-> Changed(a, copy[c][cur[c]]),
                 version |-> Snapshot(cur[c], copy[c][cur[c]], "critic")]
<1>1. /\ pc[c] = "ask" /\ pc' = [pc EXCEPT ![c] = "pick"]
      /\ UNCHANGED <<versions, api, period>> /\ changes' = changes + 1
      /\ pend' = [pend EXCEPT ![c] = @ \cup {q}]
  BY DEF CriticApplies
<1>2. q.version.period = period
  BY DEF Snapshot
<1> HIDE DEF q
<1>3. changes' + Cardinality(Asking') <= Bound'
  <2>1. Asking' = Asking \ {c} /\ c \in Asking /\ Asking \in SUBSET Critics
    BY <1>1, <1>t DEF Asking, TypeOK
  <2>2. IsFiniteSet(Asking) /\ Cardinality(Asking) \in Nat /\ changes \in Nat /\ Bound \in Nat
    BY <1>t, <2>1, BoundTyped
  <2>3. Cardinality(Asking') = Cardinality(Asking) - 1
    BY <2>1, <2>2, FS_RemoveElement
  <2> QED BY <1>1, <2>2, <2>3 DEF BudgetInv, Bound
<1>4. ASSUME NEW p \in Nat
      PROVE  Spent(p)'
  <2>1. ChangesOf(p)' = ChangesOf(p)
    BY <1>1 DEF ChangesOf
  <2>2. Spent(p)
    BY DEF BudgetInv
  <2>3. \A d \in Critics : pend'[d] = IF d = c THEN pend[d] \cup {q} ELSE pend[d]
    BY <1>1, <1>t DEF TypeOK
  <2>4. CASE p = period
    <3>1. InFlight(p)' = InFlight(p) \cup {<<c, q>>}
      <4>1. ASSUME NEW z \in InFlight(p)'
            PROVE  z \in InFlight(p) \cup {<<c, q>>}
        <5>1. PICK d \in Critics : \E x \in pend'[d] : x.version.period = p /\ z = <<d, x>>
          BY FlyingMembers
        <5>2. PICK x \in pend'[d] : x.version.period = p /\ z = <<d, x>>
          BY <5>1
        <5>3. x \in pend[d] \/ (d = c /\ x = q)
          BY <2>3
        <5> QED BY <5>2, <5>3, FlyingMembers
      <4>2. ASSUME NEW z \in InFlight(p)
            PROVE  z \in InFlight(p)'
        BY <2>3, StillFlying
      <4>3. q \in pend'[c] /\ q.version.period = p
        BY <1>2, <2>3, <2>4
      <4>4. <<c, q>> \in InFlight(p)'
        BY <4>3, FlyingMembers
      <4> QED BY <4>1, <4>2, <4>4
    <3>2. /\ IsFiniteSet(InFlight(p)')
          /\ Cardinality(InFlight(p)') \in {Cardinality(InFlight(p)), Cardinality(InFlight(p)) + 1}
      BY <2>2, <3>1, FS_AddElement DEF Spent
    <3>3. /\ Cardinality(ChangesOf(p)) \in Nat /\ Cardinality(InFlight(p)) \in Nat
          /\ changes \in Nat
      BY <1>t, <2>2, BoundTyped, FS_CardinalityType DEF Spent
    <3>4. Cardinality(ChangesOf(p)) + Cardinality(InFlight(p)) <= changes
      BY <2>2, <2>4 DEF Spent, Quota
    <3>5. Quota(p)' = changes + 1
      BY <1>1, <2>4 DEF Quota
    <3>6. Cardinality(ChangesOf(p)) + Cardinality(InFlight(p)') <= changes + 1
      BY <3>2, <3>3, <3>4
    <3> QED BY <2>1, <2>2, <3>2, <3>5, <3>6 DEF Spent
  <2>5. CASE p # period
    <3>1. InFlight(p)' = InFlight(p)
      <4>1. ASSUME NEW z \in InFlight(p)'
            PROVE  z \in InFlight(p)
        <5>1. PICK d \in Critics : \E x \in pend'[d] : x.version.period = p /\ z = <<d, x>>
          BY FlyingMembers
        <5>2. PICK x \in pend'[d] : x.version.period = p /\ z = <<d, x>>
          BY <5>1
        <5>3. x \in pend[d]
          BY <1>2, <2>3, <2>5, <5>2
        <5> QED BY <5>2, <5>3, FlyingMembers
      <4>2. ASSUME NEW z \in InFlight(p)
            PROVE  z \in InFlight(p)'
        BY <2>3, StillFlying
      <4> QED BY <4>1, <4>2
    <3>2. Quota(p)' = Quota(p)
      BY <1>1, <2>5 DEF Quota, Bound
    <3> QED BY <2>1, <2>2, <3>1, <3>2 DEF Spent
  <2> QED BY <2>4, <2>5
<1>5. api' # NoCall => api'.version.by # "critic"
  BY <1>1 DEF BudgetInv
<1> QED BY <1>3, <1>4, <1>5 DEF BudgetInv
(* A commit stores for each rule at most one of the changes it takes out   *)
(* of flight, with that change's period.                                   *)
LEMMA StoredMembers ==
  ASSUME NEW p
  PROVE  /\ \A z : z \in ChangesOf(p) <=>
                \E r \in Rules : \E i \in DOMAIN versions[r] :
                  /\ versions[r][i].by = "critic" /\ versions[r][i].period = p
                  /\ z = <<r, i>>
         /\ \A z : z \in ChangesOf(p)' <=>
                \E r \in Rules : \E i \in DOMAIN versions'[r] :
                  /\ versions'[r][i].by = "critic" /\ versions'[r][i].period = p
                  /\ z = <<r, i>>
BY DEF ChangesOf

LEMMA CommitMoves ==
  ASSUME IInv, NEW c \in Critics, CriticCommit(c), NEW p,
         NEW z \in ChangesOf(p)' \ ChangesOf(p)
  PROVE  \E r \in Rules : \E q \in pend[c] :
           /\ z = <<r, Len(versions[r]) + 1>> /\ q.rule = r /\ q.version.period = p
<1>1. PICK r \in Rules : \E i \in DOMAIN versions'[r] :
        /\ versions'[r][i].by = "critic" /\ versions'[r][i].period = p
        /\ z = <<r, i>>
  BY StoredMembers
<1>2. PICK i \in DOMAIN versions'[r] :
        versions'[r][i].by = "critic" /\ versions'[r][i].period = p /\ z = <<r, i>>
  BY <1>1
<1>3. ~(i \in DOMAIN versions[r] /\ versions[r][i] = versions'[r][i])
  <2> SUFFICES ASSUME i \in DOMAIN versions[r], versions[r][i] = versions'[r][i]
               PROVE  FALSE
    OBVIOUS
  <2>1. z \in ChangesOf(p)
    BY <1>2, StoredMembers
  <2> QED BY <2>1
<1>4. versions'[r] # versions[r]
  BY <1>2, <1>3
<1>5. PICK q \in pend[c] : q.rule = r /\ versions'[r] = Append(versions[r], q.version)
  <2>1. \/ versions'[r] = versions[r] /\ row'[r] = row[r]
        \/ \E q \in pend[c] :
             /\ q.rule = r /\ q \in Pending /\ Fits(q.version, r) /\ row[r].state = "there"
             /\ versions'[r] = Append(versions[r], q.version)
             /\ q.new.on \in {FALSE, copy[c][r].on}
             /\ row'[r] = Merged(row[r], copy[c][r], q.new)
    BY CommitStores
  <2> QED BY <1>4, <2>1
<1>6. versions[r] \in Seq(Version)
  BY DEF IInv, TypeOK
<1>7. /\ DOMAIN versions'[r] = 1..(Len(versions[r]) + 1) /\ Len(versions[r]) \in Nat
      /\ DOMAIN versions[r] = 1..Len(versions[r])
      /\ versions'[r][Len(versions[r]) + 1] = q.version
      /\ \A j \in 1..Len(versions[r]) : versions'[r][j] = versions[r][j]
  BY <1>5, <1>6
<1>8. i = Len(versions[r]) + 1
  BY <1>3, <1>7
<1> QED BY <1>2, <1>5, <1>7, <1>8

LEMMA CommitPays ==
  ASSUME IInv, IInv', NEW c \in Critics, CriticCommit(c), NEW p \in Nat, Spent(p)
  PROVE  /\ IsFiniteSet(ChangesOf(p)') /\ IsFiniteSet(InFlight(p)')
         /\ Cardinality(ChangesOf(p)') + Cardinality(InFlight(p)')
              <= Cardinality(ChangesOf(p)) + Cardinality(InFlight(p))
<1> DEFINE New  == ChangesOf(p)' \ ChangesOf(p)
           Paid == {z \in InFlight(p) : z[1] = c}
           From(z) == CHOOSE q \in pend[c] : q.rule = z[1] /\ q.version.period = p
           f == [z \in New |-> <<c, From(z)>>]
<1>1. ASSUME NEW z \in New
      PROVE  /\ From(z) \in pend[c] /\ From(z).rule = z[1] /\ From(z).version.period = p
             /\ z[1] \in Rules /\ z = <<z[1], Len(versions[z[1]]) + 1>>
  <2>1. PICK r \in Rules : \E q \in pend[c] :
           z = <<r, Len(versions[r]) + 1>> /\ q.rule = r /\ q.version.period = p
    BY CommitMoves
  <2>2. z[1] = r /\ \E q \in pend[c] : q.rule = z[1] /\ q.version.period = p
    BY <2>1
  <2> QED BY <2>1, <2>2
<1>2. f \in [New -> Paid]
  <2>1. ASSUME NEW z \in New
        PROVE  <<c, From(z)>> \in Paid
    <3>1. From(z) \in pend[c] /\ From(z).version.period = p
      BY <1>1
    <3> HIDE DEF New, From
    <3>2. <<c, From(z)>> \in InFlight(p)
      BY <3>1, FlyingMembers
    <3> QED BY <3>2
  <2> HIDE DEF New, Paid, From
  <2> QED BY <2>1
<1>3. f \in Injection(New, Paid)
  <2>1. ASSUME NEW x \in New, NEW y \in New, f[x] = f[y]
        PROVE  x = y
    <3> HIDE DEF New, From
    <3>1. f[x] = <<c, From(x)>> /\ f[y] = <<c, From(y)>>
      OBVIOUS
    <3>0. From(x) = From(y)
      <4>1. PICK u, v : u = From(x) /\ v = From(y)
        OBVIOUS
      <4>2. <<c, u>> = <<c, v>>
        BY <2>1, <3>1, <4>1
      <4> QED BY <4>1, <4>2
    <3>2. x[1] = y[1]
      BY <1>1, <3>0
    <3> QED BY <1>1, <3>2
  <2> HIDE DEF New, Paid, f
  <2> QED BY <1>2, <2>1 DEF Injection, IsInjective
<1>4. IsFiniteSet(InFlight(p)) /\ IsFiniteSet(ChangesOf(p)) /\ IsFiniteSet(Paid)
  <2>1. Paid \in SUBSET InFlight(p)
    OBVIOUS
  <2> HIDE DEF Paid
  <2> QED BY <2>1, FS_Subset DEF Spent
<1>5. IsFiniteSet(New) /\ Cardinality(New) <= Cardinality(Paid)
  <2> HIDE DEF New, Paid, f
  <2> QED BY <1>3, <1>4, FS_Injection
<1>6. InFlight(p)' = InFlight(p) \ Paid
  <2>1. pend' = [pend EXCEPT ![c] = {}] /\ pend \in [Critics -> SUBSET Pending]
    BY DEF CriticCommit, Stop, IInv, TypeOK
  <2>2. \A d \in Critics : pend'[d] = IF d = c THEN {} ELSE pend[d]
    BY <2>1
  <2>3. \A z : z \in InFlight(p)' => z \in InFlight(p) /\ z[1] # c
    BY <2>2, FlyingMembers
  <2>4. \A z : z \in InFlight(p) /\ z[1] # c => z \in InFlight(p)'
    BY <2>2, FlyingMembers
  <2> QED BY <2>3, <2>4
<1> HIDE DEF New, Paid, f
<1>7. /\ IsFiniteSet(InFlight(p)')
      /\ Cardinality(InFlight(p)') = Cardinality(InFlight(p)) - Cardinality(InFlight(p) \cap Paid)
  BY <1>4, <1>6, FS_Difference
<1>8. InFlight(p) \cap Paid = Paid
  BY DEF Paid
<1>9. ChangesOf(p)' \subseteq ChangesOf(p) \cup New
  BY DEF New
<1>10. IsFiniteSet(ChangesOf(p) \cup New)
       /\ Cardinality(ChangesOf(p) \cup New) = Cardinality(ChangesOf(p)) + Cardinality(New)
  <2>1. ChangesOf(p) \cap New = {}
    BY DEF New
  <2>2. /\ IsFiniteSet(ChangesOf(p) \cup New)
        /\ Cardinality(ChangesOf(p) \cup New)
             = Cardinality(ChangesOf(p)) + Cardinality(New) - Cardinality(ChangesOf(p) \cap New)
    BY <1>4, <1>5, FS_Union
  <2>3. Cardinality(ChangesOf(p)) \in Nat /\ Cardinality(New) \in Nat
    BY <1>4, <1>5, FS_CardinalityType
  <2>4. Cardinality(ChangesOf(p) \cap New) = 0
    BY <2>1, FS_EmptySet
  <2> QED BY <2>2, <2>3, <2>4
<1>11. IsFiniteSet(ChangesOf(p)')
       /\ Cardinality(ChangesOf(p)') <= Cardinality(ChangesOf(p)) + Cardinality(New)
  <2>1. ChangesOf(p)' \in SUBSET (ChangesOf(p) \cup New)
    BY <1>9
  <2> QED BY <1>10, <2>1, FS_Subset
<1>12. /\ Cardinality(ChangesOf(p)) \in Nat /\ Cardinality(New) \in Nat
       /\ Cardinality(ChangesOf(p)') \in Nat /\ Cardinality(InFlight(p)) \in Nat
       /\ Cardinality(Paid) \in Nat
  BY <1>4, <1>5, <1>11, FS_CardinalityType
<1>13. Cardinality(InFlight(p)') = Cardinality(InFlight(p)) - Cardinality(Paid)
  BY <1>7, <1>8
<1> QED BY <1>5, <1>7, <1>11, <1>12, <1>13

LEMMA BudgetOfCommit ==
  ASSUME IInv, IInv', BudgetInv, NEW c \in Critics, CriticCommit(c)
  PROVE  BudgetInv'
<1>t. TypeOK /\ TypeOK'
  BY DEF IInv
<1>1. /\ pc' = [pc EXCEPT ![c] = "idle"] /\ pc[c] # "ask"
      /\ UNCHANGED <<api, changes, period>>
  BY DEF CriticCommit, Stop, AllConsidered, dayVars
<1>2. Asking' = Asking
  BY <1>1, <1>t DEF Asking, TypeOK
<1>3. ASSUME NEW p \in Nat
      PROVE  Spent(p)'
  <2>1. Spent(p) /\ Quota(p)' = Quota(p) /\ Quota(p) \in Nat
    BY <1>1, <1>t, QuotaTyped DEF BudgetInv, Quota, Bound
  <2>2. /\ IsFiniteSet(ChangesOf(p)') /\ IsFiniteSet(InFlight(p)')
        /\ Cardinality(ChangesOf(p)') + Cardinality(InFlight(p)')
              <= Cardinality(ChangesOf(p)) + Cardinality(InFlight(p))
    BY <2>1, CommitPays
  <2>3. /\ Cardinality(ChangesOf(p)) \in Nat /\ Cardinality(InFlight(p)) \in Nat
        /\ Cardinality(ChangesOf(p)') \in Nat /\ Cardinality(InFlight(p)') \in Nat
    BY <2>1, <2>2, FS_CardinalityType DEF Spent
  <2>4. Cardinality(ChangesOf(p)') + Cardinality(InFlight(p)') <= Quota(p)
    BY <2>1, <2>2, <2>3 DEF Spent
  <2> QED BY <2>1, <2>2, <2>4 DEF Spent
<1> QED BY <1>1, <1>2, <1>3 DEF BudgetInv, Bound

LEMMA BudgetOfRestart ==
  ASSUME IInv, IInv', BudgetInv, Restart
  PROVE  BudgetInv'
<1>t. TypeOK /\ TypeOK'
  BY DEF IInv
<1>1. /\ pc' = [c \in Critics |-> "idle"] /\ pend' = [c \in Critics |-> {}]
      /\ versions' = versions /\ changes' = 0 /\ period' = period + 1 /\ api' = NoCall
  BY DEF Restart
<1>2. changes' + Cardinality(Asking') <= Bound'
  <2>1. Asking' = {}
    BY <1>1 DEF Asking
  <2>2. Cardinality({}) = 0
    BY FS_EmptySet
  <2>3. changes' + Cardinality(Asking') = 0
    BY <1>1, <2>1, <2>2
  <2> QED BY <1>t, <2>3, BoundTyped DEF Bound
<1>3. ASSUME NEW p \in Nat
      PROVE  Spent(p)'
  <2>1. ChangesOf(p)' = ChangesOf(p)
    BY <1>1 DEF ChangesOf
  <2>2. \A c \in Critics : pend'[c] \subseteq pend[c]
    BY <1>1
  <2>3. InFlight(p)' \subseteq InFlight(p)
    BY <2>2, NoMoreInFlight
  <2>4. Quota(p) <= Quota(p)'
    <3>1. Cardinality(Asking) \in Nat
      BY <1>t, BoundTyped DEF Asking
    <3>2. changes <= Bound /\ Bound \in Nat /\ changes \in Nat /\ period \in Nat
      BY <1>t, <3>1, BoundTyped DEF BudgetInv
    <3>3. Quota(p)' = IF p = period + 1 THEN 0 ELSE IF p < period + 1 THEN Bound ELSE 0
      BY <1>1 DEF Quota, Bound
    <3> QED BY <3>2, <3>3 DEF Quota
  <2>5. Spent(p)
    BY DEF BudgetInv
  <2> QED BY <1>t, <2>1, <2>3, <2>4, <2>5, SpentLess
<1> QED BY <1>1, <1>2, <1>3 DEF BudgetInv

LEMMA BudgetInitially == Init => BudgetInv
<1> SUFFICES ASSUME Init PROVE BudgetInv
  OBVIOUS
<1>t. TypeOK
  BY Initially DEF IInv
<1>1. /\ pc = [c \in Critics |-> "idle"] /\ pend = [c \in Critics |-> {}]
      /\ versions = [r \in Rules |-> <<>>] /\ changes = 0 /\ api = NoCall
  BY Zenon DEF Init
<1>2. changes + Cardinality(Asking) <= Bound
  <2>1. Asking = {}
    BY <1>1 DEF Asking
  <2>2. Cardinality({}) = 0
    BY FS_EmptySet
  <2>3. changes + Cardinality(Asking) = 0
    BY <1>1, <2>1, <2>2
  <2> QED BY <1>t, <2>3, BoundTyped
<1>3. ASSUME NEW p \in Nat
      PROVE  Spent(p)
  <2>1. \A r \in Rules : DOMAIN versions[r] = {}
    BY <1>1
  <2>2. ChangesOf(p) = {} /\ InFlight(p) = {}
    <3>1. \A z : z \notin ChangesOf(p)
      BY <2>1, StoredMembers
    <3>2. \A z : z \notin InFlight(p)
      BY <1>1, FlyingMembers
    <3> QED BY <3>1, <3>2
  <2>3. Cardinality({}) = 0 /\ IsFiniteSet({})
    BY FS_EmptySet
  <2>4. Cardinality(ChangesOf(p)) + Cardinality(InFlight(p)) = 0
    BY <2>2, <2>3
  <2>5. Quota(p) \in Nat
    BY <1>t, QuotaTyped
  <2> QED BY <2>2, <2>3, <2>4, <2>5 DEF Spent
<1> QED BY <1>1, <1>2, <1>3 DEF BudgetInv

LEMMA BudgetSteps == IInv /\ IInv' /\ BudgetInv /\ [Next]_vars => BudgetInv'
<1> SUFFICES ASSUME IInv, IInv', BudgetInv, [Next]_vars PROVE BudgetInv'
  OBVIOUS
<1>t. TypeOK
  BY DEF IInv
<1>a. api # NoCall => api.version.by # "critic"
  BY DEF BudgetInv
<1>1. ASSUME NEW c \in Critics,
             CriticKeeps(c) \/ CriticLosesRule(c) \/ (\E r \in Rules : CriticRaises(c, r))
               \/ CriticAbort(c)
      PROVE  BudgetInv'
  <2>1. /\ UNCHANGED <<versions, changes, period, api>>
        /\ \/ pend' = pend \/ pend' = [pend EXCEPT ![c] = {}]
        /\ \E l \in {"idle", "pick"} : pc' = [pc EXCEPT ![c] = l]
    BY <1>1 DEF CriticKeeps, CriticLosesRule, CriticRaises, CriticAbort, Stop, dayVars
  <2>2. \A d \in Critics : pc'[d] = "ask" => pc[d] = "ask"
    BY <1>t, <2>1 DEF TypeOK
  <2>3. \A d \in Critics : pend'[d] \subseteq pend[d]
    BY <1>t, <2>1 DEF TypeOK
  <2> QED BY <1>a, <2>1, <2>2, <2>3, BudgetStays
<1>2. ASSUME UNCHANGED <<pc, pend, changes, period>>, UNCHANGED versions,
             api' = NoCall \/ api' = api \/ api'.version.by # "critic"
      PROVE  BudgetInv'
  BY <1>2, <1>a, BudgetStays
<1>3. ASSUME NEW r \in Rules,
             \/ \E by \in {"agent", "user"}, e \in Edits : UpdateRule(r, by, e)
             \/ \E n \in Numbers(r) : RollbackRule(r, n)
      PROVE  BudgetInv'
  <2>1. \E by \in {"agent", "user"} : api'.version = Snapshot(r, row[r], by)
    <3>1. ASSUME NEW by \in {"agent", "user"}, NEW e \in Edits, UpdateRule(r, by, e)
          PROVE  api'.version = Snapshot(r, row[r], by)
      BY <3>1 DEF UpdateRule
    <3>2. ASSUME NEW n \in Numbers(r), RollbackRule(r, n)
          PROVE  api'.version = Snapshot(r, row[r], "user")
      <4>1. \E new : api' = [rule |-> r, by |-> "user", old |-> row[r], new |-> new,
                             version |-> Snapshot(r, row[r], "user")]
        BY <3>2 DEF RollbackRule
      <4> QED BY <4>1
    <3> QED BY <1>3, <3>1, <3>2
  <2>2. api'.version.by # "critic"
    BY <2>1 DEF Snapshot
  <2>3. UNCHANGED <<pc, pend, changes, period>> /\ UNCHANGED versions
    BY <1>3 DEF UpdateRule, RollbackRule, Request, CriticsKeep, dayVars
  <2> QED BY <1>2, <2>2, <2>3
<1>4. ASSUME NEW r \in Rules, DeleteRule(r)
      PROVE  BudgetInv'
  <2>1. /\ versions' = [versions EXCEPT ![r] = <<>>]
        /\ UNCHANGED <<pc, pend, changes, period, api>>
    BY <1>4 DEF DeleteRule, Request, CriticsKeep, dayVars
  <2>2. \A q \in Rules : versions'[q] = versions[q] \/ versions'[q] = <<>>
    BY <1>t, <2>1 DEF TypeOK
  <2> QED BY <1>a, <2>1, <2>2, BudgetStays
<1>5. CASE ApiCommit
  <2>1. /\ versions' = [versions EXCEPT ![api.rule] = Append(@, api.version)]
        /\ api # NoCall /\ api' = NoCall /\ api.rule \in Rules
        /\ UNCHANGED <<pc, pend, changes, period>>
    BY <1>5, <1>t DEF ApiCommit, TypeOK, criticVars, dayVars
  <2>2. \A q \in Rules : \/ versions'[q] = versions[q]
                         \/ \E v : /\ versions'[q] = Append(versions[q], v)
                                  /\ v.by # "critic"
    BY <1>a, <1>t, <2>1 DEF TypeOK
  <2> QED BY <2>1, <2>2, BudgetStays
<1>6. ASSUME \/ \E r \in Rules, by \in {"agent", "user"} : CreateRule(r, by)
             \/ \E r \in Rules : \/ FreezeRule(r) \/ UnfreezeRule(r) \/ ApproveRule(r)
                               \/ ToggleRule(r) \/ Fires(r)
             \/ \E r \in Rules, f \in {"tp", "fp"} : RuleFeedback(r, f)
             \/ ApiFails \/ NextDay \/ UNCHANGED vars
      PROVE  BudgetInv'
  <2>1. /\ UNCHANGED <<pc, pend, changes, period>> /\ UNCHANGED versions
        /\ api' = NoCall \/ api' = api
    BY <1>6 DEF CreateRule, FreezeRule, UnfreezeRule, ApproveRule, ToggleRule, Fires, RuleFeedback,
       ApiFails, NextDay, Request, CriticsKeep, criticVars, dayVars, vars
  <2> QED BY <1>2, <2>1
<1>7. ASSUME NEW c \in Critics, CriticStep(c)
      PROVE  BudgetInv'
  BY <1>1, <1>7, BudgetOfStart, BudgetOfAsking, BudgetOfChange, BudgetOfCommit DEF CriticStep
<1> QED BY <1>3, <1>4, <1>5, <1>6, <1>7, BudgetOfRestart DEF Next

(* The limit of a day holds up to one change per further thread, for any   *)
(* number of threads and rules (orchestrator.py:492-497, 559, 620).        *)
THEOREM DailyLimit == Spec => []DailyChangesBounded
<1>1. ASSUME IInv, BudgetInv
      PROVE  DailyChangesBounded
  <2>t. TypeOK
    BY <1>1 DEF IInv
  <2> SUFFICES ASSUME NEW p \in 1..period PROVE Cardinality(ChangesOf(p)) <= Bound
    BY DEF DailyChangesBounded, Bound
  <2>1. p \in Nat /\ p <= period
    BY <2>t, BoundTyped
  <2>2. Spent(p)
    BY <1>1, <2>1 DEF BudgetInv
  <2>3. Cardinality(ChangesOf(p)) \in Nat /\ Cardinality(InFlight(p)) \in Nat
    BY <2>2, FS_CardinalityType DEF Spent
  <2>4. Cardinality(Asking) \in Nat
    BY <2>t, BoundTyped DEF Asking
  <2>5. changes <= Bound /\ Bound \in Nat /\ changes \in Nat /\ period \in Nat
    BY <1>1, <2>t, <2>4, BoundTyped DEF BudgetInv
  <2>6. Quota(p) <= Bound /\ Quota(p) \in Nat
    BY <2>1, <2>5 DEF Quota
  <2> QED BY <2>2, <2>3, <2>5, <2>6 DEF Spent
<1>2. IInv /\ BudgetInv => DailyChangesBounded
  BY <1>1
<1> QED BY Initially, BudgetInitially, Steps, BudgetSteps, <1>2, PTL DEF Spec
=============================================================================
