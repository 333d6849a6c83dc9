---------------------------- MODULE Stores_proofs ----------------------------
(***************************************************************************)
(* Proofs about what is stored for long: device records, findings and      *)
(* their archive, settings; for any devices, findings, keys and values,    *)
(* and any interleaving of the sessions that write them.                   *)
(***************************************************************************)
EXTENDS Devices, Records, Settings, TLAPS, FiniteSetTheorems, WellFoundedInduction

(* Device records.                                                         *)
(* What a user entered is in the row, and whoever else wrote the row left  *)
(* the user or the actor as its last author; a session that is not         *)
(* outdated has read it so, and the actor does not hold a device for       *)
(* unclassified whose type it could have seen.                             *)
EntriesKept ==
  \A m \in Macs : \A c \in edited[m] :
    c \in {"type", "role"} /\ device[m][c] # "" /\ device[m].by \notin {"", "system"}
ReportersSaw ==
  \A t \in Reporters : reading[t] # <<>> =>
    LET r == reading[t][1] IN
    t \notin outdated[r.mac] =>
      \A c \in edited[r.mac] : r.row[c] # "" /\ r.row.by \notin {"", "system"}
ActorSaw ==
  \A m \in classifying : Agent \notin outdated[m] => "type" \notin edited[m]

DevicesInv == DevicesTypeOK /\ EntriesKept /\ ReportersSaw /\ ActorSaw

LEMMA DevicesInitially == ASSUME DevicesAssumption PROVE DevicesInit => DevicesInv
<1> SUFFICES ASSUME DevicesInit PROVE DevicesInv
  OBVIOUS
<1>1. NoRow \in DeviceRow
  BY DEF NoRow, DeviceRow, Types, Roles, By
<1>2. Cardinality(classifying) <= PerCycle
  <2>1. classifying = {} /\ Cardinality({}) = 0
    BY FS_EmptySet DEF DevicesInit
  <2>2. Cardinality(classifying) = 0
    BY <2>1, Zenon
  <2> QED BY <2>2 DEF DevicesAssumption
<1>3. DevicesTypeOK
  BY <1>1, <1>2 DEF DevicesInit, DevicesTypeOK, DevicesAssumption
<1>4. EntriesKept /\ ReportersSaw /\ ActorSaw
  BY DEF DevicesInit, EntriesKept, ReportersSaw, ActorSaw
<1> QED BY <1>3, <1>4 DEF DevicesInv

LEMMA ReportRead ==
  ASSUME DevicesTypeOK, NEW t \in Reporters, reading[t] # <<>>
  PROVE  reading[t][1] \in Report
<1>1. reading[t] \in Seq(Report)
  BY DEF DevicesTypeOK
<1> QED BY <1>1

LEMMA SessionOpened ==
  ASSUME DevicesAssumption, DevicesTypeOK, Opens PROVE sessions' \in 0..MaxSessions
<1>1. sessions \in 0..MaxSessions /\ MaxSessions \in Nat
  BY DEF DevicesTypeOK, DevicesAssumption
<1> QED BY <1>1 DEF Opens

LEMMA OneReport ==
  ASSUME NEW r \in Report
  PROVE  <<r>> \in Seq(Report) /\ Len(<<r>>) <= 1 /\ <<r>>[1] = r
OBVIOUS

LEMMA ReadingTyped ==
  ASSUME DevicesTypeOK, NEW t \in Reporters, NEW s \in Seq(Report), Len(s) <= 1,
         reading' = [reading EXCEPT ![t] = s]
  PROVE  /\ reading' \in [Reporters -> Seq(Report)] /\ \A u \in Reporters : Len(reading'[u]) <= 1
         /\ reading'[t] = s /\ \A u \in Reporters : u # t => reading'[u] = reading[u]
<1>1. reading \in [Reporters -> Seq(Report)] /\ \A u \in Reporters : Len(reading[u]) <= 1
  BY DEF DevicesTypeOK
<1> QED BY <1>1

(* What enrich_device makes of a row is a row, and it changes a type or a  *)
(* role that is set only for a hint, or in a row written by the system.    *)
LEMMA EnrichedRow ==
  ASSUME NEW r \in Report
  PROVE  /\ Enriched(r) \in DeviceRow
         /\ r.row.by # "" => Enriched(r).by = r.row.by
         /\ r.row.type # "" /\ r.hint = "" => Enriched(r).type = r.row.type
         /\ r.row.role # "" /\ r.row.by # "system" => Enriched(r).role = r.row.role
<1>1. r.row \in DeviceRow /\ r.hint \in HintedTypes \cup {""} /\ r.guess \in Guesses \cup {""}
  BY DEF Report
<1>2. InferDeviceType(r.hint, r.guess) \in Types
  BY <1>1 DEF InferDeviceType, Types
<1>3. ASSUME NEW type PROVE InferNetworkRole(type) \in Roles
  BY DEF InferNetworkRole, Roles
<1> DEFINE row  == r.row
           type == IF (r.hint # "" \/ row.type = "") /\ InferDeviceType(r.hint, r.guess) # ""
                   THEN InferDeviceType(r.hint, r.guess) ELSE row.type
           role == IF (row.role = "" \/ row.by = "system") /\ InferNetworkRole(type) # ""
                   THEN InferNetworkRole(type) ELSE row.role
           by   == IF row.by = "" THEN "system" ELSE row.by
<1>4. Enriched(r) = [type |-> type, role |-> role, by |-> by]
  BY DEF Enriched
<1>5. type \in Types /\ (row.type # "" /\ r.hint = "" => type = row.type)
  BY <1>1, <1>2 DEF DeviceRow
<1>6. role \in Roles /\ (row.role # "" /\ row.by # "system" => role = row.role)
  BY <1>1, <1>3 DEF DeviceRow
<1>8. by \in By /\ (row.by # "" => by = row.by)
  BY <1>1 DEF DeviceRow, By
<1> HIDE DEF type, role, by
<1> DEFINE new == [type |-> type, role |-> role, by |-> by]
<1>7. /\ new \in DeviceRow /\ new.type = type /\ new.role = role /\ new.by = by
  BY <1>5, <1>6, <1>8 DEF DeviceRow
<1>9. Enriched(r) = new
  BY <1>4
<1> HIDE DEF new
<1> QED BY <1>5, <1>6, <1>7, <1>8, <1>9

LEMMA ReadStep ==
  ASSUME DevicesAssumption, DevicesInv,
         NEW t \in Reporters, NEW m \in Macs,
         NEW hint \in HintedTypes \cup {""}, NEW guess \in Guesses \cup {""},
         EnrichRead(t, m, hint, guess)
  PROVE  DevicesInv'
<1> DEFINE r == [mac |-> m, hint |-> hint, guess |-> guess, row |-> device[m]]
<1>1. DevicesTypeOK /\ EntriesKept /\ ReportersSaw /\ ActorSaw
  BY DEF DevicesInv
<1>2. /\ reading' = [reading EXCEPT ![t] = <<r>>]
      /\ UNCHANGED <<device, classifying, edited, outdated>>
      /\ sessions' \in 0..MaxSessions
  BY <1>1, SessionOpened DEF EnrichRead
<1>3. r \in Report /\ r.mac = m /\ r.row = device[m]
  BY <1>1 DEF Report, DevicesTypeOK
<1> HIDE DEF r
<1>4. /\ reading' \in [Reporters -> Seq(Report)] /\ \A u \in Reporters : Len(reading'[u]) <= 1
      /\ reading'[t] = <<r>> /\ \A u \in Reporters : u # t => reading'[u] = reading[u]
  <2>1. <<r>> \in Seq(Report) /\ Len(<<r>>) <= 1
    BY <1>3, OneReport, Zenon
  <2> QED BY <1>1, <1>2, <2>1, ReadingTyped
<1>5. DevicesTypeOK'
  BY <1>1, <1>2, <1>4 DEF DevicesTypeOK
<1>6. ReportersSaw'
  <2>1. ASSUME NEW u \in Reporters, reading'[u] # <<>>, u \notin outdated[reading'[u][1].mac],
               NEW c \in edited[reading'[u][1].mac]
        PROVE  reading'[u][1].row[c] # "" /\ reading'[u][1].row.by \notin {"", "system"}
    <3>1. CASE u = t
      <4>1. reading'[u][1] = r
        BY <1>3, <1>4, <3>1, OneReport
      <4>2. c \in edited[m]
        BY <1>3, <2>1, <4>1
      <4> QED BY <1>1, <1>3, <4>1, <4>2 DEF EntriesKept
    <3>2. CASE u # t
      <4>1. reading'[u] = reading[u]
        BY <1>4, <3>2
      <4> QED BY <1>1, <2>1, <4>1 DEF ReportersSaw
    <3> QED BY <3>1, <3>2
  <2> QED BY <1>2, <2>1 DEF ReportersSaw
<1>7. EntriesKept' /\ ActorSaw'
  BY <1>1, <1>2 DEF EntriesKept, ActorSaw
<1> QED BY <1>5, <1>6, <1>7 DEF DevicesInv

LEMMA WriteStep ==
  ASSUME DevicesAssumption, DevicesInv, NEW t \in Reporters, EnrichWrite(t)
  PROVE  DevicesInv'
<1> DEFINE r    == reading[t][1]
           lost == r.row.by = "" /\ device[r.mac].by # ""
<1>1. DevicesTypeOK /\ EntriesKept /\ ReportersSaw /\ ActorSaw
  BY DEF DevicesInv
<1>2. /\ r \in Report /\ r.mac \in Macs /\ r.row \in DeviceRow
      /\ reading' = [reading EXCEPT ![t] = <<>>]
      /\ outdated' = [m \in Macs |-> outdated[m] \ {t}] /\ UNCHANGED <<classifying, sessions>>
      /\ device' = IF lost THEN device
                   ELSE [device EXCEPT ![r.mac] = MergedRow(r.mac, r.row, Enriched(r))]
      /\ edited' = IF lost THEN edited
                   ELSE [edited EXCEPT ![r.mac] = @ \ Changed(r.row, Enriched(r))]
  BY <1>1, ReportRead DEF EnrichWrite, Report
<1> HIDE DEF r
<1>3. Enriched(r) \in DeviceRow /\ (r.row.by # "" => Enriched(r).by = r.row.by)
  BY <1>2, EnrichedRow
<1>4. MergedRow(r.mac, r.row, Enriched(r)) \in DeviceRow
  BY <1>1, <1>2, <1>3 DEF MergedRow, DeviceRow, Column, DevicesTypeOK
<1>5. /\ reading' \in [Reporters -> Seq(Report)] /\ \A u \in Reporters : Len(reading'[u]) <= 1
      /\ reading'[t] = <<>> /\ \A u \in Reporters : u # t => reading'[u] = reading[u]
  <2>1. <<>> \in Seq(Report) /\ Len(<<>>) <= 1
    OBVIOUS
  <2> QED BY <1>1, <1>2, <2>1, ReadingTyped
<1>6. /\ device' \in [Macs -> DeviceRow] /\ edited' \in [Macs -> SUBSET Column]
      /\ \A m \in Macs : edited'[m] \subseteq edited[m]
  BY <1>1, <1>2, <1>4 DEF DevicesTypeOK
<1>7. DevicesTypeOK'
  BY <1>1, <1>2, <1>5, <1>6 DEF DevicesTypeOK
<1>8. EntriesKept'
  <2>1. ASSUME NEW m \in Macs, NEW c \in edited'[m]
        PROVE  c \in {"type", "role"} /\ device'[m][c] # "" /\ device'[m].by \notin {"", "system"}
    <3>1. c \in edited[m] /\ c \in {"type", "role"} /\ device[m][c] # ""
          /\ device[m].by \notin {"", "system"}
      BY <1>1, <1>6, <2>1 DEF EntriesKept
    <3>2. CASE device'[m] = device[m]
      BY <3>1, <3>2
    <3>3. CASE m = r.mac /\ ~lost
      <4>1. device'[m] = MergedRow(r.mac, r.row, Enriched(r))
        BY <1>1, <1>2, <3>3 DEF DevicesTypeOK
      <4>2. c \notin Changed(r.row, Enriched(r))
        BY <1>1, <1>2, <2>1, <3>3 DEF DevicesTypeOK
      <4>3. r.row[c] = Enriched(r)[c] /\ r.row.by = Enriched(r).by
        BY <1>3, <3>1, <3>3, <4>2 DEF Changed, Column
      <4>4. device'[m][c] = device[m][c] /\ device'[m].by = device[m].by
        BY <3>1, <3>3, <4>1, <4>3 DEF MergedRow, Column
      <4> QED BY <3>1, <4>4
    <3> QED BY <1>1, <1>2, <3>2, <3>3 DEF DevicesTypeOK
  <2> QED BY <2>1 DEF EntriesKept
<1>9. ReportersSaw'
  <2>1. ASSUME NEW u \in Reporters, reading'[u] # <<>>, u \notin outdated'[reading'[u][1].mac],
               NEW c \in edited'[reading'[u][1].mac]
        PROVE  reading'[u][1].row[c] # "" /\ reading'[u][1].row.by \notin {"", "system"}
    <3>1. u # t /\ reading'[u] = reading[u]
      BY <1>5, <2>1
    <3>2. reading[u][1] \in Report /\ reading[u][1].mac \in Macs
      BY <1>1, <2>1, <3>1, ReportRead DEF Report
    <3>3. u \notin outdated[reading[u][1].mac] /\ c \in edited[reading[u][1].mac]
      BY <1>2, <1>6, <2>1, <3>1, <3>2
    <3> QED BY <1>1, <2>1, <3>1, <3>3 DEF ReportersSaw
  <2> QED BY <2>1 DEF ReportersSaw
<1>10. ActorSaw'
  BY <1>1, <1>2, <1>6 DEF ActorSaw, DevicesTypeOK, DevicesAssumption
<1> QED BY <1>7, <1>8, <1>9, <1>10 DEF DevicesInv

LEMMA EditStep ==
  ASSUME DevicesAssumption, DevicesInv, NEW m \in Macs, NEW c \in {"type", "role"}, NEW v,
         c = "type" => v \in UserTypes, c = "role" => v \in UserRoles, UserEdit(m, c, v)
  PROVE  DevicesInv'
<1>1. DevicesTypeOK /\ EntriesKept /\ ReportersSaw /\ ActorSaw
  BY DEF DevicesInv
<1>2. /\ device' = [device EXCEPT ![m] = [[@ EXCEPT ![c] = v] EXCEPT !.by = "user"]]
      /\ edited' = [edited EXCEPT ![m] = IF v = "" THEN @ \ {c} ELSE @ \cup {c}]
      /\ outdated' = [outdated EXCEPT ![m] = Open(m)]
      /\ UNCHANGED <<reading, classifying>> /\ sessions' \in 0..MaxSessions
  BY <1>1, SessionOpened DEF UserEdit
<1>3. device[m] \in DeviceRow
  BY <1>1 DEF DevicesTypeOK
<1>4. [[device[m] EXCEPT ![c] = v] EXCEPT !.by = "user"] \in DeviceRow
  BY <1>3 DEF DeviceRow, Types, Roles, By
<1>5. Open(m) \subseteq Reporters \cup {Agent}
  BY DEF Open
<1>6. DevicesTypeOK'
  BY <1>1, <1>2, <1>4, <1>5 DEF DevicesTypeOK, Column
<1>7. EntriesKept'
  <2>1. ASSUME NEW n \in Macs, NEW k \in edited'[n]
        PROVE  k \in {"type", "role"} /\ device'[n][k] # "" /\ device'[n].by \notin {"", "system"}
    <3>1. CASE n # m
      BY <1>1, <1>2, <2>1, <3>1 DEF EntriesKept, DevicesTypeOK
    <3>2. CASE n = m
      <4>1. device'[n] = [[device[m] EXCEPT ![c] = v] EXCEPT !.by = "user"]
        BY <1>1, <1>2, <3>2 DEF DevicesTypeOK
      <4>2. k \in (IF v = "" THEN edited[m] \ {c} ELSE edited[m] \cup {c})
        BY <1>1, <1>2, <2>1, <3>2 DEF DevicesTypeOK
      <4>3. k \in {"type", "role"} /\ (k = c => v # "") /\ (k # c => device[m][k] # "")
        BY <1>1, <4>2 DEF EntriesKept
      <4>4. device'[n].by = "user" /\ device'[n][k] = (IF k = c THEN v ELSE device[m][k])
        BY <1>3, <4>1, <4>3 DEF DeviceRow
      <4> QED BY <4>3, <4>4
    <3> QED BY <3>1, <3>2
  <2> QED BY <2>1 DEF EntriesKept
<1>8. ReportersSaw'
  <2>1. ASSUME NEW u \in Reporters, reading[u] # <<>>, u \notin outdated'[reading[u][1].mac]
        PROVE  /\ edited'[reading[u][1].mac] = edited[reading[u][1].mac]
               /\ u \notin outdated[reading[u][1].mac]
    <3>1. reading[u][1].mac \in Macs
      BY <1>1, <2>1, ReportRead DEF Report
    <3>2. reading[u][1].mac # m
      BY <1>1, <1>2, <2>1 DEF Open, DevicesTypeOK
    <3> QED BY <1>1, <1>2, <2>1, <3>1, <3>2 DEF DevicesTypeOK
  <2> QED BY <1>1, <1>2, <2>1 DEF ReportersSaw
<1>9. ActorSaw'
  BY <1>1, <1>2 DEF ActorSaw, Open, DevicesTypeOK
<1> QED BY <1>6, <1>7, <1>8, <1>9 DEF DevicesInv

LEMMA AnnotationStep ==
  ASSUME DevicesAssumption, DevicesInv, NEW m \in Macs, UserAnnotates(m)
  PROVE  DevicesInv'
<1>1. DevicesTypeOK /\ EntriesKept /\ ReportersSaw /\ ActorSaw
  BY DEF DevicesInv
<1>2. /\ device' = [device EXCEPT ![m].by = "user"]
      /\ UNCHANGED <<reading, classifying, edited, outdated>> /\ sessions' \in 0..MaxSessions
  BY <1>1, SessionOpened DEF UserAnnotates
<1>3. device[m] \in DeviceRow /\ [device[m] EXCEPT !.by = "user"] \in DeviceRow
  BY <1>1 DEF DevicesTypeOK, DeviceRow, By
<1>4. DevicesTypeOK'
  BY <1>1, <1>2, <1>3 DEF DevicesTypeOK
<1>5. EntriesKept'
  <2>1. ASSUME NEW n \in Macs, NEW k \in {"type", "role"}
        PROVE  /\ device'[n][k] = device[n][k]
               /\ device'[n].by = (IF n = m THEN "user" ELSE device[n].by)
    BY <1>1, <1>2, <1>3 DEF DevicesTypeOK, DeviceRow
  <2>2. ASSUME NEW n \in Macs, NEW k \in edited[n]
        PROVE  k \in {"type", "role"} /\ device'[n][k] # "" /\ device'[n].by \notin {"", "system"}
    <3>1. k \in {"type", "role"} /\ device[n][k] # "" /\ device[n].by \notin {"", "system"}
      BY <1>1 DEF EntriesKept
    <3> QED BY <2>1, <3>1
  <2> QED BY <1>2, <2>2 DEF EntriesKept
<1>6. ReportersSaw' /\ ActorSaw'
  BY <1>1, <1>2 DEF ReportersSaw, ActorSaw
<1> QED BY <1>4, <1>5, <1>6 DEF DevicesInv

LEMMA ClassifyStep ==
  ASSUME DevicesAssumption, DevicesInv, ClassifyRead \/ ClassifyCommit
  PROVE  DevicesInv'
<1>1. DevicesTypeOK /\ EntriesKept /\ ReportersSaw /\ ActorSaw
  BY DEF DevicesInv
<1>2. CASE ClassifyRead
  <2>1. PICK few \in SUBSET Unclassified :
          /\ Cardinality(few) = IF Cardinality(Unclassified) < PerCycle
                                THEN Cardinality(Unclassified) ELSE PerCycle
          /\ classifying' = few
    BY <1>2 DEF ClassifyRead
  <2>2. few \subseteq Macs /\ IsFiniteSet(Unclassified) /\ Cardinality(Unclassified) \in Nat
    BY FS_Subset, FS_CardinalityType DEF Unclassified, DevicesAssumption
  <2>3. Cardinality(few) <= PerCycle
    BY <2>1, <2>2 DEF DevicesAssumption
  <2>4. UNCHANGED <<device, reading, edited, outdated>> /\ sessions' \in 0..MaxSessions
    BY <1>1, <1>2, SessionOpened DEF ClassifyRead
  <2>5. DevicesTypeOK'
    BY <1>1, <2>1, <2>2, <2>3, <2>4 DEF DevicesTypeOK
  <2>6. ActorSaw'
    BY <1>1, <2>1, <2>4 DEF ActorSaw, EntriesKept, Unclassified
  <2>7. EntriesKept' /\ ReportersSaw'
    BY <1>1, <2>4 DEF EntriesKept, ReportersSaw
  <2> QED BY <2>5, <2>6, <2>7 DEF DevicesInv
<1>3. CASE ClassifyCommit
  <2>0. PICK answered \in SUBSET classifying : \E type \in [answered -> Choices] :
          /\ device' = [m \in Macs |-> IF m \in answered
                          THEN [device[m] EXCEPT !.type = type[m], !.by = Agent] ELSE device[m]]
          /\ edited' = [m \in Macs |-> IF m \in answered THEN edited[m] \ {"type"} ELSE edited[m]]
    BY <1>3 DEF ClassifyCommit
  <2>1. PICK type \in [answered -> Choices] :
          /\ device' = [m \in Macs |-> IF m \in answered
                          THEN [device[m] EXCEPT !.type = type[m], !.by = Agent] ELSE device[m]]
          /\ edited' = [m \in Macs |-> IF m \in answered THEN edited[m] \ {"type"} ELSE edited[m]]
    BY <2>0
  <2>2. /\ outdated' = [m \in Macs |-> outdated[m] \ {Agent}] /\ classifying' = {}
        /\ UNCHANGED <<reading, sessions>>
    BY <1>3 DEF ClassifyCommit
  <2>3. ASSUME NEW m \in Macs, m \in answered
        PROVE  /\ [device[m] EXCEPT !.type = type[m], !.by = Agent] \in DeviceRow
               /\ [device[m] EXCEPT !.type = type[m], !.by = Agent].role = device[m].role
               /\ [device[m] EXCEPT !.type = type[m], !.by = Agent].by = Agent
    BY <1>1, <2>1, <2>3 DEF DevicesTypeOK, DeviceRow, Types, By
  <2>4. device' \in [Macs -> DeviceRow] /\ edited' \in [Macs -> SUBSET Column]
    BY <1>1, <2>1, <2>3 DEF DevicesTypeOK
  <2>5. Cardinality(classifying') <= PerCycle
    <3>1. Cardinality({}) = 0
      BY FS_EmptySet
    <3>2. Cardinality(classifying') = 0
      BY <2>2, <3>1, Zenon
    <3> QED BY <3>2 DEF DevicesAssumption
  <2>6. DevicesTypeOK'
    BY <1>1, <2>2, <2>4, <2>5 DEF DevicesTypeOK
  <2>7. EntriesKept'
    <3>1. ASSUME NEW m \in Macs, NEW c \in edited'[m]
          PROVE  c \in {"type", "role"} /\ device'[m][c] # "" /\ device'[m].by \notin {"", "system"}
      <4>1. c \in edited[m] /\ c \in {"type", "role"} /\ device[m][c] # ""
            /\ device[m].by \notin {"", "system"}
        BY <1>1, <2>1, <3>1 DEF EntriesKept
      <4>2. CASE m \in answered
        <5>1. c = "role"
          BY <2>1, <3>1, <4>1, <4>2
        <5>2. device'[m] = [device[m] EXCEPT !.type = type[m], !.by = Agent]
          BY <2>1, <4>2
        <5>3. device'[m][c] = device[m][c] /\ device'[m].by = "agent"
          BY <2>3, <4>2, <5>1, <5>2 DEF Agent
        <5> QED BY <4>1, <5>3
      <4>3. CASE m \notin answered
        BY <2>1, <4>1, <4>3
      <4> QED BY <4>2, <4>3
    <3> QED BY <3>1 DEF EntriesKept
  <2>8. ReportersSaw'
    <3>1. ASSUME NEW u \in Reporters, reading[u] # <<>>, u \notin outdated'[reading[u][1].mac]
          PROVE  /\ edited'[reading[u][1].mac] \subseteq edited[reading[u][1].mac]
                 /\ u \notin outdated[reading[u][1].mac]
      <4>1. reading[u][1].mac \in Macs
        BY <1>1, <3>1, ReportRead DEF Report
      <4> QED BY <2>1, <2>2, <3>1, <4>1 DEF DevicesAssumption
    <3> QED BY <1>1, <2>2, <3>1 DEF ReportersSaw
  <2>9. ActorSaw'
    BY <2>2 DEF ActorSaw
  <2> QED BY <2>6, <2>7, <2>8, <2>9 DEF DevicesInv
<1> QED BY <1>2, <1>3

LEMMA DevicesSteps == ASSUME DevicesAssumption, DevicesInv, [DevicesNext]_devicesVars PROVE DevicesInv'
<1>1. CASE UNCHANGED devicesVars
  BY <1>1 DEF devicesVars, DevicesInv, DevicesTypeOK, EntriesKept, ReportersSaw, ActorSaw
<1>2. ASSUME NEW m \in Macs, NEW v \in UserTypes, UserEdit(m, "type", v) PROVE DevicesInv'
  BY <1>2, EditStep
<1>3. ASSUME NEW m \in Macs, NEW v \in UserRoles, UserEdit(m, "role", v) PROVE DevicesInv'
  BY <1>3, EditStep
<1> QED BY <1>1, <1>2, <1>3, ReadStep, WriteStep, AnnotationStep, ClassifyStep DEF DevicesNext

(* Every variable of the device records and their sessions keeps its type. *)
THEOREM DevicesTypeCorrect == ASSUME DevicesAssumption PROVE DevicesSpec => []DevicesTypeOK
<1>1. DevicesInv /\ [DevicesNext]_devicesVars => DevicesInv'
  BY DevicesSteps
<1>2. DevicesInv => DevicesTypeOK
  BY DEF DevicesInv
<1> QED BY <1>1, <1>2, DevicesInitially, PTL DEF DevicesSpec

(* fingerprint.py:258-274.  A column a user entered goes only by a user,   *)
(* by a report that vouches for a type, or by a session that read the row  *)
(* before the edit.                                                        *)
LEMMA EntryGoesByRight ==
  ASSUME DevicesAssumption, DevicesInv, [DevicesNext]_devicesVars,
         NEW m \in Macs, NEW c \in {"type", "role"}, c \in edited[m], c \notin edited'[m]
  PROVE  \/ device'[m].by = "user" /\ device'[m][c] = ""
         \/ outdated[m] # outdated'[m]
         \/ c = "type" /\ Vouched(m)
<1>1. DevicesTypeOK /\ EntriesKept /\ ReportersSaw /\ ActorSaw
  BY DEF DevicesInv
<1>2. ASSUME NEW t \in Reporters, EnrichWrite(t)
      PROVE  outdated[m] # outdated'[m] \/ (c = "type" /\ Vouched(m))
  <2> DEFINE r == reading[t][1]
  <2>1. /\ r \in Report /\ r.mac \in Macs /\ r.row \in DeviceRow /\ reading[t] # <<>>
        /\ reading'[t] = <<>> /\ outdated' = [n \in Macs |-> outdated[n] \ {t}]
    BY <1>1, <1>2, ReportRead DEF EnrichWrite, Report, DevicesTypeOK
  <2>2. m = r.mac /\ c \in Changed(r.row, Enriched(r))
    BY <1>1, <1>2 DEF EnrichWrite, DevicesTypeOK
  <2>3. CASE t \in outdated[m]
    BY <2>1, <2>3
  <2>4. CASE t \notin outdated[m]
    <3>1. r.row[c] # "" /\ r.row.by \notin {"", "system"} /\ r.row[c] # Enriched(r)[c]
      BY <1>1, <2>1, <2>2, <2>4 DEF ReportersSaw, Changed
    <3> HIDE DEF r
    <3>2. c = "type" /\ r.hint # ""
      BY <2>1, <3>1, EnrichedRow
    <3>3. reading[t][1].mac = m /\ reading[t][1].hint # ""
      BY <2>2, <3>2 DEF r
    <3> QED BY <2>1, <3>2, <3>3 DEF Vouched
  <2> QED BY <2>3, <2>4
<1>3. ASSUME NEW n \in Macs, NEW k \in {"type", "role"}, NEW v, UserEdit(n, k, v)
      PROVE  device'[m].by = "user" /\ device'[m][c] = ""
  <2>1. n = m /\ k = c /\ v = ""
    BY <1>1, <1>3 DEF UserEdit, DevicesTypeOK
  <2>2. device[m] \in DeviceRow
    BY <1>1 DEF DevicesTypeOK
  <2>3. device'[m] = [[device[m] EXCEPT ![c] = ""] EXCEPT !.by = "user"]
    BY <1>1, <1>3, <2>1 DEF UserEdit, DevicesTypeOK
  <2> QED BY <2>2, <2>3 DEF DeviceRow
<1>4. ASSUME ClassifyCommit PROVE outdated[m] # outdated'[m]
  <2>1. m \in classifying /\ c = "type"
    BY <1>1, <1>4 DEF ClassifyCommit, DevicesTypeOK
  <2>2. Agent \in outdated[m] /\ outdated'[m] = outdated[m] \ {Agent}
    BY <1>1, <1>4, <2>1 DEF ActorSaw, ClassifyCommit
  <2> QED BY <2>2
<1>5. ASSUME NEW t \in Reporters, NEW n \in Macs,
             NEW h \in HintedTypes \cup {""}, NEW g \in Guesses \cup {""}
      PROVE  ~EnrichRead(t, n, h, g)
  BY DEF EnrichRead
<1>6. ~ClassifyRead /\ ~UNCHANGED devicesVars /\ \A n \in Macs : ~UserAnnotates(n)
  BY DEF ClassifyRead, devicesVars, UserAnnotates
<1> QED BY <1>2, <1>3, <1>4, <1>5, <1>6 DEF DevicesNext

(* What a user entered goes only when a user changes it, when a report     *)
(* vouches for a type, or when a session writes that read the row before   *)
(* the edit, for any devices, threads, reports and answers of the LLM.     *)
THEOREM EntriesAreKept == ASSUME DevicesAssumption PROVE DevicesSpec => UserValuesKept
<1>1. DevicesInv /\ [DevicesNext]_devicesVars => DevicesInv'
  BY DevicesSteps
<1>2. DevicesInv /\ [DevicesNext]_devicesVars =>
        [\A m \in Macs, c \in {"type", "role"} :
           (c \in edited[m] /\ c \notin edited'[m]) =>
              \/ device'[m].by = "user" /\ device'[m][c] = ""
              \/ outdated[m] # outdated'[m]
              \/ c = "type" /\ Vouched(m)]_devicesVars
  BY EntryGoesByRight
<1> QED BY <1>1, <1>2, DevicesInitially, PTL DEF DevicesSpec, UserValuesKept

-----------------------------------------------------------------------------
(* Findings and their archive.                                             *)
(* The ids.  A row gets the highest id and one more, which is at most the  *)
(* number of findings ever written, however many rows were deleted, and is *)
(* the id of no row.                                                       *)
RecordsTyped ==
  /\ RecordsTypeOK
  /\ \A r \in findings : r.id <= written
  /\ \A r, q \in findings : r.id = q.id => r.serial = q.serial

LEMMA HighestOf ==
  ASSUME NEW n \in Nat, NEW ids \in SUBSET (1..n), ids # {}
  PROVE  \E i \in ids : \A j \in ids : j <= i
<1> DEFINE below == {n - i : i \in ids}
<1>0. \A i \in ids : n - i \in Nat
  OBVIOUS
<1>1. below \in SUBSET Nat /\ below # {}
  BY <1>0
<1> HIDE DEF below
<1>2. PICK d \in below : \A e \in below : d <= e
  <2>1. PICK d \in below : \A e \in below : <<e, d>> \notin OpToRel(<, Nat)
    BY <1>1, NatLessThanWellFounded, WFMin, Zenon
  <2>2. ASSUME NEW e \in below PROVE d <= e
    <3>1. ~(e < d)
      BY <1>1, <2>1 DEF OpToRel
    <3> QED BY <1>1, <3>1
  <2> QED BY <2>2
<1>3. PICK i \in ids : d = n - i
  BY <1>2 DEF below
<1>4. ASSUME NEW j \in ids PROVE j <= i
  <2>1. n - i <= n - j
    BY <1>2, <1>3 DEF below
  <2> QED BY <1>3, <2>1
<1> QED BY <1>4

LEMMA NextIdIsNew ==
  ASSUME RecordsAssumption, RecordsTyped
  PROVE  NextId \in 1..(written + 1) /\ \A r \in findings : r.id # NextId
<1> DEFINE ids == {r.id : r \in findings}
           top == CHOOSE i \in ids : \A j \in ids : j <= i
<1>1. written \in Nat
  BY DEF RecordsTyped, RecordsTypeOK, RecordsAssumption
<1>2. ids \in SUBSET (1..written)
  BY <1>1 DEF RecordsTyped, RecordsTypeOK, FindingRow, RecordsAssumption
<1>3. NextId = IF ids = {} THEN 1 ELSE 1 + top
  BY DEF NextId
<1>7. \A r \in findings : r.id \in ids
  OBVIOUS
<1> HIDE DEF ids
<1>4. ids # {} => top \in ids /\ \A j \in ids : j <= top
  BY <1>1, <1>2, HighestOf
<1> HIDE DEF top
<1>5. CASE ids = {}
  BY <1>1, <1>3, <1>5, <1>7
<1>6. CASE ids # {}
  <2>1. top \in 1..written /\ NextId = 1 + top
    BY <1>2, <1>3, <1>4, <1>6
  <2>2. ASSUME NEW r \in findings PROVE r.id # NextId
    <3>1. r.id \in 1..written /\ r.id <= top
      BY <1>2, <1>4, <1>6, <1>7
    <3> QED BY <1>1, <2>1, <3>1
  <2> QED BY <1>1, <2>1, <2>2
<1> QED BY <1>5, <1>6

LEMMA RecordsTypedInitially == ASSUME RecordsAssumption PROVE RecordsInit => RecordsTyped
BY DEF RecordsInit, RecordsTyped, RecordsTypeOK, RecordsAssumption

LEMMA RowFields ==
  ASSUME NEW r \in FindingRow
  PROVE  /\ r.id \in 1..MaxFindings /\ r.serial \in 1..MaxFindings
         /\ r.expired \in BOOLEAN /\ r.answers \subseteq Answers
         /\ \A x \in Answers :
              LET after == [r EXCEPT !.answers = @ \cup {x}]
              IN  /\ after \in FindingRow /\ after.id = r.id /\ after.serial = r.serial
                  /\ after.answers = r.answers \cup {x}
         /\ LET after == [r EXCEPT !.expired = TRUE]
            IN  /\ after \in FindingRow /\ after.id = r.id /\ after.serial = r.serial
                /\ after.answers = r.answers
         /\ Outcome(r) \in Answers \cup {"unresolved"}
BY DEF FindingRow, Answers, Outcome

LEMMA RequestFields ==
  ASSUME NEW q \in Request
  PROVE  /\ q.answer \in Answers /\ q.serial \in 1..MaxFindings
         /\ q.id \in 1..MaxFindings /\ q.rows \subseteq FindingRow
         /\ \A S \in SUBSET FindingRow :
              LET after == [q EXCEPT !.rows = S]
              IN  /\ after \in Request /\ after.rows = S /\ after.answer = q.answer
                  /\ after.serial = q.serial /\ after.id = q.id
BY DEF Request

(* Rows that are exchanged for rows of the same id and serial number.      *)
LEMMA RowsExchanged ==
  ASSUME RecordsTyped, UNCHANGED written, findings' \subseteq FindingRow,
         \A q \in findings' : \E r \in findings : q.id = r.id /\ q.serial = r.serial
  PROVE  /\ \A r \in findings' : r.id <= written'
         /\ \A r, q \in findings' : r.id = q.id => r.serial = q.serial
BY DEF RecordsTyped

LEMMA ConfirmTyped ==
  ASSUME RecordsTyped, request \in Request, NEW S \in SUBSET FindingRow, Confirm(S)
  PROVE  confirmed' \subseteq [answer : Answers, serial : 1..MaxFindings, row : 1..MaxFindings]
<1>1. request.answer \in Answers /\ request.serial \in 1..MaxFindings
  BY RequestFields
<1>2. \A r \in S : r.serial \in 1..MaxFindings
  BY RowFields
<1> QED BY <1>1, <1>2 DEF Confirm, RecordsTyped, RecordsTypeOK

LEMMA RecordsTypedSteps ==
  ASSUME RecordsAssumption, RecordsTyped, [RecordsNext]_recordsVars PROVE RecordsTyped'
<1>t. /\ findings \subseteq FindingRow /\ written \in 0..MaxFindings /\ written \in Nat
      /\ MaxFindings \in Nat \ {0} /\ MaxAborts \in Nat
      /\ request = None \/ request \in Request
      /\ aborts \in 0..MaxAborts
      /\ confirmed \subseteq [answer : Answers, serial : 1..MaxFindings, row : 1..MaxFindings]
      /\ \A r \in findings : r.id <= written
      /\ \A r, q \in findings : r.id = q.id => r.serial = q.serial
  BY DEF RecordsTyped, RecordsTypeOK, RecordsAssumption
<1>1. CASE Write
  <2> DEFINE new == [id |-> NextId, serial |-> written', expired |-> FALSE, answers |-> {}]
  <2>1. /\ written' = written + 1 /\ written < MaxFindings /\ findings' = findings \cup {new}
        /\ UNCHANGED <<archive, request, aborts, confirmed>>
    BY <1>1 DEF Write
  <2>2. /\ NextId \in 1..written' /\ written' \in 1..MaxFindings /\ NextId \in 1..MaxFindings
        /\ \A r \in findings : r.id # NextId
    BY <1>t, <2>1, NextIdIsNew
  <2>3. FALSE \in BOOLEAN /\ {} \subseteq Answers
    BY Zenon
  <2>4. new \in FindingRow /\ new.id <= written' /\ new.id = NextId
    BY <2>2, <2>3 DEF FindingRow
  <2> HIDE DEF new
  <2>5. \A r \in findings' : r.id <= written'
    <3>1. ASSUME NEW r \in findings PROVE r.id <= written + 1
      <4>1. r.id <= written /\ r \in FindingRow
        BY <1>t
      <4>2. r.id \in 1..MaxFindings
        BY <4>1, RowFields
      <4> QED BY <1>t, <4>1, <4>2
    <3> QED BY <2>1, <2>4, <3>1
  <2>6. \A r, q \in findings' : r.id = q.id => r.serial = q.serial
    BY <1>t, <2>1, <2>2, <2>4
  <2> QED BY <1>t, <2>1, <2>2, <2>4, <2>5, <2>6 DEF RecordsTyped, RecordsTypeOK
<1>2. ASSUME NEW r \in findings, Expire(r) PROVE RecordsTyped'
  <2>1. /\ findings' = (findings \ {r}) \cup {[r EXCEPT !.expired = TRUE]}
        /\ UNCHANGED <<written, archive, request, aborts, confirmed>>
    BY <1>2 DEF Expire
  <2>3. /\ [r EXCEPT !.expired = TRUE] \in FindingRow /\ [r EXCEPT !.expired = TRUE].id = r.id
        /\ [r EXCEPT !.expired = TRUE].serial = r.serial
    BY <1>t, RowFields
  <2>4. /\ findings' \subseteq FindingRow
        /\ \A q \in findings' : \E x \in findings : q.id = x.id /\ q.serial = x.serial
    BY <1>t, <2>1, <2>3
  <2> QED BY <2>1, <2>4, RowsExchanged DEF RecordsTyped, RecordsTypeOK
<1>3. ASSUME NEW r \in findings, NEW answer \in Answers, AnswerFinding(r, answer)
      PROVE  RecordsTyped'
  <2>1. r.id \in 1..MaxFindings /\ r.serial \in 1..MaxFindings /\ {} \subseteq FindingRow
    BY <1>t, RowFields
  <2>2. /\ request' \in Request
        /\ UNCHANGED <<findings, written, archive, aborts, confirmed>>
    BY <1>3, <2>1 DEF AnswerFinding, Request
  <2> QED BY <2>2 DEF RecordsTyped, RecordsTypeOK
<1>7. CASE ReadFinding
  <2>1. /\ request' = None \/ request' \in Request
        /\ UNCHANGED <<findings, written, archive, aborts, confirmed>>
    <3>1. Target \subseteq FindingRow /\ request \in Request
      BY <1>t, <1>7 DEF Target, ReadFinding
    <3>2. [request EXCEPT !.rows = Target] \in Request
      BY <3>1, RequestFields
    <3> QED BY <1>7, <3>2 DEF ReadFinding
  <2> QED BY <2>1 DEF RecordsTyped, RecordsTypeOK
<1>4. CASE CommitAnswer
  <2> DEFINE With(r) == [r EXCEPT !.answers = @ \cup {request.answer}]
  <2>1. /\ request \in Request /\ Target \subseteq findings
        /\ findings' = (findings \ Target) \cup {With(r) : r \in Target}
        /\ Confirm(Target) /\ request' = None /\ UNCHANGED <<written, archive, aborts>>
    BY <1>t, <1>4 DEF CommitAnswer, HasRead, Target
  <2>2. \A r \in Target : With(r) \in FindingRow /\ With(r).id = r.id /\ With(r).serial = r.serial
    BY <1>t, <2>1, RowFields, RequestFields
  <2> HIDE DEF With
  <2>3. /\ findings' \subseteq FindingRow
        /\ \A q \in findings' : \E x \in findings : q.id = x.id /\ q.serial = x.serial
    BY <1>t, <2>1, <2>2
  <2>4. confirmed' \subseteq [answer : Answers, serial : 1..MaxFindings, row : 1..MaxFindings]
    BY <1>t, <2>1, ConfirmTyped
  <2> QED BY <2>1, <2>3, <2>4, RowsExchanged DEF RecordsTyped, RecordsTypeOK
<1>8. CASE NothingToCommit
  <2>1. /\ request \in Request /\ Confirm(request.rows) /\ request' = None
        /\ UNCHANGED <<findings, written, archive, aborts>>
    BY <1>t, <1>8 DEF NothingToCommit, HasRead
  <2>2. confirmed' \subseteq [answer : Answers, serial : 1..MaxFindings, row : 1..MaxFindings]
    BY <2>1, ConfirmTyped, RequestFields
  <2> QED BY <2>1, <2>2 DEF RecordsTyped, RecordsTypeOK
<1>5. CASE CommitFails \/ UNCHANGED recordsVars
  <2>1. /\ request' \in {request, None} /\ aborts' \in 0..MaxAborts
        /\ UNCHANGED <<findings, written, archive, confirmed>>
    BY <1>t, <1>5 DEF CommitFails, recordsVars
  <2> QED BY <1>t, <2>1 DEF RecordsTyped, RecordsTypeOK
<1>6. CASE RunRetention
  <2> DEFINE Old(r) == [original |-> r.id, serial |-> r.serial, outcome |-> Outcome(r)]
             Rows   == [original : 1..MaxFindings, serial : 1..MaxFindings,
                        outcome : Answers \cup {"unresolved"}]
  <2>1. /\ archive' = archive \cup {Old(r) : r \in Expired} /\ findings' = findings \ Expired
        /\ UNCHANGED <<written, request, aborts, confirmed>> /\ Expired \subseteq findings
    BY <1>6 DEF RunRetention, Expired
  <2>2. \A r \in Expired : Old(r) \in Rows
    BY <1>t, <2>1, RowFields
  <2>3. archive \subseteq Rows
    BY DEF RecordsTyped, RecordsTypeOK
  <2> HIDE DEF Old, Rows
  <2>4. archive' \subseteq Rows
    BY <2>1, <2>2, <2>3
  <2> QED BY <1>t, <2>1, <2>4 DEF RecordsTyped, RecordsTypeOK, Rows
<1> QED BY <1>1, <1>2, <1>3, <1>4, <1>5, <1>6, <1>7, <1>8 DEF RecordsNext

(* Every variable of the findings keeps its type; in particular no id is   *)
(* higher than the number of findings ever written.                        *)
THEOREM RecordsTypeCorrect == ASSUME RecordsAssumption PROVE RecordsSpec => []RecordsTypeOK
<1>1. RecordsTyped /\ [RecordsNext]_recordsVars => RecordsTyped'
  BY RecordsTypedSteps
<1>2. RecordsTyped => RecordsTypeOK
  BY DEF RecordsTyped
<1> QED BY <1>1, <1>2, RecordsTypedInitially, PTL DEF RecordsSpec

(* A finding is named by its serial number, never by the id that SQLite    *)
(* may give out again: one row or one archive entry per serial number, and *)
(* each holds exactly what was confirmed of it.  A request that reads or   *)
(* changes the row of another finding was for one that had been archived,  *)
(* since as long as a finding is in the table no other has its id.         *)
Said(s) == {x \in Answers : \E c \in confirmed : c.row = s /\ c.answer = x}
OutcomeOf(S) == IF "dismissed" \in S THEN "dismissed" ELSE IF "ack" \in S THEN "ack" ELSE "unresolved"
Archived(s) == \E a \in archive : a.serial = s

SerialsKnown ==
  /\ \A r \in findings : r.serial \in 1..written
  /\ \A a \in archive : a.serial \in 1..written
  /\ \A c \in confirmed : c.row \in 1..written
SerialsOnce ==
  /\ \A r, q \in findings : r.serial = q.serial => r = q
  /\ \A a, b \in archive : a.serial = b.serial => a = b
  /\ \A r \in findings, a \in archive : r.serial # a.serial
  /\ \A s \in 1..written : (\E r \in findings : r.serial = s) \/ Archived(s)
AnswersExact ==
  /\ \A r \in findings : r.answers = Said(r.serial)
  /\ \A a \in archive : a.outcome = OutcomeOf(Said(a.serial))
AnswersAstray == \A c \in confirmed : c.row = c.serial \/ Archived(c.serial)
RequestKnown ==
  request # None =>
    /\ request.serial \in 1..written
    /\ \A r \in findings : r.serial = request.serial => r.id = request.id
    /\ \A q \in request.rows :
         /\ q.serial \in 1..written /\ q.answers \subseteq Said(q.serial)
         /\ q.serial = request.serial \/ Archived(request.serial)

RecordsInv ==
  RecordsTyped /\ SerialsKnown /\ SerialsOnce /\ AnswersExact /\ AnswersAstray /\ RequestKnown

LEMMA RecordsInitially == ASSUME RecordsAssumption PROVE RecordsInit => RecordsInv
BY RecordsTypedInitially
DEF RecordsInit, RecordsInv, SerialsKnown, SerialsOnce, AnswersExact, AnswersAstray, RequestKnown

LEMMA FindingWritten ==
  ASSUME RecordsAssumption, RecordsInv, RecordsTyped', Write PROVE RecordsInv'
<1> DEFINE new == [id |-> NextId, serial |-> written + 1, expired |-> FALSE, answers |-> {}]
<1>1. /\ written' = written + 1 /\ findings' = findings \cup {new}
      /\ UNCHANGED <<archive, request, confirmed>> /\ written \in Nat
  BY DEF Write, RecordsInv, RecordsTyped, RecordsTypeOK, RecordsAssumption
<1>2. new.serial = written + 1 /\ new.answers = {}
  OBVIOUS
<1> HIDE DEF new
<1>0. \A s \in 1..written : s \in 1..written' /\ s # new.serial
  BY <1>1, <1>2
<1>3. SerialsKnown'
  BY <1>0, <1>1, <1>2 DEF RecordsInv, SerialsKnown
<1>4. SerialsOnce'
  <2>1. /\ \A r \in findings : r.serial # new.serial
        /\ \A a \in archive : a.serial # new.serial
    BY <1>0 DEF RecordsInv, SerialsKnown
  <2>3. \A s \in 1..written' : s \in 1..written \/ s = new.serial
    BY <1>1, <1>2
  <2> QED BY <1>1, <2>1, <2>3 DEF RecordsInv, SerialsOnce, Archived
<1>5. \A s : Said(s)' = Said(s)
  BY <1>1 DEF Said
<1>6. AnswersExact'
  <2>1. Said(new.serial) = {}
    BY <1>0 DEF RecordsInv, SerialsKnown, Said
  <2> QED BY <1>1, <1>2, <1>5, <2>1 DEF RecordsInv, AnswersExact
<1>7. AnswersAstray'
  BY <1>1 DEF RecordsInv, AnswersAstray, Archived
<1>8. RequestKnown'
  <2> SUFFICES ASSUME request # None PROVE RequestKnown'
    BY <1>1 DEF RequestKnown
  <2>1. /\ request.serial \in 1..written
        /\ \A r \in findings : r.serial = request.serial => r.id = request.id
        /\ \A q \in request.rows :
             /\ q.serial \in 1..written /\ q.answers \subseteq Said(q.serial)
             /\ q.serial = request.serial \/ Archived(request.serial)
    BY DEF RecordsInv, RequestKnown
  <2>2. \A s : Archived(s)' = Archived(s)
    BY <1>1 DEF Archived
  <2> QED BY <1>0, <1>1, <1>5, <2>1, <2>2 DEF RequestKnown
<1> QED BY <1>3, <1>4, <1>6, <1>7, <1>8 DEF RecordsInv

LEMMA RowExpires ==
  ASSUME RecordsInv, RecordsTyped', NEW r \in findings, Expire(r) PROVE RecordsInv'
<1> DEFINE new == [r EXCEPT !.expired = TRUE]
<1>1. /\ findings' = (findings \ {r}) \cup {new} /\ UNCHANGED <<written, archive, request, confirmed>>
  BY DEF Expire
<1>2. new.serial = r.serial /\ new.answers = r.answers /\ new.id = r.id
  BY RowFields DEF RecordsInv, RecordsTyped, RecordsTypeOK
<1> HIDE DEF new
<1>3. SerialsKnown'
  BY <1>1, <1>2 DEF RecordsInv, SerialsKnown
<1>4. SerialsOnce'
  <2>1. \A q \in findings \ {r} : q.serial # new.serial
    BY <1>2 DEF RecordsInv, SerialsOnce
  <2> QED BY <1>1, <1>2, <2>1 DEF RecordsInv, SerialsOnce, Archived
<1>5. AnswersExact' /\ AnswersAstray'
  BY <1>1, <1>2 DEF RecordsInv, AnswersExact, AnswersAstray, Archived, Said
<1>6. RequestKnown'
  BY <1>1, <1>2 DEF RecordsInv, RequestKnown, Archived, Said
<1> QED BY <1>3, <1>4, <1>5, <1>6 DEF RecordsInv

(* The row under the id of the request, if the finding it is for is still  *)
(* in the table, is that finding's.                                        *)
LEMMA TargetIsMeant ==
  ASSUME RecordsInv, request # None, NEW r \in Target
  PROVE  r.serial = request.serial \/ Archived(request.serial)
<1>1. r \in findings /\ r.id = request.id
  BY DEF Target
<1>2. CASE \E q \in findings : q.serial = request.serial
  <2>1. PICK q \in findings : q.serial = request.serial
    BY <1>2
  <2>2. q.id = r.id
    BY <1>1, <2>1 DEF RecordsInv, RequestKnown
  <2> QED BY <1>1, <2>1, <2>2 DEF RecordsInv, RecordsTyped
<1> QED BY <1>2 DEF RecordsInv, RequestKnown, SerialsOnce

LEMMA RequestRead ==
  ASSUME RecordsInv, RecordsTyped', ReadFinding PROVE RecordsInv'
<1>1. UNCHANGED <<findings, written, archive, confirmed>> /\ request # None
  BY DEF ReadFinding
<1>2. \A s : Said(s)' = Said(s) /\ Archived(s)' = Archived(s)
  BY <1>1 DEF Said, Archived
<1>3. SerialsKnown' /\ SerialsOnce' /\ AnswersExact' /\ AnswersAstray'
  BY <1>1, <1>2 DEF RecordsInv, SerialsKnown, SerialsOnce, AnswersExact, AnswersAstray
<1>4. RequestKnown'
  <2>1. CASE request' = None
    BY <2>1 DEF RequestKnown
  <2>2. CASE request' = [request EXCEPT !.rows = Target]
    <3>1. request \in Request /\ Target \subseteq FindingRow /\ Target \subseteq findings
      BY <1>1 DEF RecordsInv, RecordsTyped, RecordsTypeOK, Target
    <3>2. request'.rows = Target /\ request'.serial = request.serial /\ request'.id = request.id
      BY <2>2, <3>1, RequestFields
    <3>3. \A q \in Target : q.serial = request.serial \/ Archived(request.serial)
      BY <1>1, TargetIsMeant
    <3>4. \A q \in Target : q.serial \in 1..written /\ q.answers \subseteq Said(q.serial)
      BY <3>1 DEF RecordsInv, SerialsKnown, AnswersExact
    <3>5. /\ request.serial \in 1..written
          /\ \A r \in findings : r.serial = request.serial => r.id = request.id
      BY <1>1 DEF RecordsInv, RequestKnown
    <3> QED BY <1>1, <1>2, <3>2, <3>3, <3>4, <3>5 DEF RequestKnown
  <2> QED BY <2>1, <2>2 DEF ReadFinding
<1> QED BY <1>3, <1>4 DEF RecordsInv

LEMMA RequestSent ==
  ASSUME RecordsInv, RecordsTyped', NEW r \in findings, NEW answer \in Answers,
         AnswerFinding(r, answer)
  PROVE  RecordsInv'
<1>1. /\ UNCHANGED <<findings, written, archive, confirmed>>
      /\ request'.serial = r.serial /\ request'.id = r.id /\ request'.rows = {}
  BY DEF AnswerFinding
<1>2. \A s : Said(s)' = Said(s) /\ Archived(s)' = Archived(s)
  BY <1>1 DEF Said, Archived
<1>3. SerialsKnown' /\ SerialsOnce' /\ AnswersExact' /\ AnswersAstray'
  BY <1>1, <1>2 DEF RecordsInv, SerialsKnown, SerialsOnce, AnswersExact, AnswersAstray
<1>4. RequestKnown'
  BY <1>1 DEF RecordsInv, RequestKnown, SerialsKnown, SerialsOnce
<1> QED BY <1>3, <1>4 DEF RecordsInv

LEMMA RequestEnds ==
  ASSUME RecordsInv, RecordsTyped', CommitFails \/ UNCHANGED recordsVars PROVE RecordsInv'
<1>1. UNCHANGED <<findings, written, archive, confirmed>> /\ request' \in {None, request}
  BY DEF CommitFails, recordsVars
<1>2. \A s : Said(s)' = Said(s) /\ Archived(s)' = Archived(s)
  BY <1>1 DEF Said, Archived
<1>3. SerialsKnown' /\ SerialsOnce' /\ AnswersExact' /\ AnswersAstray'
  BY <1>1, <1>2 DEF RecordsInv, SerialsKnown, SerialsOnce, AnswersExact, AnswersAstray
<1>4. RequestKnown'
  BY <1>1, <1>2 DEF RecordsInv, RequestKnown
<1> QED BY <1>3, <1>4 DEF RecordsInv

(* What is confirmed of rows that are, or were, the meant ones.            *)
LEMMA Confirmed ==
  ASSUME RecordsInv, request # None, NEW S \in SUBSET FindingRow, Confirm(S), UNCHANGED archive,
         \A r \in S : r.serial \in 1..written /\ (r.serial = request.serial \/ Archived(request.serial))
  PROVE  /\ \A c \in confirmed' : c.row \in 1..written
         /\ AnswersAstray'
         /\ \A s : Said(s)' = IF \E r \in S : r.serial = s THEN Said(s) \cup {request.answer} ELSE Said(s)
<1> DEFINE note(r) == [answer |-> request.answer, serial |-> request.serial, row |-> r.serial]
<1>1. confirmed' = confirmed \cup {note(r) : r \in S} /\ archive' = archive
  BY DEF Confirm
<1>2. request.answer \in Answers
  BY RequestFields DEF RecordsInv, RecordsTyped, RecordsTypeOK
<1>3. \A r \in S : /\ note(r).answer = request.answer /\ note(r).serial = request.serial
                   /\ note(r).row = r.serial
  OBVIOUS
<1> HIDE DEF note
<1>4. \A c \in confirmed' : c \in confirmed \/ \E r \in S : c = note(r)
  BY <1>1
<1>5. \A c \in confirmed' : c.row \in 1..written
  BY <1>3, <1>4 DEF RecordsInv, SerialsKnown
<1>6. AnswersAstray'
  BY <1>1, <1>3, <1>4 DEF RecordsInv, AnswersAstray, Archived
<1>7. ASSUME NEW s
      PROVE  Said(s)' = IF \E r \in S : r.serial = s THEN Said(s) \cup {request.answer} ELSE Said(s)
  <2>1. Said(s)' = {x \in Answers : \E c \in confirmed' : c.row = s /\ c.answer = x}
    BY DEF Said
  <2>2. ASSUME NEW x \in Answers
        PROVE  (\E c \in confirmed' : c.row = s /\ c.answer = x)
                  <=> x \in Said(s) \/ (x = request.answer /\ \E r \in S : r.serial = s)
    BY <1>1, <1>3 DEF Said
  <2>3. \A x \in Said(s) : x \in Answers
    BY DEF Said
  <2> QED BY <1>2, <2>1, <2>2, <2>3
<1> QED BY <1>5, <1>6, <1>7

LEMMA NothingCommitted ==
  ASSUME RecordsInv, RecordsTyped', NothingToCommit PROVE RecordsInv'
<1>1. /\ request # None /\ Confirm(request.rows) /\ request' = None
      /\ \A r \in request.rows : request.answer \in r.answers
      /\ UNCHANGED <<findings, written, archive>>
  BY DEF NothingToCommit, HasRead, AlreadyAnswered
<1>2. request.rows \subseteq FindingRow
  BY <1>1, RequestFields DEF RecordsInv, RecordsTyped, RecordsTypeOK
<1>3. \A r \in request.rows :
        /\ r.serial \in 1..written /\ (r.serial = request.serial \/ Archived(request.serial))
        /\ request.answer \in Said(r.serial)
  BY <1>1 DEF RecordsInv, RequestKnown
<1>4. /\ \A c \in confirmed' : c.row \in 1..written
      /\ AnswersAstray'
      /\ \A s : Said(s)' = IF \E r \in request.rows : r.serial = s
                           THEN Said(s) \cup {request.answer} ELSE Said(s)
  BY <1>1, <1>2, <1>3, Confirmed
<1>5. \A s : Said(s)' = Said(s)
  BY <1>3, <1>4
<1>6. AnswersExact'
  BY <1>1, <1>5 DEF RecordsInv, AnswersExact
<1>7. SerialsKnown' /\ SerialsOnce' /\ RequestKnown'
  BY <1>1, <1>4 DEF RecordsInv, SerialsKnown, SerialsOnce, RequestKnown, Archived
<1> QED BY <1>4, <1>6, <1>7 DEF RecordsInv

(* Every row of the target gets the answer, and every one is confirmed.    *)
LEMMA AnswerCommitted ==
  ASSUME RecordsInv, RecordsTyped', CommitAnswer PROVE RecordsInv'
<1> DEFINE x == request.answer
           With(r) == [r EXCEPT !.answers = @ \cup {x}]
<1>1. /\ findings' = (findings \ Target) \cup {With(r) : r \in Target}
      /\ Confirm(Target) /\ request' = None /\ UNCHANGED <<written, archive>>
      /\ x \in Answers /\ Target \subseteq findings /\ Target \subseteq FindingRow /\ request # None
  BY RequestFields DEF CommitAnswer, HasRead, RecordsInv, RecordsTyped, RecordsTypeOK, Target
<1>2. \A r \in Target : /\ With(r).serial = r.serial /\ With(r).answers = r.answers \cup {x}
                        /\ r.serial \in 1..written
  BY <1>1, RowFields DEF RecordsInv, SerialsKnown
<1> HIDE DEF With
<1>3. \A r \in Target : r.serial = request.serial \/ Archived(request.serial)
  BY <1>1, TargetIsMeant
<1>4. /\ \A c \in confirmed' : c.row \in 1..written
      /\ AnswersAstray'
      /\ \A s : Said(s)' = IF \E r \in Target : r.serial = s THEN Said(s) \cup {x} ELSE Said(s)
  BY <1>1, <1>2, <1>3, Confirmed
<1> HIDE DEF x
<1>5. SerialsKnown'
  BY <1>1, <1>2, <1>4 DEF RecordsInv, SerialsKnown
<1>6. SerialsOnce'
  <2>1. \A r \in findings' : \E q \in findings : r.serial = q.serial
    BY <1>1, <1>2
  <2>2. \A q \in findings : \E r \in findings' : r.serial = q.serial
    BY <1>1, <1>2
  <2>3. ASSUME NEW r \in findings', NEW q \in findings', r.serial = q.serial
        PROVE  r = q
    <3>1. CASE r \in findings \ Target /\ q \in findings \ Target
      BY <2>3, <3>1 DEF RecordsInv, SerialsOnce
    <3>2. CASE r \notin findings \ Target /\ q \notin findings \ Target
      <4>1. PICK a \in Target, b \in Target : r = With(a) /\ q = With(b)
        BY <1>1, <3>2
      <4>2. a.serial = b.serial
        BY <1>1, <1>2, <2>3, <4>1
      <4>3. a = b
        BY <1>1, <4>2 DEF RecordsInv, SerialsOnce
      <4> QED BY <4>1, <4>3
    <3>3. CASE r \in findings \ Target /\ q \notin findings \ Target
      BY <1>1, <1>2, <2>3, <3>3 DEF RecordsInv, SerialsOnce
    <3>4. CASE r \notin findings \ Target /\ q \in findings \ Target
      BY <1>1, <1>2, <2>3, <3>4 DEF RecordsInv, SerialsOnce
    <3> QED BY <3>1, <3>2, <3>3, <3>4
  <2> QED BY <1>1, <2>1, <2>2, <2>3 DEF RecordsInv, SerialsOnce, Archived
<1>7. AnswersExact'
  <2>3. ASSUME NEW r \in findings \ Target
        PROVE  r.answers = Said(r.serial)'
    <3>1. \A q \in Target : q.serial # r.serial
      BY <1>1 DEF RecordsInv, SerialsOnce
    <3> QED BY <1>4, <3>1 DEF RecordsInv, AnswersExact
  <2>4. ASSUME NEW r \in Target
        PROVE  With(r).answers = Said(r.serial)'
    BY <1>1, <1>2, <1>4 DEF RecordsInv, AnswersExact
  <2>5. ASSUME NEW a \in archive
        PROVE  Said(a.serial)' = Said(a.serial)
    BY <1>1, <1>4 DEF RecordsInv, SerialsOnce
  <2>6. ASSUME NEW q \in findings'
        PROVE  q.answers = Said(q.serial)'
    <3>1. CASE q \in findings \ Target
      BY <2>3, <3>1
    <3>2. CASE q \notin findings \ Target
      <4>1. PICK r \in Target : q = With(r)
        BY <1>1, <3>2
      <4>2. q.serial = r.serial
        BY <1>1, <1>2, <4>1
      <4> QED BY <2>4, <4>1, <4>2
    <3> QED BY <3>1, <3>2
  <2>7. \A a \in archive' : a.outcome = OutcomeOf(Said(a.serial)')
    BY <1>1, <2>5 DEF RecordsInv, AnswersExact
  <2> QED BY <2>6, <2>7 DEF AnswersExact, OutcomeOf
<1>8. RequestKnown'
  BY <1>1 DEF RequestKnown
<1> QED BY <1>4, <1>5, <1>6, <1>7, <1>8 DEF RecordsInv

LEMMA Retained == ASSUME RecordsInv, RecordsTyped', RunRetention PROVE RecordsInv'
<1> DEFINE Old(r) == [original |-> r.id, serial |-> r.serial, outcome |-> Outcome(r)]
<1>1. /\ archive' = archive \cup {Old(r) : r \in Expired} /\ findings' = findings \ Expired
      /\ UNCHANGED <<written, request, confirmed>> /\ Expired \subseteq findings
  BY DEF RunRetention, Expired
<1>2. \A r \in findings : Old(r).serial = r.serial /\ Old(r).outcome = OutcomeOf(r.answers)
  BY DEF Outcome, OutcomeOf
<1> HIDE DEF Old
<1>3. \A s : Archived(s) => Archived(s)'
  BY <1>1 DEF Archived
<1>4. SerialsOnce'
  <2>1. ASSUME NEW a \in archive', NEW b \in archive', a.serial = b.serial
        PROVE  a = b
    BY <1>1, <1>2, <2>1 DEF RecordsInv, SerialsOnce
  <2>2. ASSUME NEW r \in findings', NEW a \in archive'
        PROVE  r.serial # a.serial
    BY <1>1, <1>2 DEF RecordsInv, SerialsOnce
  <2>3. ASSUME NEW s \in 1..written
        PROVE  (\E r \in findings' : r.serial = s) \/ Archived(s)'
    <3>1. CASE Archived(s)
      BY <1>3, <3>1
    <3>2. CASE \E r \in findings : r.serial = s
      BY <1>1, <1>2, <3>2 DEF Archived
    <3> QED BY <3>1, <3>2 DEF RecordsInv, SerialsOnce
  <2> QED BY <1>1, <2>1, <2>2, <2>3 DEF RecordsInv, SerialsOnce
<1>5. \A s : Said(s)' = Said(s)
  BY <1>1 DEF Said
<1>6. AnswersExact'
  BY <1>1, <1>2, <1>5 DEF RecordsInv, AnswersExact, OutcomeOf
<1>7. SerialsKnown' /\ AnswersAstray'
  BY <1>1, <1>2, <1>3 DEF RecordsInv, SerialsKnown, AnswersAstray
<1>8. RequestKnown'
  BY <1>1, <1>3, <1>5 DEF RecordsInv, RequestKnown
<1> QED BY <1>4, <1>6, <1>7, <1>8 DEF RecordsInv

LEMMA RecordsSteps ==
  ASSUME RecordsAssumption, RecordsInv, [RecordsNext]_recordsVars PROVE RecordsInv'
<1>1. RecordsTyped'
  BY RecordsTypedSteps DEF RecordsInv
<1> QED BY <1>1, FindingWritten, RowExpires, RequestSent, RequestRead, AnswerCommitted,
           NothingCommitted, RequestEnds, Retained DEF RecordsNext

(* rollup.py:149-173, findings.py:62-79.  A finding is in the table or,    *)
(* once, in the archive, with the answers written to it, whatever          *)
(* retention deletes and however often an id is given out again; and an    *)
(* answer the user was told had been recorded is with the finding it was   *)
(* meant for, unless that had been archived by then.                       *)
THEOREM AnswersAreKept == ASSUME RecordsAssumption PROVE RecordsSpec => []NoAnswerIsLost
<1>1. RecordsInv => NoAnswerIsLost
  <2> SUFFICES ASSUME RecordsInv, NEW s \in 1..written
               PROVE  LET answers == {c.answer : c \in {d \in confirmed : d.row = s}}
                          kept    == {r \in findings : r.serial = s}
                          old     == {a \in archive : a.serial = s}
                      IN /\ Cardinality(kept) + Cardinality(old) = 1
                         /\ \A r \in kept : answers \subseteq r.answers
                         /\ \A a \in old : answers # {} => a.outcome \in answers
                         /\ \A a \in old : "dismissed" \in answers => a.outcome = "dismissed"
    BY DEF NoAnswerIsLost, RecordsInv, AnswersAstray, Archived
  <2> DEFINE kept == {r \in findings : r.serial = s}
             old  == {a \in archive : a.serial = s}
  <2>1. Cardinality(kept) + Cardinality(old) = 1
    <3>1. CASE \E r \in findings : r.serial = s
      <4>1. PICK r \in findings : r.serial = s
        BY <3>1
      <4>2. kept = {r} /\ old = {}
        BY <4>1 DEF RecordsInv, SerialsOnce
      <4>3. Cardinality(kept) = 1 /\ Cardinality(old) = 0
        BY <4>2, FS_EmptySet, FS_Singleton, Zenon
      <4> QED BY <4>3
    <3>2. CASE Archived(s)
      <4>1. PICK a \in archive : a.serial = s
        BY <3>2 DEF Archived
      <4>2. kept = {} /\ old = {a}
        BY <4>1 DEF RecordsInv, SerialsOnce
      <4>3. Cardinality(kept) = 0 /\ Cardinality(old) = 1
        BY <4>2, FS_EmptySet, FS_Singleton, Zenon
      <4> QED BY <4>3
    <3> QED BY <3>1, <3>2 DEF RecordsInv, SerialsOnce
  <2>4. {c.answer : c \in {d \in confirmed : d.row = s}} = Said(s)
    <3>1. \A c \in confirmed : c.answer \in Answers
      BY DEF RecordsInv, RecordsTyped, RecordsTypeOK
    <3> QED BY <3>1 DEF Said
  <2>2. \A r \in kept : Said(s) \subseteq r.answers
    BY DEF RecordsInv, AnswersExact
  <2>3. ASSUME NEW a \in old
        PROVE  /\ Said(s) # {} => a.outcome \in Said(s)
               /\ "dismissed" \in Said(s) => a.outcome = "dismissed"
    <3>1. a.outcome = OutcomeOf(Said(s))
      BY DEF RecordsInv, AnswersExact
    <3>2. Said(s) \subseteq {"ack", "dismissed"}
      BY DEF Said, Answers
    <3> QED BY <3>1, <3>2 DEF OutcomeOf
  <2> HIDE DEF kept, old
  <2> QED BY <2>1, <2>2, <2>3, <2>4 DEF kept, old
<1>2. RecordsInv /\ [RecordsNext]_recordsVars => RecordsInv'
  BY RecordsSteps
<1> QED BY RecordsInitially, <1>1, <1>2, PTL DEF RecordsSpec

-----------------------------------------------------------------------------
(* The settings.                                                           *)
(* What the proof of SavedIsInForce needs beyond it.  The value a user was *)
(* told is saved is still the file's, or a restart would lose it; and the  *)
(* file, as far as nothing warned about it, would load.                    *)
ToldIsStored == \A k \in Keys : told[k] # Absent => config[k] = told[k]

SettingsInv == SettingsTypeOK /\ ToldIsStored /\ SavedIsInForce

(* Resolving a value of the file gives a value of a Settings object.       *)
LEMMA ResolvedIsValue ==
  ASSUME SettingsAssumption,
         NEW k \in Keys, NEW v \in Values \cup {Absent}
  PROVE  Resolved(k, v) \in Values \cup {FromEnv}
BY DEF SettingsAssumption, Resolved

(* Where nothing is set, the environment or the fallback is accepted.      *)
LEMMA NothingSetIsValid ==
  ASSUME SettingsAssumption
  PROVE  Validated([k \in Keys |-> Absent])
<1>1. ASSUME NEW k \in Keys PROVE <<k, Resolved(k, Absent)>> \in Accepts
  BY <1>1 DEF SettingsAssumption, Resolved
<1> QED BY <1>1 DEF Validated

LEMMA SettingsInitially ==
  ASSUME SettingsAssumption PROVE SettingsInit => SettingsInv
<1> SUFFICES ASSUME SettingsInit PROVE SettingsInv
  OBVIOUS
<1>1. SettingsTypeOK
  <2>1. 0 \in 0..MaxConfigFaults
    BY DEF SettingsAssumption
  <2> QED BY <2>1 DEF SettingsInit, SettingsTypeOK
<1>2. ToldIsStored
  BY DEF SettingsInit, ToldIsStored
<1>3. SavedIsInForce
  BY NothingSetIsValid DEF SettingsInit, SavedIsInForce
<1> QED BY <1>1, <1>2, <1>3 DEF SettingsInv

(* Every action but the ones that fail part-way either stores the whole    *)
(* file or leaves it alone.                                                *)
LEMMA SettingsSteps ==
  ASSUME SettingsAssumption, SettingsInv, [SettingsNext]_settingsVars PROVE SettingsInv'
<1> USE DEF SettingsInv
<1>1. CASE Start
  <2>1. SettingsTypeOK'
    BY <1>1, ResolvedIsValue DEF Start, SettingsTypeOK, FromYaml
  <2>2. SavedIsInForce'
    BY <1>1 DEF Start, SavedIsInForce, ToldIsStored, FromYaml, SettingsTypeOK, Resolved, Validated
  <2> QED BY <1>1, <2>1, <2>2 DEF Start, ToldIsStored
<1>2. CASE Stop
  BY <1>2 DEF Stop, SettingsTypeOK, SavedIsInForce, ToldIsStored, Resolved, Validated
<1>3. ASSUME NEW k \in Keys, NEW v \in Typed[k], SaveSetting(k, v) PROVE SettingsInv'
  <2>1. v \in Values /\ v # Absent
    BY <1>3 DEF SettingsAssumption
  <2>2. /\ config' = [config EXCEPT ![k] = v] /\ told' = [told EXCEPT ![k] = v]
        /\ settings' = [j \in Keys |-> Resolved(j, config'[j])]
        /\ Validated(config') /\ readable /\ running
    BY <1>3 DEF SaveSetting, Replaced, Reload, FromYaml
  <2>3. SettingsTypeOK'
    <3>1. config' \in [Keys -> Values \cup {Absent}] /\ told' \in [Keys -> Values \cup {Absent}]
      BY <2>1, <2>2 DEF SettingsTypeOK
    <3>2. settings' \in [Keys -> Values \cup {FromEnv, Unloaded}]
      BY <3>1, <2>2, ResolvedIsValue
    <3> QED BY <1>3, <3>1, <3>2 DEF SettingsTypeOK, SaveSetting
  <2>4. ToldIsStored'
    BY <2>1, <2>2 DEF ToldIsStored, SettingsTypeOK
  <2>5. SavedIsInForce'
    BY <1>3, <2>2, <2>4 DEF SavedIsInForce, SaveSetting, ToldIsStored, Resolved, Validated
  <2> QED BY <2>3, <2>4, <2>5
<1>4. ASSUME NEW k \in Keys, NEW v \in Typed[k], SaveRefused(k, v) PROVE SettingsInv'
  <2>1. v \in Values
    BY <1>4 DEF SettingsAssumption
  <2>2. SettingsTypeOK'
    BY <1>4, <2>1 DEF SaveRefused, Replaced, SettingsTypeOK
  <2>3. ToldIsStored'
    BY <1>4 DEF SaveRefused, Replaced, ToldIsStored, SettingsTypeOK
  <2>4. SavedIsInForce'
    BY <1>4 DEF SaveRefused, SavedIsInForce, SettingsTypeOK, Resolved
  <2> QED BY <2>2, <2>3, <2>4
<1>5. ASSUME NEW k \in Keys, NEW v \in Typed[k], WriteCut(k, v) PROVE SettingsInv'
  <2>1. v \in Values
    BY <1>5 DEF SettingsAssumption
  <2>2. Replaced(k, v) \in [Keys -> Values \cup {Absent}]
    BY <2>1 DEF Replaced, SettingsTypeOK
  <2>3. PICK kept \in SUBSET Keys :
          config' = [j \in Keys |-> IF j \in kept THEN Replaced(k, v)[j] ELSE Absent]
    BY <1>5 DEF WriteCut
  <2>4. config' \in [Keys -> Values \cup {Absent}]
    BY <2>2, <2>3
  <2>5. settings' \in [Keys -> Values \cup {FromEnv, Unloaded}]
    BY <1>5 DEF WriteCut, SettingsTypeOK
  <2>6. configFaults' \in 0..MaxConfigFaults
    BY <1>5 DEF WriteCut, SettingsTypeOK, SettingsAssumption
  <2>7. SettingsTypeOK'
    BY <1>5, <2>4, <2>5, <2>6 DEF WriteCut, SettingsTypeOK
  <2> QED BY <1>5, <2>7 DEF WriteCut, ToldIsStored, SavedIsInForce
<1>6. ASSUME NEW k \in Keys, NEW v \in Values, HandEdit(k, v) PROVE SettingsInv'
  <2>1. configFaults' \in 0..MaxConfigFaults
    BY <1>6 DEF HandEdit, SettingsTypeOK, SettingsAssumption
  <2>2. SettingsTypeOK'
    BY <1>6, <2>1 DEF HandEdit, Replaced, SettingsTypeOK
  <2>3. ToldIsStored'
    BY <1>6 DEF HandEdit, Replaced, ToldIsStored, SettingsTypeOK
  <2>4. SavedIsInForce'
    BY <1>6 DEF HandEdit, SavedIsInForce, SettingsTypeOK, Resolved
  <2> QED BY <2>2, <2>3, <2>4
<1>7. CASE UNCHANGED settingsVars
  BY <1>7 DEF settingsVars, SettingsTypeOK, SavedIsInForce, ToldIsStored, Resolved, Validated
<1> QED BY <1>1, <1>2, <1>3, <1>4, <1>5, <1>6, <1>7 DEF SettingsNext

(* config.py:149-230, routes.py:2739-2795.  What a save reported as done   *)
(* is in force whenever the process runs, and nothing but a reported error *)
(* or an edit by hand keeps the process from starting again.               *)
THEOREM SavedStaysInForce ==
  ASSUME SettingsAssumption PROVE SettingsSpec => [](SettingsTypeOK /\ SavedIsInForce)
<1>1. SettingsInit => SettingsInv
  BY SettingsInitially
<1>2. SettingsInv /\ [SettingsNext]_settingsVars => SettingsInv'
  BY SettingsSteps
<1>3. SettingsInv => SettingsTypeOK /\ SavedIsInForce
  BY DEF SettingsInv
<1> QED BY <1>1, <1>2, <1>3, PTL DEF SettingsSpec
=============================================================================
