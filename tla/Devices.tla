------------------------------- MODULE Devices -------------------------------
(***************************************************************************)
(* The device records.  Collectors enrich them from threads, users edit    *)
(* them over the API and the dashboard, the actor has the LLM classify     *)
(* those without a type.  A session computes its update from the row as it *)
(* read it, and its commit writes only the columns it changed: sessions    *)
(* overlap, the actor's for as long as five LLM calls take.  An update of  *)
(* a user is one step: its handler does not wait between read and commit.  *)
(* A column without a value is "".  Left out: the fields that are simply   *)
(* overwritten with the latest report (address, access point, signal).     *)
(***************************************************************************)
EXTENDS Naturals, Sequences, FiniteSets

CONSTANTS
  Macs, Reporters,
  HintedTypes,           \* the types a parser or the UniFi API may vouch for
  Guesses,               \* what the signals of a report point to, with "" for nothing
  Choices,               \* the types the LLM may answer
  UserTypes, UserRoles,  \* what users enter, with "" for clearing the field
  PerCycle,              \* devices classified per actor cycle
  MaxSessions            \* bound: reports, edits and cycles

Agent == "agent"

DevicesAssumption ==
  /\ PerCycle \in Nat /\ MaxSessions \in Nat
  /\ IsFiniteSet(Macs) /\ IsFiniteSet(Reporters) /\ Agent \notin Reporters

Types          == HintedTypes \cup Guesses \cup Choices \cup UserTypes \cup {""}
Infrastructure == {"router", "ap", "switch", "infrastructure"}
Client         == {"phone", "tablet", "desktop", "laptop"}
Roles          == {"", "infrastructure", "server", "iot", "client"} \cup UserRoles
By             == {"", "system", "user", Agent}
DeviceRow      == [type : Types, role : Roles, by : By]
Column         == {"type", "role", "by"}
NoRow          == [type |-> "", role |-> "", by |-> ""]

VARIABLES
  device,       \* the rows; NoRow for a MAC without one
  reading,      \* per thread: the report it handles with the row it read, or none
  classifying,  \* the actor's: the MACs it read as unclassified
  sessions,
  edited, outdated   \* history: columns with a user's value; sessions older than the last edit

devicesVars == <<device, reading, classifying, sessions, edited, outdated>>

Report == [mac : Macs, hint : HintedTypes \cup {""}, guess : Guesses \cup {""}, row : DeviceRow]

DevicesTypeOK ==
  /\ device \in [Macs -> DeviceRow]
  /\ reading \in [Reporters -> Seq(Report)] /\ \A t \in Reporters : Len(reading[t]) <= 1
  /\ classifying \subseteq Macs /\ Cardinality(classifying) <= PerCycle
  /\ sessions \in 0..MaxSessions
  /\ edited \in [Macs -> SUBSET Column]
  /\ outdated \in [Macs -> SUBSET (Reporters \cup {Agent})]

DevicesInit ==
  /\ device = [m \in Macs |-> NoRow]
  /\ reading = [t \in Reporters |-> <<>>] /\ classifying = {} /\ sessions = 0
  /\ edited = [m \in Macs |-> {}] /\ outdated = [m \in Macs |-> {}]

Opens == sessions < MaxSessions /\ sessions' = sessions + 1
Open(m) == {t \in Reporters : reading[t] # <<>> /\ reading[t][1].mac = m}
           \cup (IF m \in classifying THEN {Agent} ELSE {})

InferDeviceType(hint, guess) == IF hint # "" THEN hint ELSE guess

InferNetworkRole(type) ==
  CASE type \in Infrastructure      -> "infrastructure"
    [] type \in {"server", "media"} -> "server"
    [] type = "iot"                 -> "iot"
    [] type \in Client              -> "client"
    [] OTHER                        -> ""

(* enrich_device, on the row as it was read.  Mutants: a guess also        *)
(* replaces a type; a role is also inferred for rows others edited.        *)
EnrichedGuessing(r) ==
  LET row  == r.row
      type == IF InferDeviceType(r.hint, r.guess) # "" THEN InferDeviceType(r.hint, r.guess)
              ELSE row.type IN
  [type |-> type, role |-> row.role, by |-> IF row.by = "" THEN "system" ELSE row.by]
Enriched(r) ==
  LET row  == r.row
      type == IF (r.hint # "" \/ row.type = "") /\ InferDeviceType(r.hint, r.guess) # ""
              THEN InferDeviceType(r.hint, r.guess) ELSE row.type
      role == IF (row.role = "" \/ row.by = "system") /\ InferNetworkRole(type) # ""
              THEN InferNetworkRole(type) ELSE row.role IN
  [type |-> type, role |-> role, by |-> IF row.by = "" THEN "system" ELSE row.by]

(* A commit writes the columns in which new differs from old, over what    *)
(* the row holds by then.                                                  *)
Changed(old, new)  == {c \in Column : old[c] # new[c]}
MergedRow(m, old, new) == [c \in Column |-> IF old[c] # new[c] THEN new[c] ELSE device[m][c]]

-----------------------------------------------------------------------------
EnrichRead(t, m, hint, guess) ==
  /\ reading[t] = <<>> /\ Opens
  /\ reading' = [reading EXCEPT ![t] =
                   <<[mac |-> m, hint |-> hint, guess |-> guess, row |-> device[m]]>>]
  /\ UNCHANGED <<device, classifying, edited, outdated>>

(* The second of two inserts of one MAC violates the unique key, and its   *)
(* report is dropped.                                                      *)
EnrichWrite(t) ==
  /\ reading[t] # <<>>
  /\ LET r == reading[t][1]
         lost == r.row.by = "" /\ device[r.mac].by # "" IN
     /\ device' = IF lost THEN device
                  ELSE [device EXCEPT ![r.mac] = MergedRow(r.mac, r.row, Enriched(r))]
     /\ edited' = IF lost THEN edited
                  ELSE [edited EXCEPT ![r.mac] = @ \ Changed(r.row, Enriched(r))]
     /\ outdated' = [m \in Macs |-> outdated[m] \ {t}]
  /\ reading' = [reading EXCEPT ![t] = <<>>]
  /\ UNCHANGED <<classifying, sessions>>

(* update_device and the dashboard's forms: one column and updated_by; the *)
(* annotation of a service and a new label set only the latter.            *)
UserEdit(m, c, v) ==
  /\ device[m].by # "" /\ Opens
  /\ device' = [device EXCEPT ![m] = [[@ EXCEPT ![c] = v] EXCEPT !.by = "user"]]
  /\ edited' = [edited EXCEPT ![m] = IF v = "" THEN @ \ {c} ELSE @ \cup {c}]
  /\ outdated' = [outdated EXCEPT ![m] = Open(m)]
  /\ UNCHANGED <<reading, classifying>>

UserAnnotates(m) ==
  /\ device[m].by # "" /\ Opens
  /\ device' = [device EXCEPT ![m].by = "user"]
  /\ UNCHANGED <<reading, classifying, edited, outdated>>

(* _classify_new_devices: the rows without a type, at most PerCycle.       *)
Unclassified == {m \in Macs : device[m].by # "" /\ device[m].type = ""}

ClassifyRead ==
  /\ classifying = {} /\ Unclassified # {} /\ Opens
  /\ \E few \in SUBSET Unclassified :
       /\ Cardinality(few) = IF Cardinality(Unclassified) < PerCycle
                             THEN Cardinality(Unclassified) ELSE PerCycle
       /\ classifying' = few
  /\ UNCHANGED <<device, reading, edited, outdated>>

(* The answers that were valid, in one commit after the last call.         *)
ClassifyCommit ==
  /\ classifying # {}
  /\ \E answered \in SUBSET classifying : \E type \in [answered -> Choices] :
       /\ device' = [m \in Macs |-> IF m \in answered
                       THEN [device[m] EXCEPT !.type = type[m], !.by = Agent] ELSE device[m]]
       /\ edited' = [m \in Macs |-> IF m \in answered THEN edited[m] \ {"type"} ELSE edited[m]]
  /\ outdated' = [m \in Macs |-> outdated[m] \ {Agent}]
  /\ classifying' = {}
  /\ UNCHANGED <<reading, sessions>>

DevicesNext ==
  \/ \E t \in Reporters, m \in Macs, h \in HintedTypes \cup {""}, g \in Guesses \cup {""} :
       EnrichRead(t, m, h, g)
  \/ \E t \in Reporters : EnrichWrite(t)
  \/ \E m \in Macs : \/ \E v \in UserTypes : UserEdit(m, "type", v)
                     \/ \E v \in UserRoles : UserEdit(m, "role", v)
                     \/ UserAnnotates(m)
  \/ ClassifyRead \/ ClassifyCommit

DevicesSpec == DevicesInit /\ [][DevicesNext]_devicesVars

-----------------------------------------------------------------------------
(* fingerprint.py:258-274, orchestrator.py:381.  What a user entered goes  *)
(* only when a user changes it, when a report vouches for a type, or when  *)
(* a session writes that read the row before the edit: never by a guess,   *)
(* an inferred role or a classification that could see the edit.           *)
Vouched(m) ==
  \E t \in Reporters : reading[t] # <<>> /\ reading'[t] = <<>>
                     /\ reading[t][1].mac = m /\ reading[t][1].hint # ""

UserValuesKept ==
  [][\A m \in Macs, c \in {"type", "role"} :
       (c \in edited[m] /\ c \notin edited'[m]) =>
          \/ device'[m].by = "user" /\ device'[m][c] = ""
          \/ outdated[m] # outdated'[m]
          \/ c = "type" /\ Vouched(m)]_devicesVars
=============================================================================
