------------------------------- MODULE Records -------------------------------
(***************************************************************************)
(* Findings, from the investigation that writes them to the archive that   *)
(* outlives them: the user acknowledges or dismisses one while retention,  *)
(* in a thread of the scheduler, archives and deletes the expired ones.    *)
(* What a finding says is left out.  SQLite gives a row the highest id in  *)
(* the table and one more, so the id of a deleted finding can come back.   *)
(***************************************************************************)
EXTENDS Naturals, FiniteSets

CONSTANTS
  MaxFindings, \* bound: findings ever written
  MaxAborts    \* bound: commits that find the database locked

RecordsAssumption == MaxFindings \in Nat \ {0} /\ MaxAborts \in Nat

Answers == {"ack", "dismissed"}

VARIABLES
  findings,  \* findings: records [id, serial, expired, answers]
  written,   \* findings written so far; each has its own serial number
  archive,   \* finding_archives: records [original, serial, outcome]
  request,   \* the request on its way: the finding the user looked at, its id, the
             \* answer, and the row the handler has read under that id; or none
  aborts,
  confirmed  \* history: the answers the user was told had been recorded, each
             \* with the finding it was meant for and the one whose row has it

recordsVars == <<findings, written, archive, request, aborts, confirmed>>

None == [answer |-> "none"]
FindingRow ==
  [id : 1..MaxFindings, serial : 1..MaxFindings, expired : BOOLEAN,
   answers : SUBSET Answers]

Request == [answer : Answers, serial : 1..MaxFindings, id : 1..MaxFindings, rows : SUBSET FindingRow]

RecordsTypeOK ==
  /\ findings \subseteq FindingRow /\ written \in 0..MaxFindings
  /\ archive \subseteq [original : 1..MaxFindings, serial : 1..MaxFindings,
                        outcome : Answers \cup {"unresolved"}]
  /\ request = None \/ request \in Request
  /\ aborts \in 0..MaxAborts
  /\ confirmed \subseteq [answer : Answers, serial : 1..MaxFindings, row : 1..MaxFindings]

RecordsInit ==
  /\ findings = {} /\ written = 0 /\ archive = {} /\ request = None
  /\ aborts = 0 /\ confirmed = {}

NextId == LET ids == {r.id : r \in findings} IN
  IF ids = {} THEN 1 ELSE 1 + CHOOSE i \in ids : \A j \in ids : j <= i

Write ==
  /\ written < MaxFindings
  /\ written' = written + 1
  /\ findings' = findings \cup
       {[id |-> NextId, serial |-> written', expired |-> FALSE, answers |-> {}]}
  /\ UNCHANGED <<archive, request, aborts, confirmed>>

(* findings_days have passed; older findings expire first.                 *)
Expire(r) ==
  /\ r \in findings /\ ~r.expired
  /\ \A q \in findings : q.serial < r.serial => q.expired
  /\ findings' = (findings \ {r}) \cup {[r EXCEPT !.expired = TRUE]}
  /\ UNCHANGED <<written, archive, request, aborts, confirmed>>

-----------------------------------------------------------------------------
(* acknowledge_finding and dismiss_finding.  The user answers a finding    *)
(* seen some time ago, by its id; the handler reads the row that has the   *)
(* id now, without a lock, and changes the row that has it at the commit.  *)
(* A change that meets no row fails, and so does one that waits too long   *)
(* for the write lock.                                                     *)
AnswerFinding(r, answer) ==
  /\ request = None /\ r \in findings
  /\ request' = [answer |-> answer, serial |-> r.serial, id |-> r.id, rows |-> {}]
  /\ UNCHANGED <<findings, written, archive, aborts, confirmed>>

Target == {r \in findings : r.id = request.id}

ReadFinding ==
  /\ request # None /\ request.rows = {}
  /\ request' = IF Target = {} THEN None ELSE [request EXCEPT !.rows = Target]
  /\ UNCHANGED <<findings, written, archive, aborts, confirmed>>

HasRead == request # None /\ request.rows # {}
AlreadyAnswered == \A r \in request.rows : request.answer \in r.answers

(* What the user is told, for each row that has the answer now.            *)
Confirm(rows) ==
  confirmed' = confirmed \cup
    {[answer |-> request.answer, serial |-> request.serial, row |-> r.serial] : r \in rows}

(* Mutant: the commit succeeds though the row is gone.                     *)
CommitAnswerBlindly ==
  /\ HasRead /\ ~AlreadyAnswered
  /\ findings' = (findings \ Target)
                   \cup {[r EXCEPT !.answers = @ \cup {request.answer}] : r \in Target}
  /\ Confirm(IF Target = {} THEN request.rows ELSE Target)
  /\ request' = None
  /\ UNCHANGED <<written, archive, aborts>>
CommitAnswer ==
  /\ HasRead /\ ~AlreadyAnswered
  /\ findings' = (findings \ Target)
                   \cup {[r EXCEPT !.answers = @ \cup {request.answer}] : r \in Target}
  /\ Confirm(Target)
  /\ request' = None
  /\ UNCHANGED <<written, archive, aborts>>

(* What the row that was read has already is not written again.           *)
NothingToCommit ==
  /\ HasRead /\ AlreadyAnswered
  /\ Confirm(request.rows)
  /\ request' = None
  /\ UNCHANGED <<findings, written, archive, aborts>>

CommitFails ==
  /\ HasRead /\ aborts < MaxAborts
  /\ request' = None /\ aborts' = aborts + 1
  /\ UNCHANGED <<findings, written, archive, confirmed>>

-----------------------------------------------------------------------------
(* run_retention: its first statement is a deletion, so all of it is under *)
(* the write lock; it takes effect as a whole or not at all.               *)
Outcome(r) ==
  IF "dismissed" \in r.answers THEN "dismissed"
  ELSE IF "ack" \in r.answers THEN "ack" ELSE "unresolved"

Expired == {r \in findings : r.expired}

RunRetention ==
  /\ Expired # {}
  /\ archive' = archive \cup
       {[original |-> r.id, serial |-> r.serial, outcome |-> Outcome(r)] : r \in Expired}
  /\ findings' = findings \ Expired
  /\ UNCHANGED <<written, request, aborts, confirmed>>

RecordsNext ==
  \/ Write \/ RunRetention
  \/ \E r \in findings : Expire(r) \/ \E answer \in Answers : AnswerFinding(r, answer)
  \/ ReadFinding \/ CommitAnswer \/ NothingToCommit \/ CommitFails

RecordsSpec == RecordsInit /\ [][RecordsNext]_recordsVars

-----------------------------------------------------------------------------
(* rollup.py:149-173 against findings.py:62-79.  Every finding is in the   *)
(* table or, once, in the archive, and there with the answers written to   *)
(* it.  An answer the user was told had been recorded is with the finding  *)
(* it was meant for, unless that had been archived by then: its id may     *)
(* have been given to another finding, which then has the answer instead.  *)
NoAnswerIsLost ==
  /\ \A serial \in 1..written :
       LET answers == {c.answer : c \in {d \in confirmed : d.row = serial}}
           kept    == {r \in findings : r.serial = serial}
           old     == {a \in archive : a.serial = serial}
       IN /\ Cardinality(kept) + Cardinality(old) = 1
          /\ \A r \in kept : answers \subseteq r.answers
          /\ \A a \in old : answers # {} => a.outcome \in answers
          /\ \A a \in old : "dismissed" \in answers => a.outcome = "dismissed"
  /\ \A c \in confirmed : c.row = c.serial \/ \E a \in archive : a.serial = c.serial
=============================================================================
