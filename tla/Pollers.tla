------------------------------ MODULE Pollers ------------------------------
(***************************************************************************)
(* The three collectors that look at the network from time to time and     *)
(* compare with what they remember: nmap (open ports), Pi-hole (recent DNS *)
(* queries) and Plex (server and streams).  Each is a task of its own that *)
(* shares nothing with the others, so an initial state chooses one.  What  *)
(* is remembered is in memory only: a restart is Init again.  Left out:    *)
(* the periodic summaries, the query counts per client, the players seen.  *)
(* Assumed: the rule new_open_port is enabled and approved, as shipped.    *)
(***************************************************************************)
EXTENDS Naturals, FiniteSets

CONSTANTS
  Ports,        \* the <<host, port>> pairs a scan may find open
  Pairs,        \* <<domain, client>> pairs whose domain looks suspicious
  Streams,      \* keys of remote Plex sessions
  SeenMax,      \* size at which _seen_suspicious is halved
  MaxPolls,     \* bound: scans and polls
  MaxFailures   \* bound: database writes that fail

PollersAssumption ==
  /\ IsFiniteSet(Ports) /\ IsFiniteSet(Pairs) /\ IsFiniteSet(Streams)
  /\ SeenMax \in Nat \ {0} /\ MaxPolls \in Nat /\ MaxFailures \in Nat

VARIABLES
  poller,                   \* "nmap", "pihole" or "plex"
  world,                    \* what the poller would find now
  found, busy,              \* what a scan or poll in progress has found
  polls, failures,
  scanned, first, last,     \* nmap: there is a _last_scan; the first result, the last
  quiet,                    \* the cooldown of new_open_port has not passed
  recorded, fired,          \* new ports in the stored scans, new ports that were alerted
  hushed, missed,           \* new ports the cooldown kept silent, or that a failure lost
  seen, jobs, forgotten,    \* Pi-hole: _seen_suspicious, jobs and evictions per pair
  reachable, alerted,       \* Plex: _was_reachable, _alerted_remote_sessions
  alerts, outages           \* events per stream since it was last seen ended; <<offline, online>>

nmapVars   == <<scanned, first, last, quiet, recorded, fired, hushed, missed>>
piholeVars == <<seen, jobs, forgotten>>
plexVars   == <<reachable, alerted, alerts, outages>>
pollersVars == <<poller, world, found, busy, polls, failures, nmapVars, piholeVars, plexVars>>

Things == IF poller = "nmap" THEN Ports ELSE IF poller = "pihole" THEN Pairs ELSE Streams

PollersTypeOK ==
  /\ poller \in {"nmap", "pihole", "plex"}
  /\ world \subseteq Things /\ found \subseteq Things /\ busy \in BOOLEAN
  /\ polls \in 0..MaxPolls /\ failures \in 0..MaxFailures
  /\ scanned \in BOOLEAN /\ first \subseteq Ports /\ last \subseteq Ports
  /\ quiet \in BOOLEAN /\ recorded \subseteq Ports
  /\ fired \subseteq Ports /\ hushed \subseteq Ports /\ missed \subseteq Ports
  /\ seen \subseteq Pairs /\ Cardinality(seen) <= SeenMax
  /\ jobs \in [Pairs -> Nat] /\ forgotten \in [Pairs -> Nat]
  /\ reachable \in {"unknown", "yes", "no"} /\ alerted \subseteq Streams
  /\ alerts \in [Streams -> Nat] /\ outages \in Nat \X Nat

PollersInit ==
  /\ poller \in {"nmap", "pihole", "plex"}
  /\ world \in SUBSET Things /\ found = {} /\ busy = FALSE /\ polls = 0 /\ failures = 0
  /\ scanned = FALSE /\ first = {} /\ last = {} /\ quiet = FALSE
  /\ recorded = {} /\ fired = {} /\ hushed = {} /\ missed = {}
  /\ seen = {} /\ jobs = [p \in Pairs |-> 0] /\ forgotten = [p \in Pairs |-> 0]
  /\ reachable = "unknown" /\ alerted = {}
  /\ alerts = [s \in Streams |-> 0] /\ outages = <<0, 0>>

Fails == failures < MaxFailures /\ failures' = failures + 1

WorldChanges(x) ==
  /\ world' = IF x \in world THEN world \ {x} ELSE world \cup {x}
  /\ UNCHANGED <<poller, found, busy, polls, failures, nmapVars, piholeVars, plexVars>>

-----------------------------------------------------------------------------
(* nmap.  The scan runs in an executor thread for minutes; a host that     *)
(* does not answer in time is missing from the result.  Mutant: closed     *)
(* ports for new ones.                                                     *)
Scan ==
  /\ poller = "nmap" /\ ~busy /\ polls < MaxPolls
  /\ \E got \in SUBSET world : found' = got
  /\ busy' = TRUE /\ polls' = polls + 1
  /\ UNCHANGED <<poller, world, failures, nmapVars, piholeVars, plexVars>>

NewPortsSwapped == IF scanned THEN last \ found ELSE {}
NewPorts == IF scanned THEN found \ last ELSE {}

(* fire_rule respects the rule's cooldown: of several new ports the first  *)
(* fires, and the others, like those of the scans of the next hour, are    *)
(* left to the stored scan.  More than one fires only when the cooldown    *)
(* has been tuned below the time a result takes.                           *)
Rung == IF quiet THEN {{}} ELSE {r \in SUBSET NewPorts : NewPorts # {} => r # {}}
FireFor(rung) == quiet' = (quiet \/ rung # {}) /\ hushed' = hushed \cup (NewPorts \ rung)

CooldownEnds ==
  /\ poller = "nmap" /\ quiet /\ quiet' = FALSE
  /\ UNCHANGED <<poller, world, found, busy, polls, failures, scanned, first, last,
                 recorded, fired, hushed, missed, piholeVars, plexVars>>

(* _process_result has no await.  The result becomes _last_scan first, so  *)
(* when what follows raises or the cooldown runs, the new ports are never  *)
(* seen as new again.                                                      *)
KeepResult ==
  /\ poller = "nmap" /\ busy
  /\ scanned' = TRUE /\ first' = IF scanned THEN first ELSE found
  /\ last' = found /\ found' = {} /\ busy' = FALSE

ProcessResult ==
  /\ KeepResult /\ recorded' = recorded \cup NewPorts
  /\ \E rung \in Rung : FireFor(rung) /\ fired' = fired \cup rung
  /\ UNCHANGED <<poller, world, polls, failures, missed, piholeVars, plexVars>>

(* The scan cannot be stored, the devices cannot be read after it was, or  *)
(* an alert cannot be stored, which is caught after the cooldown started.  *)
ProcessResultFails ==
  /\ KeepResult /\ Fails
  /\ \/ missed' = missed \cup NewPorts /\ UNCHANGED <<quiet, recorded, fired, hushed>>
     \/ /\ missed' = missed \cup NewPorts /\ recorded' = recorded \cup NewPorts
        /\ UNCHANGED <<quiet, fired, hushed>>
     \/ /\ recorded' = recorded \cup NewPorts
        /\ \E rung \in Rung : \E lost \in rung :
             FireFor(rung) /\ fired' = fired \cup (rung \ {lost}) /\ missed' = missed \cup {lost}
  /\ UNCHANGED <<poller, world, polls, piholeVars, plexVars>>

-----------------------------------------------------------------------------
(* Pi-hole.  Each poll reads the recent queries again; one query is one    *)
(* step here, though nothing else runs on the loop in between.             *)
FetchQueries ==
  /\ poller = "pihole" /\ found = {} /\ polls < MaxPolls
  /\ found' = world /\ polls' = polls + 1
  /\ UNCHANGED <<poller, world, busy, failures, nmapVars, piholeVars, plexVars>>

(* The memory is halved by the order of a Python set, which is any order:  *)
(* even the pair just added may go.  Mutant: no cap.                       *)
RememberingAll(p) == {seen \cup {p}}
Remembering(p) ==
  LET more == seen \cup {p} IN
  IF Cardinality(more) <= SeenMax THEN {more}
  ELSE {half \in SUBSET more : Cardinality(half) = SeenMax \div 2}

RememberPair(p) ==
  \E kept \in Remembering(p) :
    /\ seen' = kept
    /\ forgotten' = [q \in Pairs |-> IF q \in (seen \cup {p}) \ kept THEN forgotten[q] + 1
                                     ELSE forgotten[q]]

(* Mutant: a pair that is remembered gets a job as well.                   *)
AnalyzeQueryAgain(p) ==
  /\ poller = "pihole" /\ p \in found
  /\ found' = found \ {p}
  /\ RememberPair(p) /\ jobs' = [jobs EXCEPT ![p] = @ + 1]
  /\ UNCHANGED <<poller, world, busy, polls, failures, nmapVars, plexVars>>
AnalyzeQuery(p) ==
  /\ poller = "pihole" /\ p \in found
  /\ found' = found \ {p}
  /\ IF p \in seen THEN UNCHANGED piholeVars
     ELSE RememberPair(p) /\ jobs' = [jobs EXCEPT ![p] = @ + 1]
  /\ UNCHANGED <<poller, world, busy, polls, failures, nmapVars, plexVars>>

(* enqueue_job raises: the rest of the batch is left to the next poll, but *)
(* this pair has been remembered.                                          *)
AnalyzeQueryFails(p) ==
  /\ poller = "pihole" /\ p \in found \ seen /\ Fails
  /\ RememberPair(p) /\ found' = {}
  /\ UNCHANGED <<poller, world, busy, polls, jobs, nmapVars, plexVars>>

-----------------------------------------------------------------------------
(* Plex.  Reachability is a request of its own before the sessions.        *)
ProbePlex(up) ==
  /\ poller = "plex" /\ ~busy /\ polls < MaxPolls
  /\ polls' = polls + 1 /\ busy' = up
  /\ outages' = IF reachable = "yes" /\ ~up THEN <<outages[1] + 1, outages[2]>>
                ELSE IF reachable = "no" /\ up THEN <<outages[1], outages[2] + 1>> ELSE outages
  /\ reachable' = IF up THEN "yes" ELSE "no"
  /\ UNCHANGED <<poller, world, found, failures, nmapVars, piholeVars, alerted, alerts>>

(* Streams that are not listed any more may alert again.  An event that    *)
(* cannot be stored is logged and not repeated.                            *)
ReadSessions ==
  /\ poller = "plex" /\ busy
  /\ alerted' = world /\ busy' = FALSE
  /\ alerts' = [s \in Streams |-> IF s \notin world THEN 0
                                  ELSE IF s \in alerted THEN alerts[s] ELSE alerts[s] + 1]
  /\ UNCHANGED <<poller, world, found, polls, failures, nmapVars, piholeVars, reachable, outages>>

(* The request fails, or a session in the list cannot be read: those       *)
(* before it were alerted, and none is cleared.  Mutant: they are.         *)
AlertedOnly(before) == before
Alerted(before) == alerted \cup before

ReadSessionsFails ==
  /\ poller = "plex" /\ busy /\ busy' = FALSE
  /\ \E before \in SUBSET world :
       /\ alerted' = Alerted(before)
       /\ alerts' = [s \in Streams |-> IF s \in before \ alerted THEN alerts[s] + 1 ELSE alerts[s]]
  /\ UNCHANGED <<poller, world, found, polls, failures, nmapVars, piholeVars, reachable, outages>>

PollersNext ==
  \/ \E x \in Things : WorldChanges(x)
  \/ Scan \/ CooldownEnds \/ ProcessResult \/ ProcessResultFails
  \/ FetchQueries
  \/ \E p \in Pairs : AnalyzeQuery(p) \/ AnalyzeQueryFails(p)
  \/ \E up \in BOOLEAN : ProbePlex(up)
  \/ ReadSessions \/ ReadSessionsFails

PollersSpec == PollersInit /\ [][PollersNext]_pollersVars

-----------------------------------------------------------------------------
(* nmap.py:90-145.  A port that is open now and was not in the first scan  *)
(* is a new port of a stored scan, unless a failure lost it; and it had an *)
(* alert, unless a failure lost that or the rule had rung for another port *)
(* and was silent: hosts that drop out of a scan and come back, and scans  *)
(* that fall into one cooldown, lose nothing else.                         *)
NewPortsReported ==
  /\ last \subseteq first \cup recorded \cup missed
  /\ recorded \subseteq fired \cup hushed \cup missed
  /\ hushed # {} => fired \cup missed # {}

(* pihole.py:228-259.  A pair that is remembered has a job, except for one *)
(* pair per failed enqueue, and gets another only after it was forgotten.  *)
SuspiciousAccounted ==
  /\ Cardinality({p \in seen : jobs[p] = 0}) <= failures
  /\ \A p \in Pairs : jobs[p] <= 1 + forgotten[p]

(* plex.py:97-154.  A remote stream is reported once until a poll has seen *)
(* that it ended, and the server's outages alternate with its returns,     *)
(* whatever requests fail in between.                                      *)
StreamsReportedOnce ==
  /\ \A s \in Streams : alerts[s] <= 1
  /\ outages[1] \in outages[2]..(outages[2] + 1)
     \/ outages[2] \in outages[1]..(outages[1] + 1)
=============================================================================
