----------------------------- MODULE MCJobQueue -----------------------------
(* The job queue with its properties, on the instances the .cfg files give. *)
EXTENDS JobQueue

CONSTANTS d1, r1, none, custom

(* A rule's event on a device, and a submitted question without a device.  *)
Alerts == {[dev |-> d1, rule |-> r1, prio |-> 2]}
AlertsAndQuestions == Alerts \cup {[dev |-> none, rule |-> custom, prio |-> 2]}

(* A job stays pending for ever only if again and again as many others as  *)
(* a cycle takes come before it in the queue's order, newer ones or ones   *)
(* prioritized or handed back: no aborted cycle, compaction or worker      *)
(* makes a cycle pass it over otherwise (orchestrator.py:264-271).         *)
Outranked(j) == Cardinality({i \in Pending \ {j} : ~Before(j, i)}) >= BatchLimit
TakenUpUnlessOutranked ==
  \A j \in Jobs : []<>(status[j] # "pending" \/ Outranked(j))

(* A job an external worker claimed and abandoned leaves `processing`      *)
(* again (orchestrator.py:252-262).                                        *)
ClaimsAreReclaimed ==
  \A j \in Jobs : status[j] = "processing" ~> status[j] # "processing"

(* "Run compaction across all pending jobs" (compaction.py:19): a pass     *)
(* collapses only jobs that are still pending when it writes.              *)
OnlyPendingIsCompacted ==
  [][\A j \in Jobs : status[j] # "compacted" /\ status'[j] = "compacted"
                       => status[j] = "pending"]_vars
=============================================================================
