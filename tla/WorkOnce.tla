------------------------------ MODULE WorkOnce ------------------------------
(***************************************************************************)
(* What the queue promises when the agent is its only worker: a job comes  *)
(* in once, its case is closed once and never reopened, and at most one    *)
(* finding is ever filed for it.  A cycle may file findings for several    *)
(* jobs in one step, and a job closed by being collapsed into another may  *)
(* still receive its finding.                                              *)
(***************************************************************************)
CONSTANT Jobs
VARIABLES case, filed

Init ==
  /\ case = [j \in Jobs |-> "none"]
  /\ filed = {}

Submit ==
  \E j \in Jobs :
    /\ case[j] = "none"
    /\ case' = [case EXCEPT ![j] = "open"]
    /\ UNCHANGED filed

(* The jobs of S are closed (some may be already) and those of F filed.    *)
Close ==
  \E S \in SUBSET {j \in Jobs : case[j] # "none"} : \E F \in SUBSET (S \ filed) :
    /\ case' = [j \in Jobs |-> IF j \in S THEN "closed" ELSE case[j]]
    /\ filed' = filed \cup F

Next == Submit \/ Close

Spec == Init /\ [][Next]_<<case, filed>>
=============================================================================
