---------------------------- MODULE MCRuleTuning ----------------------------
(* Rule tuning with its properties, on the instances the .cfg files give. *)
EXTENDS RuleTuning, TLC

ShippedRules == [r \in System |-> [sev |-> "medium", cool |-> 60, params |-> 0]]
(* The shipped rule is looked at after further fires; the user's rule has  *)
(* false positives.                                                        *)
NoisyRules == 1 :> [fires |-> 1, tp |-> 0, fp |-> 0] @@ 2 :> [fires |-> 3, tp |-> 0, fp |-> 2]
(* A false positive on each of three shipped rules.                        *)
FalseAlarms == [r \in 1..3 |-> [fires |-> 3, tp |-> 0, fp |-> 1]]
(* Rule 1 has only confirmed alerts, rule 2 only a false one.              *)
OneGoodRule == 1 :> [fires |-> 3, tp |-> 1, fp |-> 0] @@ 2 :> [fires |-> 3, tp |-> 0, fp |-> 1]
AnEdit == {[sev |-> "high", on |-> FALSE, params |-> 1]}

(* A cycle looks at every rule it read, or stops at the daily limit: "Find *)
(* underperforming rules and evaluate them" (orchestrator.py:533), idle    *)
(* ones included (orchestrator.py:631).                                    *)
CyclesComplete ==
  [][\A c \in Critics : pc[c] = "pick" /\ pc'[c] = "idle" => todo[c] = {}]_vars
=============================================================================
