---------------------------- MODULE MCRuleEngine ----------------------------
(* The rule engine on the instances the .cfg files give. *)
EXTENDS RuleEngine, TLC

CONSTANT CooldownTicks
Symmetry == Permutations(Workers)
CooldownOf == [v \in 0..MaxVersion |-> CooldownTicks]

(* A cooldown lets a rule fire once ("Return True if the rule is allowed   *)
(* to fire (cooldown expired)", engine.py:398): whichever thread fires it, *)
(* its last fire is a cooldown ago.                                        *)
CooldownRespected ==
  [][\A t \in Threads, r \in Rules :
       Fires(t, r) => last[r] = 0 \/ now - last[r] >= Cooldown[cur[t].ver]]_vars
=============================================================================
