-------------------------- MODULE MCRuleScheduler --------------------------
(* Instances of RuleScheduler for TLC. Neither rules nor alertRuleInfos    *)
(* are told apart by anything but their identity.                          *)
EXTENDS RuleScheduler, TLC

Symmetry == Permutations(Rules) \cup Permutations(Infos)
=============================================================================
