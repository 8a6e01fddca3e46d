---------------------------- MODULE MCRulesForm ----------------------------
(* Devices and owners are interchangeable. *)
EXTENDS RulesForm, TLC

Symmetry == Permutations(Devs) \cup Permutations(Owners)
=============================================================================
