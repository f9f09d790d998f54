---------------------------- MODULE MCModuleLife ----------------------------
(***************************************************************************)
(* Instances of ModuleLife for TLC: two interpreters.                      *)
(***************************************************************************)
EXTENDS ModuleLife, TLC

Symmetric == Permutations(Modules)
=============================================================================
