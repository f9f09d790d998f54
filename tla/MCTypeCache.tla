---------------------------- MODULE MCTypeCache ----------------------------
(***************************************************************************)
(* Instances of TypeCache for TLC.                                         *)
(***************************************************************************)
EXTENDS TypeCache, TLC

CONSTANTS a, b, c, one, two

(* Any two modules are alike, and so are any two calls.                    *)
Symmetric == Permutations(Modules \ NotModules) \cup Permutations(Calls)
=============================================================================
