-------------------------- MODULE MC_TokenManager --------------------------
(* TokenManager for TLC: the callers are interchangeable.                   *)
EXTENDS TokenManager, TLC

CallerSymmetry == Permutations(Callers)
=============================================================================
