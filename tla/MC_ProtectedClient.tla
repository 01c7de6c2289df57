------------------------- MODULE MC_ProtectedClient -------------------------
(* Instances of ProtectedClient for TLC: calls are interchangeable. *)
EXTENDS ProtectedClient, TLC

CallSymmetry == Permutations(Calls)
=============================================================================
