--------------------------- MODULE MC_AuthService ---------------------------
(* AuthService for TLC: states, callbacks and handlers are interchangeable.  *)
EXTENDS AuthService, TLC

Symmetry == Permutations(States) \cup Permutations(Callbacks) \cup Permutations(Requests)
=============================================================================
