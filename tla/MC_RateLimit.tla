---------------------------- MODULE MC_RateLimit ----------------------------
(* RateLimit for TLC: requests and clients are interchangeable.              *)
EXTENDS RateLimit, TLC

Symmetry == Permutations(Requests) \cup Permutations(Clients)
=============================================================================
