---------------------------- MODULE MCWatchCache ----------------------------
(* Symmetry for model checking WatchCache. *)
EXTENDS WatchCache, TLC

Symmetry == Permutations(Lookups) \cup Permutations(Srvs)
=============================================================================
