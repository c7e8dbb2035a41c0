---------------------------- MODULE MCHealthCheck ----------------------------
(* Values for model checking HealthCheck: a server of both services, and one *)
(* of the first alone.                                                       *)
EXTENDS HealthCheck, TLC

CONSTANTS s1, s2

MCOffers == {<<s1, s2>>, <<s1>>}

Symmetry == Permutations(Workers)
=============================================================================
