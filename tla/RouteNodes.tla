----------------------------- MODULE RouteNodes -----------------------------
\* What a route is looked for among.
EXTENDS Integers, Sequences, SequencesExt

CONSTANTS
  MaxNodes,  \* the most nodes that a service has
  MaxInt     \* the largest int

\* A service, as whether each of its nodes is available.
NodeLists == BoundedSeq(BOOLEAN, MaxNodes)

ASSUME RouteAssumption == MaxNodes \in Nat /\ MaxInt \in Nat
=============================================================================
