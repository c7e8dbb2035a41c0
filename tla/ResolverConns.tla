---------------------------- MODULE ResolverConns ----------------------------
\* The connections to one service.
EXTENDS Integers, Sequences

CONSTANTS
  ClientConns, \* the connections, each with the resolver built for it
  MaxWrites    \* bound on the history of the service

ASSUME MaxWritesAssumption == MaxWrites \in Nat \ {0}
=============================================================================
