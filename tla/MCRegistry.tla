----------------------------- MODULE MCRegistry -----------------------------
(* Values for model checking Registry: two addresses, one payload.         *)
EXTENDS Registry, TLC

CONSTANTS n0, n1, n2, x

NodeAt(a) == [addr |-> a, status |-> NodeStateNil, extra |-> x]

MCRequest(k, a, rm) ==
  [kind |-> k, named |-> TRUE, node |-> NodeAt(a), remove |-> rm]

\* Two nodes come, go and are marked dead; one call is malformed.
MCRequests ==
  {MCRequest("register", a, FALSE) : a \in {n1, n2}}
    \cup {MCRequest("unregister", n1, rm) : rm \in BOOLEAN}
    \cup {MCRequest("unregister", n2, TRUE), MCRequest("unregisterAll", n1, FALSE)}
    \cup {MCRequest("register", NoAddr, FALSE)}

\* The anchored instance: n0 is there from the start, marked dead, and is
\* never removed.
AnchorNodes    == {[NodeAt(n0) EXCEPT !.status = NodeStateDead]}
AnchorRequests ==
  {MCRequest("register", a, FALSE) : a \in {n0, n1, n2}}
    \cup {MCRequest("unregister", n1, rm) : rm \in BOOLEAN}
    \cup {MCRequest("unregister", n0, FALSE)}

ASSUME AnchorHolds == InitialNodes # {} => Anchored

Symmetry == Permutations(Calls)
=============================================================================
