-------------------------------- MODULE Route --------------------------------
(***************************************************************************)
(* Route: of the nodes of a service, the first available one after a       *)
(* random start, which is counted up as an int: beyond the largest it is   *)
(* the smallest, and Go's remainder of a negative number is not positive.  *)
(***************************************************************************)
EXTENDS RouteNodes

VARIABLES
  nodes,   \* what Discover has returned
  randN,
  origin,   \* history: what rand.Int has returned
  i,
  routed   \* how far Route is: "node" if it has returned nodes[randN % nodeNum]

vars == <<nodes, randN, origin, i, routed>>

Init ==
  /\ nodes = <<>>
  /\ randN = 0 /\ origin = 0
  /\ i = 0
  /\ routed = "no"

\* Discover fails, or finds no node: an error, either way.
DiscoverFails ==
  /\ routed = "no"
  /\ routed' = "none"
  /\ UNCHANGED <<nodes, randN, origin, i>>

Discover(ns, r) ==
  /\ routed = "no"
  /\ ns # <<>>
  /\ nodes' = ns
  /\ randN' = r /\ origin' = r
  /\ routed' = "trying"
  /\ UNCHANGED i

Successor(n) == IF n = MaxInt THEN -MaxInt - 1 ELSE n + 1

Remainder(a, b) == IF a >= 0 THEN a % b ELSE -((-a) % b)

Index == Remainder(randN, Len(nodes))

\* Seeded fault: it is counted up twice, in the loop and by it.
TryTwo ==
  /\ routed = "trying"
  /\ i < Len(nodes)
  /\ IF Index < 0 THEN routed' = "panicked" /\ UNCHANGED <<randN, i>>
     ELSE IF nodes[Index + 1] THEN routed' = "node" /\ UNCHANGED <<randN, i>>
     ELSE randN' = Successor(Successor(randN)) /\ i' = i + 1 /\ UNCHANGED routed
  /\ UNCHANGED <<nodes, origin>>

Try ==
  /\ routed = "trying"
  /\ i < Len(nodes)
  /\ IF Index < 0 THEN routed' = "panicked" /\ UNCHANGED <<randN, i>>
     ELSE IF nodes[Index + 1] THEN routed' = "node" /\ UNCHANGED <<randN, i>>
     ELSE randN' = Successor(randN) /\ i' = i + 1 /\ UNCHANGED routed
  /\ UNCHANGED <<nodes, origin>>

Exhausted ==
  /\ routed = "trying"
  /\ i = Len(nodes)
  /\ routed' = "none"
  /\ UNCHANGED <<nodes, randN, origin, i>>

Next ==
  \/ DiscoverFails
  \/ \E ns \in NodeLists, r \in 0 .. MaxInt : Discover(ns, r)
  \/ Try
  \/ Exhausted

Spec == Init /\ [][Next]_vars
-----------------------------------------------------------------------------
\* Types.
TypeOK ==
  /\ nodes \in NodeLists
  /\ randN \in -MaxInt - 1 .. MaxInt /\ origin \in 0 .. MaxInt
  /\ i \in 0 .. Len(nodes)
  /\ routed \in {"no", "trying", "node", "none", "panicked"}

\* How far node k is from the start, around the nodes.
Distance(k) == (k - origin) % Len(nodes)

(***************************************************************************)
(* Route returns the available node that is nearest to the random start,   *)
(* and no node only if none is available, wherever it starts; only from    *)
(* the last few ints may it run over, and then a negative index panics.    *)
(***************************************************************************)
RouteFinds ==
  LET available == {k \in 0 .. Len(nodes) - 1 : nodes[k + 1]} IN
  /\ routed = "none" => available = {}
  /\ routed = "node" =>
       /\ Index \in available
       /\ origin + Len(nodes) <= MaxInt + 1 =>
            \A k \in available : Distance(Index) <= Distance(k)
  /\ routed = "panicked" => origin + Len(nodes) > MaxInt + 1
=============================================================================
