---------------------------- MODULE ServiceNodes ----------------------------
(***************************************************************************)
(* The registry record of one service (discovery.Service): its nodes, and  *)
(* what Register and Unregister do to the list they have read.             *)
(*                                                                         *)
(* A node is identified by Host and Port, here one value addr.  The list   *)
(* is a set of nodes: nothing depends on the order, and UniqueAddrs says   *)
(* that no two entries share an address, so "the first match" of Register  *)
(* and "every match" of Unregister are the same entry.  Priority, Name and *)
(* SlaveFlag are never touched and are left out; Extra is the payload both *)
(* operations overwrite.                                                   *)
(***************************************************************************)
EXTENDS Integers

NodeStateNil   == 0
NodeStateAlive == 1
NodeStateDead  == 2

\* status & NodeStateDead = 0
Available(n) == (n.status \div NodeStateDead) % 2 = 0

AddrsOf(nodes) == {n.addr : n \in nodes}

UniqueAddrs(nodes) == \A m, n \in nodes : m.addr = n.addr => m = n

(***************************************************************************)
(* Register: a known address is revived if it was unavailable and takes    *)
(* the new Extra; an unknown one is appended exactly as the caller gave it.*)
(***************************************************************************)
\* Seeded fault: a known address takes the new Extra but is not revived.
RefreshedOnly(n, node) == [n EXCEPT !.extra = node.extra]

Revived(n, node) ==
  [n EXCEPT !.status = IF Available(n) THEN @ ELSE NodeStateAlive,
            !.extra  = node.extra]

\* Seeded fault: a known address is not recognised.
Appended(nodes, node) == nodes \cup {node}

Upsert(nodes, node) ==
  IF node.addr \in AddrsOf(nodes)
  THEN {n \in nodes : n.addr # node.addr}
         \cup {Revived(n, node) : n \in {m \in nodes : m.addr = node.addr}}
  ELSE nodes \cup {node}

(***************************************************************************)
(* Unregister: the matching entries are dropped, or kept as dead ones with *)
(* the caller's Extra.                                                     *)
(***************************************************************************)
Killed(n, node) == [n EXCEPT !.status = NodeStateDead, !.extra = node.extra]

Strike(nodes, node, remove) ==
  {n \in nodes : n.addr # node.addr}
    \cup IF remove THEN {}
         ELSE {Killed(n, node) : n \in {m \in nodes : m.addr = node.addr}}
=============================================================================
