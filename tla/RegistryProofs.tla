--------------------------- MODULE RegistryProofs ---------------------------
(***************************************************************************)
(* Proofs about Registry, for any number of calls, addresses and requests. *)
(*                                                                         *)
(* TypeCorrect and Inductive give the invariants that hold whatever calls  *)
(* are made.  Under Anchored (the key is never deleted) the comparison of  *)
(* Version has no hole, and the calls are atomic: Refinement.              *)
(***************************************************************************)
EXTENDS Registry, TLAPS

-----------------------------------------------------------------------------
(***************************************************************************)
(* What the two list operations do to the addresses, to their uniqueness   *)
(* and to availability.                                                    *)
(***************************************************************************)
\* Availability is the bit of NodeStateDead.
LEMMA AvailableIsNotDead ==
  ASSUME NEW n, n.status \in {NodeStateNil, NodeStateAlive, NodeStateDead}
  PROVE  Available(n) <=> n.status # NodeStateDead
  BY DEF Available, NodeStateNil, NodeStateAlive, NodeStateDead

\* A revived node keeps its address and its type, and is available.
LEMMA RevivedFacts ==
  ASSUME NEW n \in Node, NEW node \in Node
  PROVE  /\ Revived(n, node) \in Node
         /\ Revived(n, node).addr = n.addr
         /\ Available(Revived(n, node))
<1>1. /\ Revived(n, node) \in Node
      /\ Revived(n, node).addr = n.addr
      /\ Revived(n, node).status = IF Available(n) THEN n.status ELSE NodeStateAlive
  BY DEF Revived, Node
<1>2. /\ n.status \in {NodeStateNil, NodeStateAlive, NodeStateDead}
      /\ Revived(n, node).status \in {NodeStateNil, NodeStateAlive, NodeStateDead}
  BY <1>1 DEF Node
<1>3. Revived(n, node).status # NodeStateDead
  BY <1>1, <1>2, AvailableIsNotDead DEF NodeStateAlive, NodeStateDead
<1> QED
  BY <1>1, <1>2, <1>3, AvailableIsNotDead

\* A killed node keeps its address and its type.
LEMMA KilledFacts ==
  ASSUME NEW n \in Node, NEW node \in Node
  PROVE  Killed(n, node) \in Node /\ Killed(n, node).addr = n.addr
  BY DEF Killed, Node

\* Upsert adds the caller's address, makes it available, and leaves every
\* other entry alone.
LEMMA UpsertFacts ==
  ASSUME NEW nodes \in SUBSET Node, UniqueAddrs(nodes), NEW node \in Node
  PROVE  /\ Upsert(nodes, node) \in SUBSET Node
         /\ UniqueAddrs(Upsert(nodes, node))
         /\ AddrsOf(Upsert(nodes, node)) = AddrsOf(nodes) \cup {node.addr}
         /\ \A n \in nodes : n.addr # node.addr => n \in Upsert(nodes, node)
         /\ Available(node) =>
              \E n \in Upsert(nodes, node) : n.addr = node.addr /\ Available(n)
<1>1. CASE node.addr \in AddrsOf(nodes)
  <2>1. PICK old \in nodes : old.addr = node.addr
    BY <1>1 DEF AddrsOf
  <2>2. Upsert(nodes, node) =
          {n \in nodes : n.addr # node.addr} \cup {Revived(old, node)}
    BY <1>1, <2>1 DEF Upsert, UniqueAddrs
  <2> QED
    BY <2>1, <2>2, RevivedFacts DEF AddrsOf, UniqueAddrs
<1>2. CASE node.addr \notin AddrsOf(nodes)
  <2>1. Upsert(nodes, node) = nodes \cup {node}
    BY <1>2 DEF Upsert
  <2> QED
    BY <1>2, <2>1 DEF AddrsOf, UniqueAddrs
<1> QED
  BY <1>1, <1>2

\* Strike touches the caller's address only, and keeps it unless it is told
\* to remove it; without a match it changes nothing.
LEMMA StrikeFacts ==
  ASSUME NEW nodes \in SUBSET Node, UniqueAddrs(nodes),
         NEW node \in Node, NEW remove \in BOOLEAN
  PROVE  /\ Strike(nodes, node, remove) \in SUBSET Node
         /\ UniqueAddrs(Strike(nodes, node, remove))
         /\ AddrsOf(nodes) \ {node.addr} \subseteq AddrsOf(Strike(nodes, node, remove))
         /\ ~remove => AddrsOf(Strike(nodes, node, remove)) = AddrsOf(nodes)
         /\ \A n \in nodes : n.addr # node.addr => n \in Strike(nodes, node, remove)
         /\ node.addr \notin AddrsOf(nodes) => Strike(nodes, node, remove) = nodes
<1>1. CASE node.addr \in AddrsOf(nodes)
  <2>1. PICK old \in nodes : old.addr = node.addr
    BY <1>1 DEF AddrsOf
  <2>2. Strike(nodes, node, remove) =
          {n \in nodes : n.addr # node.addr}
            \cup IF remove THEN {} ELSE {Killed(old, node)}
    BY <2>1 DEF Strike, UniqueAddrs
  <2> QED
    BY <1>1, <2>1, <2>2, KilledFacts DEF AddrsOf, UniqueAddrs
<1>2. CASE node.addr \notin AddrsOf(nodes)
  <2>1. Strike(nodes, node, remove) = nodes
    BY <1>2 DEF Strike, AddrsOf
  <2> QED
    BY <1>2, <2>1
<1> QED
  BY <1>1, <1>2
-----------------------------------------------------------------------------
(***************************************************************************)
(* The inductive invariant.  TypeOK needs to know that a call still under  *)
(* way has a retry left; CommitIsExact needs to know what a version read   *)
(* from one incarnation of the key says about the key's value.             *)
(***************************************************************************)
RetryLeft == \A c \in Calls : pc[c] \in {"idle", "get", "txn"} => retry[c] < maxRetry

KvOK ==
  /\ kv.version = 0 => kv = NoKv
  /\ kv.version > 0 => 0 < kv.create /\ kv.create <= kv.mod
  /\ kv.mod <= rev

ReadOK ==
  \A c \in Calls :
    /\ read[c].version = 0 => read[c] = NoKv
    /\ read[c].version > 0 => 0 < read[c].create
    /\ read[c].create <= rev
    /\ read[c].create = kv.create =>
         /\ read[c].version <= kv.version
         /\ read[c].version = kv.version => read[c] = kv

\* Every refusal was preceded by a commit of another call.
RefusalOK ==
  \A c \in Calls :
    /\ pc[c] \in {"idle", "get", "txn"} => retry[c] <= rev
    /\ pc[c] = "txn" /\ ~Matches(c) => retry[c] < rev
    /\ pc[c] = "conflict" => maxRetry <= rev

IInv == TypeOK /\ RetryLeft /\ KvOK /\ ReadOK /\ RefusalOK

\* The write a call is about to make is a proper record.
LEMMA NewNodesType ==
  ASSUME TypeOK, NEW c \in Calls
  PROVE  NewNodes(c) \in SUBSET Node /\ UniqueAddrs(NewNodes(c))
<1>1. /\ req[c] \in Request
      /\ read[c].nodes \in SUBSET Node
      /\ UniqueAddrs(read[c].nodes)
  BY RequestsAssumption DEF TypeOK, Kv
<1>2. CASE req[c].kind = "register"
  <2>1. NewNodes(c) = Upsert(read[c].nodes, req[c].node)
    BY <1>2 DEF NewNodes
  <2> QED
    BY <1>1, <2>1, UpsertFacts DEF Request
<1>3. CASE req[c].kind = "unregister"
  <2>1. NewNodes(c) = Strike(read[c].nodes, req[c].node, req[c].remove)
    BY <1>3 DEF NewNodes
  <2> QED
    BY <1>1, <2>1, StrikeFacts DEF Request
<1>4. CASE req[c].kind = "unregisterAll"
  <2>1. NewNodes(c) = {}
    BY <1>4 DEF NewNodes
  <2> QED
    BY <2>1 DEF UniqueAddrs
<1> QED
  BY <1>1, <1>2, <1>3, <1>4 DEF Request

\* The invariant holds at the start.
LEMMA InitInv == Init => IInv
<1> SUFFICES ASSUME Init PROVE IInv
  OBVIOUS
<1>1. kv \in Kv /\ UniqueAddrs(kv.nodes)
  BY InitialAssumption DEF Init, Kv, NoKv, UniqueAddrs
<1>2. NoKv \in Kv /\ UniqueAddrs(NoKv.nodes)
  BY DEF NoKv, Kv, UniqueAddrs
<1>3. KvOK /\ rev \in Nat
  BY DEF Init, KvOK, NoKv
<1>4. ReadOK
  BY DEF Init, ReadOK, NoKv
<1>5. TypeOK /\ RetryLeft /\ RefusalOK
  BY <1>1, <1>2, <1>3 DEF Init, TypeOK, RetryLeft, RefusalOK, Steps, maxRetry
<1> QED
  BY <1>3, <1>4, <1>5 DEF IInv

\* An accepted write preserves the parts about the key and about the reads.
LEMMA ApplyInv ==
  ASSUME IInv, NEW nodes \in SUBSET Node, UniqueAddrs(nodes),
         Apply(nodes), read' = read
  PROVE  /\ kv' \in Kv /\ UniqueAddrs(kv'.nodes)
         /\ rev' \in Nat /\ rev <= rev'
         /\ kv' # kv => rev < rev'
         /\ KvOK' /\ ReadOK'
<1>1. kv \in Kv /\ rev \in Nat /\ read \in [Calls -> Kv]
  BY DEF IInv, TypeOK
<1>2. CASE nodes # {}
  <2>1. /\ rev' = rev + 1
        /\ kv' = [version |-> kv.version + 1,
                  create  |-> IF kv = NoKv THEN rev + 1 ELSE kv.create,
                  mod     |-> rev + 1,
                  nodes   |-> nodes]
    BY <1>2 DEF Apply
  <2>2. KvOK'
    BY <1>1, <2>1 DEF IInv, KvOK, Kv, NoKv
  <2>3. ReadOK'
    BY <1>1, <2>1 DEF IInv, KvOK, ReadOK, Kv, NoKv
  <2> QED
    BY <1>1, <2>1, <2>2, <2>3 DEF Kv
<1>3. CASE nodes = {}
  <2>1. rev' = (IF kv = NoKv THEN rev ELSE rev + 1) /\ kv' = NoKv
    BY <1>3 DEF Apply
  <2>2. KvOK'
    BY <1>1, <2>1 DEF IInv, KvOK, Kv, NoKv
  <2>3. ReadOK'
    BY <1>1, <2>1 DEF IInv, ReadOK, Kv, NoKv
  <2> QED
    BY <1>1, <2>1, <2>2, <2>3 DEF Kv, NoKv, UniqueAddrs
<1> QED
  BY <1>2, <1>3

\* A step of call c whose write to the key is known to be harmless preserves
\* the invariant if c goes where its retries allow.
LEMMA WriteInv ==
  ASSUME IInv, NEW c \in Calls, pc[c] \in {"txn", "lost"},
         NEW step \in {"ok", "error"}, Goto(c, step),
         kv' \in Kv, UniqueAddrs(kv'.nodes), rev' \in Nat, rev <= rev',
         kv' # kv => rev < rev', KvOK', ReadOK',
         UNCHANGED <<req, read, retry>>
  PROVE  IInv'
<1>1. TypeOK'
  BY DEF IInv, TypeOK, Goto, Steps, Results
<1>2. RetryLeft'
  BY DEF IInv, TypeOK, RetryLeft, Goto
<1>3. RefusalOK'
  <2> SUFFICES ASSUME NEW d \in Calls
               PROVE  /\ pc'[d] \in {"idle", "get", "txn"} => retry'[d] <= rev'
                      /\ pc'[d] = "txn" /\ ~Matches(d)' => retry'[d] < rev'
                      /\ pc'[d] = "conflict" => maxRetry <= rev'
    BY DEF RefusalOK
  <2>1. /\ pc \in [Calls -> Steps]
        /\ retry \in [Calls -> 0 .. maxRetry]
        /\ rev \in Nat
    BY DEF IInv, TypeOK
  <2>2. /\ pc[d] \in {"idle", "get", "txn"} => retry[d] <= rev
        /\ pc[d] = "txn" /\ ~Matches(d) => retry[d] < rev
        /\ pc[d] = "conflict" => maxRetry <= rev
    BY DEF IInv, RefusalOK
  <2>3. pc'[d] = pc[d] \/ pc'[d] \in {"ok", "error"}
    BY <2>1 DEF Goto
  <2>4. kv' = kv => (Matches(d)' <=> Matches(d))
    BY DEF Matches
  <2> QED
    BY <2>1, <2>2, <2>3, <2>4 DEF maxRetry
<1> QED
  BY <1>1, <1>2, <1>3 DEF IInv

\* Every step preserves the invariant.
LEMMA StepInv == IInv /\ [Next]_vars => IInv'
<1> SUFFICES ASSUME IInv, [Next]_vars PROVE IInv'
  OBVIOUS
<1> USE DEF Goto
<1>1. /\ pc \in [Calls -> Steps]
      /\ req \in [Calls -> Requests]
      /\ retry \in [Calls -> 0 .. maxRetry]
      /\ read \in [Calls -> Kv]
      /\ kv \in Kv
      /\ rev \in Nat
  BY DEF IInv, TypeOK
<1>2. ASSUME NEW c \in Calls, Begin(c) PROVE IInv'
  <2>1. TypeOK'
    BY <1>2 DEF Begin, IInv, TypeOK, Steps, Results
  <2>2. RetryLeft'
    BY <1>1, <1>2 DEF Begin, IInv, RetryLeft
  <2>3. KvOK' /\ ReadOK'
    BY <1>2 DEF Begin, IInv, KvOK, ReadOK
  <2>4. RefusalOK'
    <3> SUFFICES ASSUME NEW d \in Calls
                 PROVE  /\ pc'[d] \in {"idle", "get", "txn"} => retry'[d] <= rev'
                        /\ pc'[d] = "txn" /\ ~Matches(d)' => retry'[d] < rev'
                        /\ pc'[d] = "conflict" => maxRetry <= rev'
      BY DEF RefusalOK
    <3>1. Matches(d)' <=> Matches(d)
      BY <1>2 DEF Begin, Matches
    <3>2. d = c /\ pc'[d] = "txn" => Matches(d)
      BY <1>1, <1>2 DEF Begin, Matches
    <3> QED
      BY <1>1, <1>2, <3>1, <3>2 DEF Begin, IInv, RefusalOK
  <2> QED
    BY <2>1, <2>2, <2>3, <2>4 DEF IInv
<1>3. ASSUME NEW c \in Calls, Read(c) PROVE IInv'
  <2>1. TypeOK'
    BY <1>3 DEF Read, IInv, TypeOK, Steps, Results
  <2>2. RetryLeft'
    BY <1>1, <1>3 DEF Read, IInv, RetryLeft
  <2>3. KvOK'
    BY <1>3 DEF Read, IInv, KvOK
  <2>4. ReadOK'
    <3>1. /\ kv.version \in Nat /\ kv.create \in Nat /\ kv.mod \in Nat
          /\ kv.version = 0 => kv = NoKv
          /\ kv.version > 0 => 0 < kv.create
          /\ kv.create <= rev
      BY <1>1 DEF IInv, KvOK, NoKv, Kv
    <3>2. \A d \in Calls : read'[d] = IF d = c THEN kv ELSE read[d]
      BY <1>1, <1>3 DEF Read
    <3>3. kv' = kv /\ rev' = rev
      BY <1>3 DEF Read
    <3> QED
      BY <1>1, <3>1, <3>2, <3>3 DEF IInv, ReadOK
  <2>5. RefusalOK'
    <3> SUFFICES ASSUME NEW d \in Calls
                 PROVE  /\ pc'[d] \in {"idle", "get", "txn"} => retry'[d] <= rev'
                        /\ pc'[d] = "txn" /\ ~Matches(d)' => retry'[d] < rev'
                        /\ pc'[d] = "conflict" => maxRetry <= rev'
      BY DEF RefusalOK
    <3>1. d # c => (Matches(d)' <=> Matches(d))
      BY <1>1, <1>3 DEF Read, Matches
    <3>2. Matches(c)'
      BY <1>1, <1>3 DEF Read, Matches
    <3> QED
      BY <1>1, <1>3, <3>1, <3>2 DEF Read, IInv, RefusalOK
  <2> QED
    BY <2>1, <2>2, <2>3, <2>4, <2>5 DEF IInv
<1>4. ASSUME NEW c \in Calls, ReadFails(c) \/ Fails(c) PROVE IInv'
  <2>1. TypeOK'
    BY <1>4 DEF ReadFails, Fails, IInv, TypeOK, Steps, Results
  <2>2. RetryLeft'
    BY <1>1, <1>4 DEF ReadFails, Fails, IInv, RetryLeft
  <2>3. KvOK' /\ ReadOK'
    BY <1>4 DEF ReadFails, Fails, IInv, KvOK, ReadOK
  <2>4. RefusalOK'
    BY <1>1, <1>4 DEF ReadFails, Fails, IInv, RefusalOK, Matches
  <2> QED
    BY <2>1, <2>2, <2>3, <2>4 DEF IInv
<1>5. ASSUME NEW c \in Calls, Commit(c) PROVE IInv'
  <2>1. NewNodes(c) \in SUBSET Node /\ UniqueAddrs(NewNodes(c))
    BY NewNodesType DEF IInv
  <2>2. /\ Apply(NewNodes(c)) /\ Goto(c, "ok") /\ pc[c] = "txn"
        /\ UNCHANGED <<req, read, retry>>
    BY <1>5 DEF Commit
  <2>3. /\ kv' \in Kv /\ UniqueAddrs(kv'.nodes)
        /\ rev' \in Nat /\ rev <= rev'
        /\ kv' # kv => rev < rev'
        /\ KvOK' /\ ReadOK'
    BY <2>1, <2>2, ApplyInv
  <2> QED
    BY <2>2, <2>3, WriteInv
<1>6. ASSUME NEW c \in Calls, Conflict(c) PROVE IInv'
  <2>1. retry[c] < maxRetry /\ retry[c] < rev
    BY <1>1, <1>6 DEF Conflict, IInv, RetryLeft, RefusalOK
  <2>2. TypeOK'
    BY <1>1, <1>6, <2>1 DEF Conflict, IInv, TypeOK, Steps, Results, maxRetry
  <2>3. RetryLeft'
    BY <1>1, <1>6, <2>1 DEF Conflict, IInv, RetryLeft, maxRetry
  <2>4. KvOK' /\ ReadOK'
    BY <1>6 DEF Conflict, IInv, KvOK, ReadOK
  <2>5. RefusalOK'
    BY <1>1, <1>6, <2>1 DEF Conflict, IInv, RefusalOK, Matches, maxRetry
  <2> QED
    BY <2>2, <2>3, <2>4, <2>5 DEF IInv
<1>7. ASSUME NEW c \in Calls, ArrivesLate(c) PROVE IInv'
  <2>1. NewNodes(c) \in SUBSET Node /\ UniqueAddrs(NewNodes(c))
    BY NewNodesType DEF IInv
  <2>2. /\ Apply(NewNodes(c)) \/ UNCHANGED <<kv, rev>>
        /\ Goto(c, "error") /\ pc[c] = "lost"
        /\ UNCHANGED <<req, read, retry>>
    BY <1>7 DEF ArrivesLate
  <2>3. CASE Apply(NewNodes(c))
    <3>1. /\ kv' \in Kv /\ UniqueAddrs(kv'.nodes)
          /\ rev' \in Nat /\ rev <= rev'
          /\ kv' # kv => rev < rev'
          /\ KvOK' /\ ReadOK'
      BY <2>1, <2>2, <2>3, ApplyInv
    <3> QED
      BY <2>2, <3>1, WriteInv
  <2>4. CASE UNCHANGED <<kv, rev>>
    <3>1. KvOK' /\ ReadOK' /\ UniqueAddrs(kv'.nodes)
      BY <2>2, <2>4 DEF IInv, TypeOK, KvOK, ReadOK
    <3>2. /\ kv' \in Kv /\ rev' \in Nat /\ rev <= rev'
          /\ kv' # kv => rev < rev'
      BY <1>1, <2>4
    <3> QED
      BY <2>2, <3>1, <3>2, WriteInv
  <2> QED
    BY <2>2, <2>3, <2>4
<1>8. CASE UNCHANGED vars
  BY <1>8 DEF vars, IInv, TypeOK, RetryLeft, KvOK, ReadOK, RefusalOK, Matches
<1> QED
  BY <1>2, <1>3, <1>4, <1>5, <1>6, <1>7, <1>8 DEF Next

\* The invariant holds of every reachable state.
THEOREM Inductive == Spec => []IInv
<1> QED
  BY InitInv, StepInv, PTL DEF Spec

-----------------------------------------------------------------------------
(***************************************************************************)
(* Whatever Register, Unregister and UnregisterAll are asked to do, every  *)
(* variable keeps its type, no record lists an address twice and no call   *)
(* is refused more often than its loop allows.                             *)
(***************************************************************************)
THEOREM TypeCorrect == Spec => []TypeOK
<1>1. IInv => TypeOK
  BY DEF IInv
<1> QED
  BY <1>1, Inductive, PTL

(***************************************************************************)
(* The transaction of Register and Unregister replaces the record that was *)
(* read, as long as the key has not been deleted and created again.        *)
(***************************************************************************)
THEOREM Exact == Spec => []CommitIsExact
<1>1. IInv => CommitIsExact
  BY DEF IInv, ReadOK, CommitIsExact, Matches
<1> QED
  BY <1>1, Inductive, PTL

(***************************************************************************)
(* Register and Unregister report a conflict only after losing to three    *)
(* commits of other calls.                                                 *)
(***************************************************************************)
THEOREM GiveUp == Spec => []GiveUpNeedsWinners
<1>1. IInv => GiveUpNeedsWinners
  BY DEF IInv, RefusalOK, TypeOK, GiveUpNeedsWinners, maxRetry
<1> QED
  BY <1>1, Inductive, PTL

\* A write based on the current record drops an address only if the call was
\* made to remove it.
LEMMA NewNodesKeeps ==
  ASSUME TypeOK, NEW c \in Calls, kv = read[c],
         NEW a \in AddrsOf(kv.nodes) \ AddrsOf(NewNodes(c))
  PROVE  Removes(c, a)
<1>1. /\ req[c] \in Request
      /\ kv.nodes \in SUBSET Node
      /\ UniqueAddrs(kv.nodes)
  BY RequestsAssumption DEF TypeOK, Kv
<1>2. CASE req[c].kind = "register"
  <2>1. NewNodes(c) = Upsert(kv.nodes, req[c].node)
    BY <1>2 DEF NewNodes
  <2> QED
    BY <1>1, <2>1, UpsertFacts DEF Request
<1>3. CASE req[c].kind = "unregister"
  <2>1. NewNodes(c) = Strike(kv.nodes, req[c].node, req[c].remove)
    BY <1>3 DEF NewNodes
  <2> QED
    BY <1>1, <1>3, <2>1, StrikeFacts DEF Request, Removes
<1>4. CASE req[c].kind = "unregisterAll"
  BY <1>4 DEF Removes
<1> QED
  BY <1>1, <1>2, <1>3, <1>4 DEF Request

\* An accepted write leaves exactly the nodes it carries.
LEMMA AppliedNodes ==
  ASSUME NEW nodes, Apply(nodes)
  PROVE  kv'.nodes = nodes
  BY DEF Apply, NoKv

(***************************************************************************)
(* No address leaves the registry except by Unregister(remove) of it or    *)
(* UnregisterAll, or by a call whose key was deleted and created again.    *)
(***************************************************************************)
THEOREM Removal == Spec => OnlyUnregisterRemoves
<1> DEFINE P == \A a \in AddrsOf(kv.nodes) \ AddrsOf(kv'.nodes) :
                  \E c \in Calls : pc'[c] # pc[c] /\ (Removes(c, a) \/ Recreated(c))
<1>1. IInv /\ [Next]_vars => [P]_vars
  <2> SUFFICES ASSUME IInv, Next,
                      NEW a \in AddrsOf(kv.nodes) \ AddrsOf(kv'.nodes)
               PROVE  \E c \in Calls : pc'[c] # pc[c] /\ (Removes(c, a) \/ Recreated(c))
    OBVIOUS
  <2>1. kv' # kv
    OBVIOUS
  <2>2. PICK c \in Calls : Commit(c) \/ ArrivesLate(c)
    BY <2>1 DEF Next, Begin, Read, ReadFails, Conflict, Fails
  <2>3. Apply(NewNodes(c)) /\ Matches(c) /\ pc[c] \in {"txn", "lost"}
    BY <2>1, <2>2 DEF Commit, ArrivesLate
  <2>4. pc'[c] # pc[c]
    <3>1. pc \in [Calls -> Steps]
      BY DEF IInv, TypeOK
    <3> QED
      BY <2>2, <3>1 DEF Commit, ArrivesLate, Goto
  <2>5. CASE req[c].kind = "unregisterAll" \/ Recreated(c)
    BY <2>4, <2>5 DEF Removes
  <2>6. CASE req[c].kind # "unregisterAll" /\ ~Recreated(c)
    <3>1. kv = read[c]
      BY <2>3, <2>6 DEF IInv, ReadOK, Matches, Recreated
    <3>2. kv'.nodes = NewNodes(c)
      BY <2>3, AppliedNodes
    <3> QED
      BY <2>4, <3>1, <3>2, NewNodesKeeps DEF IInv
  <2> QED
    BY <2>5, <2>6
<1>2. []IInv /\ [][Next]_vars => [][P]_vars
  BY <1>1, PTL
<1> QED
  BY <1>2, Inductive, PTL DEF Spec, OnlyUnregisterRemoves

-----------------------------------------------------------------------------
(***************************************************************************)
(* With a node that stays registered the key is never deleted, so its      *)
(* creation revision is 1 for ever and a version read identifies the       *)
(* record: a transaction is accepted only on the record that was read.     *)
(***************************************************************************)
NeverDeleted ==
  /\ kv.create = 1
  /\ \A n \in InitialNodes : n.addr \in AddrsOf(kv.nodes)
  /\ \A c \in Calls : pc[c] \in {"txn", "lost"} => read[c].create = 1

\* Under an anchor no call has the kind that deletes without reading.
LEMMA AnchoredKinds ==
  ASSUME Anchored, TypeOK, NEW c \in Calls
  PROVE  /\ req[c] \in Request
         /\ req[c].kind \in {"register", "unregister"}
         /\ \A n \in InitialNodes : ~Removes(c, n.addr)
  BY RequestsAssumption, InitialAssumption DEF Anchored, TypeOK, Request, Removes

\* What a call finds unchanged is what it read.
LEMMA AnchoredMatch ==
  ASSUME Anchored, IInv, NeverDeleted, NEW c \in Calls,
         pc[c] \in {"txn", "lost"}, Matches(c)
  PROVE  kv = read[c]
<1>1. req[c].kind # "unregisterAll"
  BY AnchoredKinds DEF IInv
<1> QED
  BY <1>1 DEF NeverDeleted, IInv, ReadOK, Matches

\* An accepted write keeps the anchor.
LEMMA AnchoredWrite ==
  ASSUME Anchored, IInv, NeverDeleted, NEW c \in Calls,
         pc[c] \in {"txn", "lost"}, Matches(c), Apply(NewNodes(c))
  PROVE  /\ kv = read[c]
         /\ kv'.create = 1
         /\ kv'.nodes = NewNodes(c)
         /\ \A n \in InitialNodes : n.addr \in AddrsOf(kv'.nodes)
<1>1. kv = read[c]
  BY AnchoredMatch
<1>2. kv'.nodes = NewNodes(c)
  BY AppliedNodes
<1>3. \A n \in InitialNodes : n.addr \in AddrsOf(NewNodes(c))
  BY <1>1, NewNodesKeeps, AnchoredKinds DEF NeverDeleted, IInv
<1>4. NewNodes(c) # {}
  BY <1>3 DEF Anchored, AddrsOf
<1>5. kv # NoKv
  BY DEF NeverDeleted, NoKv
<1>6. kv'.create = 1
  BY <1>4, <1>5 DEF Apply, NeverDeleted
<1> QED
  BY <1>1, <1>2, <1>3, <1>6

\* The key holds the anchor from the start.
LEMMA NeverDeletedInit == Anchored /\ Init => NeverDeleted
  BY DEF Anchored, Init, NeverDeleted, NoKv, AddrsOf

\* And no step takes it away, or lets a call carry an older incarnation.
LEMMA NeverDeletedStep ==
  Anchored /\ IInv /\ NeverDeleted /\ [Next]_vars => NeverDeleted'
<1> SUFFICES ASSUME Anchored, IInv, NeverDeleted, [Next]_vars PROVE NeverDeleted'
  OBVIOUS
<1>1. pc \in [Calls -> Steps] /\ read \in [Calls -> Kv]
  BY DEF IInv, TypeOK
<1>2. ASSUME NEW c \in Calls, Begin(c) PROVE NeverDeleted'
  <2>1. req[c].kind # "unregisterAll"
    BY AnchoredKinds DEF IInv
  <2> QED
    BY <1>1, <1>2, <2>1 DEF Begin, Goto, NeverDeleted
<1>3. ASSUME NEW c \in Calls, Read(c) PROVE NeverDeleted'
  BY <1>1, <1>3 DEF Read, Goto, NeverDeleted
<1>4. ASSUME NEW c \in Calls, ReadFails(c) \/ Conflict(c) \/ Fails(c)
      PROVE  NeverDeleted'
  BY <1>1, <1>4 DEF ReadFails, Conflict, Fails, Goto, NeverDeleted
<1>5. ASSUME NEW c \in Calls, Commit(c) \/ ArrivesLate(c) PROVE NeverDeleted'
  <2>1. pc[c] \in {"txn", "lost"} /\ read' = read
    BY <1>5 DEF Commit, ArrivesLate
  <2>2. \A d \in Calls : pc'[d] \in {"txn", "lost"} => pc[d] \in {"txn", "lost"}
    BY <1>1, <1>5 DEF Commit, ArrivesLate, Goto
  <2>3. CASE UNCHANGED kv
    BY <2>1, <2>2, <2>3 DEF NeverDeleted
  <2>4. CASE Matches(c) /\ Apply(NewNodes(c))
    BY <2>1, <2>2, <2>4, AnchoredWrite DEF NeverDeleted
  <2> QED
    BY <1>5, <2>3, <2>4 DEF Commit, ArrivesLate
<1>6. CASE UNCHANGED vars
  BY <1>6 DEF vars, NeverDeleted
<1> QED
  BY <1>2, <1>3, <1>4, <1>5, <1>6 DEF Next

\* An anchored key is never deleted.
LEMMA AnchorStays == ASSUME Anchored PROVE Spec => []NeverDeleted
<1>1. Init => NeverDeleted
  BY NeverDeletedInit
<1>2. IInv /\ NeverDeleted /\ [Next]_vars => NeverDeleted'
  BY NeverDeletedStep
<1> QED
  BY <1>1, <1>2, Inductive, PTL DEF Spec

-----------------------------------------------------------------------------
(***************************************************************************)
(* An address that Register has acknowledged stays registered and          *)
(* available until some call is asked to unregister it.                    *)
(***************************************************************************)
\* A write by a call that does not target an address keeps it available.
LEMMA NewNodesAvailable ==
  ASSUME Anchored, TypeOK, NEW c \in Calls, kv = read[c],
         NEW a, ~Targets(c, a),
         \/ \E n \in kv.nodes : n.addr = a /\ Available(n)
         \/ req[c].kind = "register" /\ req[c].node.addr = a
  PROVE  \E n \in NewNodes(c) : n.addr = a /\ Available(n)
<1>1. /\ req[c].node \in Node /\ req[c].remove \in BOOLEAN
      /\ req[c].kind = "register" => Available(req[c].node)
      /\ kv.nodes \in SUBSET Node
      /\ UniqueAddrs(kv.nodes)
  BY RequestsAssumption, AliveAssumption DEF TypeOK, Kv, Request
<1>2. CASE req[c].kind = "register"
  <2>1. NewNodes(c) = Upsert(kv.nodes, req[c].node)
    BY <1>2 DEF NewNodes
  <2>2. CASE req[c].node.addr = a
    <3>1. Available(req[c].node)
      BY <1>1, <1>2
    <3>2. \E n \in Upsert(kv.nodes, req[c].node) : n.addr = req[c].node.addr /\ Available(n)
      BY <1>1, <3>1, UpsertFacts
    <3> QED
      BY <2>1, <2>2, <3>2
  <2>3. CASE req[c].node.addr # a
    BY <1>1, <1>2, <2>1, <2>3, UpsertFacts
  <2> QED
    BY <2>2, <2>3
<1>3. CASE req[c].kind = "unregister"
  <2>1. NewNodes(c) = Strike(kv.nodes, req[c].node, req[c].remove)
    BY <1>3 DEF NewNodes
  <2>2. req[c].node.addr # a
    BY <1>3 DEF Targets
  <2> QED
    BY <1>1, <1>3, <2>1, <2>2, StrikeFacts
<1> QED
  BY <1>2, <1>3, AnchoredKinds

\* No step loses an acknowledged address.
LEMMA AckedStep ==
  Anchored /\ IInv /\ NeverDeleted /\ AckedStaysRegistered /\ [Next]_vars
    => AckedStaysRegistered'
<1> SUFFICES ASSUME Anchored, IInv, NeverDeleted, AckedStaysRegistered,
                    [Next]_vars, NEW c \in Calls,
                    req'[c].kind = "register", pc'[c] = "ok",
                    \A d \in Calls : pc'[d] # "idle" => ~Targets(d, req[c].node.addr)'
             PROVE  \E n \in kv'.nodes : n.addr = req'[c].node.addr /\ Available(n)
  BY DEF AckedStaysRegistered, Targets
<1> DEFINE a == req[c].node.addr
           Holds == \E n \in kv.nodes : n.addr = a /\ Available(n)
<1>1. pc \in [Calls -> Steps]
  BY DEF IInv, TypeOK
<1>2. req' = req /\ \A d \in Calls : pc[d] # "idle" => pc'[d] # "idle"
  BY <1>1 DEF Next, vars, Begin, Read, ReadFails, Commit, Conflict, Fails,
              ArrivesLate, Goto
<1>3. \A d \in Calls : pc'[d] # "idle" => ~Targets(d, a)
  BY <1>2 DEF Targets
<1>4. pc[c] = "ok" => Holds
  BY <1>2, <1>3 DEF AckedStaysRegistered
<1>5. CASE kv' = kv
  <2>1. CASE pc[c] = "ok"
    BY <1>2, <1>4, <1>5, <2>1
  <2>2. CASE pc[c] # "ok"
    <3>1. Commit(c)
      BY <1>1, <1>2, <2>2 DEF Next, vars, Begin, Read, ReadFails, Commit,
                              Conflict, Fails, ArrivesLate, Goto
    <3>2. kv = read[c] /\ kv'.nodes = NewNodes(c) /\ ~Targets(c, a)
      BY <1>3, <3>1, AnchoredWrite DEF Commit
    <3> QED
      BY <1>2, <3>2, NewNodesAvailable DEF IInv
  <2> QED
    BY <2>1, <2>2
<1>6. CASE kv' # kv
  <2>1. PICK d \in Calls : Commit(d) \/ ArrivesLate(d)
    BY <1>6 DEF Next, vars, Begin, Read, ReadFails, Conflict, Fails
  <2>2. /\ Apply(NewNodes(d)) /\ Matches(d) /\ pc[d] \in {"txn", "lost"}
        /\ d # c => pc[c] = "ok"
    BY <1>1, <1>6, <2>1 DEF Commit, ArrivesLate, Goto
  <2>3. kv = read[d] /\ kv'.nodes = NewNodes(d) /\ ~Targets(d, a)
    BY <1>2, <1>3, <2>2, AnchoredWrite
  <2>4. Holds \/ (req[d].kind = "register" /\ req[d].node.addr = a)
    BY <1>2, <1>4, <2>2
  <2> QED
    BY <1>2, <2>3, <2>4, NewNodesAvailable DEF IInv
<1> QED
  BY <1>5, <1>6

(***************************************************************************)
(* While some other node keeps the service's key alive, an acknowledged    *)
(* Register is never undone by the retries, failures or late requests of   *)
(* calls on other addresses.                                               *)
(***************************************************************************)
THEOREM AckedStays == ASSUME Anchored PROVE Spec => []AckedStaysRegistered
<1>1. Init => AckedStaysRegistered
  BY DEF Init, AckedStaysRegistered
<1>2. IInv /\ NeverDeleted /\ AckedStaysRegistered /\ [Next]_vars
        => AckedStaysRegistered'
  BY AckedStep
<1> QED
  BY <1>1, <1>2, Inductive, AnchorStays, PTL DEF Spec

-----------------------------------------------------------------------------
(***************************************************************************)
(* Refinement: with an anchor, the protocol of reads, transactions and     *)
(* retries implements the atomic calls of AtomicRegistry.  A call is       *)
(* pending from its start to its answer, and its commit, which is on the   *)
(* record it read, is the instant at which it takes effect.                *)
(***************************************************************************)
Phase == [c \in Calls |-> IF pc[c] \in {"get", "txn"} THEN "pending" ELSE pc[c]]

\* A step of call c moves the phase of c alone.
LEMMA PhaseStep ==
  ASSUME TypeOK, NEW c \in Calls, NEW step, Goto(c, step)
  PROVE  Phase' = [Phase EXCEPT ![c] =
                     IF step \in {"get", "txn"} THEN "pending" ELSE step]
<1>1. pc \in [Calls -> Steps]
  BY DEF TypeOK
<1>2. Phase' = [d \in Calls |-> IF pc'[d] \in {"get", "txn"} THEN "pending" ELSE pc'[d]]
  BY DEF Phase
<1>3. \A d \in Calls : pc'[d] = IF d = c THEN step ELSE pc[d]
  BY <1>1 DEF Goto
<1> QED
  BY <1>2, <1>3 DEF Phase

\* The abstract module works on the list of nodes with the same operators.
LEMMA SameOperators ==
  ASSUME NEW nodes, NEW node, NEW remove
  PROVE  /\ A!Upsert(nodes, node) = Upsert(nodes, node)
         /\ A!Strike(nodes, node, remove) = Strike(nodes, node, remove)
<1>1. \A n : A!Revived(n, node) = Revived(n, node)
  BY DEF A!Revived, Revived, A!Available, Available,
         A!NodeStateAlive, NodeStateAlive, A!NodeStateDead, NodeStateDead
<1>2. \A n : A!Killed(n, node) = Killed(n, node)
  BY DEF A!Killed, Killed, A!NodeStateDead, NodeStateDead
<1>3. A!AddrsOf(nodes) = AddrsOf(nodes)
  BY DEF A!AddrsOf, AddrsOf
<1> QED
  BY <1>1, <1>2, <1>3 DEF A!Upsert, Upsert, A!Strike, Strike

\* A write based on the current record is the atomic effect.
LEMMA EffectOfCurrent ==
  ASSUME NEW c \in Calls, kv = read[c], req[c].kind \in {"register", "unregister"}
  PROVE  NewNodes(c) = A!Effect(c)
  BY SameOperators DEF NewNodes, A!Effect

\* Each step is a step of the abstract call, or none.
LEMMA RefinementStep ==
  Anchored /\ IInv /\ NeverDeleted /\ [Next]_vars => [A!Next]_(A!vars)
<1> SUFFICES ASSUME Anchored, IInv, NeverDeleted, [Next]_vars
             PROVE  A!Next \/ UNCHANGED A!vars
  OBVIOUS
<1> DEFINE ph == Phase
<1>0. TypeOK /\ pc \in [Calls -> Steps]
  BY DEF IInv, TypeOK
<1>1. A!vars = <<kv.nodes, ph, req>>
  BY DEF A!vars, Phase
<1>2. ASSUME NEW c \in Calls, Begin(c) PROVE A!Next
  <2>1. PICK step \in {"error", "get", "txn"} : Goto(c, step)
    BY <1>2 DEF Begin
  <2>2. ph[c] = "idle" /\ req' = req /\ kv' = kv
    BY <1>2 DEF Begin, Phase
  <2>3. ph' = [ph EXCEPT ![c] = IF step = "error" THEN "error" ELSE "pending"]
    BY <1>0, <2>1, PhaseStep
  <2>4. A!Invoke(c) \/ A!Reject(c)
    BY <2>1, <2>2, <2>3 DEF A!Invoke, A!Reject, A!Goto, Phase
  <2> QED
    BY <2>4 DEF A!Next
<1>3. ASSUME NEW c \in Calls, Read(c) PROVE A!Next \/ UNCHANGED A!vars
  <2>1. ph[c] = "pending" /\ req' = req /\ kv' = kv
    BY <1>3 DEF Read, Phase
  <2>2. CASE req[c].kind = "unregister" /\ req[c].node.addr \notin AddrsOf(kv.nodes)
    <3>1. ph' = [ph EXCEPT ![c] = "ok"]
      BY <1>0, <1>3, <2>2, PhaseStep DEF Read
    <3>2. A!Effect(c) = kv.nodes
      <4>1. /\ req[c].node \in Node /\ req[c].remove \in BOOLEAN
            /\ kv.nodes \in SUBSET Node /\ UniqueAddrs(kv.nodes)
        BY <1>0, RequestsAssumption DEF TypeOK, Kv, Request
      <4>2. A!Effect(c) = Strike(kv.nodes, req[c].node, req[c].remove)
        BY <2>2, SameOperators DEF A!Effect
      <4> QED
        BY <2>2, <4>1, <4>2, StrikeFacts
    <3>3. A!Succeed(c)
      BY <2>1, <3>1, <3>2 DEF A!Succeed, A!Goto, Phase
    <3> QED
      BY <3>3 DEF A!Next
  <2>3. CASE ~(req[c].kind = "unregister" /\ req[c].node.addr \notin AddrsOf(kv.nodes))
    <3>1. ph' = [ph EXCEPT ![c] = "pending"]
      BY <1>0, <1>3, <2>3, PhaseStep DEF Read
    <3>2. ph' = ph
      BY <2>1, <3>1 DEF Phase
    <3> QED
      BY <2>1, <3>2 DEF A!vars, Phase
  <2> QED
    BY <2>2, <2>3
<1>4. ASSUME NEW c \in Calls, ReadFails(c) \/ Fails(c) PROVE A!Next
  <2>1. PICK step \in {"error", "lost"} : Goto(c, step)
    BY <1>4 DEF ReadFails, Fails
  <2>2. ph[c] = "pending" /\ req' = req /\ kv' = kv
    BY <1>4 DEF ReadFails, Fails, Phase
  <2>3. ph' = [ph EXCEPT ![c] = step]
    BY <1>0, <2>1, PhaseStep
  <2>4. A!GiveUp(c)
    BY <2>2, <2>3 DEF A!GiveUp, A!Goto, Phase
  <2> QED
    BY <2>4 DEF A!Next
<1>5. ASSUME NEW c \in Calls, Commit(c) PROVE A!Next
  <2>1. ph[c] = "pending" /\ req' = req /\ Goto(c, "ok")
    BY <1>5 DEF Commit, Phase
  <2>2. ph' = [ph EXCEPT ![c] = "ok"]
    BY <1>0, <2>1, PhaseStep
  <2>3. kv'.nodes = A!Effect(c)
    <3>1. kv = read[c] /\ kv'.nodes = NewNodes(c)
      BY <1>5, AnchoredWrite DEF Commit
    <3>2. req[c].kind \in {"register", "unregister"}
      BY <1>0, AnchoredKinds
    <3> QED
      BY <3>1, <3>2, EffectOfCurrent
  <2>4. A!Succeed(c)
    BY <2>1, <2>2, <2>3 DEF A!Succeed, A!Goto, Phase
  <2> QED
    BY <2>4 DEF A!Next
<1>6. ASSUME NEW c \in Calls, Conflict(c) PROVE A!Next \/ UNCHANGED A!vars
  <2>1. PICK step \in {"conflict", "get"} : Goto(c, step)
    BY <1>6 DEF Conflict
  <2>2. ph[c] = "pending" /\ req' = req /\ kv' = kv
    BY <1>6 DEF Conflict, Phase
  <2>3. ph' = [ph EXCEPT ![c] = IF step = "get" THEN "pending" ELSE "conflict"]
    BY <1>0, <2>1, PhaseStep
  <2>4. CASE step = "conflict"
    <3>1. A!GiveUp(c)
      BY <2>2, <2>3, <2>4 DEF A!GiveUp, A!Goto, Phase
    <3> QED
      BY <3>1 DEF A!Next
  <2>5. CASE step = "get"
    <3>1. ph' = ph
      BY <2>2, <2>3, <2>5 DEF Phase
    <3> QED
      BY <2>2, <3>1 DEF A!vars, Phase
  <2> QED
    BY <2>4, <2>5
<1>7. ASSUME NEW c \in Calls, ArrivesLate(c) PROVE A!Next
  <2>1. ph[c] = "lost" /\ req' = req /\ Goto(c, "error")
    BY <1>7 DEF ArrivesLate, Phase
  <2>2. ph' = [ph EXCEPT ![c] = "error"]
    BY <1>0, <2>1, PhaseStep
  <2>3. kv'.nodes \in {kv.nodes, A!Effect(c)}
    <3>1. CASE Matches(c) /\ Apply(NewNodes(c))
      <4>1. kv = read[c] /\ kv'.nodes = NewNodes(c)
        BY <1>7, <3>1, AnchoredWrite DEF ArrivesLate
      <4>2. req[c].kind \in {"register", "unregister"}
        BY <1>0, AnchoredKinds
      <4> QED
        BY <4>1, <4>2, EffectOfCurrent
    <3> QED
      BY <1>7, <3>1 DEF ArrivesLate
  <2>4. A!Settle(c)
    BY <2>1, <2>2, <2>3 DEF A!Settle, A!Goto, Phase
  <2> QED
    BY <2>4 DEF A!Next
<1>8. CASE UNCHANGED vars
  BY <1>8 DEF vars, A!vars
<1> QED
  BY <1>2, <1>3, <1>4, <1>5, <1>6, <1>7, <1>8 DEF Next

(***************************************************************************)
(* The calls of Register and Unregister are atomic as long as some node    *)
(* keeps the key alive, whatever requests fail, are refused or come late.  *)
(***************************************************************************)
THEOREM Refinement == ASSUME Anchored PROVE Spec => Linearizable
<1>1. Init => A!Init
  BY DEF Init, A!Init, NoKv
<1>2. IInv /\ NeverDeleted /\ [Next]_vars => [A!Next]_(A!vars)
  BY RefinementStep
<1> QED
  BY <1>1, <1>2, Inductive, AnchorStays, PTL DEF Spec, Linearizable, A!Spec
=============================================================================
