------------------------------ MODULE Registry ------------------------------
(***************************************************************************)
(* The writers of the service registry: etcd.Discovery's Register,         *)
(* Unregister and UnregisterAll, called concurrently by any number of      *)
(* goroutines of any number of processes, on the key of one service.       *)
(* (Keys are independent: every operation reads and compares only its own  *)
(* key, so one key is the whole of the protocol.)                          *)
(*                                                                         *)
(* A call is one execution of one operation, and never starts again.       *)
(* Register and Unregister read the key (Get), change the decoded record   *)
(* and write it back in a transaction that compares the key's Version with *)
(* the one read; a refused transaction starts over, at most maxRetry times.*)
(* Each request may fail at the client while it still reaches etcd later,  *)
(* or never.                                                               *)
(***************************************************************************)
EXTENDS ServiceNodes, FiniteSets

CONSTANTS
  Calls,         \* the executions of the three operations
  Addrs,         \* what Host and Port may name
  NoAddr,        \* a Host that is empty or a Port that is zero
  Extras,        \* payloads
  Requests,      \* the arguments calls are made with
  InitialNodes   \* the node that is already registered at the start, if any

Node == [addr   : Addrs \cup {NoAddr},
         status : {NodeStateNil, NodeStateAlive, NodeStateDead},
         extra  : Extras]

\* named is FALSE for an empty service name.
Request == [kind : {"register", "unregister", "unregisterAll"},
            named : BOOLEAN, node : Node, remove : BOOLEAN]

ASSUME RequestsAssumption == Requests \subseteq Request
\* Callers register what discovery.NewNode returns: a node not marked dead.
ASSUME AliveAssumption ==
  \A r \in Requests : r.kind = "register" => Available(r.node)
ASSUME InitialAssumption ==
  /\ InitialNodes \subseteq Node
  /\ \A m, n \in InitialNodes : m = n

maxRetry == 3

VARIABLES
  kv,      \* the key at etcd: its value and its three counters
  rev,     \* the revision of the etcd store
  pc,      \* where each call stands
  req,     \* the arguments of each call
  read,    \* the key as each call last read it
  retry    \* how many of its transactions were refused

vars == <<kv, rev, pc, req, read, retry>>

Results == {"ok", "conflict", "error"}
Steps   == {"idle", "get", "txn", "lost"} \cup Results

\* A key that does not exist: the comparison sees Version 0.
NoKv == [version |-> 0, create |-> 0, mod |-> 0, nodes |-> {}]

Init ==
  /\ kv = IF InitialNodes = {} THEN NoKv
          ELSE [version |-> 1, create |-> 1, mod |-> 1, nodes |-> InitialNodes]
  /\ rev = kv.mod
  /\ pc    = [c \in Calls |-> "idle"]
  /\ req   \in [Calls -> Requests]
  /\ read  = [c \in Calls |-> NoKv]
  /\ retry = [c \in Calls |-> 0]
-----------------------------------------------------------------------------
(***************************************************************************)
(* What a call writes back, given what it read.                            *)
(***************************************************************************)
NewNodes(c) ==
  LET r == req[c] IN
  CASE r.kind = "register"      -> Upsert(read[c].nodes, r.node)
    [] r.kind = "unregister"    -> Strike(read[c].nodes, r.node, r.remove)
    [] r.kind = "unregisterAll" -> {}

\* Seeded fault: only the existence of the key is compared.
SameExistence(c) == (kv.version > 0) = (read[c].version > 0)

(***************************************************************************)
(* The condition of the transaction.  UnregisterAll deletes unconditionally*)
(***************************************************************************)
Matches(c) ==
  req[c].kind = "unregisterAll" \/ kv.version = read[c].version

(***************************************************************************)
(* The effect of an accepted request at etcd.  A record with no nodes left *)
(* deletes the key; the Version of a key that is created again is 1.       *)
(***************************************************************************)
Apply(nodes) ==
  \/ /\ nodes # {}
     /\ rev' = rev + 1
     /\ kv' = [version |-> kv.version + 1,
               create  |-> IF kv = NoKv THEN rev + 1 ELSE kv.create,
               mod     |-> rev + 1,
               nodes   |-> nodes]
  \/ /\ nodes = {}
     /\ rev' = IF kv = NoKv THEN rev ELSE rev + 1
     /\ kv' = NoKv
-----------------------------------------------------------------------------
Goto(c, step) == pc' = [pc EXCEPT ![c] = step]

Invalid(r) ==
  ~r.named \/ (r.kind = "register" /\ r.node.addr = NoAddr)

(***************************************************************************)
(* The call starts: bad arguments are refused before etcd is asked, and    *)
(* UnregisterAll has nothing to read.                                      *)
(***************************************************************************)
Begin(c) ==
  /\ pc[c] = "idle"
  /\ Goto(c, IF Invalid(req[c]) THEN "error"
             ELSE IF req[c].kind = "unregisterAll" THEN "txn" ELSE "get")
  /\ UNCHANGED <<kv, rev, req, read, retry>>

\* Seeded fault: the version of an existing key is not taken over.
ReadForgetsVersion(c) ==
  /\ pc[c] = "get"
  /\ read' = [read EXCEPT ![c] = [kv EXCEPT !.version = 0]]
  /\ Goto(c, IF req[c].kind = "unregister"
                  /\ req[c].node.addr \notin AddrsOf(kv.nodes)
             THEN "ok" ELSE "txn")
  /\ UNCHANGED <<kv, rev, req, retry>>

(***************************************************************************)
(* etcd.Get, and everything the loop does with the answer before its       *)
(* transaction.  Unregister of a node that is not there, or of a service   *)
(* that is not there, succeeds at once.                                    *)
(***************************************************************************)
Read(c) ==
  /\ pc[c] = "get"
  /\ read' = [read EXCEPT ![c] = kv]
  /\ Goto(c, IF req[c].kind = "unregister"
                  /\ req[c].node.addr \notin AddrsOf(kv.nodes)
             THEN "ok" ELSE "txn")
  /\ UNCHANGED <<kv, rev, req, retry>>

\* etcd.Get fails or times out, or the value it returns does not decode.
ReadFails(c) ==
  /\ pc[c] = "get"
  /\ Goto(c, "error")
  /\ UNCHANGED <<kv, rev, req, read, retry>>

\* The transaction is accepted and the answer arrives.
Commit(c) ==
  /\ pc[c] = "txn"
  /\ Matches(c)
  /\ Apply(NewNodes(c))
  /\ Goto(c, "ok")
  /\ UNCHANGED <<req, read, retry>>

\* The transaction is refused: read again, or give up.
Conflict(c) ==
  /\ pc[c] = "txn"
  /\ ~Matches(c)
  /\ retry' = [retry EXCEPT ![c] = @ + 1]
  /\ Goto(c, IF retry[c] + 1 = maxRetry THEN "conflict" ELSE "get")
  /\ UNCHANGED <<kv, rev, req, read>>

(***************************************************************************)
(* The transaction or the delete fails at the client, which returns an     *)
(* error; the request itself may still be on its way.                      *)
(***************************************************************************)
Fails(c) ==
  /\ pc[c] = "txn"
  /\ Goto(c, "lost")
  /\ UNCHANGED <<kv, rev, req, read, retry>>

\* A request whose caller has given up on it reaches etcd after all.
ArrivesLate(c) ==
  /\ pc[c] = "lost"
  /\ Goto(c, "error")
  /\ \/ Matches(c) /\ Apply(NewNodes(c))
     \/ ~Matches(c) /\ UNCHANGED <<kv, rev>>
  /\ UNCHANGED <<req, read, retry>>

Next ==
  \E c \in Calls :
    \/ Begin(c)
    \/ Read(c)
    \/ ReadFails(c)
    \/ Commit(c)
    \/ Conflict(c)
    \/ Fails(c)
    \/ ArrivesLate(c)

Spec == Init /\ [][Next]_vars
-----------------------------------------------------------------------------
Kv == [version : Nat, create : Nat, mod : Nat, nodes : SUBSET Node]

(***************************************************************************)
(* Every variable has its type, no record lists an address twice, and no   *)
(* call is refused more often than the loop allows.                        *)
(***************************************************************************)
TypeOK ==
  /\ kv \in Kv
  /\ UniqueAddrs(kv.nodes)
  /\ rev \in Nat
  /\ pc \in [Calls -> Steps]
  /\ req \in [Calls -> Requests]
  /\ read \in [Calls -> Kv]
  /\ \A c \in Calls : UniqueAddrs(read[c].nodes)
  /\ retry \in [Calls -> 0 .. maxRetry]

(***************************************************************************)
(* A transaction that etcd would accept replaces exactly the record the    *)
(* call has read, unless the key was deleted and created again since (its  *)
(* creation revision differs): the only hole of comparing Version.         *)
(***************************************************************************)
CommitIsExact ==
  \A c \in Calls :
    /\ pc[c] \in {"txn", "lost"}
    /\ req[c].kind # "unregisterAll"
    /\ Matches(c)
    /\ kv.create = read[c].create
    => kv = read[c]

\* Call c was made to take address a out of the registry.
Removes(c, a) ==
  \/ req[c].kind = "unregisterAll"
  \/ req[c].kind = "unregister" /\ req[c].remove /\ req[c].node.addr = a

\* The key call c has read is gone; the one there now is another.
Recreated(c) == kv.create # read[c].create

(***************************************************************************)
(* A step that takes an address out of the registry is a step of a call    *)
(* made to do that, or of a call whose key was deleted and created again   *)
(* under its feet.                                                         *)
(***************************************************************************)
OnlyUnregisterRemoves ==
  [][\A a \in AddrsOf(kv.nodes) \ AddrsOf(kv'.nodes) :
       \E c \in Calls : pc'[c] # pc[c] /\ (Removes(c, a) \/ Recreated(c))]_vars

(***************************************************************************)
(* A call that gives up after its last retry lost to as many commits of    *)
(* other calls: refusals never come from the protocol itself.              *)
(***************************************************************************)
GiveUpNeedsWinners ==
  \A c \in Calls : pc[c] = "conflict" => rev >= maxRetry

(***************************************************************************)
(* An address that Register has acknowledged, and that no call made since  *)
(* or before was asked to unregister, is registered and available.         *)
(***************************************************************************)
Targets(c, a) ==
  \/ req[c].kind = "unregisterAll"
  \/ req[c].kind = "unregister" /\ req[c].node.addr = a

AckedStaysRegistered ==
  \A c \in Calls :
    /\ req[c].kind = "register"
    /\ pc[c] = "ok"
    /\ \A d \in Calls : pc[d] # "idle" => ~Targets(d, req[c].node.addr)
    => \E n \in kv.nodes : n.addr = req[c].node.addr /\ Available(n)
-----------------------------------------------------------------------------
(***************************************************************************)
(* One node stays registered throughout: the initial one, which no request *)
(* removes.  Then the key is never deleted.                                *)
(***************************************************************************)
Anchored ==
  \E n \in InitialNodes : \A r \in Requests :
    /\ r.kind # "unregisterAll"
    /\ r.kind = "unregister" /\ r.remove => r.node.addr # n.addr

A == INSTANCE AtomicRegistry WITH
       nodes <- kv.nodes,
       phase <- [c \in Calls |->
                   IF pc[c] \in {"get", "txn"} THEN "pending" ELSE pc[c]]

(***************************************************************************)
(* The calls are atomic: each takes effect at one instant between its      *)
(* start and its answer, on the record of that instant.  Claimed when one  *)
(* node stays registered throughout (Anchored).                            *)
(***************************************************************************)
Linearizable == A!Spec
=============================================================================
