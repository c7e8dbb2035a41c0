--------------------------- MODULE AtomicRegistry ---------------------------
(***************************************************************************)
(* What the writers of the registry promise: the record of the service is  *)
(* one value, and each call changes it at once, on the value of that       *)
(* instant.  A call that reports success has taken effect; one that        *)
(* reports a conflict has not; one that reports an error may have, or may  *)
(* still, but no more than once.                                           *)
(***************************************************************************)
EXTENDS ServiceNodes

CONSTANTS Calls, Requests, InitialNodes

VARIABLES nodes, phase, req

vars == <<nodes, phase, req>>

Init ==
  /\ nodes = InitialNodes
  /\ phase = [c \in Calls |-> "idle"]
  /\ req \in [Calls -> Requests]

Goto(c, p) == phase' = [phase EXCEPT ![c] = p] /\ req' = req

Effect(c) ==
  LET r == req[c] IN
  CASE r.kind = "register"      -> Upsert(nodes, r.node)
    [] r.kind = "unregister"    -> Strike(nodes, r.node, r.remove)
    [] r.kind = "unregisterAll" -> {}

Invoke(c) ==
  /\ phase[c] = "idle"
  /\ Goto(c, "pending")
  /\ UNCHANGED nodes

\* Bad arguments.
Reject(c) ==
  /\ phase[c] = "idle"
  /\ Goto(c, "error")
  /\ UNCHANGED nodes

Succeed(c) ==
  /\ phase[c] = "pending"
  /\ Goto(c, "ok")
  /\ nodes' = Effect(c)

\* A conflict, or an error before anything was sent; or an error with the
\* request still under way.
GiveUp(c) ==
  /\ phase[c] = "pending"
  /\ \E p \in {"conflict", "error", "lost"} : Goto(c, p)
  /\ UNCHANGED nodes

\* The request of a call that has already failed takes effect, or is refused.
Settle(c) ==
  /\ phase[c] = "lost"
  /\ Goto(c, "error")
  /\ nodes' \in {nodes, Effect(c)}

Next ==
  \E c \in Calls : Invoke(c) \/ Reject(c) \/ Succeed(c) \/ GiveUp(c) \/ Settle(c)

Spec == Init /\ [][Next]_vars
=============================================================================
