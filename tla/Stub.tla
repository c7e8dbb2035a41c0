-------------------------------- MODULE Stub --------------------------------
(***************************************************************************)
(* The generated client stub: each stub dials once, at its first call, and *)
(* the options it dials with are merged once per process and service, out  *)
(* of what is registered by then.  Options are registered without a lock,  *)
(* by one goroutine (the init functions, then main), while others call;    *)
(* the first dials of two services may merge at the same time.             *)
(***************************************************************************)
EXTENDS StubOptions

VARIABLES
  customized, globalMerged, globalOnce,   \* of grpcsuit
  local, localMerged, localOnce,          \* of the service
  given,        \* what the merge of the service has got from that of all
  registering,  \* the options appended before the merged list is reset
  once, conn,   \* whether each stub has dialled; what it dialled with, {} for nil
  pc, of,       \* where each caller stands, and the stub it calls
  late,         \* history: an option was registered after its list was merged
  raced,        \* history: given was taken while it was being made
  refused       \* history: the stubs that NewClient has failed for

global  == <<customized, globalMerged, globalOnce>>
service == <<local, localMerged, localOnce, given, raced>>
options == <<global, service>>
stubs   == <<once, conn, refused>>
callers == <<pc, of>>
vars    == <<options, registering, late, stubs, callers>>

Init ==
  /\ customized = {} /\ globalMerged = {} /\ globalOnce = "no"
  /\ local = {} /\ localMerged = {} /\ localOnce = "no"
  /\ given = {} /\ raced = FALSE
  /\ registering = {}
  /\ once = [u \in Stubs |-> "no"]
  /\ conn = [u \in Stubs |-> {}]
  /\ pc = [c \in Callers |-> "idle"]
  /\ of = [c \in Callers |-> NoStub]
  /\ late = FALSE
  /\ refused = {}

Goto(c, step) == pc' = [pc EXCEPT ![c] = step]

\* The call ends, with or without an error.
Ends(c) == Goto(c, "idle") /\ of' = [of EXCEPT ![c] = NoStub]
-----------------------------------------------------------------------------
\* RegisterCustomizedDialOpts and RegisterDialXOpts: append, then reset.
Comes(o) == late' = (late \/ localOnce # "no" \/ (o \in Global /\ globalOnce # "no"))

Append(o) ==
  /\ registering = {}
  /\ o \in (Global \cup Local) \ (customized \cup local)
  /\ registering' = {o}
  /\ customized' = customized \cup ({o} \cap Global)
  /\ local' = local \cup ({o} \cap Local)
  /\ Comes(o)
  /\ UNCHANGED <<globalMerged, globalOnce, localMerged, localOnce, given, raced, stubs, callers>>

Reset(o) ==
  /\ registering = {o}
  /\ registering' = {}
  /\ globalMerged' = IF o \in Global THEN {} ELSE globalMerged
  /\ localMerged' = IF o \in Local THEN {} ELSE localMerged
  /\ Comes(o)
  /\ UNCHANGED <<customized, globalOnce, local, localOnce, given, raced, stubs, callers>>
-----------------------------------------------------------------------------
(***************************************************************************)
(* A method: prepareConn, whose Once lets one caller dial and all others   *)
(* wait, and then the call.                                                *)
(***************************************************************************)
\* Seeded fault: the others do not wait.
PrepareUnwaiting(c, u) ==
  /\ pc[c] = "idle"
  /\ of' = [of EXCEPT ![c] = u]
  /\ IF once[u] = "no"
     THEN once' = [once EXCEPT ![u] = "running"] /\ Goto(c, "dial")
     ELSE Goto(c, "call") /\ UNCHANGED once
  /\ UNCHANGED <<options, registering, late, conn, refused>>

Prepare(c, u) ==
  /\ pc[c] = "idle"
  /\ once[u] # "running"
  /\ of' = [of EXCEPT ![c] = u]
  /\ IF once[u] = "no"
     THEN once' = [once EXCEPT ![u] = "running"] /\ Goto(c, "dial")
     ELSE Goto(c, "call") /\ UNCHANGED once
  /\ UNCHANGED <<options, registering, late, conn, refused>>

\* GetDialXOpts, which all default stubs share: one merges, the others wait.
BeginMerge(c) ==
  /\ pc[c] = "dial" /\ of[c] \in Default
  /\ localOnce = "no"
  /\ localOnce' = "running"
  /\ Goto(c, "global")
  /\ UNCHANGED <<global, local, localMerged, given, raced, registering, late, stubs, of>>

\* GetCustomizedOptsMergedDefault: if there is a list, that one, though it
\* may still be in the making; if not, it is made once, while others wait.
MergeGlobal(c) ==
  /\ pc[c] = "global"
  /\ globalMerged = {} => globalOnce # "running"
  /\ raced' = (globalOnce = "running")
  /\ IF globalMerged = {} /\ globalOnce = "no"
     THEN globalMerged' = RoundRobin \cup customized /\ globalOnce' = "done"
     ELSE UNCHANGED <<globalMerged, globalOnce>>
  /\ given' = globalMerged'
  /\ Goto(c, "merge")
  /\ UNCHANGED <<customized, local, localMerged, localOnce, registering, late, stubs, of>>

\* The first dial of another service makes the list: it is allocated, filled
\* with the defaults, and replaced by one that has the registered options.
ElsewhereMakes ==
  /\ globalMerged = {} /\ globalOnce = "no"
  /\ globalMerged' = {Unset}
  /\ globalOnce' = "running"
  /\ UNCHANGED <<customized, service, registering, late, stubs, callers>>

ElsewhereCopies ==
  /\ globalMerged = {Unset}
  /\ globalMerged' = RoundRobin
  /\ UNCHANGED <<customized, globalOnce, service, registering, late, stubs, callers>>

\* Seeded fault: the registered options are left out.
ElsewhereEndsBare ==
  /\ globalOnce = "running" /\ globalMerged # {Unset}
  /\ globalOnce' = "done"
  /\ UNCHANGED <<customized, globalMerged, service, registering, late, stubs, callers>>

ElsewhereEnds ==
  /\ globalOnce = "running" /\ globalMerged # {Unset}
  /\ globalMerged' = globalMerged \cup customized
  /\ globalOnce' = "done"
  /\ UNCHANGED <<customized, service, registering, late, stubs, callers>>

Elsewhere == ElsewhereMakes \/ ElsewhereCopies \/ ElsewhereEnds

Merge(c) ==
  /\ pc[c] = "merge"
  /\ localMerged' = given \cup local
  /\ localOnce' = "done"
  /\ Goto(c, "dial")
  /\ UNCHANGED <<global, local, given, raced, registering, late, stubs, of>>

\* A list reset since the merge is empty, and has no credentials.
Dialled(c) ==
  /\ pc[c] = "dial"
  /\ of[c] \in Default => localOnce = "done"
  /\ once' = [once EXCEPT ![of[c]] = "done"]

NewClient(c) ==
  /\ Dialled(c)
  /\ of[c] \in Default => RoundRobin \subseteq localMerged
  /\ of[c] \in Default => Unset \notin localMerged
  /\ conn' = [conn EXCEPT ![of[c]] = IF of[c] \in Own THEN {of[c]} ELSE localMerged]
  /\ Goto(c, "call")
  /\ UNCHANGED <<options, registering, late, refused, of>>

\* grpc.NewClient applies each option.
NewClientPanics(c) ==
  /\ Dialled(c)
  /\ of[c] \in Default /\ Unset \in localMerged
  /\ Goto(c, "dial panicked")
  /\ UNCHANGED <<options, registering, late, conn, refused, of>>

NewClientFails(c) ==
  /\ Dialled(c)
  /\ refused' = refused \cup {of[c]}
  /\ Ends(c)
  /\ UNCHANGED <<options, registering, late, conn>>

\* With no client the call panics.
Call(c) ==
  /\ pc[c] = "call"
  /\ IF conn[of[c]] = {} THEN Goto(c, "panicked") /\ UNCHANGED of ELSE Ends(c)
  /\ UNCHANGED <<options, registering, late, stubs>>

Alive == \A c \in Callers : pc[c] \notin {"panicked", "dial panicked"}

Next ==
  /\ Alive
  /\ \/ \E o \in Options : Append(o) \/ Reset(o)
     \/ Elsewhere
     \/ \E c \in Callers :
          \/ \E u \in Stubs : Prepare(c, u)
          \/ BeginMerge(c) \/ MergeGlobal(c) \/ Merge(c)
          \/ NewClient(c) \/ NewClientPanics(c) \/ NewClientFails(c) \/ Call(c)

Spec == Init /\ [][Next]_vars
-----------------------------------------------------------------------------
\* Types; and while a Once runs, one caller is in it.
TypeOK ==
  /\ customized \subseteq Global /\ local \subseteq Local
  /\ {globalMerged, given, localMerged} \subseteq SUBSET (Options \cup {Unset})
  /\ {globalOnce, localOnce} \subseteq {"no", "running", "done"}
  /\ registering \subseteq Global \cup Local
  /\ once \in [Stubs -> {"no", "running", "done"}]
  /\ conn \in [Stubs -> SUBSET (Options \cup Own)]
  /\ pc \in [Callers -> {"idle", "dial", "global", "merge", "call", "panicked", "dial panicked"}]
  /\ of \in [Callers -> Stubs \cup {NoStub}]
  /\ {late, raced} \subseteq BOOLEAN /\ refused \subseteq Stubs
  /\ \A c, d \in Callers :
       pc[c] \in {"global", "merge"} /\ pc[d] \in {"global", "merge"} => c = d

(***************************************************************************)
(* All that is registered is in force, for each stub without options of    *)
(* its own, whichever of them dials first: unless an option was registered *)
(* after a dial (of this service, or a global one after that of any), for  *)
(* that takes effect for none, and keeps those that have not dialled yet   *)
(* from the options they need; or unless the service's first dial fell     *)
(* into that of another, when it may even have taken a list of nil.        *)
(***************************************************************************)
OptionsInForce ==
  \A u \in Default : conn[u] # {} /\ ~late /\ ~raced => conn[u] = RoundRobin \cup customized \cup local

(***************************************************************************)
(* A call finds no client only if the dial of the stub's first call has    *)
(* failed, the error of which went to that call alone: callers that come   *)
(* while a dial is under way wait for its end.                             *)
(***************************************************************************)
NilClientAfterFailure ==
  \A c \in Callers : pc[c] = "panicked" => of[c] \in refused
=============================================================================
