----------------------------- MODULE HealthCheck -----------------------------
(***************************************************************************)
(* Who keeps the registry true: servers that register themselves before    *)
(* they serve and unregister when they stop (ServeGrpc), and the           *)
(* HealthChecker, which pings what is registered and unregisters what does *)
(* not answer.  Neither knows of the other.                                *)
(*                                                                         *)
(* An entry of the registry is a pair of a service and an address.  The    *)
(* registry's operations are atomic here (Registry and AtomicRegistry say  *)
(* when they are); one that returns an error may have taken effect.        *)
(*                                                                         *)
(* An address is served by one process after the other, its incarnations;  *)
(* each offers services of its own choice, with or without the health      *)
(* handler.  Sleeps are left out: any step may take arbitrarily long.      *)
(***************************************************************************)
EXTENDS Integers, Sequences, Functions

CONSTANTS
  Srvs,       \* service names
  Addrs,      \* addresses servers listen on
  Offers,     \* the values of SrvNames, in their order
  Workers,    \* the goroutines of HealthChecker.work
  None,       \* no entry
  MaxStarts   \* bound on the incarnations of an address

Entries == Srvs \X Addrs

ASSUME OffersAssumption ==
  \A o \in Offers : o \in Seq(Srvs) /\ o # <<>> /\ IsInjective(o)
ASSUME NoneAssumption == None \notin Entries
ASSUME MaxStartsAssumption == MaxStarts \in Nat

maxTries == 3

VARIABLES
  registry,  \* the entries of the registry
  starts,    \* which incarnation each address is at
  pc,        \* where its ServeGrpc stands
  offers,    \* its SrvNames
  healthy,   \* its EnabledHealth
  next,      \* the service it registers or unregisters next
  todo,      \* what the checker has loaded and not handed to a worker yet
  job,       \* the entry each worker checks
  tries,     \* how many of its pings have failed
  doomed,    \* whether it is about to unregister it
  began,     \* history: the incarnation that served when the check began
  lost,      \* history: how many pings of the check were lost
  excused    \* history: the entries removed by a check that could not know
             \* better (Excusable)

servers == <<starts, pc, offers, healthy, next>>
checks  == <<job, tries, doomed, began, lost>>
vars    == <<registry, servers, todo, checks, excused>>

Steps == {"down", "register", "ready", "serving", "leave"}

Init ==
  /\ registry = {}
  /\ starts  = [a \in Addrs |-> 0]
  /\ pc      = [a \in Addrs |-> "down"]
  /\ offers  = [a \in Addrs |-> <<>>]
  /\ healthy = [a \in Addrs |-> FALSE]
  /\ next    = [a \in Addrs |-> 1]
  /\ todo = {}
  /\ job    = [w \in Workers |-> None]
  /\ tries  = [w \in Workers |-> 0]
  /\ doomed = [w \in Workers |-> FALSE]
  /\ began  = [w \in Workers |-> 0]
  /\ lost   = [w \in Workers |-> 0]
  /\ excused = {}

Goto(a, step) == pc' = [pc EXCEPT ![a] = step]

Entry(a) == <<offers[a][next[a]], a>>

\* The loop over the service names: the next one, or the step after the loop.
Advance(a, step) ==
  IF next[a] < Len(offers[a])
  THEN next' = [next EXCEPT ![a] = @ + 1] /\ UNCHANGED pc
  ELSE next' = [next EXCEPT ![a] = 1] /\ Goto(a, step)
-----------------------------------------------------------------------------
(***************************************************************************)
(* ServeGrpc.  A new process listens on the address and starts to register *)
(* its services.  (What fails before that returns without a trace.)        *)
(***************************************************************************)
Start(a, o, h) ==
  /\ pc[a] = "down"
  /\ starts[a] < MaxStarts
  /\ starts'  = [starts EXCEPT ![a] = @ + 1]
  /\ offers'  = [offers EXCEPT ![a] = o]
  /\ healthy' = [healthy EXCEPT ![a] = h]
  /\ next'    = [next EXCEPT ![a] = 1]
  /\ Goto(a, "register")
  /\ excused' = {e \in excused : e[2] # a}
  /\ UNCHANGED <<registry, todo, checks>>

Register(a) ==
  /\ pc[a] = "register"
  /\ registry' = registry \cup {Entry(a)}
  /\ Advance(a, "ready")
  /\ UNCHANGED <<starts, offers, healthy, todo, checks, excused>>

\* An error returns at once: the deferred Unregister is not in place yet, and
\* what has been registered stays.
RegisterFails(a) ==
  /\ pc[a] = "register"
  /\ registry' \in {registry, registry \cup {Entry(a)}}
  /\ Goto(a, "down")
  /\ UNCHANGED <<starts, offers, healthy, next, todo, checks, excused>>

\* AfterRegDiscover refuses.
HookFails(a) ==
  /\ pc[a] = "ready"
  /\ Goto(a, "leave")
  /\ UNCHANGED <<registry, starts, offers, healthy, next, todo, checks, excused>>

\* AfterRegDiscover and OnReady are done: only now does the server answer.
Serve(a) ==
  /\ pc[a] = "ready"
  /\ Goto(a, "serving")
  /\ UNCHANGED <<registry, starts, offers, healthy, next, todo, checks, excused>>

\* grpcServer.Serve returns.
Stop(a) ==
  /\ pc[a] = "serving"
  /\ Goto(a, "leave")
  /\ UNCHANGED <<registry, starts, offers, healthy, next, todo, checks, excused>>

\* The deferred loop: an error is logged, and the next service's turn comes.
Leave(a) ==
  /\ pc[a] = "leave"
  /\ registry' \in {registry, registry \ {Entry(a)}}
  /\ Advance(a, "down")
  /\ UNCHANGED <<starts, offers, healthy, todo, checks, excused>>

Crash(a) ==
  /\ pc[a] # "down"
  /\ Goto(a, "down")
  /\ UNCHANGED <<registry, starts, offers, healthy, next, todo, checks, excused>>
-----------------------------------------------------------------------------
(***************************************************************************)
(* Reporter.Ping: a server with the health handler says whether the        *)
(* service is one of its own; any other has no such method.                *)
(***************************************************************************)
Replies(a)  == pc[a] = "serving" /\ healthy[a]
Offered(e)  == e[1] \in Range(offers[e[2]])
Answers(e)  == Replies(e[2]) /\ Offered(e)

(***************************************************************************)
(* HealthChecker.Run: load every entry, hand one after the other to an     *)
(* idle worker, start over.                                                *)
(***************************************************************************)
Load ==
  /\ todo = {}
  /\ todo' = registry
  /\ UNCHANGED <<registry, servers, checks, excused>>

Dispatch(w, e) ==
  /\ e \in todo
  /\ job[w] = None
  /\ todo' = todo \ {e}
  /\ job'    = [job EXCEPT ![w] = e]
  /\ tries'  = [tries EXCEPT ![w] = 0]
  /\ doomed' = [doomed EXCEPT ![w] = FALSE]
  /\ began'  = [began EXCEPT ![w] = IF Answers(e) THEN starts[e[2]] ELSE 0]
  /\ lost'   = [lost EXCEPT ![w] = 0]
  /\ UNCHANGED <<registry, servers, excused>>

Pinging(w) == job[w] # None /\ ~doomed[w]

\* The check is over.
Done(w) == job' = [job EXCEPT ![w] = None] /\ UNCHANGED <<tries, doomed, began, lost>>

PingOk(w) ==
  /\ Pinging(w)
  /\ Answers(job[w])
  /\ Done(w)
  /\ UNCHANGED <<registry, servers, todo, excused>>

\* Seeded fault: any reply is taken for a good one.
PingRefusedKeeps(w) ==
  /\ Pinging(w)
  /\ Replies(job[w][2])
  /\ ~Offered(job[w])
  /\ Done(w)
  /\ UNCHANGED <<registry, servers, todo, excused>>

\* The server says that the service is not its own: no further ping.
PingRefused(w) ==
  /\ Pinging(w)
  /\ Replies(job[w][2])
  /\ ~Offered(job[w])
  /\ doomed' = [doomed EXCEPT ![w] = TRUE]
  /\ UNCHANGED <<registry, servers, todo, job, tries, began, lost, excused>>

\* Seeded fault: the bound on the pings is off by one.
PingErrsOnceMore(w) ==
  /\ Pinging(w)
  /\ tries'  = [tries EXCEPT ![w] = @ + 1]
  /\ doomed' = [doomed EXCEPT ![w] = tries[w] = maxTries]
  /\ lost'   = [lost EXCEPT ![w] = IF Answers(job[w]) THEN @ + 1 ELSE @]
  /\ UNCHANGED <<registry, servers, todo, job, began, excused>>

\* Seeded fault: the first error decides.
PingErrsOnce(w) ==
  /\ Pinging(w)
  /\ tries'  = [tries EXCEPT ![w] = @ + 1]
  /\ doomed' = [doomed EXCEPT ![w] = TRUE]
  /\ lost'   = [lost EXCEPT ![w] = IF Answers(job[w]) THEN @ + 1 ELSE @]
  /\ UNCHANGED <<registry, servers, todo, job, began, excused>>

\* Nobody answers, or not in time, or there is no health handler: up to
\* maxTries pings are tried.
PingErrs(w) ==
  /\ Pinging(w)
  /\ tries'  = [tries EXCEPT ![w] = @ + 1]
  /\ doomed' = [doomed EXCEPT ![w] = tries[w] + 1 = maxTries]
  /\ lost'   = [lost EXCEPT ![w] = IF Answers(job[w]) THEN @ + 1 ELSE @]
  /\ UNCHANGED <<registry, servers, todo, job, began, excused>>

(***************************************************************************)
(* The check had no way to know that the entry is served: its server began *)
(* to serve after the check began, or every ping was lost on the way.      *)
(***************************************************************************)
Excusable(w) == began[w] # starts[job[w][2]] \/ lost[w] = maxTries

\* Unregister takes effect, whether or not its answer arrives.
Unregister(w) ==
  /\ job[w] # None
  /\ doomed[w]
  /\ registry' = registry \ {job[w]}
  /\ excused' = IF Excusable(w) THEN excused \cup {job[w]} ELSE excused
  /\ Done(w)
  /\ UNCHANGED <<servers, todo>>

\* Unregister fails without effect: the next round tries again.
UnregisterFails(w) ==
  /\ job[w] # None
  /\ doomed[w]
  /\ Done(w)
  /\ UNCHANGED <<registry, servers, todo, excused>>
-----------------------------------------------------------------------------
ServerStep(a) ==
  \/ \E o \in Offers, h \in BOOLEAN : Start(a, o, h)
  \/ Register(a) \/ RegisterFails(a) \/ HookFails(a) \/ Serve(a)
  \/ Stop(a) \/ Leave(a) \/ Crash(a)

Ping(w) == PingOk(w) \/ PingRefused(w) \/ PingErrs(w)

Next ==
  \/ \E a \in Addrs : ServerStep(a)
  \/ Load
  \/ \E w \in Workers, e \in Entries : Dispatch(w, e)
  \/ \E w \in Workers : Ping(w) \/ Unregister(w) \/ UnregisterFails(w)

Spec == Init /\ [][Next]_vars

(***************************************************************************)
(* The checker's goroutines run, and of infinitely many attempts to        *)
(* unregister an entry one succeeds.  Servers promise nothing.             *)
(***************************************************************************)
Fairness ==
  /\ WF_vars(Load)
  /\ WF_vars(\E w \in Workers, e \in Entries : Dispatch(w, e))
  /\ \A w \in Workers : WF_vars(Ping(w) \/ Unregister(w) \/ UnregisterFails(w))
  /\ \A w \in Workers, e \in Entries : SF_vars(job[w] = e /\ Unregister(w))

FairSpec == Spec /\ Fairness
-----------------------------------------------------------------------------
(***************************************************************************)
(* Every variable has its type, no server is past its last service, and no *)
(* check has tried more pings than the loop allows.                        *)
(***************************************************************************)
TypeOK ==
  /\ registry \subseteq Entries
  /\ starts \in [Addrs -> 0 .. MaxStarts]
  /\ pc \in [Addrs -> Steps]
  /\ offers \in [Addrs -> Offers \cup {<<>>}]
  /\ healthy \in [Addrs -> BOOLEAN]
  /\ next \in [Addrs -> Nat \ {0}]
  /\ \A a \in Addrs : pc[a] # "down" => next[a] <= Len(offers[a])
  /\ todo \subseteq Entries
  /\ job \in [Workers -> Entries \cup {None}]
  /\ tries \in [Workers -> 0 .. maxTries]
  /\ doomed \in [Workers -> BOOLEAN]
  /\ began \in [Workers -> 0 .. MaxStarts]
  /\ lost \in [Workers -> 0 .. maxTries]
  /\ \A w \in Workers : lost[w] <= tries[w]
  /\ \A w \in Workers : tries[w] = maxTries => doomed[w]
  /\ excused \subseteq Entries

(***************************************************************************)
(* A service that a server with the health handler is serving is           *)
(* registered, unless a check could not know: one that began before that   *)
(* server answered, and outlived a restart, or one that lost every one of  *)
(* its pings.  (Then it stays unregistered: nobody registers it again.)    *)
(***************************************************************************)
ServingIsRegistered ==
  \A e \in Entries : Answers(e) => e \in registry \cup excused

(***************************************************************************)
(* An entry that its address does not answer for does not stay: what a     *)
(* crashed server, a failed start or a failed Unregister has left behind,  *)
(* what a new server at the same address does not offer, and any server    *)
(* without the health handler is unregistered in the end.                  *)
(***************************************************************************)
StaleEntriesLeave ==
  \A e \in Entries : e \in registry ~> (Answers(e) \/ e \notin registry)
=============================================================================
