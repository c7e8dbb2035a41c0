------------------------------ MODULE Resolvers ------------------------------
(***************************************************************************)
(* The gRPC resolvers of one service: Builder.Build, Resolver.ResolveNow   *)
(* and Close, and the callback the builder has given to the discovery,     *)
(* which hands every change to all resolvers of the service.               *)
(*                                                                         *)
(* The discovery is the etcd one, reduced to what WatchCache shows of it:  *)
(* one watcher, whose stream begins with what comes after it was opened    *)
(* and may be closed, takes the changes in their order, stores each in the *)
(* cache and then calls back; Discover returns what is cached, or fetches  *)
(* and caches the newest record.  A connection's state is the version of   *)
(* the record whose addresses it was given last; that of a removed record  *)
(* has none.                                                               *)
(*                                                                         *)
(* builder.mu is read-locked by the callback from its first line to its    *)
(* last.  (Build and Close hold it for an instant.)                        *)
(***************************************************************************)
EXTENDS ResolverConns

VARIABLES
  log,        \* the changes of the service
  cached,     \* the version in the cache, 0 if none
  from, pos,  \* the change its stream begins after, and the one it is at
  wpc, todo,  \* where the watcher stands, and whom it has still to tell
  resolvers,  \* srvNameToResolversMap of the service
  pc, got,    \* where the Build of each connection stands, and its srv
  asked,      \* what its ResolveNow has found and not pushed yet, or 0
  state,      \* the version last passed to UpdateState
  overtaken   \* history: the connections that an older record was given to

cache   == <<log, cached>>
watcher == <<from, pos, wpc, todo>>
builds  == <<pc, got>>
vars    == <<cache, watcher, resolvers, builds, asked, state, overtaken>>

\* "junk": what is put does not decode.
Changes == {"put", "delete", "junk"}
Version == 0 .. MaxWrites

(***************************************************************************)
(* The discovery has loaded all services and found this one, or none, as   *)
(* it was registered just after; or a first Discover of it is under way.   *)
(* The watcher that it has started is still to open the stream.            *)
(***************************************************************************)
Init ==
  /\ log = <<"put">>
  /\ cached \in {0, 1}
  /\ from = 0
  /\ pos = 0
  /\ wpc = "opening"
  /\ todo = {}
  /\ resolvers = {}
  /\ pc = [c \in ClientConns |-> "idle"]
  /\ got = [c \in ClientConns |-> 0]
  /\ asked = [c \in ClientConns |-> 0]
  /\ state = [c \in ClientConns |-> 0]
  /\ overtaken = {}

Now == Len(log)

\* The service changes; what is not registered cannot be removed.
Write(k) ==
  /\ Now < MaxWrites
  /\ k = "delete" => log[Now] # "delete"
  /\ log' = Append(log, k)
  /\ UNCHANGED <<cached, watcher, resolvers, builds, asked, state, overtaken>>

(***************************************************************************)
(* discover.Discover: the version found, or 0 for an error.                *)
(***************************************************************************)
Found ==
  CASE cached # 0                     -> cached
    [] cached = 0 /\ log[Now] = "put" -> Now
    [] OTHER                          -> 0

Discover == cached' = Found
-----------------------------------------------------------------------------
(***************************************************************************)
(* The watcher and its callback.                                           *)
(***************************************************************************)
Goto(c, step) == pc' = [pc EXCEPT ![c] = step]

\* etcd.Watch without a revision: the stream begins with the next change.
Open ==
  /\ wpc = "opening"
  /\ wpc' = "wait"
  /\ from' = Now
  /\ pos' = Now
  /\ UNCHANGED <<cache, todo, resolvers, builds, asked, state, overtaken>>

\* The stream is closed: the loop spins on it and hears of nothing more.
Closes ==
  /\ wpc = "wait"
  /\ wpc' = "spin"
  /\ UNCHANGED <<cache, from, pos, todo, resolvers, builds, asked, state, overtaken>>

\* The next change, which is passed over if the cache is ahead of it.
Apply ==
  /\ wpc = "wait"
  /\ pos < Now
  /\ pos' = pos + 1
  /\ IF cached > pos + 1
     THEN UNCHANGED <<cached, wpc>>
     ELSE /\ cached' = IF log[pos + 1] = "put" THEN pos + 1 ELSE 0
          /\ wpc' = "notify"
  /\ UNCHANGED <<log, from, todo, resolvers, builds, asked, state, overtaken>>

(***************************************************************************)
(* The callback takes builder.mu: it will tell who is in the list now, and *)
(* not who is about to be.  Of what did not decode it is passed what the   *)
(* decoder made of it, which may have no name: then it tells nobody.       *)
(***************************************************************************)
Notify ==
  /\ wpc = "notify"
  /\ wpc' = "walk"
  /\ \/ todo' = resolvers
     \/ log[pos] = "junk" /\ todo' = {}
  /\ overtaken' = overtaken
       \cup {c \in ClientConns : pc[c] \in {"push", "append"} /\ got[c] < pos}
  /\ UNCHANGED <<cache, from, pos, resolvers, builds, asked, state>>

\* Seeded fault: the walk ends with the first resolver.
TellOne(c) ==
  /\ wpc = "walk"
  /\ c \in todo
  /\ todo' = {}
  /\ state' = [state EXCEPT ![c] = pos]
  /\ overtaken' = overtaken \ {c}
  /\ UNCHANGED <<cache, from, pos, wpc, resolvers, builds, asked>>

Tell(c) ==
  /\ wpc = "walk"
  /\ c \in todo
  /\ todo' = todo \ {c}
  /\ state' = [state EXCEPT ![c] = pos]
  /\ overtaken' = overtaken \ {c}
  /\ UNCHANGED <<cache, from, pos, wpc, resolvers, builds, asked>>

Told ==
  /\ wpc = "walk"
  /\ todo = {}
  /\ wpc' = "wait"
  /\ UNCHANGED <<cache, from, pos, todo, resolvers, builds, asked, state, overtaken>>
-----------------------------------------------------------------------------
(***************************************************************************)
(* Build: Discover, push, and only then enter the list.                    *)
(***************************************************************************)
Build(c) ==
  /\ pc[c] = "idle"
  /\ Discover
  /\ got' = [got EXCEPT ![c] = Found]
  /\ Goto(c, IF Found # 0 THEN "push" ELSE "failed")
  /\ UNCHANGED <<log, watcher, resolvers, asked, state, overtaken>>

BuildFails(c) ==
  /\ pc[c] = "idle"
  /\ Goto(c, "failed")
  /\ UNCHANGED <<cache, watcher, resolvers, got, asked, state, overtaken>>

BuildPush(c) ==
  /\ pc[c] = "push"
  /\ state' = [state EXCEPT ![c] = got[c]]
  /\ Goto(c, "append")
  /\ UNCHANGED <<cache, watcher, resolvers, got, asked, overtaken>>

BuildAppend(c) ==
  /\ pc[c] = "append"
  /\ wpc # "walk"
  /\ resolvers' = resolvers \cup {c}
  /\ Goto(c, "open")
  /\ UNCHANGED <<cache, watcher, got, asked, state, overtaken>>

(***************************************************************************)
(* ResolveNow: Discover, then push.  It returns early on an error.  gRPC   *)
(* calls it of an open connection; Close does not wait for it.             *)
(***************************************************************************)
ResolveNow(c) ==
  /\ pc[c] = "open"
  /\ asked[c] = 0
  /\ Discover
  /\ asked' = [asked EXCEPT ![c] = Found]
  /\ UNCHANGED <<log, watcher, resolvers, builds, state, overtaken>>

ResolvePush(c) ==
  /\ asked[c] # 0
  /\ state' = [state EXCEPT ![c] = asked[c]]
  /\ asked' = [asked EXCEPT ![c] = 0]
  /\ overtaken' = CASE asked[c] < state[c] -> overtaken \cup {c}
                    [] asked[c] >= pos     -> overtaken \ {c}
                    [] OTHER               -> overtaken
  /\ UNCHANGED <<cache, watcher, resolvers, builds>>

\* Seeded fault: the list is changed without builder.mu.
CloseUnlocked(c) ==
  /\ pc[c] = "open"
  /\ resolvers' = resolvers \ {c}
  /\ Goto(c, "closed")
  /\ UNCHANGED <<cache, watcher, got, asked, state, overtaken>>

Close(c) ==
  /\ pc[c] = "open"
  /\ wpc # "walk"
  /\ resolvers' = resolvers \ {c}
  /\ Goto(c, "closed")
  /\ UNCHANGED <<cache, watcher, got, asked, state, overtaken>>
-----------------------------------------------------------------------------
WatchStep    == Open \/ Apply \/ Notify \/ (\E c \in ClientConns : Tell(c)) \/ Told
BuildStep(c) == BuildPush(c) \/ BuildAppend(c)

Next ==
  \/ \E k \in Changes : Write(k)
  \/ WatchStep \/ Closes
  \/ \E c \in ClientConns :
       \/ Build(c) \/ BuildFails(c) \/ BuildStep(c)
       \/ ResolveNow(c) \/ ResolvePush(c) \/ Close(c)

Spec == Init /\ [][Next]_vars

(***************************************************************************)
(* The watcher runs, and a Build that has found its service goes on; of    *)
(* changes, calls, ResolveNow's push and the stream's end nothing is       *)
(* promised.                                                               *)
(***************************************************************************)
Fairness ==
  /\ WF_vars(WatchStep)
  /\ \A c \in ClientConns : WF_vars(BuildStep(c))

FairSpec == Spec /\ Fairness
-----------------------------------------------------------------------------
(***************************************************************************)
(* Types; the list has the resolvers that are open, and the callback tells *)
(* no others.                                                              *)
(***************************************************************************)
TypeOK ==
  /\ log \in Seq(Changes) /\ Now \in 1 .. MaxWrites
  /\ cached \in 0 .. Now
  /\ from \in 0 .. Now /\ pos \in from .. Now
  /\ wpc \in {"opening", "wait", "notify", "walk", "spin"}
  /\ pc \in [ClientConns -> {"idle", "push", "append", "open", "closed", "failed"}]
  /\ resolvers = {c \in ClientConns : pc[c] = "open"}
  /\ todo \subseteq resolvers
  /\ wpc # "walk" => todo = {}
  /\ got \in [ClientConns -> Version]
  /\ asked \in [ClientConns -> Version]
  /\ state \in [ClientConns -> Version]
  /\ overtaken \subseteq ClientConns

(***************************************************************************)
(* When the watcher is through with the last change, an open connection    *)
(* has the newest addresses, whatever was built, closed and resolved in    *)
(* the meantime, unless an older record overtook it: its Build had found   *)
(* that before the change and entered the list after the callback, or its  *)
(* ResolveNow had, and pushed it after the callback.  (Then it keeps the   *)
(* old addresses until the next change.)  It says nothing of what the      *)
(* stream does not bring, a change before it was opened or after it was    *)
(* closed, which the code never hears of, nor of a last change that does   *)
(* not decode, which it may not pass on.                                   *)
(***************************************************************************)
Streamed == wpc \notin {"opening", "spin"} /\ from < Now /\ log[Now] # "junk"

NewestIsShown ==
  \A c \in ClientConns \ overtaken :
    /\ Streamed /\ wpc = "wait" /\ pos = Now
    /\ pc[c] = "open" /\ asked[c] = 0
    => state[c] = Now

(***************************************************************************)
(* Once OnResolverClosed has returned, the callback does not touch the     *)
(* connection any more; only a ResolveNow under way still may.             *)
(***************************************************************************)
ClosedIsLeftAlone ==
  [][\A c \in ClientConns : pc[c] = "closed" /\ asked[c] = 0 => state'[c] = state[c]]_vars

(***************************************************************************)
(* A connection that is being built is opened, and then comes to show the  *)
(* newest record again after every change that the stream is to bring,     *)
(* unless an older one overtakes it, the stream is closed first, or the    *)
(* newest does not decode.                                                 *)
(***************************************************************************)
ChangesAreShown ==
  \A c \in ClientConns :
    pc[c] \in {"push", "append", "open"} /\ Streamed
      ~> state[c] = Now \/ ~Streamed \/ pc[c] = "closed" \/ c \in overtaken
=============================================================================
