------------------------------- MODULE Startup -------------------------------
(***************************************************************************)
(* What a process has one of, and how it comes by it: the configuration    *)
(* (env.InitMeta), the discovery (factory.GetOrMakeDiscovery), its         *)
(* callback and the resolver gRPC uses (NewBuilder, resolver.Register).    *)
(* InitSuitWithGrpc makes all of them; ServeGrpc and the discovery proxy   *)
(* ask for the discovery alone, and without InitMeta.                      *)
(*                                                                         *)
(* A lock held from one line to the next within a step is not modelled.    *)
(* A discovery and a callback are named by the call they come from.        *)
(***************************************************************************)
EXTENDS StartupCalls

VARIABLES
  meta,        \* nothing, an empty Meta, or a loaded one
  metaMu,      \* who has initMetaMu for writing
  unread,      \* history: a configuration file could not be loaded
  discover,    \* the process's discovery
  discoverMu,  \* who has initDiscoveryMu for writing
  pc,          \* where each call stands
  got,         \* the discovery each has been given
  hook,        \* the callback of the discovery: that of the builder of a call
  registered,  \* the builder gRPC has
  strayed      \* history: builders overlapped, or one failed with its callback set

metaVars     == <<meta, metaMu, unread>>
discoverVars == <<discover, discoverMu, got>>
builderVars  == <<hook, registered, strayed>>
vars         == <<metaVars, discoverVars, builderVars, pc>>

Init ==
  /\ meta = "nil"
  /\ metaMu = NoCall
  /\ unread = FALSE
  /\ discover = NoCall
  /\ discoverMu = NoCall
  /\ pc = [c \in Calls |-> "idle"]
  /\ got = [c \in Calls |-> NoCall]
  /\ hook = NoCall
  /\ registered = NoCall
  /\ strayed = FALSE

Goto(c, step) == pc' = [pc EXCEPT ![c] = step]

\* A panic ends the process.
Alive == \A c \in Calls : pc[c] # "panicked"

Call(c) ==
  /\ pc[c] = "idle"
  /\ Goto(c, IF c \in Inits THEN "meta" ELSE "get")
  /\ UNCHANGED <<metaVars, discoverVars, builderVars>>
-----------------------------------------------------------------------------
(***************************************************************************)
(* InitMeta: is there a Meta, without and with the lock; then a new one is *)
(* made, and only then loaded.                                             *)
(***************************************************************************)
\* Seeded fault: the first look does without the lock.
MetaCheckUnlocked(c) ==
  /\ pc[c] = "meta"
  /\ Goto(c, IF meta # "nil" THEN "get" ELSE "lock meta")
  /\ UNCHANGED <<metaVars, discoverVars, builderVars>>

MetaCheck(c) ==
  /\ pc[c] = "meta"
  /\ metaMu = NoCall
  /\ Goto(c, IF meta # "nil" THEN "get" ELSE "lock meta")
  /\ UNCHANGED <<metaVars, discoverVars, builderVars>>

MetaLock(c) ==
  /\ pc[c] = "lock meta"
  /\ metaMu = NoCall
  /\ IF meta # "nil"
     THEN Goto(c, "get") /\ UNCHANGED metaVars
     ELSE /\ metaMu' = c
          /\ meta' = "empty"
          /\ Goto(c, "load meta")
          /\ UNCHANGED unread
  /\ UNCHANGED <<discoverVars, builderVars>>

MetaLoad(c) ==
  /\ pc[c] = "load meta"
  /\ meta' = "loaded"
  /\ metaMu' = NoCall
  /\ Goto(c, "get")
  /\ UNCHANGED <<unread, discoverVars, builderVars>>

\* The empty Meta stays, and nobody loads it any more.
MetaLoadFails(c) ==
  /\ pc[c] = "load meta"
  /\ unread' = TRUE
  /\ metaMu' = NoCall
  /\ Goto(c, "failed")
  /\ UNCHANGED <<meta, discoverVars, builderVars>>
-----------------------------------------------------------------------------
(***************************************************************************)
(* GetOrMakeDiscovery, of whatever key prefix.                             *)
(***************************************************************************)
Given(c) ==
  /\ got' = [got EXCEPT ![c] = discover']
  /\ Goto(c, IF c \in Inits THEN "hook" ELSE "ok")

Get(c) ==
  /\ pc[c] = "get"
  /\ discoverMu = NoCall
  /\ UNCHANGED discover
  /\ IF discover # NoCall THEN Given(c) ELSE Goto(c, "lock") /\ UNCHANGED got
  /\ UNCHANGED <<discoverMu, metaVars, builderVars>>

\* Seeded fault: with the lock, no second look is taken.
GetLockUnchecked(c) ==
  /\ pc[c] = "lock"
  /\ discoverMu = NoCall
  /\ Goto(c, "make")
  /\ discoverMu' = c
  /\ UNCHANGED <<discover, got, metaVars, builderVars>>

GetLock(c) ==
  /\ pc[c] = "lock"
  /\ discoverMu = NoCall
  /\ UNCHANGED discover
  /\ IF discover # NoCall
     THEN Given(c) /\ UNCHANGED discoverMu
     ELSE Goto(c, "make") /\ discoverMu' = c /\ UNCHANGED got
  /\ UNCHANGED <<metaVars, builderVars>>

\* MustMeta, with no lock on it; NewSpecDiscovery knows how to make what the
\* configuration names, or CustomMakeDiscoveryFunc does, of an empty one too.
Make(c) ==
  /\ pc[c] = "make"
  /\ meta # "nil"
  /\ discover' = c
  /\ discoverMu' = NoCall
  /\ Given(c)
  /\ UNCHANGED <<metaVars, builderVars>>

\* Seeded fault: the lock is kept.
MakeFailsLocked(c) ==
  /\ pc[c] = "make"
  /\ meta # "nil"
  /\ Goto(c, "failed")
  /\ UNCHANGED <<discover, discoverMu, got, metaVars, builderVars>>

\* Neither knows, or etcd's client fails.
MakeFails(c) ==
  /\ pc[c] = "make"
  /\ meta # "nil"
  /\ discoverMu' = NoCall
  /\ Goto(c, "failed")
  /\ UNCHANGED <<discover, got, metaVars, builderVars>>

MakePanics(c) ==
  /\ pc[c] = "make"
  /\ meta = "nil"
  /\ discoverMu' = NoCall
  /\ Goto(c, "panicked")
  /\ UNCHANGED <<discover, got, metaVars, builderVars>>
-----------------------------------------------------------------------------
(***************************************************************************)
(* The rest of NewBuilder, and resolver.Register.                          *)
(***************************************************************************)
Hooked(c) == pc[c] \in {"load", "register"}

\* Seeded fault: a callback that is there is kept.
SetHookOnce(c) ==
  /\ pc[c] = "hook"
  /\ hook' = IF hook = NoCall THEN c ELSE hook
  /\ strayed' = (strayed \/ \E d \in Inits : Hooked(d))
  /\ Goto(c, "load")
  /\ UNCHANGED <<registered, metaVars, discoverVars>>

\* OnSrvUpdated: over the callback of any builder before it.
SetHook(c) ==
  /\ pc[c] = "hook"
  /\ hook' = c
  /\ strayed' = (strayed \/ \E d \in Inits : Hooked(d))
  /\ Goto(c, "load")
  /\ UNCHANGED <<registered, metaVars, discoverVars>>

LoadAll(c) ==
  /\ pc[c] = "load"
  /\ Goto(c, "register")
  /\ UNCHANGED <<metaVars, discoverVars, builderVars>>

LoadAllFails(c) ==
  /\ pc[c] = "load"
  /\ strayed' = TRUE
  /\ Goto(c, "failed")
  /\ UNCHANGED <<hook, registered, metaVars, discoverVars>>

Register(c) ==
  /\ pc[c] = "register"
  /\ registered' = c
  /\ Goto(c, "ok")
  /\ UNCHANGED <<hook, strayed, metaVars, discoverVars>>
-----------------------------------------------------------------------------
CallStep(c) ==
  \/ Call(c)
  \/ MetaCheck(c) \/ MetaLock(c) \/ MetaLoad(c) \/ MetaLoadFails(c)
  \/ Get(c) \/ GetLock(c) \/ Make(c) \/ MakeFails(c) \/ MakePanics(c)
  \/ SetHook(c) \/ LoadAll(c) \/ LoadAllFails(c) \/ Register(c)

Next == Alive /\ \E c \in Calls : CallStep(c)

Spec == Init /\ [][Next]_vars
-----------------------------------------------------------------------------
MetaSteps  == {"meta", "lock meta", "load meta"}
BuildSteps == {"hook", "load", "register"}

\* Types, and who has the locks.
TypeOK ==
  /\ meta \in {"nil", "empty", "loaded"}
  /\ unread \in BOOLEAN /\ strayed \in BOOLEAN
  /\ {discover, discoverMu, metaMu} \subseteq Calls \cup {NoCall}
  /\ {hook, registered} \subseteq Inits \cup {NoCall}
  /\ pc \in [Calls -> MetaSteps \cup BuildSteps
               \cup {"idle", "get", "lock", "make", "ok", "failed", "panicked"}]
  /\ got \in [Calls -> Calls \cup {NoCall}]
  /\ \A c \in Calls : pc[c] = "load meta" <=> metaMu = c
  /\ \A c \in Calls : pc[c] = "make" <=> discoverMu = c
  /\ \A c \in Users : pc[c] \notin MetaSteps \cup BuildSteps

(***************************************************************************)
(* An InitMeta that has returned nil has a loaded configuration behind it, *)
(* however many call it at a time, unless one of them had failed: then all *)
(* later ones return nil with an empty configuration.                      *)
(***************************************************************************)
LoadedUnlessFailed ==
  \A c \in Inits : pc[c] \notin MetaSteps \cup {"idle", "failed"} => meta = "loaded" \/ unread

(***************************************************************************)
(* All who have been given a discovery have the same, the first that could *)
(* be made.                                                                *)
(***************************************************************************)
OneDiscovery == \A c \in Calls : got[c] \in {NoCall, discover}

(***************************************************************************)
(* The builder that gRPC has is the one the discovery calls back, unless   *)
(* two were made at a time, or one failed after it had set its callback:   *)
(* then the connections of the registered one are not told of changes.     *)
(***************************************************************************)
RegisteredIsTold ==
  strayed \/ (\E c \in Inits : Hooked(c)) \/ hook = registered
=============================================================================
