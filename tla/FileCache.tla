------------------------------ MODULE FileCache ------------------------------
(***************************************************************************)
(* filecachedproxy.Discovery in one process: services are read from the    *)
(* files the proxy keeps, cached in srvMap, and kept fresh by one          *)
(* goroutine per service that watches its file (watchOne).  Where there is *)
(* no file, the remote discovery is asked and nothing is cached.           *)
(*                                                                         *)
(* The file of a service is an inode and what is in it: one version of the *)
(* record, or what a write under way has put there so far.  A watch        *)
(* belongs to the inode, not to the name.                                  *)
(*                                                                         *)
(* d.mu is held by LoadAll (to write) and by Unwatch (to read) from end to *)
(* end, and for an instant by the others.  While it is read-locked, one of *)
(* those that want it to write waits for the readers to leave, and whoever *)
(* wants to read after that waits behind it.  oneSrvMu is held by Discover *)
(* and by the watcher while they read the file and store what they read.   *)
(*                                                                         *)
(* LoadAll takes a file's name up to its first dot for the service's, so   *)
(* that it confuses services whose names have a dot.  A call starts at     *)
(* most one watcher for a service, or for a file: it is named after both.  *)
(***************************************************************************)
EXTENDS Integers, FiniteSets

CONSTANTS
  Srvs,        \* service names, and what comes before the first dot in them
  Cut,         \* that, for each of them
  Lookups,     \* the executions of Discover
  Loads,       \* the executions of LoadAll
  Unwatches,   \* the executions of Unwatch
  None,        \* no lock holder, no service
  MaxWrites,   \* bound on the writes of a file, for model checking
  MaxInode,    \* bound on how often it is created
  Once         \* the services whose file is written once, for model checking

Calls    == Lookups \cup Loads \cup Unwatches
Watchers == (Lookups \cup Loads) \X Srvs
Srv(w)   == IF w[1] \in Loads THEN Cut[w[2]] ELSE w[2]

ASSUME CallsAssumption ==
  /\ Lookups \cap Loads = {}
  /\ (Lookups \cup Loads) \cap Unwatches = {}
  /\ None \notin Calls \cup Srvs \cup Watchers
  /\ Calls \cap Watchers = {}
ASSUME CutAssumption == Cut \in [Srvs -> Srvs] /\ \A s \in Srvs : Cut[Cut[s]] = Cut[s]
ASSUME BoundsAssumption == MaxWrites \in Nat /\ MaxInode \in Nat /\ Once \subseteq Srvs

VARIABLES
  file,      \* the file of each service
  alive,     \* FALSE once the Go runtime has aborted the process
  srvMap,    \* the version cached of each service, 0 if none
  watched,   \* watchedServices
  unwatchCh, \* unwatchSrvChMap: the watcher behind the channel of a service
  oneSrvMu,  \* who holds the lock of each service
  queued,    \* who waits for the readers of d.mu to leave
  pc, target, got, todo,      \* where each call stands, and its locals
  wpc, ev, read,              \* the watchers, and their locals
  inode, changed, deleted,    \* the inode each watches, and its unread events
  told,      \* the version last passed to the callback of OnSrvUpdated
  overtaken  \* history: the services whose cached version LoadAll has stored
             \* although the file had changed since it read it

locks    == <<oneSrvMu, queued>>
calls    == <<pc, target, got, todo>>
steps    == <<wpc, ev, read>>
events   == <<inode, changed, deleted>>
history  == <<told, overtaken>>
vars     == <<file, alive, srvMap, watched, unwatchCh, locks, calls, steps,
              events, history>>

CallSteps  == {"idle", "call", "mu", "lock", "read", "store", "remote", "hook",
               "pick", "send", "done", "failed"}
WatchSteps == {"none", "start", "claim", "attach", "select", "mu", "lock",
               "store", "hook", "out", "done"}
Contents   == {"absent", "empty", "torn", "whole"}

Init ==
  /\ file = [s \in Srvs |-> [inode |-> 0, is |-> "absent", version |-> 0]]
  /\ alive = TRUE
  /\ srvMap = [s \in Srvs |-> 0]
  /\ watched = {}
  /\ unwatchCh = [s \in Srvs |-> None]
  /\ oneSrvMu = [s \in Srvs |-> None]
  /\ queued = None
  /\ pc = [c \in Calls |-> "idle"]
  /\ target = [c \in Calls |-> None]
  /\ got = [c \in Calls |-> 0]
  /\ todo = [c \in Calls |-> {}]
  /\ wpc = [w \in Watchers |-> "none"]
  /\ ev = [w \in Watchers |-> "first"]
  /\ read = [w \in Watchers |-> 0]
  /\ inode = [w \in Watchers |-> 0]
  /\ changed = [w \in Watchers |-> FALSE]
  /\ deleted = [w \in Watchers |-> FALSE]
  /\ told = [s \in Srvs |-> 0]
  /\ overtaken = {}
-----------------------------------------------------------------------------
(***************************************************************************)
(* The files, and the watches on them.                                     *)
(***************************************************************************)
Exists(s) == file[s].is # "absent"

\* What getSrvFromLocalFile returns; 0 for an error.
Version(s) == IF file[s].is = "whole" THEN file[s].version ELSE 0

Watching(w, s) == Srv(w) = s /\ Exists(s) /\ inode[w] = file[s].inode

Modified(s) == changed' = [w \in Watchers |-> changed[w] \/ Watching(w, s)]

Put(s, f) == file' = [file EXCEPT ![s] = f]

(***************************************************************************)
(* The proxy rewrites a file in place: it is created or truncated, and     *)
(* then filled, and a reader may come across any state of it.              *)
(***************************************************************************)
Truncate(s) ==
  /\ file[s].version < MaxWrites
  /\ s \in Once => file[s].version = 0
  /\ ~Exists(s) => file[s].inode < MaxInode
  /\ Put(s, [inode   |-> IF Exists(s) THEN file[s].inode ELSE file[s].inode + 1,
             is      |-> "empty",
             version |-> file[s].version + 1])
  /\ Modified(s)
  /\ UNCHANGED <<alive, srvMap, watched, unwatchCh, locks, calls, steps, inode,
                 deleted, history>>

Write(s) ==
  /\ file[s].is \in {"empty", "torn"}
  /\ \E is \in {"torn", "whole"} \ {file[s].is} : Put(s, [file[s] EXCEPT !.is = is])
  /\ Modified(s)
  /\ UNCHANGED <<alive, srvMap, watched, unwatchCh, locks, calls, steps, inode,
                 deleted, history>>

\* The service is gone: the proxy removes its file, and with it every watch.
Delete(s) ==
  /\ file[s].is = "whole"
  /\ Put(s, [file[s] EXCEPT !.is = "absent"])
  /\ deleted' = [w \in Watchers |-> deleted[w] \/ Watching(w, s)]
  /\ UNCHANGED <<alive, srvMap, watched, unwatchCh, locks, calls, steps, inode,
                 changed, history>>
-----------------------------------------------------------------------------
(***************************************************************************)
(* d.mu.  LoadAll holds it to write, Unwatch to read; the others take it   *)
(* for an instant, most of them to write.  It is a sync.RWMutex: while it  *)
(* is read-locked, the first that calls Lock waits for the readers, and    *)
(* neither another Lock nor another RLock is granted before that one.      *)
(***************************************************************************)
Written    == \E c \in Loads : pc[c] \in {"read", "store"}
Reading    == \E u \in Unwatches : pc[u] \in {"pick", "send"}
WantsMu(h) == IF h \in Watchers THEN wpc[h] \in {"start", "mu", "out"}
              ELSE pc[h] = IF h \in Loads THEN "call" ELSE "mu"

MuReadable  == ~Written /\ queued = None
MuLocked(h) == ~Written /\ ~Reading /\ queued \in {None, h} /\ queued' = None

Queue(h) ==
  /\ WantsMu(h)
  /\ Reading
  /\ queued = None
  /\ queued' = h
  /\ UNCHANGED <<file, alive, srvMap, watched, unwatchCh, oneSrvMu, calls, steps,
                 events, history>>

Goto(c, step)  == pc' = [pc EXCEPT ![c] = step]
WGoto(w, step) == wpc' = [wpc EXCEPT ![w] = step]

Store(s, v)  == srvMap' = [srvMap EXCEPT ![s] = v]
Lock(s, h)   == oneSrvMu[s] = None /\ oneSrvMu' = [oneSrvMu EXCEPT ![s] = h]
Unlock(s)    == oneSrvMu' = [oneSrvMu EXCEPT ![s] = None]

\* go d.watchOne(s), if s is not watched yet; a LoadAll does so for a file f.
SpawnWatch(c, s, f) ==
  IF s \in watched THEN UNCHANGED wpc ELSE WGoto(<<c, f>>, "start")
-----------------------------------------------------------------------------
\* Discover(s), LoadAll or Unwatch is called.
Call(c, s) ==
  /\ pc[c] = "idle"
  /\ target' = [target EXCEPT ![c] = IF c \in Lookups THEN s ELSE None]
  /\ Goto(c, "call")
  /\ UNCHANGED <<file, alive, srvMap, watched, unwatchCh, locks, got, todo, steps,
                 events, history>>

\* Discover: the fast path.
Lookup(c) ==
  /\ c \in Lookups
  /\ pc[c] = "call"
  /\ MuReadable
  /\ got' = [got EXCEPT ![c] = srvMap[target[c]]]
  /\ Goto(c, IF srvMap[target[c]] # 0 THEN "done" ELSE "mu")
  /\ UNCHANGED <<file, alive, srvMap, watched, unwatchCh, locks, target, todo, steps,
                 events, history>>

\* The service's lock is looked up under d.mu.
LookupMu(c) ==
  /\ pc[c] = "mu"
  /\ MuLocked(c)
  /\ Goto(c, "lock")
  /\ UNCHANGED <<file, alive, srvMap, watched, unwatchCh, oneSrvMu, target, got,
                 todo, steps, events, history>>

\* With the lock: a hit after all, or see to a watcher and go for the file.
LookupLocked(c) ==
  LET s == target[c] IN
  /\ pc[c] = "lock"
  /\ \/ /\ srvMap[s] # 0
        /\ oneSrvMu[s] = None
        /\ got' = [got EXCEPT ![c] = srvMap[s]]
        /\ Goto(c, "done")
        /\ UNCHANGED <<oneSrvMu, wpc>>
     \/ /\ srvMap[s] = 0
        /\ Lock(s, c)
        /\ SpawnWatch(c, s, s)
        /\ Goto(c, "read")
        /\ UNCHANGED got
  /\ UNCHANGED <<file, alive, srvMap, watched, unwatchCh, queued, target, todo, ev, read,
                 events, history>>

\* The file is read: without a file, or with an empty one, the remote
\* discovery is asked; a torn one is an error.
LookupRead(c) ==
  LET s == target[c] IN
  /\ c \in Lookups
  /\ pc[c] = "read"
  /\ got' = [got EXCEPT ![c] = Version(s)]
  /\ CASE file[s].is = "whole" -> Goto(c, "store") /\ UNCHANGED oneSrvMu
       [] file[s].is = "torn"  -> Goto(c, "failed") /\ Unlock(s)
       [] OTHER                -> Goto(c, "remote") /\ UNCHANGED oneSrvMu
  /\ UNCHANGED <<file, alive, srvMap, watched, unwatchCh, queued, target, todo, steps,
                 events, history>>

LookupStore(c) ==
  /\ c \in Lookups
  /\ pc[c] = "store"
  /\ Store(target[c], got[c])
  /\ Goto(c, "hook")
  /\ UNCHANGED <<file, alive, watched, unwatchCh, locks, target, got, todo, steps,
                 events, history>>

\* conn.Discover: the registry is where the file is, or one version ahead of
\* it.  What it returns is not cached.
Remote(c) ==
  /\ pc[c] = "remote"
  /\ \E v \in {file[target[c]].version, file[target[c]].version + 1} \ {0} :
       got' = [got EXCEPT ![c] = v]
  /\ Goto(c, "hook")
  /\ UNCHANGED <<file, alive, srvMap, watched, unwatchCh, locks, target, todo,
                 steps, events, history>>

\* Seeded fault: the lock is kept.
RemoteFailsLocked(c) ==
  /\ pc[c] = "remote"
  /\ Goto(c, "failed")
  /\ UNCHANGED <<file, alive, srvMap, watched, unwatchCh, locks, target, got,
                 todo, steps, events, history>>

RemoteFails(c) ==
  /\ pc[c] = "remote"
  /\ Goto(c, "failed")
  /\ Unlock(target[c])
  /\ UNCHANGED <<file, alive, srvMap, watched, unwatchCh, queued, target, got, todo, steps,
                 events, history>>

\* The callback, before the deferred unlock.
LookupHook(c) ==
  /\ pc[c] = "hook"
  /\ told' = [told EXCEPT ![target[c]] = got[c]]
  /\ Unlock(target[c])
  /\ Goto(c, "done")
  /\ UNCHANGED <<file, alive, srvMap, watched, unwatchCh, queued, target, got, todo, steps,
                 events, overtaken>>
-----------------------------------------------------------------------------
\* LoadAll takes d.mu and lists the directory.
LoadBegin(c) ==
  /\ c \in Loads
  /\ pc[c] = "call"
  /\ MuLocked(c)
  /\ todo' = [todo EXCEPT ![c] = {s \in Srvs : Exists(s)}]
  /\ Goto(c, "read")
  /\ UNCHANGED <<file, alive, srvMap, watched, unwatchCh, oneSrvMu, target, got,
                 steps, events, history>>

\* The next file f: what is read is the file of the service whose name is f's
\* up to the first dot.  The first that cannot be read ends the call.
LoadRead(c, f) ==
  LET s == Cut[f] IN
  /\ c \in Loads
  /\ pc[c] = "read"
  /\ f \in todo[c]
  /\ todo' = [todo EXCEPT ![c] = @ \ {f}]
  /\ target' = [target EXCEPT ![c] = s]
  /\ got' = [got EXCEPT ![c] = Version(s)]
  /\ IF Version(s) # 0
     THEN Goto(c, "store") /\ SpawnWatch(c, s, f)
     ELSE Goto(c, "failed") /\ UNCHANGED wpc
  /\ UNCHANGED <<file, alive, srvMap, watched, unwatchCh, locks, ev, read,
                 events, history>>

\* Without the service's lock.
LoadStore(c) ==
  LET s == target[c] IN
  /\ c \in Loads
  /\ pc[c] = "store"
  /\ Store(s, got[c])
  /\ overtaken' = IF got[c] = Version(s) THEN overtaken \ {s} ELSE overtaken \cup {s}
  /\ Goto(c, "read")
  /\ UNCHANGED <<file, alive, watched, unwatchCh, locks, target, got, todo, steps,
                 events, told>>

LoadEnd(c) ==
  /\ c \in Loads
  /\ pc[c] = "read"
  /\ todo[c] = {}
  /\ Goto(c, "done")
  /\ UNCHANGED <<file, alive, srvMap, watched, unwatchCh, locks, target, got,
                 todo, steps, events, history>>
-----------------------------------------------------------------------------
(***************************************************************************)
(* watchOne.  Wherever it takes d.mu for an instant:                       *)
(***************************************************************************)
WatchMu(w) ==
  /\ MuLocked(w)
  /\ \/ wpc[w] = "start" /\ WGoto(w, "claim")
     \/ wpc[w] = "mu"    /\ WGoto(w, "lock")
     \/ wpc[w] = "out"   /\ WGoto(w, "done")
  /\ UNCHANGED <<file, alive, srvMap, watched, unwatchCh, oneSrvMu, calls, ev,
                 read, events, history>>

\* Seeded fault: the service is not claimed under its lock.
ClaimUnchecked(w) ==
  /\ wpc[w] = "claim"
  /\ oneSrvMu[Srv(w)] = None
  /\ watched' = watched \cup {Srv(w)}
  /\ WGoto(w, "attach")
  /\ UNCHANGED <<file, alive, srvMap, unwatchCh, locks, calls, ev, read,
                 events, history>>

\* Under the service's lock (the look with the read lock before that decides
\* nothing that this one does not): one watcher per service goes on.
Claim(w) ==
  /\ wpc[w] = "claim"
  /\ oneSrvMu[Srv(w)] = None
  /\ watched' = watched \cup {Srv(w)}
  /\ WGoto(w, IF Srv(w) \in watched THEN "done" ELSE "attach")
  /\ UNCHANGED <<file, alive, srvMap, unwatchCh, locks, calls, ev, read,
                 events, history>>

\* Seeded fault: the watch is waited on before the file is read.
AttachBlind(w) ==
  /\ wpc[w] = "attach"
  /\ Exists(Srv(w))
  /\ inode' = [inode EXCEPT ![w] = file[Srv(w)].inode]
  /\ unwatchCh' = [unwatchCh EXCEPT ![Srv(w)] = w]
  /\ WGoto(w, "select")
  /\ UNCHANGED <<file, alive, srvMap, watched, locks, calls, ev, read,
                 changed, deleted, history>>

\* watcher.Watch, tried until there is a file; then Unwatch can reach it.
Attach(w) ==
  /\ wpc[w] = "attach"
  /\ Exists(Srv(w))
  /\ inode' = [inode EXCEPT ![w] = file[Srv(w)].inode]
  /\ unwatchCh' = [unwatchCh EXCEPT ![Srv(w)] = w]
  /\ WGoto(w, "lock")
  /\ UNCHANGED <<file, alive, srvMap, watched, locks, calls, ev, read,
                 changed, deleted, history>>

\* An event: after the removal of the file there is no other.
Receive(w) ==
  /\ wpc[w] = "select"
  /\ \/ /\ changed[w]
        /\ changed' = [changed EXCEPT ![w] = FALSE]
        /\ ev' = [ev EXCEPT ![w] = "change"]
        /\ UNCHANGED deleted
     \/ /\ ~changed[w] /\ deleted[w]
        /\ deleted' = [deleted EXCEPT ![w] = FALSE]
        /\ ev' = [ev EXCEPT ![w] = "delete"]
        /\ UNCHANGED changed
  /\ WGoto(w, "mu")
  /\ UNCHANGED <<file, alive, srvMap, watched, unwatchCh, locks, calls, read,
                 inode, history>>

\* The file is read, on a change and right after the watch has begun.
WatchRead(w) ==
  /\ wpc[w] = "lock"
  /\ ev[w] # "delete"
  /\ Lock(Srv(w), w)
  /\ read' = [read EXCEPT ![w] = Version(Srv(w))]
  /\ WGoto(w, "store")
  /\ UNCHANGED <<file, alive, srvMap, watched, unwatchCh, queued, calls, ev, events,
                 history>>

\* Seeded fault: a change is stored without telling the callback.
WatchStoreQuietly(w) ==
  /\ wpc[w] = "store"
  /\ Store(Srv(w), read[w])
  /\ Unlock(Srv(w))
  /\ overtaken' = overtaken \ {Srv(w)}
  /\ WGoto(w, "select")
  /\ UNCHANGED <<file, alive, watched, unwatchCh, queued, calls, ev, read, events, told>>

\* What could be read is stored, and the callback told unless it is the first
\* read; what could not is dropped.
WatchStore(w) ==
  /\ wpc[w] = "store"
  /\ Store(Srv(w), read[w])
  /\ Unlock(Srv(w))
  /\ overtaken' = overtaken \ {Srv(w)}
  /\ WGoto(w, IF ev[w] = "change" /\ read[w] # 0 THEN "hook" ELSE "select")
  /\ UNCHANGED <<file, alive, watched, unwatchCh, queued, calls, ev, read, events, told>>

\* The file was deleted: the entry is dropped, whatever it is.
WatchDrop(w) ==
  /\ wpc[w] = "lock"
  /\ ev[w] = "delete"
  /\ oneSrvMu[Srv(w)] = None
  /\ Store(Srv(w), 0)
  /\ overtaken' = overtaken \ {Srv(w)}
  /\ WGoto(w, "hook")
  /\ UNCHANGED <<file, alive, watched, unwatchCh, locks, calls, ev, read,
                 events, told>>

\* The callback; after a delete the file is read all the same.
WatchHook(w) ==
  /\ wpc[w] = "hook"
  /\ told' = [told EXCEPT ![Srv(w)] = IF ev[w] = "delete" THEN 0 ELSE read[w]]
  /\ IF ev[w] = "delete"
     THEN WGoto(w, "mu") /\ ev' = [ev EXCEPT ![w] = "change"]
     ELSE WGoto(w, "select") /\ UNCHANGED ev
  /\ UNCHANGED <<file, alive, srvMap, watched, unwatchCh, locks, calls, read,
                 events, overtaken>>
-----------------------------------------------------------------------------
\* Unwatch read-locks d.mu and goes through the channels there are.
UnwatchBegin(u) ==
  /\ u \in Unwatches
  /\ pc[u] = "call"
  /\ MuReadable
  /\ todo' = [todo EXCEPT ![u] = {s \in Srvs : unwatchCh[s] # None}]
  /\ Goto(u, "pick")
  /\ UNCHANGED <<file, alive, srvMap, watched, unwatchCh, locks, target, got,
                 steps, events, history>>

UnwatchPick(u) ==
  /\ pc[u] = "pick"
  /\ \/ /\ todo[u] = {}
        /\ Goto(u, "done")
        /\ UNCHANGED <<target, todo>>
     \/ \E s \in todo[u] :
          /\ target' = [target EXCEPT ![u] = s]
          /\ todo' = [todo EXCEPT ![u] = @ \ {s}]
          /\ Goto(u, "send")
  /\ UNCHANGED <<file, alive, srvMap, watched, unwatchCh, locks, got, steps,
                 events, history>>

\* The send waits until the watcher is back at its select.  The watcher takes
\* nothing with it: watchedServices and the channel stay as they are.
TakeUnwatch(u, w) ==
  /\ pc[u] = "send"
  /\ unwatchCh[target[u]] = w
  /\ wpc[w] = "select"
  /\ Goto(u, "pick")
  /\ WGoto(w, "out")
  /\ UNCHANGED <<file, alive, srvMap, watched, unwatchCh, locks, target, got,
                 todo, ev, read, events, history>>
-----------------------------------------------------------------------------
(***************************************************************************)
(* srvMap, watchedServices and unwatchSrvChMap are Go maps, and no one     *)
(* lock guards any of them: the runtime may notice, and then aborts.       *)
(***************************************************************************)
Free(s)  == oneSrvMu[s] = None
At(step) == {c \in Calls : pc[c] = step}

DoneBy(C, W) == ({"call"} \X C) \cup ({"watcher"} \X W)

Claiming == {w \in Watchers : wpc[w] = "claim" /\ Free(Srv(w))}

StoresSrv == DoneBy(At("store"),
                    {w \in Watchers : \/ wpc[w] = "store"
                                      \/ wpc[w] = "lock" /\ ev[w] = "delete" /\ Free(Srv(w))})
LooksSrv  == {c \in Lookups : \/ pc[c] = "call" /\ MuReadable
                              \/ pc[c] = "lock" /\ Free(target[c])}

StoresWatched == {w \in Claiming : Srv(w) \notin watched}
LooksWatched  == DoneBy({c \in Lookups : pc[c] = "lock" /\ Free(target[c])}
                          \cup {c \in Loads : pc[c] = "read" /\ todo[c] # {}},
                        Claiming \ StoresWatched)

StoresCh == {w \in Watchers : wpc[w] = "attach" /\ Exists(Srv(w))}
LooksCh  == {u \in Unwatches : pc[u] = "pick"}

Race(storing, looking) ==
  Cardinality(storing) > 1 \/ (storing # {} /\ looking # {})

Abort ==
  /\ \/ Race(StoresSrv, LooksSrv)
     \/ Race(StoresWatched, LooksWatched)
     \/ Race(StoresCh, LooksCh)
  /\ alive' = FALSE
  /\ UNCHANGED <<file, srvMap, watched, unwatchCh, locks, calls, steps, events,
                 history>>
-----------------------------------------------------------------------------
CallStep(c) ==
  \/ Lookup(c) \/ LookupMu(c) \/ LookupLocked(c) \/ LookupRead(c) \/ LookupStore(c)
  \/ Remote(c) \/ RemoteFails(c) \/ LookupHook(c)
  \/ LoadBegin(c) \/ (\E f \in Srvs : LoadRead(c, f)) \/ LoadStore(c) \/ LoadEnd(c)
  \/ UnwatchBegin(c) \/ UnwatchPick(c)

WatchStep(w) ==
  \/ WatchMu(w) \/ Claim(w) \/ Attach(w) \/ Receive(w) \/ WatchRead(w)
  \/ WatchStore(w) \/ WatchDrop(w) \/ WatchHook(w)

Next ==
  /\ alive
  /\ \/ \E s \in Srvs : Truncate(s) \/ Write(s) \/ Delete(s)
     \/ \E c \in Calls, s \in Srvs : Call(c, s)
     \/ \E c \in Calls : CallStep(c)
     \/ \E w \in Watchers : WatchStep(w)
     \/ \E h \in Calls \cup Watchers : Queue(h)
     \/ \E u \in Unwatches, w \in Watchers : TakeUnwatch(u, w)
     \/ Abort

Spec == Init /\ [][Next]_vars

(***************************************************************************)
(* Goroutines that can run do run; calls are made, and files written,      *)
(* without any promise.                                                    *)
(***************************************************************************)
Fairness ==
  /\ \A c \in Calls : WF_vars(alive /\ CallStep(c))
  /\ \A w \in Watchers : WF_vars(alive /\ WatchStep(w))
  /\ \A u \in Unwatches : WF_vars(alive /\ \E w \in Watchers : TakeUnwatch(u, w))

FairSpec == Spec /\ Fairness
-----------------------------------------------------------------------------
(***************************************************************************)
(* What a caller can rely on.                                              *)
(***************************************************************************)
\* Which step who holds the lock of a service is at.
Holding(h) == IF h \in Watchers THEN wpc[h] = "store"
              ELSE pc[h] \in {"read", "store", "remote", "hook"}

\* Types, and the lock: it is held by a Discover between its second look and
\* its end, or by a watcher between its read and its store, and by no one else.
TypeOK ==
  /\ file \in [Srvs -> [inode : 0..MaxInode, is : Contents, version : 0..MaxWrites]]
  /\ alive \in BOOLEAN
  /\ srvMap \in [Srvs -> 0..MaxWrites]
  /\ watched \subseteq Srvs
  /\ unwatchCh \in [Srvs -> Watchers \cup {None}]
  /\ oneSrvMu \in [Srvs -> Lookups \cup Watchers \cup {None}]
  /\ \A s \in Srvs : oneSrvMu[s] # None => Holding(oneSrvMu[s])
  /\ queued \in Calls \cup Watchers \cup {None}
  /\ pc \in [Calls -> CallSteps]
  /\ target \in [Calls -> Srvs \cup {None}]
  /\ got \in [Calls -> 0..(MaxWrites + 1)]
  /\ todo \in [Calls -> SUBSET Srvs]
  /\ wpc \in [Watchers -> WatchSteps]
  /\ ev \in [Watchers -> {"first", "change", "delete"}]
  /\ read \in [Watchers -> 0..MaxWrites]
  /\ inode \in [Watchers -> 0..MaxInode]
  /\ changed \in [Watchers -> BOOLEAN]
  /\ deleted \in [Watchers -> BOOLEAN]
  /\ told \in [Srvs -> 0..(MaxWrites + 1)]
  /\ overtaken \subseteq Srvs

\* Discover and LoadAll may both see a service unwatched and both start a
\* goroutine for it: of all of them one gets past its claim.
OneWatcher ==
  \A v, w \in Watchers :
    /\ v # w
    /\ {wpc[v], wpc[w]} \cap {"none", "start", "claim", "done"} = {}
    => Srv(v) # Srv(w)

\* The watcher of s watches the file there is, waits for the next event, and
\* there is none.
CaughtUp(w, s) ==
  /\ Watching(w, s)
  /\ wpc[w] = "select"
  /\ ~changed[w] /\ ~deleted[w]

\* Where the watcher has caught up, what Discover returns from the cache is
\* what is in the file, unless LoadAll has stored, without the lock, a record
\* that the file had already left behind.
CacheFollowsFile ==
  \A s \in Srvs \ overtaken, w \in Watchers :
    alive /\ CaughtUp(w, s) => srvMap[s] = Version(s)

\* From the first change on it is also what the callback was told last,
\* whatever Discover told it in the meantime, from the file or from the remote
\* discovery.  (What the watcher reads first, the callback is not told.)
HookFollowsFile ==
  \A s \in Srvs, w \in Watchers :
    alive /\ CaughtUp(w, s) /\ ev[w] = "change" /\ Version(s) # 0
      => told[s] = Version(s)

\* An Unwatch waits, with d.mu, for a watcher that waits for d.mu or has gone.
UnwatchStuck ==
  \E u \in Unwatches :
    pc[u] = "send" /\ wpc[unwatchCh[target[u]]] \in {"mu", "out", "done"}

\* Every call returns, hits included, unless an Unwatch hangs: then whoever wants
\* d.mu to write waits for it, and whoever wants to read waits for that.  No
\* other hang is possible: every path out of a call gives its locks back, and no
\* order of calls, watchers and their queue for d.mu stops them.
CallsReturn ==
  \A c \in Calls :
    pc[c] \notin {"idle", "done", "failed"}
      ~> pc[c] \in {"done", "failed"} \/ UnwatchStuck \/ ~alive
=============================================================================
