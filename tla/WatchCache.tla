----------------------------- MODULE WatchCache -----------------------------
(***************************************************************************)
(* The reading side of etcd.Discovery in one process: the cache srvMap,    *)
(* the goroutine that keeps it fresh from an etcd watch, and the calls of  *)
(* Discover, LoadAll and Unwatch that share it.                            *)
(*                                                                         *)
(* The registry is its history: log[r] is the change of revision r.  What  *)
(* the cache holds of a service is the revision (ModRevision) of the value *)
(* it was filled with, so the value itself is log[r].                      *)
(*                                                                         *)
(* Locks: d.mu is held by LoadAll from its first line to its last, and for *)
(* an instant by the others; oneSrvMu is held by Discover across its       *)
(* request to etcd, and by the watcher while it applies one event.  Every  *)
(* call may start one watcher goroutine, which is named after the call.    *)
(***************************************************************************)
EXTENDS Integers, FiniteSets, Sequences

CONSTANTS
  Srvs,         \* service names
  Lookups,      \* the executions of Discover
  Loads,        \* the executions of LoadAll
  Unwatches,    \* the executions of Unwatch
  None,         \* no lock holder, no service
  Hooked,       \* whether OnSrvUpdated was called before anything else
  MaxRevision   \* bound on the history, for model checking

Calls    == Lookups \cup Loads \cup Unwatches
Watchers == Lookups \cup Loads

ASSUME CallsAssumption ==
  /\ Lookups \cap Loads = {}
  /\ (Lookups \cup Loads) \cap Unwatches = {}
  /\ None \notin Calls \cup Srvs
ASSUME HookedAssumption == Hooked \in BOOLEAN
ASSUME MaxRevisionAssumption == MaxRevision \in Nat

VARIABLES
  log,         \* the history of the registry
  alive,       \* FALSE once the Go runtime has aborted the process
  srvMap,      \* the revision cached of each service, 0 if none
  isWatched,
  mu,          \* the LoadAll that holds d.mu
  oneSrvMu,    \* the Discover that holds the lock of each service
  pc, target, got, todo,   \* where each call stands, and its locals
  wpc, from, pos,          \* the watchers, and their watch streams
  seen         \* the revision last passed to the callback of OnSrvUpdated

store   == <<log>>
cache   == <<srvMap, seen>>
locks   == <<mu, oneSrvMu>>
calls   == <<pc, target, got, todo>>
streams == <<from, pos>>
vars    == <<store, alive, cache, isWatched, locks, calls, wpc, streams>>

CallSteps  == {"idle", "lock", "get", "fill", "send", "done", "failed"}
WatchSteps == {"none", "start", "lock", "open", "select", "entry", "notify",
               "spin", "out", "done"}
Change     == [srv : Srvs, kind : {"put", "junk", "delete"}]

Init ==
  /\ log = <<>>
  /\ alive = TRUE
  /\ srvMap = [s \in Srvs |-> 0]
  /\ isWatched = FALSE
  /\ mu = None
  /\ oneSrvMu = [s \in Srvs |-> None]
  /\ pc = [c \in Calls |-> "idle"]
  /\ target = [c \in Lookups |-> None]
  /\ got = [c \in Calls |-> 0]
  /\ todo = [c \in Loads |-> {}]
  /\ wpc = [w \in Watchers |-> "none"]
  /\ from = [w \in Watchers |-> 0]
  /\ pos = [w \in Watchers |-> 0]
  /\ seen = [s \in Srvs |-> 0]
-----------------------------------------------------------------------------
(***************************************************************************)
(* The registry.                                                           *)
(***************************************************************************)
Now == Len(log)

ChangesOf(s, rev) == {r \in 1 .. rev : log[r].srv = s}

\* r is the last change of s that a request at revision rev sees.
IsLast(r, s, rev) ==
  /\ r \in ChangesOf(s, rev)
  /\ \A q \in ChangesOf(s, rev) : q <= r

Exists(s, rev) == \E r \in 1 .. rev : IsLast(r, s, rev) /\ log[r].kind # "delete"

(***************************************************************************)
(* Some process registers or unregisters, or writes what is no service     *)
(* record.  A delete of nothing is no change.                              *)
(***************************************************************************)
Write(s, kind) ==
  /\ Now < MaxRevision
  /\ kind = "delete" => Exists(s, Now)
  /\ log' = Append(log, [srv |-> s, kind |-> kind])
  /\ UNCHANGED <<alive, cache, isWatched, locks, calls, wpc, streams>>
-----------------------------------------------------------------------------
Goto(c, step)  == pc' = [pc EXCEPT ![c] = step]
WGoto(w, step) == wpc' = [wpc EXCEPT ![w] = step]

\* if !d.isWatched { go d.watch() }
SpawnWatch(c) == wpc' = IF isWatched THEN wpc ELSE [wpc EXCEPT ![c] = "start"]

(***************************************************************************)
(* Discover(s).  The fast path, and on a miss the look-up of the service's *)
(* lock; both need d.mu for an instant.                                    *)
(***************************************************************************)
Lookup(c, s) ==
  /\ pc[c] = "idle"
  /\ mu = None
  /\ target' = [target EXCEPT ![c] = s]
  /\ got' = [got EXCEPT ![c] = srvMap[s]]
  /\ Goto(c, IF srvMap[s] # 0 THEN "done" ELSE "lock")
  /\ UNCHANGED <<store, alive, cache, isWatched, locks, todo, wpc, streams>>

\* Seeded fault: etcd is asked without the service's lock.
LookupUnlocked(c) ==
  LET s == target[c] IN
  /\ pc[c] = "lock"
  /\ oneSrvMu[s] = None
  /\ \/ /\ srvMap[s] # 0
        /\ got' = [got EXCEPT ![c] = srvMap[s]]
        /\ Goto(c, "done")
        /\ UNCHANGED wpc
     \/ /\ srvMap[s] = 0
        /\ SpawnWatch(c)
        /\ Goto(c, "get")
        /\ UNCHANGED got
  /\ UNCHANGED <<store, alive, cache, isWatched, locks, target, todo, streams>>

(***************************************************************************)
(* With the service's lock: somebody else may have filled the entry; if    *)
(* not, see that there is a watcher and ask etcd.                          *)
(***************************************************************************)
LookupLocked(c) ==
  LET s == target[c] IN
  /\ pc[c] = "lock"
  /\ oneSrvMu[s] = None
  /\ \/ /\ srvMap[s] # 0
        /\ got' = [got EXCEPT ![c] = srvMap[s]]
        /\ Goto(c, "done")
        /\ UNCHANGED <<oneSrvMu, wpc>>
     \/ /\ srvMap[s] = 0
        /\ oneSrvMu' = [oneSrvMu EXCEPT ![s] = c]
        /\ SpawnWatch(c)
        /\ Goto(c, "get")
        /\ UNCHANGED got
  /\ UNCHANGED <<store, alive, cache, isWatched, mu, target, todo, streams>>

\* etcd.Get finds a service record.
Fetch(c) ==
  /\ pc[c] = "get"
  /\ \E r \in 1 .. Now :
       /\ IsLast(r, target[c], Now)
       /\ log[r].kind = "put"
       /\ got' = [got EXCEPT ![c] = r]
  /\ Goto(c, "fill")
  /\ UNCHANGED <<store, alive, cache, isWatched, locks, target, todo, wpc, streams>>

\* Seeded fault: the error is returned without the unlock.
FetchFailsLocked(c) ==
  /\ pc[c] = "get"
  /\ Goto(c, "failed")
  /\ UNCHANGED <<store, alive, cache, isWatched, locks, target, got, todo, wpc, streams>>

\* etcd.Get fails or times out, or finds nothing, or what does not decode:
\* Discover returns an error, and its deferred unlock runs.
FetchFails(c) ==
  /\ pc[c] = "get"
  /\ Goto(c, "failed")
  /\ oneSrvMu' = [oneSrvMu EXCEPT ![target[c]] = None]
  /\ UNCHANGED <<store, alive, cache, isWatched, mu, target, got, todo, wpc, streams>>

\* The entry is stored, whatever has happened to the watcher since.
Fill(c) ==
  /\ pc[c] = "fill"
  /\ srvMap' = [srvMap EXCEPT ![target[c]] = got[c]]
  /\ oneSrvMu' = [oneSrvMu EXCEPT ![target[c]] = None]
  /\ Goto(c, "done")
  /\ UNCHANGED <<store, alive, seen, isWatched, mu, target, got, todo, wpc, streams>>
-----------------------------------------------------------------------------
(***************************************************************************)
(* LoadAll: d.mu is taken, a watcher is started if there is none.          *)
(***************************************************************************)
\* Seeded fault: no watcher is started.
LoadBeginUnwatched(c) ==
  /\ pc[c] = "idle"
  /\ mu = None
  /\ mu' = c
  /\ Goto(c, "get")
  /\ UNCHANGED <<store, alive, cache, isWatched, oneSrvMu, target, got, todo, wpc, streams>>

LoadBegin(c) ==
  /\ pc[c] = "idle"
  /\ mu = None
  /\ mu' = c
  /\ SpawnWatch(c)
  /\ Goto(c, "get")
  /\ UNCHANGED <<store, alive, cache, isWatched, oneSrvMu, target, got, todo, streams>>

\* etcd.Get with the prefix: every service at one revision.
LoadGet(c) ==
  /\ pc[c] = "get"
  /\ got' = [got EXCEPT ![c] = Now]
  /\ todo' = [todo EXCEPT ![c] = {s \in Srvs : Exists(s, Now)}]
  /\ Goto(c, "fill")
  /\ UNCHANGED <<store, alive, cache, isWatched, locks, target, wpc, streams>>

\* An error or a panic: the deferred unlock runs.
LoadStops(c, step) == Goto(c, step) /\ mu' = None

\* etcd.Get fails or times out.
LoadGetFails(c) ==
  /\ pc[c] = "get"
  /\ LoadStops(c, "failed")
  /\ UNCHANGED <<store, alive, cache, isWatched, oneSrvMu, target, got, todo, wpc, streams>>

(***************************************************************************)
(* The next service is stored, without its lock and whatever is cached of  *)
(* it, and passed to the callback, which is called even if there is none.  *)
(***************************************************************************)
LoadFill(c, s) ==
  /\ pc[c] = "fill"
  /\ s \in todo[c]
  /\ \E r \in 1 .. Now :
       /\ IsLast(r, s, got[c])
       /\ log[r].kind = "put"
       /\ srvMap' = [srvMap EXCEPT ![s] = r]
       /\ IF Hooked
          THEN /\ seen' = [seen EXCEPT ![s] = r]
               /\ todo' = [todo EXCEPT ![c] = @ \ {s}]
               /\ UNCHANGED <<pc, mu>>
          ELSE /\ LoadStops(c, "failed")
               /\ UNCHANGED <<seen, todo>>
  /\ UNCHANGED <<store, alive, isWatched, oneSrvMu, target, got, wpc, streams>>

\* A value that does not decode ends the call.
LoadJunk(c, s) ==
  /\ pc[c] = "fill"
  /\ s \in todo[c]
  /\ \E r \in 1 .. Now : IsLast(r, s, got[c]) /\ log[r].kind = "junk"
  /\ LoadStops(c, "failed")
  /\ UNCHANGED <<store, alive, cache, isWatched, oneSrvMu, target, got, todo, wpc, streams>>

LoadEnd(c) ==
  /\ pc[c] = "fill"
  /\ todo[c] = {}
  /\ LoadStops(c, "done")
  /\ UNCHANGED <<store, alive, cache, isWatched, oneSrvMu, target, got, todo, wpc, streams>>
-----------------------------------------------------------------------------
(***************************************************************************)
(* The watcher goroutine.  Two looks at isWatched, the second with d.mu.   *)
(***************************************************************************)
WatchCheck(w) ==
  /\ wpc[w] = "start"
  /\ WGoto(w, IF isWatched THEN "done" ELSE "lock")
  /\ UNCHANGED <<store, alive, cache, isWatched, locks, calls, streams>>

\* Seeded fault: the first look is trusted.
WatchLockUnchecked(w) ==
  /\ wpc[w] = "lock"
  /\ mu = None
  /\ isWatched' = TRUE
  /\ WGoto(w, "open")
  /\ UNCHANGED <<store, alive, cache, locks, calls, streams>>

WatchLock(w) ==
  /\ wpc[w] = "lock"
  /\ mu = None
  /\ isWatched' = TRUE
  /\ WGoto(w, IF isWatched THEN "done" ELSE "open")
  /\ UNCHANGED <<store, alive, cache, locks, calls, streams>>

\* etcd.Watch without a revision: the stream begins with the next change.
WatchOpen(w) ==
  /\ wpc[w] = "open"
  /\ from' = [from EXCEPT ![w] = Now + 1]
  /\ pos' = [pos EXCEPT ![w] = Now + 1]
  /\ WGoto(w, "select")
  /\ UNCHANGED <<store, alive, cache, isWatched, locks, calls>>

\* The next event arrives, and d.mu is taken to look up the service's lock.
Receive(w) ==
  /\ wpc[w] = "select"
  /\ pos[w] <= Now
  /\ mu = None
  /\ WGoto(w, "entry")
  /\ UNCHANGED <<store, alive, cache, isWatched, locks, calls, streams>>

\* Seeded faults: an event no newer than the entry is skipped; no event is.
SkippedIfNotNewer(s, r) == srvMap[s] >= r
NeverSkipped(s, r)      == FALSE

\* An event older than what is cached is ignored.
Skipped(s, r) == srvMap[s] > r

(***************************************************************************)
(* The event is applied under the service's lock: what decodes is cached,  *)
(* what does not, and what is deleted, is dropped from the cache.          *)
(***************************************************************************)
ApplyEvent(w) ==
  LET r == pos[w]
      s == log[r].srv
  IN
  /\ wpc[w] = "entry"
  /\ oneSrvMu[s] = None
  /\ IF Skipped(s, r)
     THEN /\ WGoto(w, "select")
          /\ pos' = [pos EXCEPT ![w] = r + 1]
          /\ UNCHANGED srvMap
     ELSE /\ srvMap' = [srvMap EXCEPT ![s] = IF log[r].kind = "put" THEN r ELSE 0]
          /\ WGoto(w, "notify")
          /\ UNCHANGED pos
  /\ UNCHANGED <<store, alive, seen, isWatched, locks, calls, from>>

(***************************************************************************)
(* The callback, if there is one, after the unlock.  Of what did not       *)
(* decode it is passed what the decoder made of it: the service under its  *)
(* name, if that was read before the error, or a service without a name,   *)
(* which tells nobody of this one.                                         *)
(***************************************************************************)
Notify(w) ==
  /\ wpc[w] = "notify"
  /\ \/ Hooked /\ seen' = [seen EXCEPT ![log[pos[w]].srv] = pos[w]]
     \/ (~Hooked \/ log[pos[w]].kind = "junk") /\ UNCHANGED seen
  /\ pos' = [pos EXCEPT ![w] = @ + 1]
  /\ WGoto(w, "select")
  /\ UNCHANGED <<store, alive, srvMap, isWatched, locks, calls, from>>

\* etcd refuses or cancels the watch: the channel is closed, and the loop
\* goes on receiving nothing from it.
Closes(w) ==
  /\ wpc[w] \in {"open", "select"}
  /\ WGoto(w, "spin")
  /\ UNCHANGED <<store, alive, cache, isWatched, locks, calls, streams>>

\* Unwatch waits until a watcher takes its signal.
Unwatch(u) ==
  /\ pc[u] = "idle"
  /\ Goto(u, "send")
  /\ UNCHANGED <<store, alive, cache, isWatched, locks, target, got, todo, wpc, streams>>

TakeUnwatch(w, u) ==
  /\ pc[u] = "send"
  /\ wpc[w] \in {"select", "spin"}
  /\ Goto(u, "done")
  /\ WGoto(w, "out")
  /\ UNCHANGED <<store, alive, cache, isWatched, locks, target, got, todo, streams>>

\* The watcher leaves an empty cache.  (isWatched is TRUE here, OneWatcher.)
WatchOut(w) ==
  /\ wpc[w] = "out"
  /\ mu = None
  /\ isWatched' = FALSE
  /\ srvMap' = [s \in Srvs |-> 0]
  /\ WGoto(w, "done")
  /\ UNCHANGED <<store, alive, seen, locks, calls, streams>>
-----------------------------------------------------------------------------
(***************************************************************************)
(* srvMap is a Go map, guarded by d.mu in some places and by a service's   *)
(* lock in others.  Where a write is not excluded from another access the  *)
(* runtime may abort the process ("concurrent map writes").                *)
(***************************************************************************)
Free(s)     == oneSrvMu[s] = None
Looking     == {c \in Lookups : \/ pc[c] = "idle" /\ mu = None
                                \/ pc[c] = "lock" /\ Free(target[c])}
Storing     == {c \in Lookups \cup Loads : pc[c] = "fill"}
Applying(w) == wpc[w] = "entry" /\ Free(log[pos[w]].srv)

MapRace ==
  \/ Cardinality(Storing) > 1
  \/ Storing # {} /\ Looking # {}
  \/ \E w \in Watchers : Applying(w) /\
       \/ Storing # {}
       \/ \E c \in Looking : pc[c] = "lock" => target[c] # log[pos[w]].srv

Abort ==
  /\ MapRace
  /\ alive' = FALSE
  /\ UNCHANGED <<store, cache, isWatched, locks, calls, wpc, streams>>
-----------------------------------------------------------------------------
\* What a call does by itself once it is made, and what a watcher does.
CallStep(c) ==
  \/ c \in Lookups /\ (LookupLocked(c) \/ Fetch(c) \/ FetchFails(c) \/ Fill(c))
  \/ c \in Loads /\ \/ LoadGet(c) \/ LoadGetFails(c) \/ LoadEnd(c)
                    \/ \E s \in Srvs : LoadFill(c, s) \/ LoadJunk(c, s)

WatchStep(w) ==
  \/ WatchCheck(w) \/ WatchLock(w) \/ WatchOpen(w)
  \/ Receive(w) \/ ApplyEvent(w) \/ Notify(w) \/ WatchOut(w)

Next ==
  /\ alive
  /\ \/ \E s \in Srvs, k \in {"put", "junk", "delete"} : Write(s, k)
     \/ \E c \in Lookups, s \in Srvs : Lookup(c, s)
     \/ \E c \in Loads : LoadBegin(c)
     \/ \E c \in Lookups \cup Loads : CallStep(c)
     \/ \E w \in Watchers : WatchStep(w) \/ Closes(w)
     \/ \E u \in Unwatches : Unwatch(u)
     \/ \E w \in Watchers, u \in Unwatches : TakeUnwatch(w, u)
     \/ Abort

Spec == Init /\ [][Next]_vars

(***************************************************************************)
(* Goroutines that can run do run, and Go's mutexes starve nobody; calls   *)
(* are made, streams closed and maps torn without any promise.             *)
(***************************************************************************)
Fairness ==
  /\ \A c \in Lookups \cup Loads : WF_vars(alive /\ CallStep(c))
  /\ \A w \in Watchers : WF_vars(alive /\ WatchStep(w))

FairSpec == Spec /\ Fairness
-----------------------------------------------------------------------------
(***************************************************************************)
(* Every variable has its type; a lock is held by the calls that are       *)
(* between taking it and releasing it, and by no other.                    *)
(***************************************************************************)
Revision == 0 .. MaxRevision

TypeOK ==
  /\ log \in Seq(Change) /\ Now \in Revision
  /\ alive \in BOOLEAN
  /\ srvMap \in [Srvs -> Revision]
  /\ isWatched \in BOOLEAN
  /\ mu \in Loads \cup {None}
  /\ oneSrvMu \in [Srvs -> Lookups \cup {None}]
  /\ pc \in [Calls -> CallSteps]
  /\ target \in [Lookups -> Srvs \cup {None}]
  /\ got \in [Calls -> Revision]
  /\ todo \in [Loads -> SUBSET Srvs]
  /\ wpc \in [Watchers -> WatchSteps]
  /\ from \in [Watchers -> 0 .. MaxRevision + 1]
  /\ pos \in [Watchers -> 0 .. MaxRevision + 1]
  /\ seen \in [Srvs -> Revision]
  /\ \A c \in Loads : mu = c <=> pc[c] \in {"get", "fill"}
  /\ \A c \in Lookups : pc[c] \in {"get", "fill"} <=>
                         target[c] # None /\ oneSrvMu[target[c]] = c

\* The watcher has set isWatched and has not taken it back.
Active(w) == wpc[w] \in {"open", "select", "entry", "notify", "spin", "out"}

(***************************************************************************)
(* However many calls start a watcher at the same time, one runs, and      *)
(* isWatched says so.                                                      *)
(***************************************************************************)
OneWatcher ==
  /\ \A v, w \in Watchers : Active(v) /\ Active(w) => v = w
  /\ isWatched <=> \E w \in Watchers : Active(w)

\* r is the newest change of s, and watcher w, whose stream has it, is past it.
Consumed(w, s, r) ==
  IsLast(r, s, Now) /\ from[w] <= r /\ r < pos[w]

(***************************************************************************)
(* Once the running watcher is past the newest change of a service, the    *)
(* cache holds exactly that change, or nothing if it was a delete or did   *)
(* not decode: no Discover, LoadAll or earlier event that was under way at *)
(* the same time has put anything else there.                              *)
(***************************************************************************)
ConsumedIsApplied ==
  \A w \in Watchers, s \in Srvs, r \in 1 .. Now :
    wpc[w] \in {"select", "entry", "notify"} /\ Consumed(w, s, r)
      => srvMap[s] = IF log[r].kind = "put" THEN r ELSE 0

(***************************************************************************)
(* And the callback of OnSrvUpdated was last told of that change: neither  *)
(* a Discover that cached it before its event came, nor a LoadAll, makes   *)
(* the watcher keep it to itself.  A change that does not decode is        *)
(* excepted: it leaves the cache, and the callback may not be told whose   *)
(* it is.                                                                  *)
(***************************************************************************)
ConsumedIsSeen ==
  \A w \in Watchers, s \in Srvs, r \in 1 .. Now :
    /\ Hooked /\ wpc[w] \in {"select", "entry"}
    /\ Consumed(w, s, r) /\ log[r].kind # "junk"
    => seen[s] = r

(***************************************************************************)
(* What is cached is watched, or about to be, unless somebody has called   *)
(* Unwatch (then a Discover under way may cache without a watcher).        *)
(***************************************************************************)
CachedIsWatched ==
  \A s \in Srvs : srvMap[s] # 0 =>
    \/ isWatched
    \/ \E w \in Watchers : wpc[w] \in {"start", "lock"}
    \/ \E u \in Unwatches : pc[u] = "done"

(***************************************************************************)
(* Between Discover and the watcher, a cached service never goes back to   *)
(* an older revision.  LoadAll, which takes no service's lock, is the only *)
(* way: it may overwrite what a Discover has fetched since, and a Discover *)
(* may overwrite what it has stored.                                       *)
(***************************************************************************)
TurnsBackOnlyAfterLoadAll ==
  [][\A s \in Srvs : 0 < srvMap'[s] /\ srvMap'[s] < srvMap[s]
       => \E c \in Loads : pc[c] \in {"fill", "done", "failed"}]_vars

(***************************************************************************)
(* Discover has answered, or is bound to, once it is past its request, and *)
(* LoadAll has its services until it ends.                                 *)
(***************************************************************************)
Answer   == [c \in Lookups |-> IF pc[c] \in {"fill", "done"}
                               THEN [srv |-> target[c], rev |-> got[c]] ELSE None]
Unstored == {c \in Lookups : pc[c] = "fill"}
Snapshot == {got[c] : c \in {d \in Loads : pc[d] = "fill"}}

RT == INSTANCE ReadThrough WITH
        cached <- srvMap, answer <- Answer, storing <- Unstored, snapshot <- Snapshot

(***************************************************************************)
(* However Discovers, LoadAll, the watcher and its end interleave, the     *)
(* cache is a read-through cache: Discover answers what is cached, or what *)
(* the registry holds at that instant and no other Discover has just read, *)
(* and what it stores is never older than an event already applied.        *)
(***************************************************************************)
ReadsThrough == RT!Spec

(***************************************************************************)
(* A change made after the watch was opened is consumed, unless etcd       *)
(* closes the stream, Unwatch ends the watcher or the process aborts: no   *)
(* lock held by a Discover or LoadAll stops the watcher for good.          *)
(***************************************************************************)
EventsConsumed ==
  \A w \in Watchers, r \in 1 .. MaxRevision :
    (wpc[w] \in {"select", "entry", "notify"} /\ from[w] <= r /\ r <= Now)
      ~> (pos[w] > r \/ wpc[w] \in {"spin", "out", "done"} \/ ~alive)

(***************************************************************************)
(* Every Discover and LoadAll returns, unless the process aborts: d.mu and *)
(* the services' locks are given back on every path.                       *)
(***************************************************************************)
CallsReturn ==
  \A c \in Lookups \cup Loads :
    pc[c] # "idle" ~> (pc[c] \in {"done", "failed"} \/ ~alive)
=============================================================================
