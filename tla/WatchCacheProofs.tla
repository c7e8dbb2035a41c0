-------------------------- MODULE WatchCacheProofs --------------------------
(***************************************************************************)
(* Proofs about WatchCache, for any number of services, of concurrent      *)
(* Discover, LoadAll and Unwatch calls, and of changes of the registry.    *)
(***************************************************************************)
EXTENDS WatchCache, SequenceTheorems, TLAPS

-----------------------------------------------------------------------------
(***************************************************************************)
(* The inductive invariant of TypeOK and OneWatcher: a service's lock is   *)
(* held by a Discover of that service, a watcher is past what it was given *)
(* and within the history, and a call that can still start its watcher has *)
(* not started it.                                                         *)
(***************************************************************************)
Typed ==
  /\ log \in Seq(Change) /\ Now \in Revision
  /\ alive \in BOOLEAN
  /\ srvMap \in [Srvs -> Revision]
  /\ isWatched \in BOOLEAN
  /\ mu \in Loads \cup {None}
  /\ oneSrvMu \in [Srvs -> Lookups \cup {None}]
  /\ pc \in [Calls -> CallSteps]
  /\ target \in [Lookups -> Srvs \cup {None}]
  /\ got \in [Calls -> Revision]
  /\ todo \in [Loads -> SUBSET Srvs]
  /\ wpc \in [Watchers -> WatchSteps]
  /\ from \in [Watchers -> 0 .. MaxRevision + 1]
  /\ pos \in [Watchers -> 0 .. MaxRevision + 1]
  /\ seen \in [Srvs -> Revision]

LockOwners ==
  /\ \A c \in Loads : mu = c <=> pc[c] \in {"get", "fill"}
  /\ \A c \in Lookups :
       /\ pc[c] \in {"lock", "get", "fill"} => target[c] \in Srvs
       /\ pc[c] \in {"get", "fill"} => oneSrvMu[target[c]] = c
       /\ \A s \in Srvs : oneSrvMu[s] = c => pc[c] \in {"get", "fill"} /\ target[c] = s

Positions ==
  \A w \in Watchers :
    /\ wpc[w] \in {"select", "entry", "notify"} => from[w] <= pos[w] /\ 1 <= from[w]
    /\ wpc[w] \in {"entry", "notify"} => pos[w] <= Now

Unspawned ==
  /\ \A c \in Lookups : pc[c] \in {"idle", "lock"} => wpc[c] = "none"
  /\ \A c \in Loads : pc[c] = "idle" => wpc[c] = "none"

IInv == Typed /\ LockOwners /\ Positions /\ Unspawned /\ OneWatcher

LEMMA InvImpliesType == IInv => TypeOK
<1> SUFFICES ASSUME IInv PROVE TypeOK
  OBVIOUS
<1>1. \A c \in Lookups : pc[c] \in {"get", "fill"} <=>
                          target[c] # None /\ oneSrvMu[target[c]] = c
  BY CallsAssumption DEF IInv, LockOwners, Typed
<1> QED
  BY <1>1 DEF IInv, Typed, LockOwners, TypeOK

\* Nothing has happened yet.
LEMMA InitInv == Init => IInv
<1> SUFFICES ASSUME Init PROVE IInv
  OBVIOUS
<1>1. Typed
  <2>1. log \in Seq(Change) /\ Now = 0
    BY DEF Init, Now
  <2>2. 0 \in Revision /\ 0 \in 0 .. MaxRevision + 1
    BY MaxRevisionAssumption DEF Revision
  <2> QED
    BY <2>1, <2>2, HookedAssumption DEF Init, Typed, CallSteps, WatchSteps
<1>2. LockOwners
  BY CallsAssumption DEF Init, LockOwners, Calls
<1>3. Positions /\ Unspawned
  BY DEF Init, Positions, Unspawned, Calls, Watchers
<1>4. OneWatcher
  BY DEF Init, OneWatcher, Active
<1> QED
  BY <1>1, <1>2, <1>3, <1>4 DEF IInv

\* What the history records.
LEMMA ChangeAt ==
  ASSUME Typed, NEW r \in 1 .. Now
  PROVE  log[r] \in Change /\ log[r].srv \in Srvs /\ r \in Revision
<1>1. log \in Seq(Change) /\ Len(log) \in 0 .. MaxRevision /\ r \in 1 .. Len(log)
  BY DEF Typed, Now, Revision
<1>2. log[r] \in Change
  BY <1>1, ElementOfSeq
<1>3. r \in 0 .. MaxRevision
  BY <1>1, MaxRevisionAssumption
<1> QED
  BY <1>2, <1>3 DEF Change, Revision

\* Every step preserves the invariant.
LEMMA StepInv == IInv /\ [Next]_vars => IInv'
<1> SUFFICES ASSUME IInv, [Next]_vars PROVE IInv'
  OBVIOUS
<1> USE CallsAssumption, MaxRevisionAssumption, HookedAssumption
    DEF Calls, Watchers, Now, Revision, store, cache, locks, calls, streams
<1>1. Len(log) \in Nat
  BY DEF IInv, Typed
<1>2. ASSUME NEW s \in Srvs, NEW k \in {"put", "junk", "delete"}, Write(s, k) PROVE IInv'
  <2>1. Typed'
    <3>1. [srv |-> s, kind |-> k] \in Change
      BY DEF Change
    <3>2. log' \in Seq(Change) /\ Len(log') = Len(log) + 1
      BY <1>2, <3>1 DEF Write, IInv, Typed
    <3>3. Len(log') \in 0 .. MaxRevision
      BY <1>1, <1>2, <3>2 DEF Write
    <3> QED
      BY <1>2, <3>2, <3>3 DEF Write, IInv, Typed
  <2>2. LockOwners'
    BY <1>2, <1>1 DEF Write, IInv, Typed, LockOwners
  <2>3. Positions'
    BY <1>2, <1>1 DEF Write, IInv, Typed, Positions
  <2>4. Unspawned'
    BY <1>2, <1>1 DEF Write, IInv, Typed, Unspawned
  <2>5. OneWatcher'
    BY <1>2, <1>1 DEF Write, IInv, Typed, Unspawned, OneWatcher, Active
  <2> QED
    BY <2>1, <2>2, <2>3, <2>4, <2>5 DEF IInv
<1>3. ASSUME NEW c \in Lookups, NEW s \in Srvs, Lookup(c, s) PROVE IInv'
  <2>1. Typed'
    BY <1>3, <1>1 DEF Lookup, Goto, IInv, Typed, CallSteps, WatchSteps
  <2>2. LockOwners'
    BY <1>3, <1>1 DEF Lookup, Goto, IInv, Typed, LockOwners
  <2>3. Positions'
    BY <1>3, <1>1 DEF Lookup, Goto, IInv, Typed, Positions
  <2>4. Unspawned'
    BY <1>3, <1>1 DEF Lookup, Goto, IInv, Typed, Unspawned
  <2>5. OneWatcher'
    BY <1>3, <1>1 DEF Lookup, Goto, IInv, Typed, Unspawned, OneWatcher, Active
  <2> QED
    BY <2>1, <2>2, <2>3, <2>4, <2>5 DEF IInv
<1>4. ASSUME NEW c \in Lookups, LookupLocked(c) PROVE IInv'
  <2>1. Typed'
    <3>1. /\ target[c] \in Srvs
          /\ \E step \in {"done", "get"} : pc' = [pc EXCEPT ![c] = step]
          /\ wpc' = wpc \/ wpc' = [wpc EXCEPT ![c] = "start"]
          /\ oneSrvMu' = oneSrvMu \/ oneSrvMu' = [oneSrvMu EXCEPT ![target[c]] = c]
          /\ got' = got \/ got' = [got EXCEPT ![c] = srvMap[target[c]]]
          /\ UNCHANGED <<log, alive, srvMap, seen, isWatched, mu, target, todo, from, pos>>
      BY <1>4 DEF LookupLocked, Goto, SpawnWatch, IInv, LockOwners
    <3>2. pc' \in [Lookups \cup Loads \cup Unwatches -> CallSteps]
      BY <3>1 DEF IInv, Typed, CallSteps
    <3>3. wpc' \in [Lookups \cup Loads -> WatchSteps]
      BY <3>1 DEF IInv, Typed, WatchSteps
    <3>4. oneSrvMu' \in [Srvs -> Lookups \cup {None}]
      <4>1. oneSrvMu \in [Srvs -> Lookups \cup {None}]
        BY DEF IInv, Typed
      <4> QED
        BY <3>1, <4>1
    <3>5. got' \in [Lookups \cup Loads \cup Unwatches -> 0 .. MaxRevision]
      BY <3>1 DEF IInv, Typed
    <3> QED
      BY <3>1, <3>2, <3>3, <3>4, <3>5 DEF IInv, Typed
  <2>2. LockOwners'
    <3>1. pc[c] = "lock" /\ target[c] \in Srvs /\ oneSrvMu[target[c]] = None
          /\ UNCHANGED <<target, mu>>
      BY <1>4 DEF LookupLocked, IInv, LockOwners
    <3>2. \/ pc' = [pc EXCEPT ![c] = "done"] /\ oneSrvMu' = oneSrvMu
          \/ pc' = [pc EXCEPT ![c] = "get"]
             /\ oneSrvMu' = [oneSrvMu EXCEPT ![target[c]] = c]
      BY <1>4 DEF LookupLocked, Goto
    <3>3. /\ pc \in [Lookups \cup Loads \cup Unwatches -> CallSteps]
          /\ oneSrvMu \in [Srvs -> Lookups \cup {None}]
      BY DEF IInv, Typed
    <3>4. \A d \in Loads : pc'[d] = pc[d]
      BY <3>2, <3>3
    <3>5. \A d \in Lookups : d # c => pc'[d] = pc[d]
      BY <3>2, <3>3
    <3>6. CASE pc' = [pc EXCEPT ![c] = "done"] /\ oneSrvMu' = oneSrvMu
      BY <3>1, <3>3, <3>4, <3>5, <3>6 DEF IInv, LockOwners
    <3>7. CASE pc' = [pc EXCEPT ![c] = "get"]
               /\ oneSrvMu' = [oneSrvMu EXCEPT ![target[c]] = c]
      BY <3>1, <3>3, <3>4, <3>5, <3>7 DEF IInv, LockOwners
    <3> QED
      BY <3>2, <3>6, <3>7
  <2>3. Positions'
    BY <1>4, <1>1 DEF LookupLocked, Goto, SpawnWatch, IInv, Typed, Positions
  <2>4. Unspawned'
    <3>1. PICK step \in {"done", "get"} : pc' = [pc EXCEPT ![c] = step]
      BY <1>4 DEF LookupLocked, Goto
    <3>0. wpc' = wpc \/ wpc' = [wpc EXCEPT ![c] = "start"]
      BY <1>4 DEF LookupLocked, SpawnWatch
    <3>2. /\ pc \in [Lookups \cup Loads \cup Unwatches -> CallSteps]
          /\ wpc \in [Lookups \cup Loads -> WatchSteps]
      BY DEF IInv, Typed
    <3>3. pc'[c] \in {"done", "get"}
      BY <3>1, <3>2
    <3>4. \A d \in Lookups \cup Loads : d # c => pc'[d] = pc[d] /\ wpc'[d] = wpc[d]
      BY <3>0, <3>1, <3>2
    <3> QED
      BY <3>3, <3>4 DEF IInv, Unspawned
  <2>5. OneWatcher'
    BY <1>4, <1>1 DEF LookupLocked, Goto, SpawnWatch, IInv, Typed, Unspawned, OneWatcher, Active
  <2> QED
    BY <2>1, <2>2, <2>3, <2>4, <2>5 DEF IInv
<1>5. ASSUME NEW c \in Lookups, Fetch(c) PROVE IInv'
  <2>1. Typed'
    BY <1>5, <1>1 DEF Fetch, Goto, IInv, Typed, CallSteps, WatchSteps
  <2>2. LockOwners'
    BY <1>5, <1>1 DEF Fetch, Goto, IInv, Typed, LockOwners
  <2>3. Positions'
    BY <1>5, <1>1 DEF Fetch, Goto, IInv, Typed, Positions
  <2>4. Unspawned'
    BY <1>5, <1>1 DEF Fetch, Goto, IInv, Typed, Unspawned
  <2>5. OneWatcher'
    BY <1>5, <1>1 DEF Fetch, Goto, IInv, Typed, Unspawned, OneWatcher, Active
  <2> QED
    BY <2>1, <2>2, <2>3, <2>4, <2>5 DEF IInv
<1>6. ASSUME NEW c \in Lookups, FetchFails(c) PROVE IInv'
  <2>1. Typed'
    BY <1>6, <1>1 DEF FetchFails, Goto, IInv, Typed, CallSteps, WatchSteps
  <2>2. LockOwners'
    BY <1>6, <1>1 DEF FetchFails, Goto, IInv, Typed, LockOwners
  <2>3. Positions'
    BY <1>6, <1>1 DEF FetchFails, Goto, IInv, Typed, Positions
  <2>4. Unspawned'
    BY <1>6, <1>1 DEF FetchFails, Goto, IInv, Typed, Unspawned
  <2>5. OneWatcher'
    BY <1>6, <1>1 DEF FetchFails, Goto, IInv, Typed, Unspawned, OneWatcher, Active
  <2> QED
    BY <2>1, <2>2, <2>3, <2>4, <2>5 DEF IInv
<1>7. ASSUME NEW c \in Lookups, Fill(c) PROVE IInv'
  <2>1. Typed'
    BY <1>7, <1>1 DEF Fill, Goto, IInv, Typed, CallSteps, WatchSteps
  <2>2. LockOwners'
    BY <1>7, <1>1 DEF Fill, Goto, IInv, Typed, LockOwners
  <2>3. Positions'
    BY <1>7, <1>1 DEF Fill, Goto, IInv, Typed, Positions
  <2>4. Unspawned'
    BY <1>7, <1>1 DEF Fill, Goto, IInv, Typed, Unspawned
  <2>5. OneWatcher'
    BY <1>7, <1>1 DEF Fill, Goto, IInv, Typed, Unspawned, OneWatcher, Active
  <2> QED
    BY <2>1, <2>2, <2>3, <2>4, <2>5 DEF IInv
<1>8. ASSUME NEW c \in Loads, LoadBegin(c) PROVE IInv'
  <2>1. Typed'
    BY <1>8, <1>1 DEF LoadBegin, Goto, SpawnWatch, IInv, Typed, CallSteps, WatchSteps
  <2>2. LockOwners'
    BY <1>8, <1>1 DEF LoadBegin, Goto, SpawnWatch, IInv, Typed, LockOwners
  <2>3. Positions'
    BY <1>8, <1>1 DEF LoadBegin, Goto, SpawnWatch, IInv, Typed, Positions
  <2>4. Unspawned'
    BY <1>8, <1>1 DEF LoadBegin, Goto, SpawnWatch, IInv, Typed, Unspawned
  <2>5. OneWatcher'
    BY <1>8, <1>1 DEF LoadBegin, Goto, SpawnWatch, IInv, Typed, Unspawned, OneWatcher, Active
  <2> QED
    BY <2>1, <2>2, <2>3, <2>4, <2>5 DEF IInv
<1>9. ASSUME NEW c \in Loads, LoadGet(c) PROVE IInv'
  <2>1. Typed'
    BY <1>9, <1>1 DEF LoadGet, Goto, IInv, Typed, CallSteps, WatchSteps
  <2>2. LockOwners'
    BY <1>9, <1>1 DEF LoadGet, Goto, IInv, Typed, LockOwners
  <2>3. Positions'
    BY <1>9, <1>1 DEF LoadGet, Goto, IInv, Typed, Positions
  <2>4. Unspawned'
    BY <1>9, <1>1 DEF LoadGet, Goto, IInv, Typed, Unspawned
  <2>5. OneWatcher'
    BY <1>9, <1>1 DEF LoadGet, Goto, IInv, Typed, Unspawned, OneWatcher, Active
  <2> QED
    BY <2>1, <2>2, <2>3, <2>4, <2>5 DEF IInv
<1>10. ASSUME NEW c \in Loads,
              LoadGetFails(c) \/ LoadEnd(c) \/ \E s \in Srvs : LoadJunk(c, s)
       PROVE  IInv'
  <2>0. /\ pc[c] \in {"get", "fill"} /\ mu' = None
        /\ \E step \in {"done", "failed"} : pc' = [pc EXCEPT ![c] = step]
        /\ UNCHANGED <<log, alive, srvMap, seen, isWatched, oneSrvMu, target, got,
                       todo, wpc, from, pos>>
    BY <1>10 DEF LoadGetFails, LoadJunk, LoadEnd, LoadStops, Goto
  <2>1. Typed'
    BY <2>0 DEF IInv, Typed, CallSteps
  <2>2. LockOwners'
    BY <2>0 DEF IInv, Typed, LockOwners
  <2>3. Positions' /\ OneWatcher'
    BY <2>0 DEF IInv, Positions, OneWatcher, Active
  <2>4. Unspawned'
    BY <2>0 DEF IInv, Typed, Unspawned
  <2> QED
    BY <2>1, <2>2, <2>3, <2>4 DEF IInv
<1>11. ASSUME NEW c \in Loads, NEW s \in Srvs, LoadFill(c, s) PROVE IInv'
  <2>1. Typed'
    <3>1. PICK r \in 1 .. Len(log) : /\ srvMap' = [srvMap EXCEPT ![s] = r]
                                   /\ \/ seen' = seen
                                      \/ seen' = [seen EXCEPT ![s] = r]
      BY <1>11 DEF LoadFill
    <3>2. r \in 0 .. MaxRevision
      BY <3>1, ChangeAt DEF IInv
    <3>3. srvMap' \in [Srvs -> 0 .. MaxRevision] /\ seen' \in [Srvs -> 0 .. MaxRevision]
      <4>1. srvMap \in [Srvs -> 0 .. MaxRevision] /\ seen \in [Srvs -> 0 .. MaxRevision]
        BY DEF IInv, Typed
      <4> QED
        BY <3>1, <3>2, <4>1
    <3>4. /\ pc' = pc \/ pc' = [pc EXCEPT ![c] = "failed"]
          /\ mu' = mu \/ mu' = None
          /\ todo' = todo \/ todo' = [todo EXCEPT ![c] = todo[c] \ {s}]
          /\ UNCHANGED <<log, alive, isWatched, oneSrvMu, target, got, wpc, from, pos>>
      BY <1>11 DEF LoadFill, LoadStops, Goto
    <3>5. pc' \in [Lookups \cup Loads \cup Unwatches -> CallSteps]
      BY <3>4 DEF IInv, Typed, CallSteps
    <3>6. todo' \in [Loads -> SUBSET Srvs] /\ mu' \in Loads \cup {None}
      <4>1. todo \in [Loads -> SUBSET Srvs] /\ mu \in Loads \cup {None}
        BY DEF IInv, Typed
      <4>2. todo[c] \ {s} \in SUBSET Srvs
        BY <4>1
      <4> QED
        BY <3>4, <4>1, <4>2
    <3> QED
      BY <3>3, <3>4, <3>5, <3>6 DEF IInv, Typed
  <2>2. LockOwners'
    <3>1. CASE Hooked
      BY <1>11, <3>1 DEF LoadFill, IInv, LockOwners
    <3>2. CASE ~Hooked
      <4>1. /\ pc[c] = "fill" /\ pc' = [pc EXCEPT ![c] = "failed"] /\ mu' = None
            /\ UNCHANGED <<target, oneSrvMu>>
        BY <1>11, <3>2 DEF LoadFill, LoadStops, Goto
      <4> QED
        BY <4>1 DEF IInv, Typed, LockOwners
    <3> QED
      BY <3>1, <3>2
  <2>3. Positions'
    BY <1>11, <1>1 DEF LoadFill, LoadStops, Goto, IInv, Typed, Positions
  <2>4. Unspawned'
    BY <1>11, <1>1 DEF LoadFill, LoadStops, Goto, IInv, Typed, Unspawned
  <2>5. OneWatcher'
    BY <1>11, <1>1 DEF LoadFill, LoadStops, Goto, IInv, Typed, Unspawned, OneWatcher, Active
  <2> QED
    BY <2>1, <2>2, <2>3, <2>4, <2>5 DEF IInv
<1>12. ASSUME NEW w \in Watchers, WatchCheck(w) PROVE IInv'
  <2>1. Typed'
    BY <1>12, <1>1 DEF WatchCheck, WGoto, IInv, Typed, CallSteps, WatchSteps
  <2>2. LockOwners'
    BY <1>12, <1>1 DEF WatchCheck, WGoto, IInv, Typed, LockOwners
  <2>3. Positions'
    BY <1>12, <1>1 DEF WatchCheck, WGoto, IInv, Typed, Positions
  <2>4. Unspawned'
    BY <1>12, <1>1 DEF WatchCheck, WGoto, IInv, Typed, Unspawned
  <2>5. OneWatcher'
    BY <1>12, <1>1 DEF WatchCheck, WGoto, IInv, Typed, Unspawned, OneWatcher, Active
  <2> QED
    BY <2>1, <2>2, <2>3, <2>4, <2>5 DEF IInv
<1>13. ASSUME NEW w \in Watchers, WatchLock(w) PROVE IInv'
  <2>1. Typed'
    BY <1>13, <1>1 DEF WatchLock, WGoto, IInv, Typed, CallSteps, WatchSteps
  <2>2. LockOwners'
    BY <1>13, <1>1 DEF WatchLock, WGoto, IInv, Typed, LockOwners
  <2>3. Positions'
    BY <1>13, <1>1 DEF WatchLock, WGoto, IInv, Typed, Positions
  <2>4. Unspawned'
    BY <1>13, <1>1 DEF WatchLock, WGoto, IInv, Typed, Unspawned
  <2>5. OneWatcher'
    BY <1>13, <1>1 DEF WatchLock, WGoto, IInv, Typed, Unspawned, OneWatcher, Active
  <2> QED
    BY <2>1, <2>2, <2>3, <2>4, <2>5 DEF IInv
<1>14. ASSUME NEW w \in Watchers, WatchOpen(w) PROVE IInv'
  <2>1. Typed'
    BY <1>14, <1>1 DEF WatchOpen, WGoto, IInv, Typed, CallSteps, WatchSteps
  <2>2. LockOwners'
    BY <1>14, <1>1 DEF WatchOpen, WGoto, IInv, Typed, LockOwners
  <2>3. Positions'
    BY <1>14, <1>1 DEF WatchOpen, WGoto, IInv, Typed, Positions
  <2>4. Unspawned'
    BY <1>14, <1>1 DEF WatchOpen, WGoto, IInv, Typed, Unspawned
  <2>5. OneWatcher'
    BY <1>14, <1>1 DEF WatchOpen, WGoto, IInv, Typed, Unspawned, OneWatcher, Active
  <2> QED
    BY <2>1, <2>2, <2>3, <2>4, <2>5 DEF IInv
<1>15. ASSUME NEW w \in Watchers, Receive(w) PROVE IInv'
  <2>1. Typed'
    BY <1>15, <1>1 DEF Receive, WGoto, IInv, Typed, CallSteps, WatchSteps
  <2>2. LockOwners'
    BY <1>15, <1>1 DEF Receive, WGoto, IInv, Typed, LockOwners
  <2>3. Positions'
    BY <1>15, <1>1 DEF Receive, WGoto, IInv, Typed, Positions
  <2>4. Unspawned'
    BY <1>15, <1>1 DEF Receive, WGoto, IInv, Typed, Unspawned
  <2>5. OneWatcher'
    BY <1>15, <1>1 DEF Receive, WGoto, IInv, Typed, Unspawned, OneWatcher, Active
  <2> QED
    BY <2>1, <2>2, <2>3, <2>4, <2>5 DEF IInv
<1>16. ASSUME NEW w \in Watchers, ApplyEvent(w) PROVE IInv'
  <2>1. Typed'
    <3>1. pos[w] \in 1 .. Len(log)
      BY <1>16, <1>1 DEF ApplyEvent, IInv, Typed, Positions
    <3>2. log[pos[w]].srv \in Srvs /\ pos[w] \in 0 .. MaxRevision
      BY <3>1, ChangeAt DEF IInv
    <3>0. /\ \/ srvMap' = srvMap
             \/ srvMap' = [srvMap EXCEPT ![log[pos[w]].srv] = pos[w]]
             \/ srvMap' = [srvMap EXCEPT ![log[pos[w]].srv] = 0]
          /\ pos' = pos \/ pos' = [pos EXCEPT ![w] = pos[w] + 1]
      BY <1>16 DEF ApplyEvent
    <3>6. srvMap \in [Srvs -> 0 .. MaxRevision] /\ pos \in [Watchers -> 0 .. MaxRevision + 1]
      BY DEF IInv, Typed
    <3>3. srvMap' \in [Srvs -> 0 .. MaxRevision]
      <4>1. 0 \in 0 .. MaxRevision
        OBVIOUS
      <4> QED
        BY <3>0, <3>2, <3>6, <4>1
    <3>4. wpc' \in [Watchers -> WatchSteps]
      <4>1. \/ wpc' = wpc
            \/ \E step \in WatchSteps : wpc' = [wpc EXCEPT ![w] = step]
        BY <1>16 DEF ApplyEvent, WGoto, WatchSteps
      <4>2. wpc \in [Watchers -> WatchSteps]
        BY DEF IInv, Typed
      <4> QED
        BY <4>1, <4>2
    <3>5. pos' \in [Watchers -> 0 .. MaxRevision + 1]
      <4>1. pos[w] + 1 \in 0 .. MaxRevision + 1
        BY <3>2
      <4> QED
        BY <3>0, <3>6, <4>1
    <3> QED
      BY <1>16, <3>3, <3>4, <3>5 DEF ApplyEvent, IInv, Typed
  <2>2. LockOwners'
    BY <1>16, <1>1 DEF ApplyEvent, WGoto, IInv, Typed, LockOwners
  <2>3. Positions'
    BY <1>16, <1>1 DEF ApplyEvent, WGoto, IInv, Typed, Positions
  <2>4. Unspawned'
    BY <1>16, <1>1 DEF ApplyEvent, WGoto, IInv, Typed, Unspawned
  <2>5. OneWatcher'
    <3>1. wpc[w] = "entry" /\ isWatched' = isWatched
      BY <1>16 DEF ApplyEvent
    <3>2. \E step \in {"select", "notify"} : wpc' = [wpc EXCEPT ![w] = step]
      BY <1>16 DEF ApplyEvent, WGoto
    <3>3. \A v \in Watchers : Active(v)' <=> Active(v)
      BY <3>1, <3>2 DEF Active, IInv, Typed
    <3> QED
      BY <3>1, <3>3 DEF IInv, OneWatcher
  <2> QED
    BY <2>1, <2>2, <2>3, <2>4, <2>5 DEF IInv
<1>17. ASSUME NEW w \in Watchers, Notify(w) PROVE IInv'
  <2>1. Typed'
    <3>1. pos[w] \in 1 .. Len(log)
      BY <1>17, <1>1 DEF Notify, IInv, Typed, Positions
    <3>2. log[pos[w]].srv \in Srvs /\ pos[w] \in 0 .. MaxRevision
      BY <3>1, ChangeAt DEF IInv
    <3>3. seen' \in [Srvs -> 0 .. MaxRevision]
      BY <1>17, <3>2 DEF Notify, IInv, Typed
    <3>4. wpc' \in [Watchers -> WatchSteps]
      BY <1>17 DEF Notify, WGoto, IInv, Typed, WatchSteps
    <3>5. pos' \in [Watchers -> 0 .. MaxRevision + 1]
      BY <1>17, <3>2 DEF Notify, IInv, Typed
    <3> QED
      BY <1>17, <3>3, <3>4, <3>5 DEF Notify, IInv, Typed
  <2>2. LockOwners'
    BY <1>17, <1>1 DEF Notify, WGoto, IInv, Typed, LockOwners
  <2>3. Positions'
    BY <1>17, <1>1 DEF Notify, WGoto, IInv, Typed, Positions
  <2>4. Unspawned'
    BY <1>17, <1>1 DEF Notify, WGoto, IInv, Typed, Unspawned
  <2>5. OneWatcher'
    BY <1>17, <1>1 DEF Notify, WGoto, IInv, Typed, Unspawned, OneWatcher, Active
  <2> QED
    BY <2>1, <2>2, <2>3, <2>4, <2>5 DEF IInv
<1>18. ASSUME NEW w \in Watchers, Closes(w) PROVE IInv'
  <2>1. Typed'
    BY <1>18, <1>1 DEF Closes, WGoto, IInv, Typed, CallSteps, WatchSteps
  <2>2. LockOwners'
    BY <1>18, <1>1 DEF Closes, WGoto, IInv, Typed, LockOwners
  <2>3. Positions'
    BY <1>18, <1>1 DEF Closes, WGoto, IInv, Typed, Positions
  <2>4. Unspawned'
    BY <1>18, <1>1 DEF Closes, WGoto, IInv, Typed, Unspawned
  <2>5. OneWatcher'
    BY <1>18, <1>1 DEF Closes, WGoto, IInv, Typed, Unspawned, OneWatcher, Active
  <2> QED
    BY <2>1, <2>2, <2>3, <2>4, <2>5 DEF IInv
<1>19. ASSUME NEW u \in Unwatches, Unwatch(u) PROVE IInv'
  <2>1. Typed'
    BY <1>19, <1>1 DEF Unwatch, Goto, IInv, Typed, CallSteps, WatchSteps
  <2>2. LockOwners'
    BY <1>19, <1>1 DEF Unwatch, Goto, IInv, Typed, LockOwners
  <2>3. Positions'
    BY <1>19, <1>1 DEF Unwatch, Goto, IInv, Typed, Positions
  <2>4. Unspawned'
    BY <1>19, <1>1 DEF Unwatch, Goto, IInv, Typed, Unspawned
  <2>5. OneWatcher'
    BY <1>19, <1>1 DEF Unwatch, Goto, IInv, Typed, Unspawned, OneWatcher, Active
  <2> QED
    BY <2>1, <2>2, <2>3, <2>4, <2>5 DEF IInv
<1>20. ASSUME NEW w \in Watchers, NEW u \in Unwatches, TakeUnwatch(w, u) PROVE IInv'
  <2>1. Typed'
    BY <1>20, <1>1 DEF TakeUnwatch, Goto, WGoto, IInv, Typed, CallSteps, WatchSteps
  <2>2. LockOwners'
    BY <1>20, <1>1 DEF TakeUnwatch, Goto, WGoto, IInv, Typed, LockOwners
  <2>3. Positions'
    BY <1>20, <1>1 DEF TakeUnwatch, Goto, WGoto, IInv, Typed, Positions
  <2>4. Unspawned'
    BY <1>20, <1>1 DEF TakeUnwatch, Goto, WGoto, IInv, Typed, Unspawned
  <2>5. OneWatcher'
    BY <1>20, <1>1 DEF TakeUnwatch, Goto, WGoto, IInv, Typed, Unspawned, OneWatcher, Active
  <2> QED
    BY <2>1, <2>2, <2>3, <2>4, <2>5 DEF IInv
<1>21. ASSUME NEW w \in Watchers, WatchOut(w) PROVE IInv'
  <2>1. Typed'
    <3>1. 0 \in 0 .. MaxRevision
      OBVIOUS
    <3>2. srvMap' \in [Srvs -> 0 .. MaxRevision]
      BY <1>21, <3>1 DEF WatchOut
    <3>3. wpc' \in [Watchers -> WatchSteps]
      BY <1>21 DEF WatchOut, WGoto, IInv, Typed, WatchSteps
    <3> QED
      BY <1>21, <3>2, <3>3 DEF WatchOut, IInv, Typed
  <2>2. LockOwners'
    BY <1>21, <1>1 DEF WatchOut, WGoto, IInv, Typed, LockOwners
  <2>3. Positions'
    BY <1>21, <1>1 DEF WatchOut, WGoto, IInv, Typed, Positions
  <2>4. Unspawned'
    BY <1>21, <1>1 DEF WatchOut, WGoto, IInv, Typed, Unspawned
  <2>5. OneWatcher'
    BY <1>21, <1>1 DEF WatchOut, WGoto, IInv, Typed, Unspawned, OneWatcher, Active
  <2> QED
    BY <2>1, <2>2, <2>3, <2>4, <2>5 DEF IInv
<1>22. ASSUME Abort PROVE IInv'
  <2>1. Typed'
    BY <1>22, <1>1 DEF Abort, IInv, Typed, CallSteps, WatchSteps
  <2>2. LockOwners'
    BY <1>22, <1>1 DEF Abort, IInv, Typed, LockOwners
  <2>3. Positions'
    BY <1>22, <1>1 DEF Abort, IInv, Typed, Positions
  <2>4. Unspawned'
    BY <1>22, <1>1 DEF Abort, IInv, Typed, Unspawned
  <2>5. OneWatcher'
    BY <1>22, <1>1 DEF Abort, IInv, Typed, Unspawned, OneWatcher, Active
  <2> QED
    BY <2>1, <2>2, <2>3, <2>4, <2>5 DEF IInv
<1>23. CASE UNCHANGED vars
  BY <1>23 DEF vars, IInv, Typed, LockOwners, Positions, Unspawned, OneWatcher, Active
<1> QED
  BY <1>2, <1>3, <1>4, <1>5, <1>6, <1>7, <1>8, <1>9, <1>10, <1>11, <1>12, <1>13, <1>14, <1>15,
     <1>16, <1>17, <1>18, <1>19, <1>20, <1>21, <1>22, <1>23
  DEF Next, CallStep, WatchStep

\* The invariant holds of every reachable state.
THEOREM Inductive == Spec => []IInv
<1> QED
  BY InitInv, StepInv, PTL DEF Spec

(***************************************************************************)
(* Every variable keeps its type, and d.mu and the services' locks are     *)
(* held exactly by the calls between taking and releasing them.            *)
(***************************************************************************)
THEOREM TypeCorrect == Spec => []TypeOK
<1> QED
  BY InvImpliesType, Inductive, PTL

(***************************************************************************)
(* The double check of watch() works: one watcher, and isWatched tells.    *)
(***************************************************************************)
THEOREM SingleWatcher == Spec => []OneWatcher
<1>1. IInv => OneWatcher
  BY DEF IInv
<1> QED
  BY <1>1, Inductive, PTL

-----------------------------------------------------------------------------
(***************************************************************************)
(* The inductive invariant of ConsumedIsApplied.  A Discover between its   *)
(* request and its store holds the service's lock, so its answer cannot be *)
(* older than an event the watcher has applied to that service meanwhile;  *)
(* a LoadAll holds d.mu, so no event later than its answer is received     *)
(* before it is done.                                                      *)
(***************************************************************************)
Live(w) == wpc[w] \in {"select", "entry", "notify"}

\* The first event the watcher has not applied.
Upto(w) == IF wpc[w] = "notify" THEN pos[w] + 1 ELSE pos[w]

\* r is an event of the watcher's stream that it has applied.
AppliedEvent(w, r) == Live(w) /\ from[w] <= r /\ r < Upto(w)

Value(r) == IF log[r].kind = "put" THEN r ELSE 0

Bounded == \A w \in Watchers : Live(w) => Upto(w) <= Now + 1

Cached == \A s \in Srvs : srvMap[s] # 0 => srvMap[s] \in ChangesOf(s, Now)

Fetched ==
  \A c \in Lookups : pc[c] = "fill" =>
    /\ got[c] \in ChangesOf(target[c], Now)
    /\ log[got[c]].kind = "put"
    /\ \A w \in Watchers, q \in ChangesOf(target[c], Now) :
         AppliedEvent(w, q) => q <= got[c]

Loaded ==
  \A c \in Loads : pc[c] = "fill" =>
    /\ got[c] <= Now
    /\ \A w \in Watchers :
         /\ wpc[w] = "entry" => pos[w] <= got[c]
         /\ \A q \in 1 .. Now : AppliedEvent(w, q) => q <= got[c]

Applied ==
  \A w \in Watchers, s \in Srvs, r \in 1 .. Now :
    IsLast(r, s, Now) /\ AppliedEvent(w, r) => srvMap[s] = Value(r)

FInv == Bounded /\ Cached /\ Fetched /\ Loaded /\ Applied

LEMMA FreshImplies == IInv /\ FInv => ConsumedIsApplied
<1> SUFFICES ASSUME IInv, FInv, NEW w \in Watchers, NEW s \in Srvs, NEW r \in 1 .. Now,
                    Live(w), Consumed(w, s, r)
             PROVE  srvMap[s] = Value(r)
  BY DEF ConsumedIsApplied, Live, Value
<1>1. pos[w] \in Int /\ r \in Int
  BY DEF IInv, Typed
<1>2. AppliedEvent(w, r)
  BY <1>1 DEF AppliedEvent, Consumed, Upto
<1> QED
  BY <1>2 DEF FInv, Applied, Consumed

\* Nothing is cached and nobody watches.
LEMMA InitFresh == Init => FInv
  BY DEF Init, FInv, Bounded, Cached, Fetched, Loaded, Applied, AppliedEvent, Live,
         Calls, Watchers

\* Positions are numbers.
LEMMA Numbers ==
  ASSUME IInv
  PROVE  /\ Now \in Nat
         /\ \A s \in Srvs : srvMap[s] \in Nat
         /\ \A c \in Calls : got[c] \in Nat
         /\ \A w \in Watchers : from[w] \in Nat /\ pos[w] \in Nat /\ Upto(w) \in Nat
  BY MaxRevisionAssumption DEF IInv, Typed, Revision, Upto

\* Steps that leave the history, the cache and the running watchers alone,
\* and bring no call to its store.
LEMMA FreshFrame ==
  ASSUME IInv, FInv,
         UNCHANGED <<log, srvMap>>,
         \A w \in Watchers : Live(w)' =>
            Live(w) /\ wpc'[w] = wpc[w] /\ from'[w] = from[w] /\ pos'[w] = pos[w],
         \A c \in Lookups : pc'[c] = "fill" =>
            pc[c] = "fill" /\ got'[c] = got[c] /\ target'[c] = target[c],
         \A c \in Loads : pc'[c] = "fill" => pc[c] = "fill" /\ got'[c] = got[c]
  PROVE  FInv'
<1>1. \A w \in Watchers : Live(w)' => Upto(w)' = Upto(w)
  BY DEF Upto
<1>2. \A w \in Watchers : \A r : AppliedEvent(w, r)' => AppliedEvent(w, r)
  BY <1>1 DEF AppliedEvent
<1>3. /\ Now' = Now /\ \A r : Value(r)' = Value(r)
      /\ \A s, n : ChangesOf(s, n)' = ChangesOf(s, n)
      /\ \A r, s, n : IsLast(r, s, n)' = IsLast(r, s, n)
  BY DEF Now, Value, ChangesOf, IsLast
<1>4. Bounded' /\ Cached'
  BY <1>1, <1>3 DEF FInv, Bounded, Cached
<1>5. Fetched'
  BY <1>2, <1>3 DEF FInv, Fetched, ChangesOf
<1>6. Loaded'
  BY <1>2, <1>3 DEF FInv, Loaded, Live
<1>7. Applied'
  BY <1>2, <1>3 DEF FInv, Applied
<1> QED
  BY <1>4, <1>5, <1>6, <1>7 DEF FInv

\* The calls and watchers that only move on, or stop.
LEMMA FreshMoves ==
  ASSUME IInv, FInv,
         \/ \E c \in Lookups, s \in Srvs : Lookup(c, s)
         \/ \E c \in Lookups : LookupLocked(c) \/ FetchFails(c)
         \/ \E c \in Loads : LoadBegin(c) \/ LoadGetFails(c) \/ LoadEnd(c)
         \/ \E c \in Loads, s \in Srvs : LoadJunk(c, s)
         \/ \E w \in Watchers : WatchCheck(w) \/ WatchLock(w) \/ Closes(w)
         \/ \E u \in Unwatches : Unwatch(u)
         \/ \E w \in Watchers, u \in Unwatches : TakeUnwatch(w, u)
         \/ Abort
         \/ UNCHANGED vars
  PROVE  FInv'
<1> USE CallsAssumption DEF Calls, Watchers, store, cache, locks, calls, streams, Goto, WGoto
<1>0. /\ pc \in [Calls -> CallSteps] /\ wpc \in [Watchers -> WatchSteps]
      /\ target \in [Lookups -> Srvs \cup {None}] /\ got \in [Calls -> Revision]
  BY DEF IInv, Typed
<1>1. ASSUME NEW c \in Lookups, NEW s \in Srvs, Lookup(c, s) PROVE FInv'
  BY <1>0, <1>1, FreshFrame DEF Lookup, Live
<1>2. ASSUME NEW c \in Lookups, LookupLocked(c) PROVE FInv'
  <2>1. wpc' = wpc \/ wpc' = [wpc EXCEPT ![c] = "start"]
    BY <1>2 DEF LookupLocked, SpawnWatch
  <2>2. \A w \in Watchers : Live(w)' => Live(w) /\ wpc'[w] = wpc[w]
    BY <1>0, <2>1 DEF Live
  <2>3. \A d \in Lookups \cup Loads : pc'[d] = "fill" => d # c /\ pc[d] = "fill"
    BY <1>0, <1>2 DEF LookupLocked
  <2>4. \A d \in Calls : d # c => got'[d] = got[d]
    BY <1>0, <1>2 DEF LookupLocked
  <2> QED
    BY <1>2, <2>2, <2>3, <2>4, FreshFrame DEF LookupLocked
<1>3. ASSUME NEW c \in Lookups, FetchFails(c) PROVE FInv'
  BY <1>0, <1>3, FreshFrame DEF FetchFails, Live
<1>4. ASSUME NEW c \in Loads, LoadBegin(c) PROVE FInv'
  <2>1. wpc' = wpc \/ wpc' = [wpc EXCEPT ![c] = "start"]
    BY <1>4 DEF LoadBegin, SpawnWatch
  <2>2. \A w \in Watchers : Live(w)' => Live(w) /\ wpc'[w] = wpc[w]
    BY <1>0, <2>1 DEF Live
  <2> QED
    BY <1>0, <1>4, <2>2, FreshFrame DEF LoadBegin
<1>5. ASSUME NEW c \in Loads,
             LoadGetFails(c) \/ LoadEnd(c) \/ \E s \in Srvs : LoadJunk(c, s)
      PROVE  FInv'
  BY <1>0, <1>5, FreshFrame DEF LoadGetFails, LoadEnd, LoadJunk, LoadStops, Live
<1>6. ASSUME NEW w \in Watchers, WatchCheck(w) \/ WatchLock(w) \/ Closes(w) PROVE FInv'
  BY <1>0, <1>6, FreshFrame DEF WatchCheck, WatchLock, Closes, Live
<1>7. ASSUME NEW u \in Unwatches, Unwatch(u) PROVE FInv'
  BY <1>0, <1>7, FreshFrame DEF Unwatch, Live
<1>8. ASSUME NEW w \in Watchers, NEW u \in Unwatches, TakeUnwatch(w, u) PROVE FInv'
  BY <1>0, <1>8, FreshFrame DEF TakeUnwatch, Live
<1>9. CASE Abort \/ UNCHANGED vars
  BY <1>9, FreshFrame DEF Abort, vars, Live
<1> QED
  BY <1>1, <1>2, <1>3, <1>4, <1>5, <1>6, <1>7, <1>8, <1>9

\* A new change is nobody's yet.
LEMMA FreshWrite ==
  ASSUME IInv, FInv, NEW s \in Srvs, NEW k \in {"put", "junk", "delete"}, Write(s, k)
  PROVE  FInv'
<1>1. UNCHANGED <<srvMap, pc, target, got, wpc, from, pos>>
  BY DEF Write, cache, calls, streams
<1>2. /\ Now' = Now + 1 /\ Now \in Nat
      /\ \A q \in 1 .. Now : log'[q] = log[q]
      /\ log'[Now + 1] = [srv |-> s, kind |-> k]
  BY DEF Write, Now, IInv, Typed
<1>3. \A t : \A q \in 1 .. Now : q \in ChangesOf(t, Now)' <=> q \in ChangesOf(t, Now)
  BY <1>2 DEF ChangesOf
<1>4. \A w \in Watchers : \A q : AppliedEvent(w, q)' <=> AppliedEvent(w, q)
  BY <1>1 DEF AppliedEvent, Live, Upto
<1>5. \A w \in Watchers, q \in 1 .. Now' : AppliedEvent(w, q) => q \in 1 .. Now
  BY <1>2, Numbers DEF FInv, Bounded, AppliedEvent
<1>6. \A t : ChangesOf(t, Now)' \subseteq 1 .. Now'
  BY DEF ChangesOf, Now
<1>7. \A t : ChangesOf(t, Now) \subseteq 1 .. Now
  BY DEF ChangesOf
<1>8. Bounded'
  BY <1>1, <1>2, Numbers DEF FInv, Bounded, Live, Upto
<1>9. Cached'
  BY <1>1, <1>2, <1>3, <1>7 DEF FInv, Cached
<1>10. Fetched'
  <2> SUFFICES ASSUME NEW c \in Lookups, pc[c] = "fill"
               PROVE  /\ got[c] \in ChangesOf(target[c], Now)'
                      /\ log'[got[c]].kind = "put"
                      /\ \A w \in Watchers, q \in ChangesOf(target[c], Now)' :
                           AppliedEvent(w, q) => q <= got[c]
    BY <1>1, <1>4 DEF Fetched
  <2>1. /\ got[c] \in ChangesOf(target[c], Now) /\ log[got[c]].kind = "put"
        /\ \A w \in Watchers, q \in ChangesOf(target[c], Now) :
             AppliedEvent(w, q) => q <= got[c]
    BY DEF FInv, Fetched
  <2>2. got[c] \in 1 .. Now
    BY <1>7, <2>1
  <2>3. got[c] \in ChangesOf(target[c], Now)' /\ log'[got[c]].kind = "put"
    BY <1>1, <1>2, <1>3, <2>1, <2>2 DEF ChangesOf
  <2>4. ASSUME NEW w \in Watchers, NEW q \in ChangesOf(target[c], Now)',
               AppliedEvent(w, q)
        PROVE  q <= got[c]
    <3>1. q \in 1 .. Now
      BY <1>5, <1>6, <2>4
    <3>2. q \in ChangesOf(target[c], Now)
      BY <1>1, <1>3, <2>4, <3>1 DEF ChangesOf
    <3> QED
      BY <2>1, <2>4, <3>2
  <2> QED
    BY <2>3, <2>4
<1>11. Loaded'
  BY <1>1, <1>2, <1>4, <1>5, Numbers DEF FInv, Loaded, Calls
<1>12. Applied'
  <2> SUFFICES ASSUME NEW w \in Watchers, NEW t \in Srvs, NEW r \in 1 .. Now',
                      IsLast(r, t, Now)', AppliedEvent(w, r)
               PROVE  srvMap[t] = Value(r)'
    BY <1>1, <1>4 DEF Applied
  <2>1. r \in 1 .. Now
    BY <1>5
  <2>2. IsLast(r, t, Now)
    <3>1. r \in ChangesOf(t, Now)' /\ \A q \in ChangesOf(t, Now)' : q <= r
      BY DEF IsLast
    <3> QED
      BY <1>3, <1>7, <2>1, <3>1 DEF IsLast
  <2>3. Value(r)' = Value(r)
    BY <1>2, <2>1 DEF Value
  <2> QED
    BY <2>1, <2>2, <2>3 DEF FInv, Applied
<1> QED
  BY <1>8, <1>9, <1>10, <1>11, <1>12 DEF FInv

\* The newest change of a service is one.
LEMMA LastUnique ==
  ASSUME NEW s, NEW r, IsLast(r, s, Now), NEW q \in ChangesOf(s, Now), r <= q
  PROVE  r = q
<1>1. r \in 1 .. Now /\ q \in 1 .. Now /\ q <= r
  BY DEF IsLast, ChangesOf
<1> QED
  BY <1>1 DEF ChangesOf

\* What a Discover fetches is at least as new as all that was applied.
LEMMA FreshFetch ==
  ASSUME IInv, FInv, NEW c \in Lookups, Fetch(c)
  PROVE  FInv'
<1>1. /\ UNCHANGED <<log, srvMap, target, wpc, from, pos>>
      /\ pc' = [pc EXCEPT ![c] = "fill"]
      /\ pc \in [Calls -> CallSteps] /\ got \in [Calls -> Revision]
  BY DEF Fetch, Goto, cache, streams, IInv, Typed, store
<1>2. PICK r \in 1 .. Now : /\ IsLast(r, target[c], Now)
                            /\ log[r].kind = "put"
                            /\ got' = [got EXCEPT ![c] = r]
  BY DEF Fetch
<1>3. /\ \A d \in Calls : d # c => pc'[d] = pc[d] /\ got'[d] = got[d]
      /\ got'[c] = r
  BY <1>1, <1>2 DEF Calls
<1>4. /\ Now' = Now /\ \A q : Value(q)' = Value(q)
      /\ \A s : ChangesOf(s, Now)' = ChangesOf(s, Now)
      /\ \A q, s : IsLast(q, s, Now)' = IsLast(q, s, Now)
      /\ \A w \in Watchers : Upto(w)' = Upto(w) /\ Live(w)' = Live(w)
      /\ \A w \in Watchers : \A q : AppliedEvent(w, q)' = AppliedEvent(w, q)
  BY <1>1 DEF Now, Value, ChangesOf, IsLast, AppliedEvent, Live, Upto
<1>5. Bounded' /\ Cached' /\ Applied'
  BY <1>1, <1>4 DEF FInv, Bounded, Cached, Applied
<1>6. Fetched'
  <2> SUFFICES ASSUME NEW d \in Lookups, pc'[d] = "fill"
               PROVE  /\ got'[d] \in ChangesOf(target[d], Now)
                      /\ log[got'[d]].kind = "put"
                      /\ \A w \in Watchers, q \in ChangesOf(target[d], Now) :
                           AppliedEvent(w, q) => q <= got'[d]
    BY <1>1, <1>4 DEF Fetched
  <2>1. CASE d = c
    BY <1>2, <1>3, <2>1 DEF IsLast
  <2>2. CASE d # c
    BY <1>3, <2>2 DEF FInv, Fetched, Calls
  <2> QED
    BY <2>1, <2>2
<1>7. Loaded'
  BY <1>1, <1>3, <1>4, CallsAssumption DEF FInv, Loaded, Calls
<1> QED
  BY <1>5, <1>6, <1>7 DEF FInv

\* A Discover stores what is at least as new as all that was applied.
LEMMA FreshFill ==
  ASSUME IInv, FInv, NEW c \in Lookups, Fill(c)
  PROVE  FInv'
<1> DEFINE t == target[c]
<1>1. /\ pc[c] = "fill"
      /\ UNCHANGED <<log, got, target, wpc, from, pos>>
      /\ pc' = [pc EXCEPT ![c] = "done"]
      /\ srvMap' = [srvMap EXCEPT ![t] = got[c]]
      /\ pc \in [Calls -> CallSteps] /\ srvMap \in [Srvs -> Revision]
  BY DEF Fill, Goto, streams, IInv, Typed, store
<1>2. t \in Srvs
  BY <1>1 DEF IInv, LockOwners
<1>3. /\ got[c] \in ChangesOf(t, Now) /\ log[got[c]].kind = "put"
      /\ \A w \in Watchers, q \in ChangesOf(t, Now) : AppliedEvent(w, q) => q <= got[c]
  BY <1>1 DEF FInv, Fetched
<1>4. /\ Now' = Now /\ \A q : Value(q)' = Value(q)
      /\ \A s : ChangesOf(s, Now)' = ChangesOf(s, Now)
      /\ \A q, s : IsLast(q, s, Now)' = IsLast(q, s, Now)
      /\ \A w \in Watchers : Upto(w)' = Upto(w) /\ Live(w)' = Live(w)
      /\ \A w \in Watchers : \A q : AppliedEvent(w, q)' = AppliedEvent(w, q)
  BY <1>1 DEF Now, Value, ChangesOf, IsLast, AppliedEvent, Live, Upto
<1>5. \A s \in Srvs : srvMap'[s] = IF s = t THEN got[c] ELSE srvMap[s]
  BY <1>1
<1>6. \A d \in Calls : pc'[d] = "fill" => pc[d] = "fill"
  BY <1>1
<1>7. Bounded' /\ Cached'
  BY <1>3, <1>4, <1>5 DEF FInv, Bounded, Cached
<1>8. Fetched' /\ Loaded'
  BY <1>1, <1>4, <1>6 DEF FInv, Fetched, Loaded, Calls
<1>9. Applied'
  <2> SUFFICES ASSUME NEW w \in Watchers, NEW s \in Srvs, NEW r \in 1 .. Now,
                      IsLast(r, s, Now), AppliedEvent(w, r)
               PROVE  srvMap'[s] = Value(r)
    BY <1>4 DEF Applied
  <2>1. CASE s = t
    <3>1. r <= got[c]
      BY <1>3, <2>1 DEF IsLast
    <3>2. r = got[c]
      BY <1>3, <2>1, <3>1, LastUnique
    <3> QED
      BY <1>3, <1>5, <2>1, <3>2 DEF Value
  <2>2. CASE s # t
    BY <1>5, <2>2 DEF FInv, Applied
  <2> QED
    BY <2>1, <2>2
<1> QED
  BY <1>7, <1>8, <1>9 DEF FInv

\* A LoadAll asks etcd with d.mu in its hands: all that was received is older
\* than its answer.
LEMMA FreshLoadGet ==
  ASSUME IInv, FInv, NEW c \in Loads, LoadGet(c)
  PROVE  FInv'
<1>1. /\ UNCHANGED <<log, srvMap, target, wpc, from, pos>>
      /\ pc' = [pc EXCEPT ![c] = "fill"] /\ got' = [got EXCEPT ![c] = Now]
      /\ pc \in [Calls -> CallSteps] /\ got \in [Calls -> Revision]
  BY DEF LoadGet, Goto, cache, streams, IInv, Typed, store
<1>2. /\ Now' = Now /\ \A q : Value(q)' = Value(q)
      /\ \A s : ChangesOf(s, Now)' = ChangesOf(s, Now)
      /\ \A q, s : IsLast(q, s, Now)' = IsLast(q, s, Now)
      /\ \A w \in Watchers : Upto(w)' = Upto(w) /\ Live(w)' = Live(w)
      /\ \A w \in Watchers : \A q : AppliedEvent(w, q)' = AppliedEvent(w, q)
  BY <1>1 DEF Now, Value, ChangesOf, IsLast, AppliedEvent, Live, Upto
<1>3. \A d \in Calls : d # c => pc'[d] = pc[d] /\ got'[d] = got[d]
  BY <1>1 DEF Calls
<1>4. Bounded' /\ Cached' /\ Applied'
  BY <1>1, <1>2 DEF FInv, Bounded, Cached, Applied
<1>5. Fetched'
  BY <1>1, <1>2, <1>3, CallsAssumption DEF FInv, Fetched, Calls, ChangesOf
<1>6. Loaded'
  <2> SUFFICES ASSUME NEW d \in Loads, pc'[d] = "fill"
               PROVE  /\ got'[d] <= Now
                      /\ \A w \in Watchers :
                           /\ wpc[w] = "entry" => pos[w] <= got'[d]
                           /\ \A q \in 1 .. Now : AppliedEvent(w, q) => q <= got'[d]
    BY <1>1, <1>2 DEF Loaded
  <2>1. CASE d = c
    <3>1. got'[d] = Now /\ Now \in Nat
      BY <1>1, <2>1, Numbers DEF Calls
    <3>2. \A w \in Watchers : wpc[w] = "entry" => pos[w] <= Now
      BY DEF IInv, Positions
    <3> QED
      BY <3>1, <3>2
  <2>2. CASE d # c
    BY <1>3, <2>2 DEF FInv, Loaded, Calls
  <2> QED
    BY <2>1, <2>2
<1> QED
  BY <1>4, <1>5, <1>6 DEF FInv

\* What a LoadAll stores is at least as new as all that was applied.
LEMMA FreshLoadFill ==
  ASSUME IInv, FInv, NEW c \in Loads, NEW t \in Srvs, LoadFill(c, t)
  PROVE  FInv'
<1>1. /\ pc[c] = "fill"
      /\ UNCHANGED <<log, got, target, wpc, from, pos>>
      /\ pc' = pc \/ pc' = [pc EXCEPT ![c] = "failed"]
      /\ pc \in [Calls -> CallSteps] /\ srvMap \in [Srvs -> Revision]
  BY DEF LoadFill, LoadStops, Goto, streams, IInv, Typed, store
<1>2. PICK last \in 1 .. Now : /\ IsLast(last, t, got[c])
                               /\ log[last].kind = "put"
                               /\ srvMap' = [srvMap EXCEPT ![t] = last]
  BY DEF LoadFill
<1>3. /\ got[c] <= Now /\ got[c] \in Nat /\ Now \in Nat
      /\ \A w \in Watchers, q \in 1 .. Now : AppliedEvent(w, q) => q <= got[c]
  BY <1>1, Numbers DEF FInv, Loaded, Calls
<1>4. /\ Now' = Now /\ \A q : Value(q)' = Value(q)
      /\ \A s : ChangesOf(s, Now)' = ChangesOf(s, Now)
      /\ \A q, s : IsLast(q, s, Now)' = IsLast(q, s, Now)
      /\ \A w \in Watchers : Upto(w)' = Upto(w) /\ Live(w)' = Live(w)
      /\ \A w \in Watchers : \A q : AppliedEvent(w, q)' = AppliedEvent(w, q)
  BY <1>1 DEF Now, Value, ChangesOf, IsLast, AppliedEvent, Live, Upto
<1>5. \A s \in Srvs : srvMap'[s] = IF s = t THEN last ELSE srvMap[s]
  BY <1>1, <1>2
<1>6. \A d \in Calls : pc'[d] = "fill" => pc[d] = "fill"
  BY <1>1
<1>7. last \in ChangesOf(t, Now)
  BY <1>2 DEF IsLast, ChangesOf
<1>8. Bounded' /\ Cached'
  BY <1>4, <1>5, <1>7 DEF FInv, Bounded, Cached
<1>9. Fetched' /\ Loaded'
  BY <1>1, <1>4, <1>6 DEF FInv, Fetched, Loaded, Calls
<1>10. Applied'
  <2> SUFFICES ASSUME NEW w \in Watchers, NEW s \in Srvs, NEW r \in 1 .. Now,
                      IsLast(r, s, Now), AppliedEvent(w, r)
               PROVE  srvMap'[s] = Value(r)
    BY <1>4 DEF Applied
  <2>1. CASE s = t
    <3>1. r <= got[c]
      BY <1>3
    <3>2. r \in ChangesOf(t, got[c])
      BY <1>3, <2>1, <3>1 DEF IsLast, ChangesOf
    <3>3. r <= last
      BY <1>2, <3>2 DEF IsLast
    <3>4. r = last
      BY <1>7, <2>1, <3>3, LastUnique
    <3> QED
      BY <1>2, <1>5, <2>1, <3>4 DEF Value
  <2>2. CASE s # t
    BY <1>5, <2>2 DEF FInv, Applied
  <2> QED
    BY <2>1, <2>2
<1> QED
  BY <1>8, <1>9, <1>10 DEF FInv

\* A stream that has just begun has nothing applied, and nothing is received
\* while a LoadAll is under way.
LEMMA FreshStream ==
  ASSUME IInv, FInv, NEW w \in Watchers, WatchOpen(w) \/ Receive(w)
  PROVE  FInv'
<1>1. /\ UNCHANGED <<log, srvMap, pc, got, target>>
      /\ wpc \in [Watchers -> WatchSteps]
      /\ from \in [Watchers -> 0 .. MaxRevision + 1]
      /\ pos \in [Watchers -> 0 .. MaxRevision + 1]
  BY DEF WatchOpen, Receive, cache, calls, streams, IInv, Typed, store
<1>2. /\ Now' = Now /\ \A q : Value(q)' = Value(q)
      /\ \A s : ChangesOf(s, Now)' = ChangesOf(s, Now)
      /\ \A q, s : IsLast(q, s, Now)' = IsLast(q, s, Now)
  BY <1>1 DEF Now, Value, ChangesOf, IsLast
<1>3. \A v \in Watchers : v # w =>
        wpc'[v] = wpc[v] /\ from'[v] = from[v] /\ pos'[v] = pos[v]
  BY <1>1 DEF WatchOpen, Receive, WGoto, streams
<1>4. Upto(w)' <= Now + 1
  <2>1. CASE WatchOpen(w)
    BY <1>1, <2>1, Numbers DEF WatchOpen, WGoto, Upto
  <2>2. CASE Receive(w)
    BY <1>1, <2>2, Numbers DEF Receive, WGoto, Upto, streams
  <2> QED
    BY <2>1, <2>2
<1>5. \A v \in Watchers, q \in 1 .. Now : AppliedEvent(v, q)' => AppliedEvent(v, q)
  <2>1. \A v \in Watchers, q \in 1 .. Now :
          v # w => (AppliedEvent(v, q)' <=> AppliedEvent(v, q))
    BY <1>3 DEF AppliedEvent, Live, Upto
  <2>2. CASE WatchOpen(w)
    <3>1. wpc'[w] = "select" /\ from'[w] = Now + 1
      BY <1>1, <2>2 DEF WatchOpen, WGoto
    <3>2. \A q \in 1 .. Now : ~AppliedEvent(w, q)'
      BY <3>1, Numbers DEF AppliedEvent
    <3> QED
      BY <2>1, <3>2
  <2>3. CASE Receive(w)
    <3>1. /\ wpc[w] = "select" /\ wpc'[w] = "entry"
          /\ from' = from /\ pos' = pos
      BY <1>1, <2>3 DEF Receive, WGoto, streams
    <3>2. \A q \in 1 .. Now : AppliedEvent(w, q)' <=> AppliedEvent(w, q)
      BY <3>1 DEF AppliedEvent, Live, Upto
    <3> QED
      BY <2>1, <3>2
  <2> QED
    BY <2>2, <2>3
<1>6. \A c \in Loads, v \in Watchers :
        pc[c] = "fill" /\ wpc'[v] = "entry" => wpc[v] = "entry" /\ pos'[v] = pos[v]
  <2>1. CASE WatchOpen(w)
    BY <1>1, <1>3, <2>1 DEF WatchOpen, WGoto
  <2>2. CASE Receive(w)
    <3>1. \A c \in Loads : pc[c] # "fill"
      BY <2>2, CallsAssumption DEF Receive, IInv, LockOwners, Calls
    <3> QED
      BY <3>1
  <2> QED
    BY <2>1, <2>2
<1>7. Bounded'
  BY <1>2, <1>3, <1>4 DEF FInv, Bounded, Live, Upto
<1>8. Cached' /\ Applied'
  BY <1>1, <1>2, <1>5 DEF FInv, Cached, Applied
<1>9. Fetched'
  BY <1>1, <1>2, <1>5 DEF FInv, Fetched, ChangesOf
<1>10. Loaded'
  BY <1>1, <1>2, <1>5, <1>6 DEF FInv, Loaded
<1> QED
  BY <1>7, <1>8, <1>9, <1>10 DEF FInv

\* An event is applied while no Discover of its service, and no LoadAll that
\* started before it was received, is about to store; an event that is skipped
\* is not the newest.
LEMMA FreshApply ==
  ASSUME IInv, FInv, NEW w \in Watchers, ApplyEvent(w)
  PROVE  FInv'
<1> DEFINE r == pos[w]
           t == log[r].srv
<1>1. /\ wpc[w] = "entry" /\ oneSrvMu[t] = None
      /\ UNCHANGED <<log, pc, got, target, from>>
      /\ wpc \in [Watchers -> WatchSteps]
      /\ pos \in [Watchers -> 0 .. MaxRevision + 1]
      /\ srvMap \in [Srvs -> Revision]
  BY DEF ApplyEvent, calls, IInv, Typed, store
<1>2. /\ Now' = Now /\ \A q : Value(q)' = Value(q)
      /\ \A s : ChangesOf(s, Now)' = ChangesOf(s, Now)
      /\ \A q, s : IsLast(q, s, Now)' = IsLast(q, s, Now)
  BY <1>1 DEF Now, Value, ChangesOf, IsLast
<1>3. r \in 1 .. Now /\ Now \in Nat /\ t \in Srvs
  <2>1. r \in 1 .. Now
    BY <1>1, Numbers DEF IInv, Positions
  <2> QED
    BY <2>1, Numbers, ChangeAt DEF IInv
<1>4. /\ wpc'[w] \in {"select", "notify"}
      /\ Upto(w)' = r + 1 /\ Upto(w) = r
      /\ \A v \in Watchers : v # w => wpc'[v] = wpc[v] /\ pos'[v] = pos[v]
  BY <1>1 DEF ApplyEvent, WGoto, Upto
<1>5. \/ srvMap' = srvMap /\ Skipped(t, r)
      \/ srvMap' = [srvMap EXCEPT ![t] = Value(r)]
  BY DEF ApplyEvent, Value
<1>6. \A v \in Watchers : v # w => ~Live(v)' /\ wpc'[v] # "entry"
  BY <1>1, <1>4 DEF IInv, OneWatcher, Active, Live
<1>7. \A q \in 1 .. Now : AppliedEvent(w, q)' => AppliedEvent(w, q) \/ q = r
  BY <1>1, <1>3, <1>4 DEF AppliedEvent, Live
<1>8. Bounded'
  BY <1>2, <1>3, <1>4, <1>6 DEF Bounded
<1>9. Cached'
  <2>1. r \in ChangesOf(t, Now)
    BY <1>3 DEF ChangesOf
  <2>2. \A s \in Srvs : srvMap'[s] = srvMap[s] \/ (s = t /\ srvMap'[s] = Value(r))
    BY <1>1, <1>5
  <2> QED
    BY <1>2, <2>1, <2>2 DEF FInv, Cached, Value
<1>10. Fetched'
  <2> SUFFICES ASSUME NEW c \in Lookups, pc[c] = "fill"
               PROVE  /\ got[c] \in ChangesOf(target[c], Now)
                      /\ log[got[c]].kind = "put"
                      /\ \A v \in Watchers, q \in ChangesOf(target[c], Now) :
                           AppliedEvent(v, q)' => q <= got[c]
    BY <1>1, <1>2 DEF Fetched, ChangesOf
  <2>1. target[c] # t
    BY <1>1, CallsAssumption DEF IInv, LockOwners, Calls
  <2>2. ASSUME NEW v \in Watchers, NEW q \in ChangesOf(target[c], Now), AppliedEvent(v, q)'
        PROVE  q <= got[c]
    <3>1. v = w
      BY <1>6, <2>2 DEF AppliedEvent
    <3>2. q \in 1 .. Now /\ q # r
      BY <2>1 DEF ChangesOf
    <3> QED
      BY <1>7, <2>2, <3>1, <3>2 DEF FInv, Fetched
  <2> QED
    BY <2>2 DEF FInv, Fetched
<1>11. Loaded'
  <2> SUFFICES ASSUME NEW c \in Loads, pc[c] = "fill"
               PROVE  /\ got[c] <= Now
                      /\ \A v \in Watchers :
                           /\ wpc'[v] = "entry" => pos'[v] <= got[c]
                           /\ \A q \in 1 .. Now : AppliedEvent(v, q)' => q <= got[c]
    BY <1>1, <1>2 DEF Loaded
  <2>1. /\ got[c] <= Now /\ r <= got[c]
        /\ \A q \in 1 .. Now : AppliedEvent(w, q) => q <= got[c]
    BY <1>1 DEF FInv, Loaded
  <2>2. \A v \in Watchers : wpc'[v] # "entry"
    BY <1>4, <1>6
  <2>3. \A v \in Watchers, q \in 1 .. Now : AppliedEvent(v, q)' => q <= got[c]
    BY <1>6, <1>7, <2>1 DEF AppliedEvent
  <2> QED
    BY <2>1, <2>2, <2>3
<1>12. Applied'
  <2> SUFFICES ASSUME NEW v \in Watchers, NEW s \in Srvs, NEW q \in 1 .. Now,
                      IsLast(q, s, Now), AppliedEvent(v, q)'
               PROVE  srvMap'[s] = Value(q)
    BY <1>2 DEF Applied
  <2>1. v = w
    BY <1>6 DEF AppliedEvent
  <2>2. CASE q = r
    <3>1. s = t
      BY <2>2 DEF IsLast, ChangesOf
    <3>2. ~Skipped(t, r)
      <4>1. srvMap[t] \in Nat /\ (srvMap[t] # 0 => srvMap[t] \in ChangesOf(t, Now))
        BY <1>3, Numbers DEF FInv, Cached
      <4>2. \A p \in ChangesOf(t, Now) : p <= r
        BY <2>2, <3>1 DEF IsLast
      <4> QED
        BY <1>3, <4>1, <4>2 DEF Skipped
    <3> QED
      BY <1>1, <1>3, <1>5, <2>2, <3>1, <3>2
  <2>3. CASE q # r
    <3>1. AppliedEvent(w, q)
      BY <1>7, <2>1, <2>3
    <3>2. srvMap[s] = Value(q)
      BY <3>1 DEF FInv, Applied
    <3>3. q < r
      BY <1>4, <3>1 DEF AppliedEvent
    <3>4. s # t
      <4>1. t = s => r \in ChangesOf(s, Now)
        BY <1>3 DEF ChangesOf
      <4> QED
        BY <1>3, <3>3, <4>1 DEF IsLast
    <3> QED
      BY <1>1, <1>5, <3>2, <3>4
  <2> QED
    BY <2>2, <2>3
<1> QED
  BY <1>8, <1>9, <1>10, <1>11, <1>12 DEF FInv

\* After the callback the event is as applied as before.
LEMMA FreshNotify ==
  ASSUME IInv, FInv, NEW w \in Watchers, Notify(w)
  PROVE  FInv'
<1>1. /\ UNCHANGED <<log, srvMap, pc, got, target, from>>
      /\ wpc[w] = "notify" /\ wpc' = [wpc EXCEPT ![w] = "select"]
      /\ pos' = [pos EXCEPT ![w] = pos[w] + 1]
      /\ wpc \in [Watchers -> WatchSteps]
      /\ pos \in [Watchers -> 0 .. MaxRevision + 1]
  BY DEF Notify, WGoto, calls, IInv, Typed, store
<1>2. /\ \A v \in Watchers : Upto(v)' = Upto(v) /\ Live(v)' = Live(v)
      /\ \A v \in Watchers : wpc'[v] = "entry" => wpc[v] = "entry" /\ pos'[v] = pos[v]
  BY <1>1 DEF Upto, Live
<1>3. \A v \in Watchers : \A q : AppliedEvent(v, q)' = AppliedEvent(v, q)
  BY <1>1, <1>2 DEF AppliedEvent
<1>4. /\ Now' = Now /\ \A q : Value(q)' = Value(q)
      /\ \A s : ChangesOf(s, Now)' = ChangesOf(s, Now)
      /\ \A q, s : IsLast(q, s, Now)' = IsLast(q, s, Now)
  BY <1>1 DEF Now, Value, ChangesOf, IsLast
<1>5. Bounded' /\ Cached' /\ Applied'
  BY <1>1, <1>2, <1>3, <1>4 DEF FInv, Bounded, Cached, Applied
<1>6. Fetched' /\ Loaded'
  BY <1>1, <1>2, <1>3, <1>4 DEF FInv, Fetched, Loaded, ChangesOf
<1> QED
  BY <1>5, <1>6 DEF FInv

\* A watcher that leaves an empty cache was the only one.
LEMMA FreshOut ==
  ASSUME IInv, FInv, NEW w \in Watchers, WatchOut(w)
  PROVE  FInv'
<1>1. /\ UNCHANGED <<log, pc, got, target, from, pos>>
      /\ wpc[w] = "out" /\ wpc' = [wpc EXCEPT ![w] = "done"]
      /\ srvMap' = [s \in Srvs |-> 0]
      /\ wpc \in [Watchers -> WatchSteps]
  BY DEF WatchOut, WGoto, calls, streams, IInv, Typed, store
<1>2. \A v \in Watchers : ~Live(v)'
  BY <1>1 DEF IInv, OneWatcher, Active, Live
<1>3. \A c \in Loads : pc[c] = "fill" => got[c] <= Now
  BY DEF FInv, Loaded
<1>4. \A v \in Watchers : wpc'[v] # "entry"
  BY <1>2 DEF Live
<1>5. Now' = Now /\ \A s : ChangesOf(s, Now)' = ChangesOf(s, Now)
  BY <1>1 DEF Now, ChangesOf
<1>6. Bounded' /\ Cached' /\ Applied'
  BY <1>1, <1>2 DEF Bounded, Cached, Applied, AppliedEvent
<1>7. Fetched'
  BY <1>1, <1>2, <1>5 DEF FInv, Fetched, AppliedEvent, ChangesOf
<1>8. Loaded'
  BY <1>1, <1>2, <1>3, <1>4, <1>5 DEF Loaded, AppliedEvent
<1> QED
  BY <1>6, <1>7, <1>8 DEF FInv

\* Every step keeps the cache as fresh as the watcher is.
LEMMA FreshStep == IInv /\ FInv /\ [Next]_vars => FInv'
<1> SUFFICES ASSUME IInv, FInv, [Next]_vars PROVE FInv'
  OBVIOUS
<1> QED
  BY FreshMoves, FreshWrite, FreshFetch, FreshFill, FreshLoadGet, FreshLoadFill,
     FreshStream, FreshApply, FreshNotify, FreshOut
  DEF Next, CallStep, WatchStep, Watchers

(***************************************************************************)
(* Once the running watcher is past the newest change of a service, the    *)
(* cache holds that change, whatever Discover and LoadAll are doing.       *)
(***************************************************************************)
THEOREM Freshness == Spec => []ConsumedIsApplied
<1> QED
  BY InitFresh, FreshStep, FreshImplies, Inductive, PTL DEF Spec
-----------------------------------------------------------------------------
(***************************************************************************)
(* The inductive invariant of CachedIsWatched: whoever is about to store,  *)
(* not only what is stored, has a watcher running or about to run, unless  *)
(* an Unwatch has been taken; and a watcher leaves only when one has.      *)
(***************************************************************************)
Unwatched == \E u \in Unwatches : pc[u] = "done"

Watchable == isWatched \/ (\E w \in Watchers : wpc[w] \in {"start", "lock"}) \/ Unwatched

OutIsAsked == \A w \in Watchers : wpc[w] = "out" => Unwatched

Storable ==
  \/ \E s \in Srvs : srvMap[s] # 0
  \/ \E c \in Lookups \cup Loads : pc[c] \in {"get", "fill"}

WInv == OutIsAsked /\ (Storable => Watchable)

LEMMA WatchedImplies == WInv => CachedIsWatched
  BY DEF WInv, Storable, Watchable, Unwatched, CachedIsWatched

LEMMA InitWatched == Init => WInv
  BY DEF Init, WInv, OutIsAsked, Storable, Calls, Watchers

\* Steps that stop no watcher, store nothing and begin no request.
LEMMA WatchedFrame ==
  ASSUME WInv,
         Unwatched => Unwatched',
         isWatched => isWatched',
         \A w \in Watchers : wpc[w] \in {"start", "lock"} =>
            isWatched' \/ wpc'[w] \in {"start", "lock"},
         \A w \in Watchers : wpc'[w] = "out" => wpc[w] = "out" \/ Unwatched',
         Storable' => Storable \/ Watchable'
  PROVE  WInv'
<1>1. Watchable => Watchable'
  BY DEF Watchable
<1> QED
  BY <1>1 DEF WInv, OutIsAsked

LEMMA WatchedStep == IInv /\ WInv /\ [Next]_vars => WInv'
<1> SUFFICES ASSUME IInv, WInv, [Next]_vars PROVE WInv'
  OBVIOUS
<1> USE CallsAssumption DEF Calls, Watchers, store, cache, locks, calls, streams, Goto, WGoto
<1>0. /\ pc \in [Calls -> CallSteps] /\ wpc \in [Watchers -> WatchSteps]
      /\ srvMap \in [Srvs -> Revision] /\ isWatched \in BOOLEAN
  BY DEF IInv, Typed
<1>1. ASSUME NEW s \in Srvs, NEW k \in {"put", "junk", "delete"}, Write(s, k) PROVE WInv'
  BY <1>1, WatchedFrame DEF Write, Unwatched, Storable
<1>2. ASSUME NEW c \in Lookups, NEW s \in Srvs, Lookup(c, s) PROVE WInv'
  BY <1>0, <1>2, WatchedFrame DEF Lookup, Unwatched, Storable
<1>3. ASSUME NEW c \in Lookups, LookupLocked(c) PROVE WInv'
  <2>1. /\ \A d \in Calls : d # c => pc'[d] = pc[d]
        /\ pc'[c] \in {"done", "get"}
        /\ UNCHANGED <<srvMap, isWatched>>
    BY <1>0, <1>3 DEF LookupLocked
  <2>2. \/ pc'[c] = "done" /\ wpc' = wpc
        \/ SpawnWatch(c)
    BY <1>0, <1>3 DEF LookupLocked
  <2>3. SpawnWatch(c) => Watchable'
    BY <1>0, <2>1 DEF SpawnWatch, Watchable
  <2>4. \A w \in Watchers : wpc'[w] = wpc[w] \/ wpc'[w] = "start"
    BY <1>0, <2>2 DEF SpawnWatch
  <2>5. Unwatched => Unwatched'
    BY <2>1 DEF Unwatched
  <2>6. Storable' => Storable \/ Watchable'
    BY <2>1, <2>2, <2>3 DEF Storable
  <2> QED
    BY <2>1, <2>4, <2>5, <2>6, WatchedFrame
<1>4. ASSUME NEW c \in Lookups, Fetch(c) \/ FetchFails(c) PROVE WInv'
  BY <1>0, <1>4, WatchedFrame DEF Fetch, FetchFails, Unwatched, Storable
<1>5. ASSUME NEW c \in Lookups, Fill(c) PROVE WInv'
  BY <1>0, <1>5, WatchedFrame DEF Fill, Unwatched, Storable
<1>6. ASSUME NEW c \in Loads, LoadBegin(c) PROVE WInv'
  <2>1. /\ \A d \in Calls : d # c => pc'[d] = pc[d]
        /\ UNCHANGED <<srvMap, isWatched>>
    BY <1>0, <1>6 DEF LoadBegin
  <2>2. Watchable' /\ \A w \in Watchers : wpc'[w] = wpc[w] \/ wpc'[w] = "start"
    BY <1>0, <1>6, <2>1 DEF LoadBegin, SpawnWatch, Watchable
  <2>3. Unwatched => Unwatched'
    BY <2>1 DEF Unwatched
  <2> QED
    BY <2>1, <2>2, <2>3, WatchedFrame
<1>7. ASSUME NEW c \in Loads,
             LoadGet(c) \/ LoadGetFails(c) \/ LoadEnd(c) \/ \E s \in Srvs : LoadJunk(c, s)
      PROVE  WInv'
  BY <1>0, <1>7, WatchedFrame
  DEF LoadGet, LoadGetFails, LoadEnd, LoadJunk, LoadStops, Unwatched, Storable
<1>8. ASSUME NEW c \in Loads, NEW s \in Srvs, LoadFill(c, s) PROVE WInv'
  <2>1. /\ pc[c] = "fill"
        /\ pc' = pc \/ pc' = [pc EXCEPT ![c] = "failed"]
        /\ UNCHANGED <<isWatched, wpc>>
    BY <1>8 DEF LoadFill, LoadStops
  <2>2. Storable
    BY <2>1 DEF Storable
  <2>3. Unwatched => Unwatched'
    BY <1>0, <2>1 DEF Unwatched
  <2> QED
    BY <2>1, <2>2, <2>3, WatchedFrame
<1>9. ASSUME NEW w \in Watchers, WatchCheck(w) \/ WatchLock(w) PROVE WInv'
  BY <1>0, <1>9, WatchedFrame DEF WatchCheck, WatchLock, Unwatched, Storable
<1>10. ASSUME NEW w \in Watchers,
              WatchOpen(w) \/ Receive(w) \/ Notify(w) \/ Closes(w)
       PROVE  WInv'
  BY <1>0, <1>10, WatchedFrame
  DEF WatchOpen, Receive, Notify, Closes, Unwatched, Storable
<1>11. ASSUME NEW w \in Watchers, ApplyEvent(w) PROVE WInv'
  <2>1. /\ wpc[w] = "entry" /\ UNCHANGED <<isWatched, pc>>
        /\ \E step \in {"select", "notify"} : wpc' = [wpc EXCEPT ![w] = step]
    BY <1>11 DEF ApplyEvent
  <2>2. isWatched
    BY <2>1 DEF IInv, OneWatcher, Active
  <2>3. Watchable'
    BY <2>1, <2>2 DEF Watchable
  <2> QED
    BY <1>0, <2>1, <2>3, WatchedFrame DEF Unwatched
<1>12. ASSUME NEW w \in Watchers, WatchOut(w) PROVE WInv'
  <2>1. Unwatched' /\ Unwatched
    BY <1>12 DEF WatchOut, WInv, OutIsAsked, Unwatched
  <2> QED
    BY <2>1 DEF WInv, OutIsAsked, Watchable
<1>13. ASSUME NEW u \in Unwatches, Unwatch(u) PROVE WInv'
  BY <1>0, <1>13, WatchedFrame DEF Unwatch, Unwatched, Storable
<1>14. ASSUME NEW w \in Watchers, NEW u \in Unwatches, TakeUnwatch(w, u) PROVE WInv'
  <2>1. Unwatched'
    BY <1>0, <1>14 DEF TakeUnwatch, Unwatched
  <2> QED
    BY <2>1 DEF WInv, OutIsAsked, Watchable
<1>15. CASE Abort \/ UNCHANGED vars
  BY <1>15, WatchedFrame DEF Abort, vars, Unwatched, Storable
<1> QED
  BY <1>1, <1>2, <1>3, <1>4, <1>5, <1>6, <1>7, <1>8, <1>9, <1>10, <1>11, <1>12, <1>13,
     <1>14, <1>15 DEF Next, CallStep, WatchStep

(***************************************************************************)
(* What is cached is watched, or about to be, unless somebody has called   *)
(* Unwatch.                                                                *)
(***************************************************************************)
THEOREM Watched == Spec => []CachedIsWatched
<1> QED
  BY InitWatched, WatchedStep, WatchedImplies, Inductive, PTL DEF Spec
-----------------------------------------------------------------------------
(***************************************************************************)
(* The inductive invariant of ConsumedIsSeen: it holds during a callback   *)
(* too.  What the watcher skips is older than what is cached, so it is not *)
(* the newest; what a LoadAll passes to the callback is no older than what *)
(* the watcher has applied; and the newest change of a service is one that *)
(* decodes, or nothing is said of it.                                      *)
(***************************************************************************)
SInv ==
  \A w \in Watchers, s \in Srvs, r \in 1 .. Now :
    Hooked /\ Live(w) /\ Consumed(w, s, r) /\ log[r].kind # "junk" => seen[s] = r

LEMMA SeenImplies == SInv => ConsumedIsSeen
  BY DEF SInv, ConsumedIsSeen, Live

LEMMA InitSeen == Init => SInv
  BY DEF Init, SInv, Live, Now

\* Steps that leave the history, the callback and the running watchers alone.
LEMMA SeenFrame ==
  ASSUME SInv,
         UNCHANGED <<log, seen>>,
         \A w \in Watchers : Live(w)' =>
            Live(w) /\ from'[w] = from[w] /\ pos'[w] = pos[w]
  PROVE  SInv'
<1>1. Now' = Now /\ \A r, s : IsLast(r, s, Now)' = IsLast(r, s, Now)
  BY DEF Now, IsLast, ChangesOf
<1> QED
  BY <1>1 DEF SInv, Consumed

\* A change that is new has not been received.
LEMMA SeenWrite ==
  ASSUME IInv, FInv, SInv, NEW s \in Srvs, NEW k \in {"put", "junk", "delete"}, Write(s, k)
  PROVE  SInv'
<1> SUFFICES ASSUME NEW w \in Watchers, NEW t \in Srvs, NEW r \in 1 .. Now',
                    Hooked, Live(w)', Consumed(w, t, r)', log'[r].kind # "junk"
             PROVE  seen'[t] = r
  BY DEF SInv
<1>1. UNCHANGED <<seen, wpc, from, pos>>
  BY DEF Write, cache, streams
<1>2. Now' = Now + 1 /\ Now \in Nat /\ \A q \in 1 .. Now : log'[q] = log[q]
  BY DEF Write, Now, IInv, Typed
<1>3. Live(w) /\ from[w] <= r /\ r < pos[w]
  BY <1>1 DEF Live, Consumed
<1>4. r \in 1 .. Now
  <2>1. Upto(w) <= Now + 1 /\ pos[w] <= Upto(w)
    BY <1>3, Numbers DEF FInv, Bounded, Upto
  <2> QED
    BY <1>2, <1>3, <2>1, Numbers
<1>5. IsLast(r, t, Now)
  <2>1. r \in ChangesOf(t, Now)' /\ \A q \in ChangesOf(t, Now)' : q <= r
    BY DEF Consumed, IsLast
  <2>2. \A q \in 1 .. Now : q \in ChangesOf(t, Now)' <=> q \in ChangesOf(t, Now)
    BY <1>2 DEF ChangesOf
  <2>3. ChangesOf(t, Now) \subseteq 1 .. Now
    BY DEF ChangesOf
  <2> QED
    BY <1>4, <2>1, <2>2, <2>3 DEF IsLast
<1> QED
  BY <1>1, <1>2, <1>3, <1>4, <1>5 DEF SInv, Consumed

\* A LoadAll passes on what is at least as new as all that was received.
LEMMA SeenLoadFill ==
  ASSUME IInv, FInv, SInv, NEW c \in Loads, NEW t \in Srvs, LoadFill(c, t)
  PROVE  SInv'
<1> SUFFICES ASSUME NEW w \in Watchers, NEW s \in Srvs, NEW r \in 1 .. Now',
                    Hooked, Live(w)', Consumed(w, s, r)', log'[r].kind # "junk"
             PROVE  seen'[s] = r
  BY DEF SInv
<1>1. /\ pc[c] = "fill" /\ UNCHANGED <<log, wpc, from, pos>>
      /\ seen \in [Srvs -> Revision]
  BY DEF LoadFill, streams, store, IInv, Typed
<1>2. PICK last \in 1 .. Now : /\ IsLast(last, t, got[c])
                               /\ seen' = [seen EXCEPT ![t] = last]
  BY DEF LoadFill
<1>3. r \in 1 .. Now /\ Live(w) /\ Consumed(w, s, r)
  BY <1>1 DEF Now, Live, Consumed, IsLast, ChangesOf
<1>4. CASE s = t
  <2>1. AppliedEvent(w, r)
    BY <1>3, Numbers DEF AppliedEvent, Consumed, Upto
  <2>2. r <= got[c] /\ got[c] \in Nat
    BY <1>1, <1>3, <2>1, Numbers DEF FInv, Loaded, Calls
  <2>3. r \in ChangesOf(t, got[c])
    BY <1>3, <1>4, <2>2 DEF Consumed, IsLast, ChangesOf
  <2>4. r <= last /\ last \in ChangesOf(t, Now)
    BY <1>2, <2>3 DEF IsLast, ChangesOf
  <2>5. r = last
    BY <1>3, <1>4, <2>4, LastUnique DEF Consumed
  <2> QED
    BY <1>1, <1>2, <1>4, <2>5
<1>5. CASE s # t
  BY <1>1, <1>2, <1>3, <1>5 DEF SInv
<1> QED
  BY <1>4, <1>5

\* A stream that has just begun has consumed nothing.
LEMMA SeenOpen ==
  ASSUME IInv, SInv, NEW w \in Watchers, WatchOpen(w)
  PROVE  SInv'
<1> SUFFICES ASSUME NEW v \in Watchers, NEW s \in Srvs, NEW r \in 1 .. Now',
                    Hooked, Live(v)', Consumed(v, s, r)', log'[r].kind # "junk"
             PROVE  seen'[s] = r
  BY DEF SInv
<1>1. UNCHANGED <<log, seen>>
  BY DEF WatchOpen, store, cache
<1>2. v # w
  BY Numbers DEF WatchOpen, Consumed, IInv, Typed
<1>3. wpc'[v] = wpc[v] /\ from'[v] = from[v] /\ pos'[v] = pos[v]
  BY <1>2 DEF WatchOpen, WGoto
<1> QED
  BY <1>1, <1>3 DEF SInv, Now, Live, Consumed, IsLast, ChangesOf

\* What is skipped is not the newest change.
LEMMA SeenApply ==
  ASSUME IInv, FInv, SInv, NEW w \in Watchers, ApplyEvent(w)
  PROVE  SInv'
<1> SUFFICES ASSUME NEW v \in Watchers, NEW s \in Srvs, NEW r \in 1 .. Now',
                    Hooked, Live(v)', Consumed(v, s, r)', log'[r].kind # "junk"
             PROVE  seen'[s] = r
  BY DEF SInv
<1> DEFINE p == pos[w]
           t == log[p].srv
<1>1. /\ UNCHANGED <<log, seen, from>> /\ wpc[w] = "entry"
      /\ \A u \in Watchers : u # w => wpc'[u] = wpc[u] /\ pos'[u] = pos[u]
      /\ \/ Skipped(t, p) /\ pos' = [pos EXCEPT ![w] = p + 1]
         \/ pos' = pos
  <2>1. oneSrvMu[t] = None /\ wpc[w] = "entry" /\ UNCHANGED <<log, seen, from>>
    BY DEF ApplyEvent, store
  <2>2. \A u \in Watchers : u # w => wpc'[u] = wpc[u] /\ pos'[u] = pos[u]
    BY DEF ApplyEvent, WGoto, IInv, Typed
  <2>3. (Skipped(t, p) /\ pos' = [pos EXCEPT ![w] = p + 1]) \/ pos' = pos
    BY DEF ApplyEvent
  <2> QED
    BY <2>1, <2>2, <2>3
<1>2. r \in 1 .. Now /\ IsLast(r, s, Now) /\ from[v] <= r /\ r < pos'[v]
  BY <1>1 DEF Now, Consumed, IsLast, ChangesOf
<1>3. Live(v)
  BY <1>1 DEF Live
<1>4. r < pos[v]
  <2>1. CASE v = w /\ Skipped(t, p)
    <3>1. r # p
      <4>1. p \in 1 .. Now
        BY <1>1, Numbers DEF IInv, Positions
      <4>2. t \in Srvs
        BY <4>1, ChangeAt DEF IInv
      <4>3. srvMap[t] > p /\ srvMap[t] \in ChangesOf(t, Now)
        BY <2>1, <4>1, <4>2, Numbers DEF Skipped, FInv, Cached
      <4>4. r = p => s = t
        BY <1>2 DEF IsLast, ChangesOf
      <4>5. \A q \in ChangesOf(s, Now) : q \in 1 .. Now /\ q <= r
        BY <1>2 DEF IsLast, ChangesOf
      <4> QED
        BY <4>1, <4>3, <4>4, <4>5
    <3>2. pos'[w] <= p + 1 /\ p \in Nat /\ pos'[w] \in Nat /\ r \in Nat
      BY <1>1, <1>2, Numbers DEF IInv, Typed
    <3> QED
      BY <1>2, <2>1, <3>1, <3>2
  <2>2. CASE v # w \/ ~Skipped(t, p)
    BY <1>1, <1>2, <2>2
  <2> QED
    BY <2>1, <2>2
<1> QED
  BY <1>1, <1>2, <1>3, <1>4 DEF SInv, Consumed

\* The callback is told of the event the watcher moves past.
LEMMA SeenNotify ==
  ASSUME IInv, FInv, SInv, NEW w \in Watchers, Notify(w)
  PROVE  SInv'
<1> SUFFICES ASSUME NEW v \in Watchers, NEW s \in Srvs, NEW r \in 1 .. Now',
                    Hooked, Live(v)', Consumed(v, s, r)', log'[r].kind # "junk"
             PROVE  seen'[s] = r
  BY DEF SInv
<1> DEFINE p == pos[w]
           t == log[p].srv
<1>1. /\ UNCHANGED <<log, from>> /\ wpc[w] = "notify"
      /\ wpc' = [wpc EXCEPT ![w] = "select"]
      /\ pos' = [pos EXCEPT ![w] = p + 1]
      /\ \/ seen' = [seen EXCEPT ![t] = p]
         \/ Hooked => log[p].kind = "junk" /\ seen' = seen
      /\ seen \in [Srvs -> Revision] /\ pos \in [Watchers -> 0 .. MaxRevision + 1]
      /\ wpc \in [Watchers -> WatchSteps]
  BY DEF Notify, WGoto, store, IInv, Typed
<1>2. v = w
  BY <1>1 DEF Live, IInv, OneWatcher, Active
<1>3. p \in 1 .. Now /\ t \in Srvs
  <2>1. p \in 1 .. Now
    BY <1>1, Numbers DEF IInv, Positions
  <2> QED
    BY <2>1, ChangeAt DEF IInv
<1>4. /\ r \in 1 .. Now /\ IsLast(r, s, Now) /\ from[w] <= r /\ r < p + 1
      /\ log[r].kind # "junk"
  BY <1>1, <1>2 DEF Now, Consumed, IsLast, ChangesOf
<1>5. p \in ChangesOf(t, Now)
  BY <1>3 DEF ChangesOf
<1>6. CASE s = t
  BY <1>1, <1>3, <1>4, <1>5, <1>6 DEF IsLast
<1>7. CASE s # t
  <2>1. r # p
    BY <1>4, <1>7 DEF IsLast, ChangesOf
  <2>2. Consumed(w, s, r) /\ Live(w)
    BY <1>1, <1>3, <1>4, <2>1 DEF Consumed, Live
  <2> QED
    BY <1>1, <1>3, <1>4, <1>7, <2>2 DEF SInv
<1> QED
  BY <1>6, <1>7

\* No step makes the watcher keep the newest change to itself.
LEMMA SeenStep == IInv /\ FInv /\ SInv /\ [Next]_vars => SInv'
<1> SUFFICES ASSUME IInv, FInv, SInv, [Next]_vars PROVE SInv'
  OBVIOUS
<1> USE DEF Calls, Watchers, store, cache, locks, calls, streams, Goto, WGoto
<1>0. wpc \in [Watchers -> WatchSteps]
  BY DEF IInv, Typed
<1>1. ASSUME NEW c \in Lookups, LookupLocked(c) PROVE SInv'
  BY <1>0, <1>1, SeenFrame DEF LookupLocked, SpawnWatch, Live
<1>2. ASSUME NEW c \in Lookups,
             Fetch(c) \/ FetchFails(c) \/ Fill(c) \/ \E s \in Srvs : Lookup(c, s)
      PROVE  SInv'
  BY <1>0, <1>2, SeenFrame DEF Lookup, Fetch, FetchFails, Fill, Live
<1>3. ASSUME NEW c \in Loads,
             \/ LoadBegin(c) \/ LoadGet(c) \/ LoadGetFails(c) \/ LoadEnd(c)
             \/ \E s \in Srvs : LoadJunk(c, s)
      PROVE  SInv'
  BY <1>0, <1>3, SeenFrame
  DEF LoadBegin, SpawnWatch, LoadGet, LoadGetFails, LoadEnd, LoadJunk, LoadStops, Live
<1>4. ASSUME NEW w \in Watchers,
             WatchCheck(w) \/ WatchLock(w) \/ Receive(w) \/ Closes(w) \/ WatchOut(w)
      PROVE  SInv'
  BY <1>0, <1>4, SeenFrame DEF WatchCheck, WatchLock, Receive, Closes, WatchOut, Live
<1>5. ASSUME NEW u \in Unwatches, Unwatch(u) \/ \E w \in Watchers : TakeUnwatch(w, u)
      PROVE  SInv'
  BY <1>0, <1>5, SeenFrame DEF Unwatch, TakeUnwatch, Live
<1>6. CASE Abort \/ UNCHANGED vars
  BY <1>6, SeenFrame DEF Abort, vars, Live
<1> QED
  BY <1>1, <1>2, <1>3, <1>4, <1>5, <1>6, SeenWrite, SeenLoadFill, SeenOpen, SeenApply,
     SeenNotify DEF Next, CallStep, WatchStep

(***************************************************************************)
(* Once the running watcher is past the newest change of a service, the    *)
(* callback of OnSrvUpdated was last told of exactly that change, if it is *)
(* one that decodes.                                                       *)
(***************************************************************************)
THEOREM Seen == Spec => []ConsumedIsSeen
<1> QED
  BY InitFresh, FreshStep, InitSeen, SeenStep, SeenImplies, Inductive, PTL DEF Spec
-----------------------------------------------------------------------------
(***************************************************************************)
(* The inductive invariant of TurnsBackOnlyAfterLoadAll: until a LoadAll   *)
(* has had its answer, what a Discover is about to store is no older than  *)
(* what it replaces, since nobody else can store it while the service's    *)
(* lock is held.                                                           *)
(***************************************************************************)
LoadAnswered == \E c \in Loads : pc[c] \in {"fill", "done", "failed"}

FetchedIsNewer == \A c \in Lookups : pc[c] = "fill" => srvMap[target[c]] <= got[c]

TInv == LoadAnswered \/ FetchedIsNewer

LEMMA InitForward == Init => TInv
  BY DEF Init, TInv, FetchedIsNewer, Calls

\* A LoadAll never goes back, and most steps neither store nor fetch.
LEMMA ForwardFrame ==
  ASSUME TInv, LoadAnswered => LoadAnswered',
         \A c \in Lookups : pc'[c] = "fill" =>
            /\ pc[c] = "fill" /\ got'[c] = got[c] /\ target'[c] = target[c]
            /\ srvMap'[target[c]] = srvMap[target[c]]
  PROVE  TInv'
  BY DEF TInv, FetchedIsNewer

LEMMA ForwardFetch ==
  ASSUME IInv, FInv, TInv, NEW c \in Lookups, Fetch(c)
  PROVE  TInv'
<1>1. /\ pc[c] = "get" /\ pc' = [pc EXCEPT ![c] = "fill"]
      /\ UNCHANGED <<srvMap, target>>
      /\ pc \in [Calls -> CallSteps] /\ got \in [Calls -> Revision]
  BY DEF Fetch, Goto, cache, IInv, Typed
<1>2. PICK r \in 1 .. Now : IsLast(r, target[c], Now) /\ got' = [got EXCEPT ![c] = r]
  BY DEF Fetch
<1>3. /\ \A d \in Calls : d # c => pc'[d] = pc[d] /\ got'[d] = got[d]
      /\ got'[c] = r
  BY <1>1, <1>2 DEF Calls
<1>4. CASE LoadAnswered
  BY <1>3, <1>4, CallsAssumption DEF LoadAnswered, TInv, Calls
<1>5. CASE FetchedIsNewer
  <2>1. target[c] \in Srvs
    BY <1>1 DEF IInv, LockOwners
  <2>2. r \in Nat /\ srvMap[target[c]] \in Nat
    BY <2>1, Numbers
  <2>3. srvMap[target[c]] <= r
    BY <1>2, <2>1, <2>2 DEF FInv, Cached, IsLast
  <2> QED
    BY <1>1, <1>3, <1>5, <2>3 DEF FetchedIsNewer, TInv, Calls
<1> QED
  BY <1>4, <1>5 DEF TInv

LEMMA ForwardStep == IInv /\ FInv /\ TInv /\ [Next]_vars => TInv'
<1> SUFFICES ASSUME IInv, FInv, TInv, [Next]_vars PROVE TInv'
  OBVIOUS
<1> USE CallsAssumption DEF Calls, Watchers, store, cache, locks, calls, streams, Goto, WGoto
<1>0. /\ pc \in [Calls -> CallSteps] /\ srvMap \in [Srvs -> Revision]
      /\ target \in [Lookups -> Srvs \cup {None}] /\ got \in [Calls -> Revision]
  BY DEF IInv, Typed
<1>1. ASSUME NEW c \in Lookups, NEW s \in Srvs, Lookup(c, s) PROVE TInv'
  BY <1>0, <1>1, ForwardFrame DEF Lookup, LoadAnswered
<1>2. ASSUME NEW c \in Lookups, LookupLocked(c) \/ FetchFails(c) PROVE TInv'
  <2>1. /\ \A d \in Calls : d # c => pc'[d] = pc[d] /\ got'[d] = got[d]
        /\ pc'[c] # "fill"
        /\ UNCHANGED <<srvMap, target>>
    BY <1>0, <1>2 DEF LookupLocked, FetchFails
  <2> QED
    BY <2>1, ForwardFrame DEF LoadAnswered
<1>3. ASSUME NEW c \in Lookups, Fill(c) PROVE TInv'
  <2>1. /\ pc[c] = "fill" /\ pc' = [pc EXCEPT ![c] = "done"]
        /\ srvMap' = [srvMap EXCEPT ![target[c]] = got[c]]
        /\ UNCHANGED <<got, target>>
    BY <1>3 DEF Fill
  <2>2. LoadAnswered => LoadAnswered'
    BY <1>0, <2>1 DEF LoadAnswered
  <2>3. ASSUME NEW d \in Lookups, pc'[d] = "fill"
        PROVE  pc[d] = "fill" /\ srvMap'[target[d]] = srvMap[target[d]]
    <3>1. d # c /\ pc[d] = "fill"
      BY <1>0, <2>1, <2>3
    <3>2. target[d] # target[c] /\ target[d] \in Srvs
      BY <2>1, <3>1 DEF IInv, LockOwners
    <3> QED
      BY <1>0, <2>1, <3>1, <3>2
  <2> QED
    BY <2>1, <2>2, <2>3, ForwardFrame
<1>4. ASSUME NEW c \in Loads,
             \/ LoadBegin(c) \/ LoadGet(c) \/ LoadGetFails(c) \/ LoadEnd(c)
             \/ \E s \in Srvs : LoadJunk(c, s)
      PROVE  TInv'
  BY <1>0, <1>4, ForwardFrame
  DEF LoadBegin, LoadGet, LoadGetFails, LoadEnd, LoadJunk, LoadStops, LoadAnswered
<1>5. ASSUME NEW c \in Loads, NEW s \in Srvs, LoadFill(c, s) PROVE TInv'
  <2>1. pc[c] = "fill" /\ (pc' = pc \/ pc' = [pc EXCEPT ![c] = "failed"])
    BY <1>5 DEF LoadFill, LoadStops
  <2> QED
    BY <1>0, <2>1 DEF TInv, LoadAnswered
<1>6. ASSUME NEW w \in Watchers, ApplyEvent(w) PROVE TInv'
  <2>1. /\ wpc[w] = "entry" /\ oneSrvMu[log[pos[w]].srv] = None
        /\ \/ srvMap' = srvMap
           \/ \E r : srvMap' = [srvMap EXCEPT ![log[pos[w]].srv] = r]
        /\ UNCHANGED <<pc, got, target>>
    BY <1>6 DEF ApplyEvent
  <2>2. \A d \in Lookups : pc[d] = "fill" =>
          target[d] \in Srvs /\ oneSrvMu[target[d]] = d /\ d # None
    BY DEF IInv, LockOwners
  <2>3. \A d \in Lookups : pc[d] = "fill" => srvMap'[target[d]] = srvMap[target[d]]
    BY <1>0, <2>1, <2>2
  <2> QED
    BY <2>1, <2>3, ForwardFrame DEF LoadAnswered
<1>7. ASSUME NEW w \in Watchers, WatchOut(w) PROVE TInv'
  <2>1. /\ UNCHANGED <<pc, got, target>>
        /\ \A s \in Srvs : srvMap'[s] = 0
    BY <1>7 DEF WatchOut
  <2>2. \A d \in Lookups : pc[d] = "fill" => target[d] \in Srvs /\ got[d] \in Nat
    BY Numbers DEF IInv, LockOwners
  <2> QED
    BY <2>1, <2>2 DEF TInv, LoadAnswered, FetchedIsNewer
<1>8. CASE \/ \E s \in Srvs, k \in {"put", "junk", "delete"} : Write(s, k)
           \/ \E w \in Watchers : \/ WatchCheck(w) \/ WatchLock(w) \/ WatchOpen(w)
                                  \/ Receive(w) \/ Notify(w) \/ Closes(w)
           \/ Abort \/ UNCHANGED vars
  <2>1. UNCHANGED <<pc, got, target, srvMap>>
    BY <1>8 DEF Write, WatchCheck, WatchLock, WatchOpen, Receive, Notify, Closes, Abort, vars
  <2> QED
    BY <2>1, ForwardFrame DEF LoadAnswered
<1>9. ASSUME NEW u \in Unwatches, Unwatch(u) \/ \E w \in Watchers : TakeUnwatch(w, u)
      PROVE  TInv'
  BY <1>0, <1>9, ForwardFrame DEF Unwatch, TakeUnwatch, LoadAnswered
<1> QED
  BY <1>1, <1>2, <1>3, ForwardFetch, <1>4, <1>5, <1>6, <1>7, <1>8, <1>9
  DEF Next, CallStep, WatchStep

\* Only a Discover and a LoadAll store what is not the event at hand.
LEMMA ForwardTurn ==
  ASSUME IInv, TInv, [Next]_vars, NEW s \in Srvs, 0 < srvMap'[s], srvMap'[s] < srvMap[s]
  PROVE  LoadAnswered
<1> USE DEF Watchers, store, cache, locks, calls, streams
<1>0. srvMap \in [Srvs -> Revision] /\ srvMap[s] \in Nat
  BY Numbers DEF IInv, Typed
<1>1. srvMap' # srvMap
  BY <1>0
<1>2. \/ \E c \in Lookups : Fill(c)
      \/ \E c \in Loads, t \in Srvs : LoadFill(c, t)
      \/ \E w \in Watchers : ApplyEvent(w) \/ WatchOut(w)
  BY <1>1 DEF Next, CallStep, WatchStep, vars, Write, Lookup, LookupLocked, Fetch, FetchFails,
     LoadBegin, LoadGet, LoadGetFails, LoadJunk, LoadEnd, WatchCheck, WatchLock, WatchOpen,
     Receive, Notify, Closes, Unwatch, TakeUnwatch, Abort
<1>3. ASSUME NEW c \in Lookups, Fill(c) PROVE LoadAnswered
  <2>1. pc[c] = "fill" /\ srvMap' = [srvMap EXCEPT ![target[c]] = got[c]]
    BY <1>3 DEF Fill
  <2>2. got[c] \in Nat
    BY Numbers DEF Calls
  <2>3. s = target[c] /\ srvMap'[s] = got[c]
    BY <1>0, <2>1
  <2> QED
    BY <1>0, <2>1, <2>2, <2>3 DEF TInv, FetchedIsNewer
<1>4. ASSUME NEW c \in Loads, NEW t \in Srvs, LoadFill(c, t) PROVE LoadAnswered
  BY <1>4 DEF LoadFill, LoadAnswered
<1>5. ASSUME NEW w \in Watchers, ApplyEvent(w) PROVE FALSE
  <2> DEFINE r == pos[w]
             t == log[r].srv
  <2>1. ~Skipped(t, r) /\ srvMap' = [srvMap EXCEPT ![t] = IF log[r].kind = "put" THEN r ELSE 0]
    BY <1>1, <1>5 DEF ApplyEvent
  <2>2. s = t /\ srvMap'[s] = r
    BY <1>0, <2>1
  <2>3. r \in Nat
    BY Numbers
  <2> QED
    BY <1>0, <2>1, <2>2, <2>3 DEF Skipped
<1>6. ASSUME NEW w \in Watchers, WatchOut(w) PROVE FALSE
  BY <1>6 DEF WatchOut
<1> QED
  BY <1>2, <1>3, <1>4, <1>5, <1>6

(***************************************************************************)
(* Discover and the watcher alone never replace a cached record by an      *)
(* older one.                                                              *)
(***************************************************************************)
THEOREM Forward == Spec => TurnsBackOnlyAfterLoadAll
<1>1. IInv /\ TInv /\ [Next]_vars =>
        [\A s \in Srvs : 0 < srvMap'[s] /\ srvMap'[s] < srvMap[s]
           => \E c \in Loads : pc[c] \in {"fill", "done", "failed"}]_vars
  BY ForwardTurn DEF LoadAnswered
<1> QED
  BY <1>1, InitFresh, FreshStep, InitForward, ForwardStep, Inductive, PTL
  DEF Spec, TurnsBackOnlyAfterLoadAll
=============================================================================
