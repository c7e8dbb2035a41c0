--------------------------- MODULE FileCacheProofs ---------------------------
(***************************************************************************)
(* Proofs about FileCache.  The invariant says who holds the lock of a     *)
(* service, which watcher has claimed it, and, for a watcher that watches  *)
(* the file there is: what has been read of the file and not yet stored or *)
(* told, what is cached, and what was told last are those of the file,     *)
(* unless the watcher is going to read the file again.                     *)
(***************************************************************************)
EXTENDS FileCache, TLAPS

\* TypeOK but for the lock, of which Owners says more.
Types ==
  /\ file \in [Srvs -> [inode : 0..MaxInode, is : Contents, version : 0..MaxWrites]]
  /\ alive \in BOOLEAN
  /\ srvMap \in [Srvs -> 0..MaxWrites]
  /\ watched \subseteq Srvs
  /\ unwatchCh \in [Srvs -> Watchers \cup {None}]
  /\ oneSrvMu \in [Srvs -> Lookups \cup Watchers \cup {None}]
  /\ pc \in [Calls -> CallSteps]
  /\ target \in [Calls -> Srvs \cup {None}]
  /\ got \in [Calls -> 0..(MaxWrites + 1)]
  /\ todo \in [Calls -> SUBSET Srvs]
  /\ wpc \in [Watchers -> WatchSteps]
  /\ ev \in [Watchers -> {"first", "change", "delete"}]
  /\ read \in [Watchers -> 0..MaxWrites]
  /\ inode \in [Watchers -> 0..MaxInode]
  /\ changed \in [Watchers -> BOOLEAN]
  /\ deleted \in [Watchers -> BOOLEAN]
  /\ told \in [Srvs -> 0..(MaxWrites + 1)]
  /\ overtaken \subseteq Srvs

LookupSteps  == {"idle", "call", "mu", "lock", "read", "store", "remote", "hook", "done", "failed"}
LoadSteps    == {"idle", "call", "read", "store", "done", "failed"}
UnwatchSteps == {"idle", "call", "pick", "send", "done"}

\* Where a Discover holds the lock of its service.
Locked == {"read", "store", "remote", "hook"}

\* Each call is at a step of its own kind, and has what it needs there.
Stations ==
  /\ \A c \in Lookups :
       /\ pc[c] \in LookupSteps
       /\ pc[c] \in {"call", "mu", "lock"} \cup Locked => target[c] \in Srvs
  /\ \A c \in Loads : /\ pc[c] \in LoadSteps
                      /\ pc[c] = "store" => target[c] \in Srvs
  /\ \A u \in Unwatches : pc[u] \in UnwatchSteps
  /\ \A c \in Calls : pc[c] = "store" => got[c] \in 0 .. MaxWrites

\* Who is at a step under the lock of a service is its holder, and no one else.
Owners ==
  /\ \A c \in Lookups : pc[c] \in Locked => oneSrvMu[target[c]] = c
  /\ \A w \in Watchers : wpc[w] = "store" => oneSrvMu[Srv(w)] = w
  /\ \A s \in Srvs, c \in Lookups : oneSrvMu[s] = c => pc[c] \in Locked /\ target[c] = s
  /\ \A s \in Srvs, w \in Watchers : oneSrvMu[s] = w => wpc[w] = "store" /\ Srv(w) = s

\* A watcher past its claim has claimed the service; and its inode has been the
\* file.
Past(w) == wpc[w] \notin {"none", "start", "claim", "done"}

Claimed == \A w \in Watchers : Past(w) => Srv(w) \in watched

Attached == \A w \in Watchers : inode[w] <= file[Srv(w)].inode

\* It watches what is there; and is it going to read it (again)?
Sees(w) == Watching(w, Srv(w)) /\ wpc[w] \in {"mu", "lock", "store", "hook", "select"}

Rereads(w) == changed[w] \/ wpc[w] \in {"mu", "lock"} \/ (wpc[w] = "hook" /\ ev[w] = "delete")

\* If not: what a Discover under the lock has in its hands,
FreshLookups ==
  \A w \in Watchers, c \in Lookups :
    Sees(w) /\ target[c] = Srv(w) /\ ~Rereads(w) =>
    /\ pc[c] = "store" => got[c] = Version(Srv(w))
    /\ pc[c] = "remote" => Version(Srv(w)) = 0
    /\ pc[c] = "hook" => Version(Srv(w)) \in {0, got[c]}

\* what the watcher itself has read,
FreshReads ==
  \A w \in Watchers :
    /\ Sees(w) /\ ~changed[w]
    /\ wpc[w] = "store" \/ (wpc[w] = "hook" /\ ev[w] = "change")
    => read[w] = Version(Srv(w))

\* what is cached,
FreshEntries ==
  \A w \in Watchers : Sees(w) /\ ~Rereads(w) /\ wpc[w] # "store" /\ Srv(w) \notin overtaken =>
    srvMap[Srv(w)] = Version(Srv(w))

\* and what the callback was told last, are those of the file.
FreshHooks ==
  \A w \in Watchers : Sees(w) /\ ~Rereads(w) /\ wpc[w] = "select" /\ ev[w] = "change" =>
    Version(Srv(w)) \in {0, told[Srv(w)]}

Base  == Types /\ Stations /\ Owners /\ Claimed /\ OneWatcher /\ Attached
Fresh == FreshLookups /\ FreshReads /\ FreshEntries /\ FreshHooks

-----------------------------------------------------------------------------
LEMMA Named ==
  /\ \A w \in Watchers : Srv(w) \in Srvs
  /\ \A c \in Lookups \cup Loads, s \in Srvs : <<c, s>> \in Watchers
  /\ \A c \in Lookups, s \in Srvs : Srv(<<c, s>>) = s
  /\ \A c \in Loads, f \in Srvs : Srv(<<c, f>>) = Cut[f]
  BY CutAssumption, CallsAssumption DEF Watchers, Srv

USE DEF locks

LEMMA Versions ==
  ASSUME Types, NEW s \in Srvs
  PROVE  Version(s) \in 0 .. MaxWrites
  BY BoundsAssumption DEF Types, Version

\* A watcher is started where no other one has claimed the service.
LEMMA Spawned ==
  ASSUME Types, Claimed, NEW c \in Lookups \cup Loads, NEW s \in Srvs, NEW f \in Srvs,
         Srv(<<c, f>>) = s, SpawnWatch(c, s, f)
  PROVE  /\ wpc' \in [Watchers -> WatchSteps]
         /\ \A w \in Watchers : wpc'[w] = wpc[w] \/ (wpc'[w] = "start" /\ ~Past(w))
<1>1. CASE s \in watched
  BY <1>1 DEF SpawnWatch, Types
<1>2. CASE s \notin watched
  <2> DEFINE v == <<c, f>>
  <2>1. v \in Watchers /\ Srv(v) = s
    BY Named
  <2>2. wpc' = [wpc EXCEPT ![v] = "start"]
    BY <1>2 DEF SpawnWatch, WGoto
  <2>3. ~Past(v)
    BY <1>2, <2>1 DEF Claimed
  <2> HIDE DEF v
  <2> QED BY <2>1, <2>2, <2>3 DEF Types, WatchSteps
<1> QED BY <1>1, <1>2

LEMMA CacheInit == Init => Base /\ Fresh
<1> SUFFICES ASSUME Init PROVE Base /\ Fresh
  OBVIOUS
<1>1. Types
  BY BoundsAssumption, Named, CallsAssumption
  DEF Init, Types, Contents, CallSteps, WatchSteps
<1>2. Stations
  BY DEF Init, Stations, Calls, Locked, LookupSteps, LoadSteps, UnwatchSteps
<1>5. Claimed /\ OneWatcher
  BY DEF Init, Claimed, Past, OneWatcher
<1>6. Attached
  <2> SUFFICES ASSUME NEW w \in Watchers PROVE inode[w] <= file[Srv(w)].inode
    BY DEF Attached
  <2>1. Srv(w) \in Srvs
    BY Named
  <2> QED BY <2>1 DEF Init
<1>3. Owners
  BY CallsAssumption, Named DEF Init, Owners, Calls, Locked
<1>4. Fresh
  BY Named DEF Init, Fresh, FreshLookups, FreshReads, FreshEntries, FreshHooks, Sees
<1> QED BY <1>1, <1>2, <1>3, <1>4, <1>5, <1>6 DEF Base
-----------------------------------------------------------------------------
\* The file of a service changes: a watcher of it has an event to receive, or
\* it watches no longer what is there.
LEMMA FileChanges ==
  ASSUME Base, Fresh, NEW s \in Srvs, Truncate(s) \/ Write(s) \/ Delete(s)
  PROVE  Base' /\ Fresh'
<1>1. /\ UNCHANGED <<alive, srvMap, watched, unwatchCh, oneSrvMu, calls, steps, inode, history>>
      /\ \A t \in Srvs : t # s => file'[t] = file[t]
      /\ file' \in [Srvs -> [inode : 0..MaxInode, is : Contents, version : 0..MaxWrites]]
      /\ changed' \in [Watchers -> BOOLEAN] /\ deleted' \in [Watchers -> BOOLEAN]
      /\ file[s].inode <= file'[s].inode
      /\ \A w \in Watchers : changed[w] => changed'[w]
  <2>1. CASE Truncate(s)
    BY <2>1, BoundsAssumption DEF Truncate, Base, Types, Put, Modified, Exists, Contents
  <2>2. CASE Write(s)
    BY <2>2, BoundsAssumption DEF Write, Base, Types, Put, Modified, Exists, Contents
  <2>3. CASE Delete(s)
    BY <2>3, BoundsAssumption DEF Delete, Base, Types, Put, Exists, Contents
  <2> QED BY <2>1, <2>2, <2>3
<1>2. Base'
  <2>1. Types'
    BY <1>1 DEF Base, Types, calls, steps, history
  <2>2. (Stations /\ Owners /\ Claimed /\ OneWatcher)'
    BY <1>1 DEF Base, Stations, Owners, Claimed, Past, OneWatcher, calls, steps, history
  <2>3. Attached'
    <3> SUFFICES ASSUME NEW w \in Watchers PROVE inode'[w] <= file'[Srv(w)].inode
      BY DEF Attached
    <3>1. inode[w] <= file[Srv(w)].inode /\ Srv(w) \in Srvs /\ inode'[w] = inode[w]
      BY <1>1, Named DEF Base, Attached
    <3>2. CASE Srv(w) = s
      BY <1>1, <3>1, <3>2, BoundsAssumption DEF Base, Types
    <3>3. CASE Srv(w) # s
      BY <1>1, <3>1, <3>3
    <3> QED BY <3>2, <3>3
  <2> QED BY <2>1, <2>2, <2>3 DEF Base
<1>3. \A w \in Watchers : Srv(w) = s /\ Sees(w)' => changed'[w]
  <2> SUFFICES ASSUME NEW w \in Watchers, Srv(w) = s, Sees(w)' PROVE changed'[w]
    OBVIOUS
  <2>0. inode[w] <= file[s].inode /\ inode[w] \in Nat /\ file[s].inode \in Nat /\ inode' = inode
        /\ inode'[w] = file'[s].inode /\ file'[s].is # "absent"
    BY <1>1 DEF Base, Types, Attached, Sees, Watching, Exists
  <2>1. CASE Truncate(s)
    <3>1. file' = [file EXCEPT ![s] =
                     [inode   |-> IF Exists(s) THEN file[s].inode ELSE file[s].inode + 1,
                      is      |-> "empty",
                      version |-> file[s].version + 1]]
      BY <2>1 DEF Truncate, Put
    <3>2. file'[s].inode = IF Exists(s) THEN file[s].inode ELSE file[s].inode + 1
      BY <3>1 DEF Base, Types
    <3>3. Watching(w, s)
      BY <2>0, <3>2 DEF Watching
    <3> QED BY <2>1, <3>3 DEF Truncate, Modified
  <2>2. CASE Write(s)
    <3>1. file'[s].inode = file[s].inode /\ file[s].is # "absent"
      BY <2>2 DEF Write, Put, Base, Types
    <3>2. Watching(w, s)
      BY <2>0, <3>1 DEF Watching, Exists
    <3> QED BY <2>2, <3>2 DEF Write, Modified
  <2>3. CASE Delete(s)
    BY <2>0, <2>3 DEF Delete, Put, Base, Types
  <2> QED BY <2>1, <2>2, <2>3
<1>4. ASSUME NEW w \in Watchers, Srv(w) # s
      PROVE  Version(Srv(w))' = Version(Srv(w)) /\ (Sees(w)' => Sees(w))
  BY <1>1, <1>4, Named DEF Version, Sees, Watching, Exists, calls, steps
<1>5. UNCHANGED <<pc, target, got, wpc, ev, read, told, overtaken, srvMap>>
  BY <1>1 DEF calls, steps, history
<1>6. FreshLookups'
  BY <1>1, <1>3, <1>4, <1>5 DEF Fresh, FreshLookups, Rereads
<1>7. FreshReads'
  BY <1>1, <1>3, <1>4, <1>5 DEF Fresh, FreshReads
<1>8. FreshEntries' /\ FreshHooks'
  BY <1>1, <1>3, <1>4, <1>5 DEF Fresh, FreshEntries, FreshHooks, Rereads
<1> QED BY <1>2, <1>6, <1>7, <1>8 DEF Fresh
-----------------------------------------------------------------------------
\* A step that leaves the files and the watchers alone, and at most starts one.
LEMMA Undisturbed ==
  ASSUME Base, Fresh, UNCHANGED <<file, watched, inode, changed, ev, read>>,
         \A w \in Watchers : wpc'[w] = wpc[w] \/ (wpc'[w] = "start" /\ ~Past(w))
  PROVE  /\ (Claimed /\ OneWatcher /\ Attached /\ FreshReads)'
         /\ \A w \in Watchers : Sees(w)' => Sees(w) /\ (Rereads(w)' <=> Rereads(w)) /\ wpc'[w] = wpc[w]
         /\ \A s \in Srvs : Version(s)' = Version(s)
<1>1. \A s \in Srvs : Version(s)' = Version(s)
  BY DEF Version
<1>2. \A w \in Watchers : Sees(w)' => Sees(w) /\ (Rereads(w)' <=> Rereads(w)) /\ wpc'[w] = wpc[w]
  BY DEF Sees, Watching, Exists, Rereads
<1>3. (Claimed /\ OneWatcher /\ Attached)'
  BY DEF Base, Claimed, Past, OneWatcher, Attached
<1>4. FreshReads'
  BY <1>1, <1>2, Named DEF Fresh, FreshReads
<1> QED BY <1>1, <1>2, <1>3, <1>4

\* A call begins, or somebody queues for d.mu.
LEMMA CallBegins ==
  ASSUME Base, Fresh, NEW c \in Calls, NEW s \in Srvs, Call(c, s)
  PROVE  Base' /\ Fresh'
<1>1. /\ UNCHANGED <<file, alive, srvMap, watched, unwatchCh, oneSrvMu, got, todo, steps, events,
                     history>>
      /\ \A d \in Calls : d # c => pc'[d] = pc[d] /\ target'[d] = target[d]
      /\ pc[c] = "idle" /\ pc'[c] = "call" /\ (c \in Lookups => target'[c] = s)
      /\ pc' \in [Calls -> CallSteps] /\ target' \in [Calls -> Srvs \cup {None}]
  BY DEF Call, Goto, Base, Types, CallSteps
<1>2. Types'
  BY <1>1 DEF Base, Types, steps, events, history
<1>3. Stations'
  BY <1>1, CallsAssumption DEF Base, Stations, Calls, Locked, LookupSteps, LoadSteps, UnwatchSteps
<1>4. Owners'
  BY <1>1, CallsAssumption DEF Base, Owners, Calls, Locked, steps
<1>5. /\ (Claimed /\ OneWatcher /\ Attached /\ FreshReads)'
      /\ \A w \in Watchers : Sees(w)' => Sees(w) /\ (Rereads(w)' <=> Rereads(w)) /\ wpc'[w] = wpc[w]
      /\ \A t \in Srvs : Version(t)' = Version(t)
  BY <1>1, Undisturbed DEF steps, events
<1>6. FreshLookups' /\ FreshEntries' /\ FreshHooks'
  BY <1>1, <1>5, Named DEF Fresh, FreshLookups, FreshEntries, FreshHooks, Calls, steps, history
<1> QED BY <1>2, <1>3, <1>4, <1>5, <1>6 DEF Base, Fresh

\* Discover, outside the service's lock.
LEMMA LookupsOutside ==
  ASSUME Base, Fresh, NEW c \in Calls, Lookup(c) \/ LookupMu(c)
  PROVE  Base' /\ Fresh'
<1>1. /\ c \in Lookups
      /\ UNCHANGED <<file, alive, srvMap, watched, unwatchCh, oneSrvMu, todo, steps, events, history>>
      /\ \A d \in Calls : d # c => pc'[d] = pc[d] /\ target'[d] = target[d] /\ got'[d] = got[d]
      /\ pc' \in [Calls -> CallSteps] /\ target' \in [Calls -> Srvs \cup {None}]
      /\ got' \in [Calls -> 0..(MaxWrites + 1)]
      /\ pc[c] \in {"call", "mu"} /\ pc'[c] \in {"mu", "done", "lock"} /\ target'[c] \in Srvs
  <2>1. CASE Lookup(c)
    BY <2>1, BoundsAssumption DEF Lookup, Goto, Base, Types, CallSteps, Stations
  <2>2. CASE LookupMu(c)
    BY <2>2
    DEF LookupMu, MuLocked, Goto, Base, Types, CallSteps, Stations, LookupSteps, LoadSteps, UnwatchSteps,
        Calls
  <2> QED BY <2>1, <2>2
<1>2. Types'
  BY <1>1 DEF Base, Types, steps, events, history
<1>3. Stations'
  BY <1>1, CallsAssumption DEF Base, Stations, Calls, Locked, LookupSteps
<1>4. Owners'
  BY <1>1, CallsAssumption DEF Base, Owners, Calls, Locked, steps
<1>5. (Claimed /\ OneWatcher /\ Attached /\ FreshReads)' /\ FreshEntries' /\ FreshHooks'
  BY <1>1, Undisturbed
  DEF steps, events, history, Fresh, FreshEntries, FreshHooks, Sees, Watching, Exists, Rereads,
      Version
<1>6. FreshLookups'
  BY <1>1
  DEF Fresh, FreshLookups, Sees, Watching, Exists, Rereads, Version, steps, events, history,
      Calls
<1> QED BY <1>2, <1>3, <1>4, <1>5, <1>6 DEF Base, Fresh

\* Discover gets the service's lock, and starts a watcher; or hits after all.
LEMMA LookupLocks ==
  ASSUME Base, Fresh, NEW c \in Calls, LookupLocked(c)
  PROVE  Base' /\ Fresh'
<1> DEFINE s == target[c]
<1>1. /\ c \in Lookups /\ s \in Srvs /\ pc[c] = "lock" /\ oneSrvMu[s] = None
      /\ UNCHANGED <<file, alive, srvMap, watched, unwatchCh, target, todo, ev, read, events, history>>
  BY DEF LookupLocked, Lock, Base, Stations, LoadSteps, UnwatchSteps, Calls
<1>2. /\ \A d \in Calls : d # c => pc'[d] = pc[d] /\ got'[d] = got[d]
      /\ pc' \in [Calls -> CallSteps] /\ got' \in [Calls -> 0..(MaxWrites + 1)]
      /\ wpc' \in [Watchers -> WatchSteps]
      /\ \A w \in Watchers : wpc'[w] = wpc[w] \/ (wpc'[w] = "start" /\ ~Past(w))
      /\ \/ pc'[c] = "done" /\ oneSrvMu' = oneSrvMu
         \/ pc'[c] = "read" /\ oneSrvMu' = [oneSrvMu EXCEPT ![s] = c] 
  <2>1. CASE srvMap[s] # 0 /\ got' = [got EXCEPT ![c] = srvMap[s]] /\ Goto(c, "done")
             /\ UNCHANGED <<oneSrvMu, wpc>>
    BY <1>1, <2>1, BoundsAssumption DEF Goto, Base, Types, CallSteps
  <2>2. CASE Lock(s, c) /\ SpawnWatch(c, s, s) /\ Goto(c, "read") /\ UNCHANGED got
    BY <1>1, <2>2, Spawned, Named DEF Lock, Goto, Base, Types, CallSteps
  <2> QED BY <2>1, <2>2 DEF LookupLocked
<1>3. oneSrvMu' \in [Srvs -> Lookups \cup Watchers \cup {None}]
  BY <1>1, <1>2 DEF Base, Types
<1>4. Types'
  BY <1>1, <1>2, <1>3 DEF Base, Types, events, history
<1>5. Stations'
  BY <1>1, <1>2, CallsAssumption DEF Base, Stations, Calls, Locked, LookupSteps
<1>6. Owners'
  <2>1. \A w \in Watchers : (wpc'[w] = "store" <=> wpc[w] = "store")
    <3>1. \A w \in Watchers : wpc[w] = "store" => Past(w)
      BY DEF Past
    <3> QED BY <1>2, <3>1
  <2>2. CASE pc'[c] = "done" /\ oneSrvMu' = oneSrvMu
    BY <1>1, <1>2, <2>1, <2>2, CallsAssumption DEF Base, Owners, Calls, Locked
  <2>3. CASE pc'[c] = "read" /\ oneSrvMu' = [oneSrvMu EXCEPT ![s] = c]
    <3>1. \A t \in Srvs : oneSrvMu'[t] = IF t = s THEN c ELSE oneSrvMu[t]
      BY <1>1, <2>3 DEF Base, Types
    <3>2. \A d \in Lookups : pc[d] \in Locked => target[d] # s
      BY <1>1, CallsAssumption DEF Base, Owners, Calls
    <3>3. \A w \in Watchers : wpc[w] = "store" => Srv(w) # s
      BY <1>1, CallsAssumption DEF Base, Owners
    <3>4. \A d \in Lookups : pc'[d] \in Locked => oneSrvMu'[target'[d]] = d
      BY <1>1, <1>2, <2>3, <3>1, <3>2 DEF Base, Owners, Stations, Calls
    <3>5. \A w \in Watchers : wpc'[w] = "store" => oneSrvMu'[Srv(w)] = w
      BY <2>1, <3>1, <3>3, Named DEF Base, Owners
    <3>6. \A t \in Srvs, d \in Lookups : oneSrvMu'[t] = d => pc'[d] \in Locked /\ target'[d] = t
      BY <1>1, <1>2, <2>3, <3>1 DEF Base, Owners, Calls, Locked
    <3>7. \A t \in Srvs, w \in Watchers : oneSrvMu'[t] = w => wpc'[w] = "store" /\ Srv(w) = t
      BY <1>1, <2>1, <3>1, CallsAssumption DEF Base, Owners, Calls
    <3> QED BY <3>4, <3>5, <3>6, <3>7 DEF Owners
  <2> QED BY <1>2, <2>2, <2>3
<1>7. /\ (Claimed /\ OneWatcher /\ Attached /\ FreshReads)'
      /\ \A w \in Watchers : Sees(w)' => Sees(w) /\ (Rereads(w)' <=> Rereads(w)) /\ wpc'[w] = wpc[w]
      /\ \A t \in Srvs : Version(t)' = Version(t)
  BY <1>1, <1>2, Undisturbed DEF events
<1>8. FreshEntries' /\ FreshHooks'
  BY <1>1, <1>7, Named DEF Fresh, FreshEntries, FreshHooks, history
<1>9. FreshLookups'
  BY <1>1, <1>2, <1>7, Named DEF Fresh, FreshLookups, Calls
<1> QED BY <1>4, <1>5, <1>6, <1>7, <1>8, <1>9 DEF Base, Fresh

\* While a Discover holds the lock of a service, no watcher stores its entry.
LEMMA LockHeld ==
  ASSUME Base, NEW c \in Lookups, pc[c] \in Locked
  PROVE  /\ target[c] \in Srvs /\ oneSrvMu[target[c]] = c
         /\ \A w \in Watchers : Srv(w) = target[c] => wpc[w] # "store"
         /\ \A d \in Lookups : d # c /\ pc[d] \in Locked => target[d] # target[c]
  BY CallsAssumption DEF Base, Stations, Owners, Calls

\* Discover with the lock: what it reads, stores and asks for.
LEMMA LookupsInside ==
  ASSUME Base, Fresh, NEW c \in Calls, LookupRead(c) \/ LookupStore(c) \/ Remote(c)
                                       \/ RemoteFails(c) \/ LookupHook(c)
  PROVE  Base' /\ Fresh'
<1> DEFINE s == target[c]
<1>1. /\ c \in Lookups /\ pc[c] \in Locked
      /\ UNCHANGED <<file, alive, watched, unwatchCh, target, todo, steps, events, overtaken>>
      /\ \A d \in Calls : d # c => pc'[d] = pc[d] /\ got'[d] = got[d]
      /\ \A t \in Srvs : t # s => srvMap'[t] = srvMap[t] /\ told'[t] = told[t]
      /\ pc'[c] \in {"store", "failed", "remote", "hook", "done"}
      /\ IF pc'[c] \in Locked THEN oneSrvMu' = oneSrvMu
                              ELSE oneSrvMu' = [oneSrvMu EXCEPT ![s] = None]
  <2>1. CASE LookupRead(c)
    BY <2>1 DEF LookupRead, Goto, Unlock, Base, Types, Locked, history
  <2>2. CASE LookupStore(c)
    BY <2>2 DEF LookupStore, Goto, Store, Base, Types, Locked, history
  <2>3. CASE Remote(c)
    BY <2>3 DEF Remote, Goto, Base, Types, Locked, history, Stations, LoadSteps, UnwatchSteps, Calls
  <2>4. CASE RemoteFails(c)
    BY <2>4 DEF RemoteFails, Goto, Unlock, Base, Types, Locked, history, Stations, LoadSteps,
                UnwatchSteps, Calls
  <2>5. CASE LookupHook(c)
    BY <2>5 DEF LookupHook, Goto, Unlock, Base, Types, Locked, history, Stations, LoadSteps,
                UnwatchSteps, Calls
  <2> QED BY <2>1, <2>2, <2>3, <2>4, <2>5
<1>2. /\ s \in Srvs /\ oneSrvMu[s] = c
      /\ \A w \in Watchers : Srv(w) = s => wpc[w] # "store"
      /\ \A d \in Lookups : d # c /\ pc[d] \in Locked => target[d] # s
  BY <1>1, LockHeld
<1>3. /\ pc' \in [Calls -> CallSteps] /\ got' \in [Calls -> 0..(MaxWrites + 1)]
      /\ srvMap' \in [Srvs -> 0..MaxWrites] /\ told' \in [Srvs -> 0..(MaxWrites + 1)]
      /\ pc'[c] = "store" => got'[c] \in 0 .. MaxWrites
  <2>1. CASE LookupRead(c)
    <3>1. Version(s) \in 0 .. MaxWrites /\ Version(s) \in 0 .. (MaxWrites + 1)
      BY <1>2, Versions, BoundsAssumption DEF Base
    <3>2. got' = [got EXCEPT ![c] = Version(s)] /\ UNCHANGED <<srvMap, told>>
      BY <2>1 DEF LookupRead, history
    <3>3. \E step \in CallSteps : pc' = [pc EXCEPT ![c] = step]
      BY <2>1 DEF LookupRead, Goto, CallSteps
    <3> QED BY <1>1, <3>1, <3>2, <3>3 DEF Base, Types
  <2>2. CASE LookupStore(c)
    BY <1>1, <1>2, <2>2 DEF LookupStore, Goto, Store, Base, Types, CallSteps, history, Stations
  <2>3. CASE Remote(c)
    <3>1. file[s].version \in 0 .. MaxWrites
      BY <1>2 DEF Base, Types
    <3>2. PICK v \in {file[s].version, file[s].version + 1} : got' = [got EXCEPT ![c] = v]
      BY <2>3 DEF Remote
    <3>3. v \in 0..(MaxWrites + 1)
      BY <3>1, BoundsAssumption
    <3> QED BY <1>1, <1>2, <2>3, <3>2, <3>3 DEF Remote, Goto, Base, Types, CallSteps, history
  <2>4. CASE RemoteFails(c)
    BY <1>1, <1>2, <2>4 DEF RemoteFails, Goto, Base, Types, CallSteps, history
  <2>5. CASE LookupHook(c)
    BY <1>1, <1>2, <2>5 DEF LookupHook, Goto, Base, Types, CallSteps
  <2> QED BY <2>1, <2>2, <2>3, <2>4, <2>5
<1>4. oneSrvMu' \in [Srvs -> Lookups \cup Watchers \cup {None}]
  BY <1>1, <1>2 DEF Base, Types
<1>5. Types'
  BY <1>1, <1>3, <1>4 DEF Base, Types, steps, events
<1>6. Stations'
  BY <1>1, <1>2, <1>3, CallsAssumption DEF Base, Stations, Calls, Locked, LookupSteps
<1>7. Owners'
  <2>1. CASE pc'[c] \in Locked
    BY <1>1, <1>2, <2>1, CallsAssumption DEF Base, Owners, Calls, steps
  <2>2. CASE pc'[c] \notin Locked
    <3>1. \A t \in Srvs : oneSrvMu'[t] = IF t = s THEN None ELSE oneSrvMu[t]
      BY <1>1, <1>2, <2>2 DEF Base, Types
    <3>2. \A d \in Lookups : pc'[d] \in Locked => oneSrvMu'[target'[d]] = d
      BY <1>1, <1>2, <2>2, <3>1 DEF Base, Owners, Stations, Calls
    <3>3. \A w \in Watchers : wpc'[w] = "store" => oneSrvMu'[Srv(w)] = w
      BY <1>1, <1>2, <3>1, Named DEF Base, Owners, steps
    <3>4. \A t \in Srvs, d \in Lookups : oneSrvMu'[t] = d => pc'[d] \in Locked /\ target'[d] = t
      BY <1>1, <1>2, <3>1, CallsAssumption DEF Base, Owners, Calls
    <3>5. \A t \in Srvs, w \in Watchers : oneSrvMu'[t] = w => wpc'[w] = "store" /\ Srv(w) = t
      BY <1>1, <3>1, CallsAssumption DEF Base, Owners, steps
    <3> QED BY <3>2, <3>3, <3>4, <3>5 DEF Owners
  <2> QED BY <2>1, <2>2
<1>8. /\ (Claimed /\ OneWatcher /\ Attached /\ FreshReads)'
      /\ \A w \in Watchers : Sees(w)' => Sees(w) /\ (Rereads(w)' <=> Rereads(w)) /\ wpc'[w] = wpc[w]
      /\ \A t \in Srvs : Version(t)' = Version(t)
  BY <1>1, Undisturbed DEF events, steps
<1>9. ASSUME NEW w \in Watchers, Sees(w)', ~Rereads(w)'
      PROVE  /\ \A d \in Lookups : target[d] = Srv(w) /\ d # c =>
                  /\ pc'[d] = "store" => got'[d] = Version(Srv(w))
                  /\ pc'[d] = "remote" => Version(Srv(w)) = 0
                  /\ pc'[d] = "hook" => Version(Srv(w)) \in {0, got'[d]}
             /\ s = Srv(w) =>
                  /\ pc'[c] = "store" => got'[c] = Version(Srv(w))
                  /\ pc'[c] = "remote" => Version(Srv(w)) = 0
                  /\ pc'[c] = "hook" => Version(Srv(w)) \in {0, got'[c]}
             /\ wpc[w] # "store" /\ Srv(w) \notin overtaken => srvMap'[Srv(w)] = Version(Srv(w))
             /\ wpc[w] = "select" /\ ev[w] = "change" => Version(Srv(w)) \in {0, told'[Srv(w)]}
  <2>1. /\ Sees(w) /\ ~Rereads(w) /\ Srv(w) \in Srvs
    BY <1>8, <1>9, Named
  <2>2. \A d \in Lookups : target[d] = Srv(w) =>
          /\ pc[d] = "store" => got[d] = Version(Srv(w))
          /\ pc[d] = "remote" => Version(Srv(w)) = 0
          /\ pc[d] = "hook" => Version(Srv(w)) \in {0, got[d]}
    BY <2>1 DEF Fresh, FreshLookups
  <2>3. wpc[w] # "store" /\ Srv(w) \notin overtaken => srvMap[Srv(w)] = Version(Srv(w))
    BY <2>1 DEF Fresh, FreshEntries
  <2>4. wpc[w] = "select" /\ ev[w] = "change" => Version(Srv(w)) \in {0, told[Srv(w)]}
    BY <2>1 DEF Fresh, FreshHooks
  <2>5. \A d \in Lookups : target[d] = Srv(w) /\ d # c =>
          /\ pc'[d] = "store" => got'[d] = Version(Srv(w))
          /\ pc'[d] = "remote" => Version(Srv(w)) = 0
          /\ pc'[d] = "hook" => Version(Srv(w)) \in {0, got'[d]}
    BY <1>1, <2>2 DEF Calls
  <2>6. CASE s # Srv(w)
    BY <1>1, <2>1, <2>3, <2>4, <2>5, <2>6
  <2>7. CASE s = Srv(w) /\ LookupRead(c)
    <3>1. /\ got'[c] = Version(s) /\ srvMap' = srvMap /\ told' = told
          /\ pc'[c] \in {"store", "failed", "remote"}
          /\ pc'[c] = "remote" => file[s].is # "whole"
      BY <2>7 DEF LookupRead, Goto, Base, Types, history
    <3> QED BY <2>3, <2>4, <2>5, <2>7, <3>1 DEF Version
  <2>8. CASE s = Srv(w) /\ LookupStore(c)
    <3>1. /\ pc[c] = "store" /\ pc'[c] = "hook" /\ got' = got /\ srvMap'[s] = got[c] /\ told' = told
      BY <1>2, <2>8 DEF LookupStore, Goto, Store, Base, Types, history
    <3> QED BY <1>1, <2>2, <2>4, <2>5, <2>8, <3>1
  <2>9. CASE s = Srv(w) /\ Remote(c)
    <3>1. /\ pc[c] = "remote" /\ pc'[c] = "hook" /\ srvMap' = srvMap /\ told' = told
      BY <2>9 DEF Remote, Goto, Base, Types, history
    <3> QED BY <1>1, <2>2, <2>3, <2>4, <2>5, <2>9, <3>1
  <2>10. CASE s = Srv(w) /\ RemoteFails(c)
    <3>1. /\ pc'[c] = "failed" /\ srvMap' = srvMap /\ told' = told
      BY <2>10 DEF RemoteFails, Goto, Base, Types, history
    <3> QED BY <2>3, <2>4, <2>5, <3>1
  <2>11. CASE s = Srv(w) /\ LookupHook(c)
    <3>1. /\ pc[c] = "hook" /\ pc'[c] = "done" /\ srvMap' = srvMap /\ told'[s] = got[c]
      BY <1>2, <2>11 DEF LookupHook, Goto, Base, Types
    <3> QED BY <1>1, <2>2, <2>3, <2>5, <2>11, <3>1
  <2> QED BY <2>6, <2>7, <2>8, <2>9, <2>10, <2>11
<1>10. FreshLookups'
  BY <1>1, <1>8, <1>9, Named DEF FreshLookups
<1>11. FreshEntries' /\ FreshHooks'
  BY <1>1, <1>8, <1>9, Named DEF FreshEntries, FreshHooks, steps
<1> QED BY <1>5, <1>6, <1>7, <1>8, <1>10, <1>11 DEF Base, Fresh
-----------------------------------------------------------------------------
\* LoadAll: what it stores without the lock marks the service, unless it is
\* what is in the file.
LEMMA LoadMoves ==
  ASSUME Base, Fresh, NEW c \in Loads,
         LoadBegin(c) \/ (\E f \in Srvs : LoadRead(c, f)) \/ LoadStore(c) \/ LoadEnd(c)
  PROVE  Base' /\ Fresh'
<1>1. /\ c \in Calls /\ c \notin Lookups /\ c \notin Unwatches
      /\ UNCHANGED <<file, alive, watched, unwatchCh, oneSrvMu, ev, read, events, told>>
      /\ \A d \in Calls : d # c => pc'[d] = pc[d] /\ target'[d] = target[d] /\ got'[d] = got[d]
      /\ pc'[c] \in {"read", "store", "failed", "done"}
  <2>1. CASE LoadBegin(c)
    BY <2>1, CallsAssumption DEF LoadBegin, MuLocked, Goto, Base, Types, Calls, history, steps
  <2>2. CASE \E f \in Srvs : LoadRead(c, f)
    BY <2>2, CallsAssumption DEF LoadRead, Goto, Base, Types, Calls, history
  <2>3. CASE LoadStore(c)
    BY <2>3, CallsAssumption DEF LoadStore, Goto, Base, Types, Calls, steps
  <2>4. CASE LoadEnd(c)
    BY <2>4, CallsAssumption DEF LoadEnd, Goto, Base, Types, Calls, history, steps
  <2> QED BY <2>1, <2>2, <2>3, <2>4
<1>2. /\ pc' \in [Calls -> CallSteps] /\ got' \in [Calls -> 0..(MaxWrites + 1)]
      /\ target' \in [Calls -> Srvs \cup {None}] /\ todo' \in [Calls -> SUBSET Srvs]
      /\ wpc' \in [Watchers -> WatchSteps]
      /\ srvMap' \in [Srvs -> 0..MaxWrites] /\ overtaken' \subseteq Srvs
      /\ pc'[c] = "store" => target'[c] \in Srvs /\ got'[c] \in 0 .. MaxWrites
      /\ \A w \in Watchers : wpc'[w] = wpc[w] \/ (wpc'[w] = "start" /\ ~Past(w))
      /\ \A s \in Srvs : \/ srvMap'[s] = srvMap[s] /\ (s \in overtaken <=> s \in overtaken')
                         \/ s \in overtaken' \/ srvMap'[s] = Version(s)
  <2>1. CASE LoadBegin(c)
    BY <1>1, <2>1 DEF LoadBegin, MuLocked, Goto, Base, Types, CallSteps, history, steps
  <2>2. CASE \E f \in Srvs : LoadRead(c, f)
    <3>0. PICK f \in Srvs : LoadRead(c, f)
      BY <2>2
    <3> DEFINE s == Cut[f]
    <3>5. s \in Srvs /\ Srv(<<c, f>>) = s
      BY CutAssumption, Named
    <3>1. Version(s) \in 0 .. MaxWrites /\ Version(s) \in 0 .. (MaxWrites + 1)
      BY <3>5, Versions, BoundsAssumption DEF Base
    <3>2. /\ got' = [got EXCEPT ![c] = Version(s)] /\ target' = [target EXCEPT ![c] = s]
          /\ todo' = [todo EXCEPT ![c] = @ \ {f}]
          /\ UNCHANGED <<srvMap, overtaken>>
      BY <3>0 DEF LoadRead, history
    <3>3. \E step \in CallSteps : pc' = [pc EXCEPT ![c] = step]
      BY <3>0 DEF LoadRead, Goto, CallSteps
    <3>4. /\ wpc' \in [Watchers -> WatchSteps]
          /\ \A w \in Watchers : wpc'[w] = wpc[w] \/ (wpc'[w] = "start" /\ ~Past(w))
      BY <3>0, <3>5, Spawned DEF LoadRead, Base, Types
    <3> QED BY <1>1, <3>1, <3>2, <3>3, <3>4, <3>5 DEF Base, Types
  <2>3. CASE LoadStore(c)
    <3> DEFINE s == target[c]
    <3>1. /\ s \in Srvs /\ got[c] \in 0 .. MaxWrites
          /\ srvMap' = [srvMap EXCEPT ![s] = got[c]]
          /\ overtaken' = IF got[c] = Version(s) THEN overtaken \ {s} ELSE overtaken \cup {s}
          /\ pc' = [pc EXCEPT ![c] = "read"] /\ UNCHANGED <<target, got, todo, wpc>>
      BY <1>1, <2>3 DEF LoadStore, Store, Goto, Base, Stations, steps
    <3> QED BY <1>1, <3>1 DEF Base, Types, CallSteps
  <2>4. CASE LoadEnd(c)
    BY <1>1, <2>4 DEF LoadEnd, Goto, Base, Types, CallSteps, history, steps
  <2> QED BY <2>1, <2>2, <2>3, <2>4
<1>3. Types'
  BY <1>1, <1>2 DEF Base, Types, events
<1>4. Stations'
  BY <1>1, <1>2, CallsAssumption DEF Base, Stations, Calls, LoadSteps
<1>5. Owners'
  <2>1. \A w \in Watchers : (wpc'[w] = "store" <=> wpc[w] = "store")
    <3>1. \A w \in Watchers : wpc[w] = "store" => Past(w)
      BY DEF Past
    <3> QED BY <1>2, <3>1
  <2> QED BY <1>1, <2>1 DEF Base, Owners, Calls
<1>6. /\ (Claimed /\ OneWatcher /\ Attached /\ FreshReads)'
      /\ \A w \in Watchers : Sees(w)' => Sees(w) /\ (Rereads(w)' <=> Rereads(w)) /\ wpc'[w] = wpc[w]
      /\ \A s \in Srvs : Version(s)' = Version(s)
  BY <1>1, <1>2, Undisturbed DEF events
<1>7. FreshLookups'
  BY <1>1, <1>6, Named DEF Fresh, FreshLookups, Calls
<1>8. FreshEntries' /\ FreshHooks'
  BY <1>1, <1>2, <1>6, Named DEF Fresh, FreshEntries, FreshHooks
<1> QED BY <1>3, <1>4, <1>5, <1>6, <1>7, <1>8 DEF Base, Fresh

\* Unwatch.
LEMMA UnwatchMoves ==
  ASSUME Base, Fresh, NEW c \in Calls,
         UnwatchBegin(c) \/ UnwatchPick(c)
  PROVE  Base' /\ Fresh'
<1>1. /\ c \in Unwatches /\ c \notin Lookups /\ c \notin Loads
      /\ UNCHANGED <<file, alive, srvMap, watched, unwatchCh, oneSrvMu, got, steps, events, history>>
      /\ \A d \in Calls : d # c => pc'[d] = pc[d] /\ target'[d] = target[d]
      /\ pc'[c] \in {"pick", "send", "done"}
      /\ pc' \in [Calls -> CallSteps] /\ target' \in [Calls -> Srvs \cup {None}]
      /\ todo' \in [Calls -> SUBSET Srvs]
  <2>1. CASE UnwatchBegin(c)
    BY <2>1, CallsAssumption DEF UnwatchBegin, Goto, Base, Types, CallSteps
  <2>2. CASE UnwatchPick(c) /\ todo[c] = {} /\ Goto(c, "done") /\ UNCHANGED <<target, todo>>
    BY <2>2, CallsAssumption DEF UnwatchPick, Goto, Base, Types, CallSteps, Stations, LookupSteps,
       LoadSteps, UnwatchSteps, Calls
  <2>3. CASE /\ UnwatchPick(c)
             /\ \E s \in todo[c] : /\ target' = [target EXCEPT ![c] = s]
                                   /\ todo' = [todo EXCEPT ![c] = @ \ {s}]
                                   /\ Goto(c, "send")
    BY SMTT(20), <2>3, CallsAssumption
    DEF UnwatchPick, Goto, Base, Types, CallSteps, Stations, LookupSteps,
       LoadSteps, UnwatchSteps, Calls
  <2> QED BY <2>1, <2>2, <2>3 DEF UnwatchPick
<1>2. Types'
  BY <1>1 DEF Base, Types, steps, events, history
<1>3. Stations' /\ Owners'
  BY <1>1, CallsAssumption DEF Base, Stations, Owners, Calls, UnwatchSteps, steps
<1>4. /\ (Claimed /\ OneWatcher /\ Attached /\ FreshReads)'
      /\ \A w \in Watchers : Sees(w)' => Sees(w) /\ (Rereads(w)' <=> Rereads(w)) /\ wpc'[w] = wpc[w]
      /\ \A s \in Srvs : Version(s)' = Version(s)
  BY <1>1, Undisturbed DEF steps, events
<1>5. FreshLookups' /\ FreshEntries' /\ FreshHooks'
  BY <1>1, <1>4, Named DEF Fresh, FreshLookups, FreshEntries, FreshHooks, Calls, steps, history
<1> QED BY <1>2, <1>3, <1>4, <1>5 DEF Base, Fresh
-----------------------------------------------------------------------------
\* What one step of a watcher leaves alone.
Beside(w) ==
  /\ UNCHANGED <<file, alive, pc, target, got, todo>>
  /\ \A v \in Watchers : v # w =>
       /\ wpc'[v] = wpc[v] /\ ev'[v] = ev[v] /\ read'[v] = read[v]
       /\ inode'[v] = inode[v] /\ changed'[v] = changed[v]
  /\ \A s \in Srvs : s # Srv(w) =>
       srvMap'[s] = srvMap[s] /\ told'[s] = told[s] /\ (s \in overtaken <=> s \in overtaken')

\* How it may take the lock and the claim, and leave them.
Locks(w) ==
  \/ wpc[w] # "store" /\ wpc'[w] # "store" /\ oneSrvMu' = oneSrvMu
  \/ /\ wpc[w] # "store" /\ wpc'[w] = "store" /\ oneSrvMu[Srv(w)] = None
     /\ oneSrvMu' = [oneSrvMu EXCEPT ![Srv(w)] = w]
  \/ /\ wpc[w] = "store" /\ wpc'[w] # "store"
     /\ oneSrvMu' = [oneSrvMu EXCEPT ![Srv(w)] = None]

Claims(w) ==
  \/ watched' = watched /\ (Past(w)' => Past(w))
  \/ Srv(w) \notin watched /\ watched' = watched \cup {Srv(w)}

LEMMA WatcherBase ==
  ASSUME Base, NEW w \in Watchers, Beside(w), Locks(w), Claims(w), Types',
         inode'[w] <= file[Srv(w)].inode
  PROVE  Base'
<1>1. Stations'
  BY DEF Base, Stations, Beside
<1>2. Owners'
  <2>1. \A v \in Watchers : v # w => (wpc'[v] = "store" <=> wpc[v] = "store")
    BY DEF Beside
  <2>2. CASE wpc[w] # "store" /\ wpc'[w] # "store" /\ oneSrvMu' = oneSrvMu
    BY <2>1, <2>2 DEF Base, Owners, Beside
  <2>3. CASE /\ wpc[w] # "store" /\ wpc'[w] = "store" /\ oneSrvMu[Srv(w)] = None
             /\ oneSrvMu' = [oneSrvMu EXCEPT ![Srv(w)] = w]
    <3>1. \A s \in Srvs : oneSrvMu'[s] = IF s = Srv(w) THEN w ELSE oneSrvMu[s]
      BY <2>3, Named DEF Base, Types
    <3>2. \A c \in Lookups : pc[c] \in Locked => target[c] # Srv(w) /\ target[c] \in Srvs
      BY <2>3, CallsAssumption DEF Base, Owners, Stations, Calls
    <3>3. \A v \in Watchers : wpc[v] = "store" => Srv(v) # Srv(w)
      BY <2>3, CallsAssumption DEF Base, Owners
    <3>4. \A c \in Lookups : c # w
      BY CallsAssumption DEF Calls
    <3> QED BY <2>1, <2>3, <3>1, <3>2, <3>3, <3>4, Named DEF Base, Owners, Beside
  <2>4. CASE /\ wpc[w] = "store" /\ wpc'[w] # "store"
             /\ oneSrvMu' = [oneSrvMu EXCEPT ![Srv(w)] = None]
    <3>1. \A s \in Srvs : oneSrvMu'[s] = IF s = Srv(w) THEN None ELSE oneSrvMu[s]
      BY <2>4, Named DEF Base, Types
    <3>2. oneSrvMu[Srv(w)] = w
      BY <2>4 DEF Base, Owners
    <3>3. \A c \in Lookups : /\ c # w /\ c # None
                             /\ pc[c] \in Locked => target[c] # Srv(w) /\ target[c] \in Srvs
      BY <3>2, CallsAssumption DEF Base, Owners, Stations, Calls
    <3>4. \A v \in Watchers : v # None /\ (v # w /\ wpc[v] = "store" => Srv(v) # Srv(w))
      BY <3>2, CallsAssumption DEF Base, Owners
    <3> QED BY <2>1, <2>4, <3>1, <3>3, <3>4, Named DEF Base, Owners, Beside
  <2> QED BY <2>2, <2>3, <2>4 DEF Locks
<1>3. Claimed' /\ OneWatcher'
  <2>1. \A v \in Watchers : v # w => (Past(v)' <=> Past(v))
    BY DEF Past, Beside
  <2>2. \A v \in Watchers : Past(v) => Srv(v) \in watched
    BY DEF Base, Claimed
  <2>3. \A v \in Watchers : v # w /\ Past(v) /\ Past(w)' => Srv(v) # Srv(w)
    <3>1. \A v \in Watchers : v # w /\ Past(v) /\ Past(w) => Srv(v) # Srv(w)
      BY DEF Base, OneWatcher, Past
    <3> QED BY <2>2, <3>1 DEF Claims
  <2>4. \A u, v \in Watchers : u # v /\ Past(u) /\ Past(v) => Srv(u) # Srv(v)
    BY DEF Base, OneWatcher, Past
  <2>5. \A u, v \in Watchers : u # v /\ Past(u)' /\ Past(v)' => Srv(u) # Srv(v)
    BY <2>1, <2>3, <2>4
  <2>6. \A v \in Watchers : Past(v)' => Srv(v) \in watched'
    BY <2>1, <2>2 DEF Claims
  <2> QED BY <2>5, <2>6 DEF Claimed, OneWatcher, Past
<1>4. Attached'
  BY DEF Base, Attached, Beside
<1> QED BY <1>1, <1>2, <1>3, <1>4 DEF Base

\* What is fresh, watcher by watcher.
FreshOf(w) ==
  Sees(w) =>
    /\ ~changed[w] /\ (wpc[w] = "store" \/ (wpc[w] = "hook" /\ ev[w] = "change"))
         => read[w] = Version(Srv(w))
    /\ ~Rereads(w) =>
         /\ \A c \in Lookups : target[c] = Srv(w) =>
              /\ pc[c] = "store" => got[c] = Version(Srv(w))
              /\ pc[c] = "remote" => Version(Srv(w)) = 0
              /\ pc[c] = "hook" => Version(Srv(w)) \in {0, got[c]}
         /\ wpc[w] # "store" /\ Srv(w) \notin overtaken => srvMap[Srv(w)] = Version(Srv(w))
         /\ wpc[w] = "select" /\ ev[w] = "change" => Version(Srv(w)) \in {0, told[Srv(w)]}

LEMMA FreshIs == Fresh <=> \A w \in Watchers : FreshOf(w)
  BY DEF Fresh, FreshLookups, FreshReads, FreshEntries, FreshHooks, FreshOf

LEMMA WatcherFresh ==
  ASSUME Base, Fresh, NEW w \in Watchers, Beside(w), FreshOf(w)',
         Past(w) \/ UNCHANGED <<srvMap, told, overtaken>>
  PROVE  Fresh'
<1> SUFFICES ASSUME NEW v \in Watchers, v # w PROVE FreshOf(v)'
  BY DEF Fresh, FreshLookups, FreshReads, FreshEntries, FreshHooks, FreshOf
<1>1. FreshOf(v) /\ Srv(v) \in Srvs
  BY FreshIs, Named
<1>2. Version(Srv(v))' = Version(Srv(v)) /\ (Sees(v)' <=> Sees(v)) /\ (Rereads(v)' <=> Rereads(v))
  BY DEF Beside, Version, Sees, Watching, Exists, Rereads
<1>3. CASE Srv(v) # Srv(w)
  BY <1>1, <1>2, <1>3 DEF FreshOf, Beside
<1>4. CASE UNCHANGED <<srvMap, told, overtaken>>
  BY <1>1, <1>2, <1>4 DEF FreshOf, Beside
<1>5. CASE Srv(v) = Srv(w) /\ Past(w)
  <2>1. ~Past(v)
    BY <1>5 DEF Base, OneWatcher, Past
  <2>2. ~Sees(v)
    BY <2>1 DEF Sees, Past
  <2> QED BY <1>2, <2>2 DEF FreshOf
<1> QED BY <1>3, <1>4, <1>5

\* Between d.mu, the claim and the channel.
LEMMA WatcherOutside ==
  ASSUME Base, Fresh, NEW w \in Watchers, WatchMu(w) \/ Claim(w) \/ Attach(w) \/ Receive(w)
  PROVE  Base' /\ Fresh'
<1>1. /\ UNCHANGED <<file, alive, srvMap, oneSrvMu, calls, read, history>>
      /\ \A v \in Watchers : v # w => /\ wpc'[v] = wpc[v] /\ ev'[v] = ev[v]
                                      /\ inode'[v] = inode[v] /\ changed'[v] = changed[v]
      /\ wpc' \in [Watchers -> WatchSteps] /\ ev' \in [Watchers -> {"first", "change", "delete"}]
      /\ inode' \in [Watchers -> 0..MaxInode] /\ changed' \in [Watchers -> BOOLEAN]
      /\ deleted' \in [Watchers -> BOOLEAN] /\ watched' \subseteq Srvs
      /\ unwatchCh' \in [Srvs -> Watchers \cup {None}]
      /\ inode'[w] <= file[Srv(w)].inode
      /\ wpc[w] # "store" /\ wpc'[w] \in {"claim", "lock", "done", "attach", "mu"}
      /\ Claims(w)
  <2>1. CASE WatchMu(w)
    BY <2>1 DEF WatchMu, MuLocked, WGoto, Base, Types, WatchSteps, Attached, Claims, Past, events
  <2>2. CASE Claim(w)
    BY <2>2, Named DEF Claim, WGoto, Base, Types, WatchSteps, Attached, Claims, Past, events
  <2>3. CASE Attach(w)
    <3>1. Srv(w) \in Srvs /\ file[Srv(w)].inode \in 0 .. MaxInode
      BY Named DEF Base, Types
    <3>2. inode'[w] = file[Srv(w)].inode
      BY <2>3 DEF Attach, Base, Types
    <3> QED BY <2>3, <3>1, <3>2 DEF Attach, WGoto, Base, Types, WatchSteps, Claims, Past, history
  <2>4. CASE Receive(w)
    BY <2>4 DEF Receive, WGoto, Base, Types, WatchSteps, Attached, Claims, Past
  <2> QED BY <2>1, <2>2, <2>3, <2>4
<1>2. Types'
  BY <1>1 DEF Base, Types, calls, history
<1>3. Beside(w) /\ Locks(w)
  BY <1>1 DEF Beside, Locks, calls, history
<1>4. Base'
  BY <1>1, <1>2, <1>3, WatcherBase
<1>5. FreshOf(w)'
  BY <1>1 DEF FreshOf, Sees, Rereads
<1> QED BY <1>1, <1>3, <1>4, <1>5, WatcherFresh DEF history

\* The file is read and stored under the lock.
LEMMA WatcherInside ==
  ASSUME Base, Fresh, NEW w \in Watchers, WatchRead(w) \/ WatchStore(w) \/ WatchDrop(w) \/ WatchHook(w)
  PROVE  Base' /\ Fresh'
<1> DEFINE s == Srv(w)
<1>0. s \in Srvs /\ Version(s) \in 0 .. MaxWrites /\ 0 \in 0 .. MaxWrites /\ 0 \in 0 .. (MaxWrites + 1)
      /\ read[w] \in 0 .. MaxWrites /\ read[w] \in 0 .. (MaxWrites + 1)
  BY Named, Versions, BoundsAssumption DEF Base, Types
<1>1. /\ UNCHANGED <<file, alive, watched, unwatchCh, calls, events>>
      /\ \A v \in Watchers : v # w => wpc'[v] = wpc[v] /\ ev'[v] = ev[v] /\ read'[v] = read[v]
      /\ \A t \in Srvs : t # s =>
           srvMap'[t] = srvMap[t] /\ told'[t] = told[t] /\ (t \in overtaken <=> t \in overtaken')
      /\ Past(w) /\ Locks(w)
  <2>1. CASE WatchRead(w)
    BY <2>1 DEF WatchRead, Lock, WGoto, Base, Types, Past, Locks, history
  <2>2. CASE WatchStore(w)
    BY <2>2 DEF WatchStore, Store, Unlock, WGoto, Base, Types, Past, Locks
  <2>3. CASE WatchDrop(w)
    BY <2>3 DEF WatchDrop, Store, WGoto, Base, Types, Past, Locks
  <2>4. CASE WatchHook(w)
    BY <2>4 DEF WatchHook, WGoto, Base, Types, Past, Locks
  <2> QED BY <2>1, <2>2, <2>3, <2>4
<1>2. oneSrvMu' \in [Srvs -> Lookups \cup Watchers \cup {None}]
  BY <1>0, <1>1 DEF Base, Types, Locks
<1>3. /\ wpc' \in [Watchers -> WatchSteps] /\ ev' \in [Watchers -> {"first", "change", "delete"}]
      /\ read' \in [Watchers -> 0..MaxWrites] /\ srvMap' \in [Srvs -> 0..MaxWrites]
      /\ told' \in [Srvs -> 0..(MaxWrites + 1)] /\ overtaken' \subseteq Srvs
  <2>1. CASE WatchRead(w)
    BY <1>0, <2>1 DEF WatchRead, WGoto, Base, Types, WatchSteps, history
  <2>2. CASE WatchStore(w)
    BY <1>0, <2>2 DEF WatchStore, Store, WGoto, Base, Types, WatchSteps
  <2>3. CASE WatchDrop(w)
    BY <1>0, <2>3 DEF WatchDrop, Store, WGoto, Base, Types, WatchSteps
  <2>4. CASE WatchHook(w)
    BY <1>0, <2>4 DEF WatchHook, WGoto, Base, Types, WatchSteps
  <2> QED BY <2>1, <2>2, <2>3, <2>4
<1>4. Types'
  BY <1>1, <1>2, <1>3 DEF Base, Types, calls, events
<1>5. Beside(w)
  BY <1>1 DEF Beside, calls, events
<1>6. Base'
  <2>1. inode'[w] <= file[Srv(w)].inode
    BY <1>1 DEF Base, Attached, events
  <2>2. Claims(w)
    BY <1>1 DEF Claims
  <2> QED BY <1>1, <1>4, <1>5, <2>1, <2>2, WatcherBase
<1>7. FreshOf(w)'
  <2>1. Version(s)' = Version(s) /\ (Watching(w, s)' <=> Watching(w, s)) /\ changed' = changed
    BY <1>1 DEF Version, Watching, Exists, events
  <2>2. FreshOf(w)
    BY FreshIs
  <2>3. CASE WatchRead(w)
    <3>1. /\ wpc'[w] = "store" /\ read'[w] = Version(s) /\ oneSrvMu[s] = None
      BY <2>3 DEF WatchRead, WGoto, Lock, Base, Types
    <3>2. \A c \in Lookups : target[c] = s => pc[c] \notin Locked
      BY <3>1, CallsAssumption DEF Base, Owners, Calls
    <3> QED BY <1>1, <2>1, <3>1, <3>2 DEF FreshOf, Locked, calls
  <2>4. CASE WatchStore(w)
    <3>1. /\ wpc[w] = "store" /\ wpc'[w] = IF ev[w] = "change" /\ read[w] # 0 THEN "hook" ELSE "select"
          /\ srvMap'[s] = read[w] /\ UNCHANGED <<read, ev, told>>
      BY <1>0, <2>4 DEF WatchStore, Store, WGoto, Base, Types
    <3>2. \A c \in Lookups : target[c] = s => pc[c] \notin Locked
      BY <3>1, CallsAssumption DEF Base, Owners, Calls
    <3>3. Sees(w)' => Sees(w)
      BY <2>1, <3>1 DEF Sees
    <3>4. Sees(w)' /\ ~changed[w] => read[w] = Version(s)
      BY <2>2, <3>1, <3>3 DEF FreshOf
    <3> QED BY <1>1, <2>1, <3>1, <3>2, <3>4 DEF FreshOf, Locked, calls, Rereads
  <2>5. CASE WatchDrop(w)
    <3>1. wpc'[w] = "hook" /\ ev'[w] = "delete"
      BY <2>5 DEF WatchDrop, WGoto, Base, Types
    <3> QED BY <3>1 DEF FreshOf, Rereads
  <2>6. CASE WatchHook(w) /\ ev[w] = "delete"
    <3>1. wpc'[w] = "mu"
      BY <2>6 DEF WatchHook, WGoto, Base, Types
    <3> QED BY <3>1 DEF FreshOf, Rereads
  <2>7. CASE WatchHook(w) /\ ev[w] # "delete"
    <3>1. /\ wpc[w] = "hook" /\ wpc'[w] = "select" /\ told'[s] = read[w]
          /\ UNCHANGED <<read, ev, srvMap, overtaken>>
      BY <1>0, <2>7 DEF WatchHook, WGoto, Base, Types
    <3>2. Sees(w)' => Sees(w)
      BY <2>1, <3>1 DEF Sees
    <3>3. Rereads(w)' <=> changed[w]
      BY <2>1, <3>1 DEF Rereads
    <3>4. Rereads(w) <=> changed[w]
      BY <2>7, <3>1 DEF Rereads
    <3> QED BY <1>1, <2>1, <2>2, <3>1, <3>2, <3>3, <3>4 DEF FreshOf, calls
  <2> QED BY <2>3, <2>4, <2>5, <2>6, <2>7
<1> QED BY <1>1, <1>5, <1>6, <1>7, WatcherFresh

\* An Unwatch ends a watcher.
LEMMA WatcherEnds ==
  ASSUME Base, Fresh, NEW u \in Unwatches, NEW w \in Watchers, TakeUnwatch(u, w)
  PROVE  Base' /\ Fresh'
<1>1. /\ u \in Calls /\ u \notin Lookups /\ u \notin Loads
      /\ UNCHANGED <<file, alive, srvMap, watched, unwatchCh, oneSrvMu, target, got, todo, ev, read,
                     events, history>>
      /\ \A c \in Calls : c # u => pc'[c] = pc[c]
      /\ \A v \in Watchers : v # w => wpc'[v] = wpc[v]
      /\ pc'[u] = "pick" /\ wpc[w] = "select" /\ wpc'[w] = "out"
      /\ pc' \in [Calls -> CallSteps] /\ wpc' \in [Watchers -> WatchSteps]
  BY CallsAssumption DEF TakeUnwatch, Goto, WGoto, Base, Types, CallSteps, WatchSteps, Calls
<1>2. Types'
  BY <1>1 DEF Base, Types, events, history
<1>3. Stations' /\ Owners'
  BY <1>1 DEF Base, Stations, Owners, Calls, UnwatchSteps
<1>4. Claimed' /\ OneWatcher' /\ Attached'
  BY <1>1 DEF Base, Claimed, Past, OneWatcher, Attached, events
<1>5. \A v \in Watchers : Sees(v)' => Sees(v) /\ v # w
  BY <1>1 DEF Sees, Watching, Exists, events
<1>6. \A t \in Srvs : Version(t)' = Version(t)
  BY <1>1 DEF Version
<1>7. FreshLookups' /\ FreshReads' /\ FreshEntries' /\ FreshHooks'
  BY <1>1, <1>5, <1>6, Named
  DEF Fresh, FreshLookups, FreshReads, FreshEntries, FreshHooks, Rereads, Calls, events, history
<1> QED BY <1>2, <1>3, <1>4, <1>7 DEF Base, Fresh
-----------------------------------------------------------------------------
LEMMA CacheNext == Base /\ Fresh /\ [Next]_vars => Base' /\ Fresh'
<1> SUFFICES ASSUME Base, Fresh, [Next]_vars PROVE Base' /\ Fresh'
  OBVIOUS
<1>1. CASE \E s \in Srvs : Truncate(s) \/ Write(s) \/ Delete(s)
  BY <1>1, FileChanges
<1>2. CASE \E c \in Calls, s \in Srvs : Call(c, s)
  BY <1>2, CallBegins
<1>5. ASSUME NEW c \in Calls, CallStep(c)
      PROVE  Base' /\ Fresh'
  <2>1. CASE Lookup(c) \/ LookupMu(c)
    BY <2>1, LookupsOutside
  <2>2. CASE LookupLocked(c)
    BY <2>2, LookupLocks
  <2>3. CASE LookupRead(c) \/ LookupStore(c) \/ Remote(c) \/ RemoteFails(c) \/ LookupHook(c)
    BY <2>3, LookupsInside
  <2>4. CASE LoadBegin(c) \/ (\E f \in Srvs : LoadRead(c, f)) \/ LoadStore(c) \/ LoadEnd(c)
    <3>1. c \in Loads
      BY <2>4 DEF LoadBegin, LoadRead, LoadStore, LoadEnd
    <3> QED BY <2>4, <3>1, LoadMoves
  <2>5. CASE UnwatchBegin(c) \/ UnwatchPick(c)
    BY <2>5, UnwatchMoves
  <2> QED BY <1>5, <2>1, <2>2, <2>3, <2>4, <2>5 DEF CallStep
<1>6. ASSUME NEW w \in Watchers, WatchStep(w)
      PROVE  Base' /\ Fresh'
  BY <1>6, WatcherOutside, WatcherInside DEF WatchStep
<1>7. CASE \E u \in Unwatches, w \in Watchers : TakeUnwatch(u, w)
  BY <1>7, WatcherEnds
<1>8. CASE Abort \/ (\E h \in Calls \cup Watchers : Queue(h)) \/ UNCHANGED vars
  <2>1. /\ UNCHANGED <<file, srvMap, watched, unwatchCh, oneSrvMu, calls, steps, events, history>>
        /\ alive' \in BOOLEAN
    BY <1>8 DEF Abort, Queue, vars, Base, Types
  <2>2. Base'
    BY <2>1 DEF Base, Types, Stations, Owners, Claimed, Past, OneWatcher, Attached,
                calls, steps, events, history
  <2>3. Fresh'
    BY <2>1 DEF Fresh, FreshLookups, FreshReads, FreshEntries, FreshHooks, Sees, Watching, Exists,
                Rereads, Version, calls, steps, events, history
  <2> QED BY <2>2, <2>3
<1> QED BY <1>1, <1>2, <1>5, <1>6, <1>7, <1>8 DEF Next

\* Whoever waits for the readers of d.mu is a call or a watcher.
Waits == queued \in Calls \cup Watchers \cup {None}

LEMMA QueueNext == Waits /\ [Next]_vars => Waits'
<1> SUFFICES ASSUME Waits, [Next]_vars PROVE Waits'
  OBVIOUS
<1>1. ASSUME NEW c \in Calls, CallStep(c) PROVE queued' \in {queued, None}
  BY <1>1
  DEF CallStep, Lookup, LookupMu, MuLocked, LookupLocked, LookupRead, LookupStore, Remote,
      RemoteFails, LookupHook, LoadBegin, LoadRead, LoadStore, LoadEnd, UnwatchBegin, UnwatchPick
<1>2. ASSUME NEW w \in Watchers, WatchStep(w) PROVE queued' \in {queued, None}
  BY <1>2
  DEF WatchStep, WatchMu, MuLocked, Claim, Attach, Receive, WatchRead, WatchStore, WatchDrop,
      WatchHook
<1>3. ASSUME NEW h \in Calls \cup Watchers, Queue(h) PROVE Waits'
  BY <1>3 DEF Queue, Waits
<1>4. CASE \/ \E s \in Srvs : Truncate(s) \/ Write(s) \/ Delete(s)
           \/ \E c \in Calls, s \in Srvs : Call(c, s)
           \/ \E u \in Unwatches, w \in Watchers : TakeUnwatch(u, w)
           \/ Abort \/ UNCHANGED vars
  BY <1>4 DEF Truncate, Write, Delete, Call, TakeUnwatch, Abort, vars, Waits
<1> QED BY <1>1, <1>2, <1>3, <1>4 DEF Next, Waits

LEMMA WaitsHolds == Spec => []Waits
<1>1. Init => Waits
  BY DEF Init, Waits
<1> QED BY <1>1, QueueNext, PTL DEF Spec

LEMMA CacheHolds == Spec => [](Base /\ Fresh)
  BY CacheInit, CacheNext, PTL DEF Spec
-----------------------------------------------------------------------------
(***************************************************************************)
(* What follows.                                                           *)
(***************************************************************************)
\* Types; and who holds the lock of a service is at a step under it.
THEOREM TypeCorrect == Spec => []TypeOK
<1>1. Base /\ Waits => TypeOK
  <2> SUFFICES ASSUME Base, Waits PROVE TypeOK
    OBVIOUS
  <2>1. ASSUME NEW s \in Srvs, oneSrvMu[s] # None PROVE Holding(oneSrvMu[s])
    <3>1. oneSrvMu[s] \in Lookups \cup Watchers
      BY <2>1 DEF Base, Types
    <3>2. CASE oneSrvMu[s] \in Watchers
      BY <3>2 DEF Holding, Base, Owners
    <3>3. CASE oneSrvMu[s] \in Lookups
      BY <3>3, CallsAssumption DEF Holding, Base, Owners, Locked, Calls
    <3> QED BY <3>1, <3>2, <3>3
  <2> QED BY <2>1 DEF Base, Types, TypeOK, Waits
<1> QED BY <1>1, CacheHolds, WaitsHolds, PTL

\* watchOne: of all the goroutines started for a service one is past its claim.
THEOREM SingleWatcher == Spec => []OneWatcher
<1>1. Base => OneWatcher
  BY DEF Base
<1> QED BY <1>1, CacheHolds, PTL

\* The cached version is that of the file, where the watcher has caught up.
THEOREM CacheFollows == Spec => []CacheFollowsFile
<1>1. Fresh => CacheFollowsFile
  BY DEF Fresh, FreshEntries, CacheFollowsFile, CaughtUp, Watching, Sees, Rereads
<1> QED BY <1>1, CacheHolds, PTL

\* And so is the version that the callback was told last.
THEOREM HookFollows == Spec => []HookFollowsFile
<1>1. Fresh => HookFollowsFile
  BY DEF Fresh, FreshHooks, HookFollowsFile, CaughtUp, Watching, Sees, Rereads
<1> QED BY <1>1, CacheHolds, PTL
=============================================================================
