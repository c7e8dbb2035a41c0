# A verification of microgosuit

microgosuit is a Go library for gRPC services that register themselves in a registry
(etcd), discover each other through it, and are health-checked.  This directory
models it in TLA+, from the registry to the code generators: TLC checks the models on small instances,
TLAPS proves the theorems for every value of the constants.

    tlc -config WatchCache_safety.cfg MCWatchCache.tla     # a run
    tlapm WatchCacheProofs.tla                             # the proofs

`PROJECT.json` lists the runs with their properties, a mutant for each property,
the lines every definition stands for, the hazards and the theorems.

## 1. Inventory

All paths are relative to `src/`.

| Component | Source | State | Operations | Modelled in |
|---|---|---|---|---|
| service record | `discovery/discovery.go` | a list of nodes: address, status, Extra | NewNode, Available | `ServiceNodes` |
| registry writers | `discovery/impl/etcd/discovery.go` | one etcd key per service | Register, Unregister, UnregisterAll | `Registry`, `AtomicRegistry` |
| registry cache | `discovery/impl/etcd/discovery.go` | srvMap, isWatched, d.mu, a lock per service, a watch stream | Discover, LoadAll, watch, Unwatch, OnSrvUpdated | `WatchCache`, `ReadThrough` |
| file cache | `discovery/impl/filecachedproxy/discovery.go` | srvMap, watchedServices, unwatchSrvChMap, d.mu, a lock per service, a file watch per service | Discover, LoadAll, watchOne, Unwatch, OnSrvUpdated | `FileCache` |
| discovery proxy | `discoveryproxy/proxy.go` | its directory, its discovery, two channels, isExited; a file per service | NewProxy, Run, watchCfg, rerun, SyncSrvToLocalFile | `Proxy`; for its readers, `FileCache` |
| server | `micro.go` | what of its SrvNames is registered | ServeGrpc | `HealthCheck` |
| health handler | `grpcsuit/handler/health/health.go` | its services | Ping | `HealthCheck` |
| health checker | `grpcsuit/health.go` | what it has loaded; pings of each worker | check | `HealthCheck` |
| its worker pool | `grpcsuit/health.go` | sizes, isPaused, isExited, two channels, goroutines | Run, work, Reset..., Exit, Pause, Resume | `WorkerPool` |
| gRPC resolver | `grpcsuit/builder.go`, `resolver.go` | resolvers of each service | Build, ResolveNow, UpdateSrvCfg, OnResolverClosed | `Resolvers` |
| dial options, generated stub | `grpcsuit/suit.go`, the client generator's `tmpl.go` | a list and a merged list, for all services and for each; a Once each; a connection per stub | RegisterCustomizedDialOpts, GetCustomizedOptsMergedDefault, RegisterDial...Opts, GetDial...Opts, prepareConn, methods | `Stub` |
| singletons | `micro.go`, `env/meta.go`, `factory/discovery.go`, `grpcsuit/builder.go` | meta, discover, its callback, the registered builder | InitSuitWithGrpc, InitMeta, MustMeta, GetOrMakeDiscovery, NewBuilder | `Startup` |
| Route | `discovery/util/util.go` | none | Route | `Route` |
| code generators | `skeleton/protoc-gen/` | the project's files, req.pb | both `main`s, genServerSkeleton, genClientSkeleton | `Generator` |
| per-service locks | `discovery/util/mu.go` | a lock per name | MakeOrGetOpOneSrvMu | assumed (section 6) |
| errors, logging, ports, generated code | `grpcsuit/error.go`, `log/`, `skeleton/net.go`, `*.pb.go` | none that matters | | not modelled (section 8) |

**How they interact.**  A server calls Register on the process's discovery for each
of its services, serves, and unregisters.  Writers of all processes meet at one etcd
key per service.  Every process that looks services up has a cache; etcd's watch
stream tells it of changes, and the callback of OnSrvUpdated tells the user of the
cache: the resolver, which pushes addresses into gRPC connections, or the proxy,
which keeps one file per service.  With the proxy, the processes of a machine use
the file cache, which watches those files and asks etcd only where there is no
file.  The health checker loads everything, pings it, and calls Unregister for what
does not answer: it and the servers write the same keys without knowing each other.
A server's code, and the stubs of its clients, are generated from proto files into a
project that the developer works in.

**What is hard, and what correctness means.**

* *Writers*: read, change, compare and write, with retries, by any number of processes;
  requests that time out at the caller and arrive later.  Each call must take effect
  at once or not at all; an acknowledged registration must not be lost.
* *etcd cache*: Discover fills an entry across a request while the watcher applies
  events; LoadAll overwrites under another lock; watchers start and end.  An entry
  must end up at the newest change; one watcher may run; all calls must return.
* *File cache*: a watch per file which begins after the first read; files that are
  rewritten in place, removed and created again; three maps under several locks.  The
  cache must follow the file, the callback the cache; calls must not deadlock.
* *Health check*: a check is long, and a server may stop and start meanwhile.  What
  is served must stay registered, what is not must be removed in the end.
* *Worker pool*: sizes are reset while the pool is adjusted; two unbuffered channels
  between three kinds of goroutines.  No worker may be lost or counted twice; Run
  must end after Exit.
* *Resolver*: the callback, Build and ResolveNow push records of different ages into
  one connection.  It must end up with the newest; a closed one must be left alone.
* *Proxy*: its configuration changes while the callback writes files; two goroutines
  share fields without a lock, and wait on channels that are never made.  A file must
  end up at the newest change, and the callback must go on whatever happens to the rest.
  (A changed configuration ought to be taken up; the code does not see to that, below.)
* *Singletons*: lazily made, by several callers, each step of which can fail.  There
  must be one of each, loaded, and the builder that gRPC uses must be the one that is
  called back.
* *Stub*: options are registered while stubs dial; three Onces, one of them beside a
  check of what it makes.  What is registered in time must be in force, for all stubs.
* *Route*: a random int is counted up.  An available node must be found wherever it starts.
* *Generators*: runs overlap, fail in the middle of a file, and are repeated over what the
  developer has written.  User code must stay, and what is registered must be handled.

## 2. Plan

The order is that of importance: what everything else relies on comes first.

1. `ServiceNodes`, `Registry`, `AtomicRegistry` (refinement), `RegistryProofs`. *Done.*
2. `WatchCache`, `ReadThrough` (refinement), `WatchCacheProofs`, `ReadThroughProofs`. *Done.*
3. `HealthCheck`, `WorkerPool` and their proofs. *Done.*
4. `FileCache`, `FileCacheProofs`. *Done.*
5. `Proxy`. *Done.*
6. `Resolvers`. *Done*; left: the same over the file cache, whose Discover calls back too.
7. `Startup`, `Stub`, `Route`, and `Programs`, which runs these and 5 and 6;
   `ProgramsProofs`, with the proofs about all five. *Done.*
8. `Generator`, `GeneratorProofs`. *Done.*

Abstract specifications worth stating: the atomic registry and the read-through cache
(both stated), the file cache as a view of the file.  Theorems worth proving: the
invariants of every module above for any number of calls and services; that the
writers implement the atomic registry, and the cache the read-through cache (all proved,
section 5).

Runs are kept at two to five actors, one or two services and two to four changes:
every hazard listed is a race of two or three actors over one or two changes.

## 3. The modules

### ServiceNodes, Registry, AtomicRegistry

One key of etcd: value, Version, creation and modification revision (`kv`), and the
revision of the store (`rev`).  Keys do not influence each other: every operation
reads and compares its own key only.  A *call* is one execution of an operation:

| Action | Code (etcd `discovery.go`) |
|---|---|
| Begin | argument checks, before etcd is asked |
| Read, ReadFails | the Get of the loop and all that is done with its answer (`Upsert`, `Strike`); Unregister of an absent node returns at once |
| Commit, Conflict | atomicPersistSrv's transaction, accepted or refused; three refusals end the call |
| Fails, ArrivesLate | the request times out at the client; it reaches etcd later, or never |

`Matches` is the comparison of Version; `Apply` knows that an empty record deletes the
key and that a key created again starts at Version 1.  UnregisterAll is an
unconditional delete.  The list of nodes is a set: nothing depends on its order, and
TypeOK says that no address appears twice.  Priority, Name and SlaveFlag are never
read and are left out.

`AtomicRegistry` is what callers want: one value, changed at once by each call.

### WatchCache, ReadThrough

The registry is its history `log`; an entry of `srvMap` is the revision it was filled
at.  Calls and watchers are the goroutines:

| Action | Code (etcd `discovery.go`) |
|---|---|
| Lookup, LookupLocked, Fetch(Fails), Fill | Discover: the hit; the second look with the service's lock, and `go d.watch()`; the Get; the store |
| LoadBegin, LoadGet(Fails), LoadFill, LoadJunk, LoadEnd | LoadAll, which holds d.mu throughout; without a callback it panics after its first store (`LoadFill`) |
| WatchCheck, WatchLock, WatchOpen | watch up to its loop: isWatched without and with d.mu, then etcd.Watch |
| Receive, ApplyEvent, Notify | one event: both locks, the comparison of versions, the callback after the unlock; of what does not decode it is passed an empty or partial Service, and may tell nobody |
| Closes, Unwatch, TakeUnwatch, WatchOut | a closed stream, on which the loop spins; the hand-over on unwatchSignCh; the end of a watcher, which empties the cache |
| Abort | concurrent access to srvMap |

LoadFill stores an entry and calls back in one step, since LoadAll has d.mu all along
and the callback does not come back to the cache.  A response of the stream carries
one event: several in one response make the watcher only less interruptible.

`ReadThrough` is what users of the cache want: without locks, watchers and streams,
Discover answers in one step, with what is cached or with what the registry holds.  The
entry of an answer from the registry is stored later, and no other Discover and no event
of the service comes between; an event never replaces an entry by an older one.  LoadAll
is there as what it is, a snapshot stored entry by entry over whatever is cached.
`WatchCache` implements it (ReadsThrough) with Discover's answer at its Get, or at the look
that finds the entry, and LoadAll's snapshot at its Get.

### FileCache

A file is an inode, what is in it (nothing, a part, everything) and the version of
the record.  Watches belong to the inode, as inotify's do: when a file is removed,
they go, and a new file has none.  Unread events of a kind count as one.

d.mu is a sync.RWMutex: while an Unwatch has it to read, the first that wants it to write
waits (`queued`, Queue), and whoever wants it to read after that waits behind that one
(`MuReadable`), the fast path of Discover included.  LoadAll cuts the name of a file at its
*first* dot (`Cut`): of `ns.Svc.json` it reads `ns.json`, and fails if that is not there; and for
two files with one such name it may start two watchers, one of which gets past its claim.

| Action | Code (filecachedproxy `discovery.go`) |
|---|---|
| Truncate, Write, Delete | the proxy: SyncSrvToLocalFile in place, and os.Remove |
| Call, Lookup, LookupMu, LookupLocked, LookupRead, LookupStore, Remote(Fails), LookupHook | Discover, which holds the service's lock from its second look to its return, callback included |
| LoadBegin, LoadRead, LoadStore, LoadEnd | LoadAll: d.mu throughout, no service's lock; file by file, and the first unreadable one ends it |
| Queue | a Lock of d.mu that waits for an Unwatch |
| Claim, Attach, WatchRead, WatchStore | watchOne up to its loop: one claims the service; the watch; the first read, of which the callback is not told |
| Receive, WatchMu, WatchDrop, WatchHook | an event: after a delete the entry is dropped, the callback told, and the file read all the same |
| UnwatchBegin, UnwatchPick, TakeUnwatch | Unwatch, with d.mu read-locked, one channel after the other |
| Abort | concurrent access to one of the three maps |

The end of watchOne cleans up only if the service is *not* in watchedServices, and it
always is: "out" takes d.mu and changes nothing.  `overtaken` is a history variable:
the services whose entry LoadAll has overwritten with what was no longer in the file.

### Resolvers

The connections of one service (a resolver of another is never in its list).  The etcd
discovery is reduced to what `WatchCache` has: one watcher (OneWatcher) stores
each change in order and then calls back (Apply, Notify); Discover returns the
cached version or fetches the newest, in one step, since the service's lock keeps the
watcher and other calls out.  The watcher opens its stream some time after the Get of
LoadAll or Discover, and without a revision (Open): a change in between reaches nobody.  The
stream may be closed (Closes), and brings nothing after that.  Of a record that does not
decode (`junk`) the callback is passed an empty or partial Service, and may tell nobody.

Notify takes builder.mu and with it the list as it is;
Tell is UpdateSrvCfg of one resolver, Told the end of the walk.  Build is Build,
BuildPush, BuildAppend: found, pushed, and only then in the list.  ResolveNow finds and
ResolvePush pushes; Close is OnResolverClosed.  `overtaken` is a history variable: the
connections that a callback missed, or to which ResolveNow gave an older record than they
had.

### HealthCheck

Servers (`ServeGrpc`) and workers (`check`) over a set of registry entries.  An address
is served by one incarnation after the other: Start, Register(Fails), HookFails, Serve,
Stop, Leave (the deferred loop; an error is logged and passed over), Crash.  A worker:
Dispatch, PingOk, PingRefused (the handler answers Ok = false, no retry), PingErrs (up
to maxTries), Unregister(Fails).  Sleeps are left out: any step may take long, and a
check may outlast a restart.  The registry is atomic here; `Registry` and
`RegistryProofs` say when it is.  The history variables `began`, `lost` and `excused`
remember what a check could have known.

### WorkerPool

Run's manager (Look, Start, Dismiss, Adjusted, ManagerExits), the feeder (Load, Hand,
RoundEnds, FeederExits), and workers, counted as idle and busy.  `ToInt32` and `Minus`
keep the widths of `int32(a) - int32(b)`, with 2^31 as a constant.
ResetCheckIntervalMs changes how long sleeps last, and sleeps are not modelled.  `wide`
is a history variable: the manager has seen a size that is no int32.

### Startup

Concurrent calls of InitSuitWithGrpc (`Inits`) and of GetOrMakeDiscovery alone (`Users`:
ServeGrpc, the proxy).  A discovery, a callback and a builder are named by the call they
come from.

| Action | Code |
|---|---|
| MetaCheck, MetaLock, MetaLoad(Fails) | InitMeta: the look, the look with the lock and the assignment of an empty Meta, the loading |
| Get, GetLock, Make(Fails), MakePanics | GetOrMakeDiscovery: the looks, the making, of an empty configuration too (CustomMakeDiscoveryFunc); MustMeta panics if InitMeta was never called |
| SetHook, LoadAll(Fails), Register | NewBuilder and resolver.Register |

A step that takes a lock and gives it back before the next has no lock variable.
`strayed` and `unread` are history variables: builders overlapped or one failed with its
callback set; a configuration could not be loaded.

### Proxy

One service, one file per directory, and the two goroutines and the callback:

| Action | Code (`proxy.go`) |
|---|---|
| ReadOldConn, ReadOldCfg | what watchCfg is going to compare with, read some time after NewProxy has read the directory |
| Notice | one tick of watchCfg: what it compares, and what it remembers at once (a new endpoint among as many as before) |
| GetFails, GetOk, Switch | GetOrMakeDiscovery; p.discover, then p.dir, and rerun, which waits for ever |
| Truncate, Store, StoreFails | the callback: the path out of p.dir, the file created or truncated, written or removed |
| Run, Load(Fails), LoadPanics, LoadUnheard | OnSrvUpdated and LoadAll of p.discover, which may have been replaced in between by one without callback |
| Watch, NextChange | the watcher of the loaded discovery, as `WatchCache` has it |

stopOrRerunSignCh and exitSignCh are nil in every state, so "rerun" and Run's wait are
final, and isExited is never set: the code behind it has no action.  A change of the
configuration is taken up once at most; the next one is not noticed, nor is one that comes
between NewProxy and ReadOldCfg, and Run does not load again.  So no property promises that a
changed configuration is taken up.  `Readable` is what a
string that is being written may be read as, `Torn` any mixture.  `behind` is a history
variable: a write failed, or the directory was switched, or something changed between
LoadAll and the watch.

### Stub

The options of all services (`suit.go`) and of one service, with its stubs: `Default` ones
dial with the registered options, `Own` ones with those they were given.  Lists are sets:
only membership matters.

| Action | Code |
|---|---|
| Append, Reset | RegisterCustomizedDialOpts, RegisterDial...Opts: one statement each |
| Prepare, Dialled, NewClient(Fails, Panics), Call | a method: prepareConn's Once, grpc.NewClient, the call |
| BeginMerge, MergeGlobal, Merge | GetDial...Opts, and GetCustomizedOptsMergedDefault within it |
| ElsewhereMakes, ElsewhereCopies, ElsewhereEnds | the same, called by the first dial of another service: `make`, `copy`, `append` |

GetCustomizedOptsMergedDefault looks at the list *before* it enters the Once.  A second
service whose first dial comes in between takes the half-made list: of nil options
(`Unset`), which grpc.NewClient panics on, or without the registered ones; and it keeps
it.  `raced` marks that, `late` an option that is registered after a merge.

### Route

Route on integers of a width (`MaxInt`): `Successor` wraps, `Remainder` is Go's.  It
reads nothing but what Discover has returned; `origin` is the random start.

### Programs

One behaviour of `Programs` is one of `Startup`, `Proxy`, `Stub`, `Resolvers` or `Route`: as
modelled they share no variable, so interleaving them would only multiply the states.
Its Fairness is theirs.  TypesOK is the conjunction of their TypeOKs, and the other
properties are named as in the module they come from.

### GeneratorFiles, Generator

`GeneratorFiles` says what is generated for a request: per proto file with services the
frame (go.mod, main.go, mod.go, net.go, boot.go), then for each service its handler and
its methods.  A place in these loops is a triple of their counters (`Places`), and the loops
go through them in lexicographic order (`Before`); a run has a set of places `left`, and is at
the first of them (`Here`).  The directory is that of the Go package (`Home`), so proto files may share
one.  mod.go and net.go are always generated, all else only if it is missing.

| Action | Code (the generators' `main.go`) |
|---|---|
| BeginServer, BeginClient, StoreRequest | main up to its loop: a request from protoc or from req.pb (-d); with debug on it is only stored |
| Stat, Open, Fill, Finish | a server run, file by file: os.Stat, os.OpenFile with O_TRUNC, the template, the next |
| StatFails | another error than "not there": boot.go is created or truncated, a handler passed over as if it were there; elsewhere it ends the run (Fail) |
| Emit | a client run: all stubs at its end, for the files that have messages |
| Fail | log.Fatal or the end of the process, anywhere |
| Declare, Edit | the developer |

`mixed`, `raced`, `unseen` and `overlapped` are history variables: a file that was written over a longer
text, one that a run is to write although it may have been there, or was edited meanwhile, a handler passed
over, runs that overlapped another.  `mod` is whoever wrote a mod.go last.

## 4. The runs

| Run | Instance | What it shows |
|---|---|---|
| `registry_free` | 4 calls, 2 addresses to come and go, the key absent at first | a transaction replaces exactly what was read, unless the key was created again (CommitIsExact); a call gives up only after three changes by others (GiveUpNeedsWinners); only a removal, or a call whose key was created again, removes (OnlyUnregisterRemoves) |
| `registry_anchored` | the same, and one node that is never removed | no acknowledged registration is lost (AckedStaysRegistered); the calls implement `AtomicRegistry` (Linearizable) |
| `registry_aba` | as `registry_free` | **a violation**, see below |
| `watch_safety` | 2 services, 2 Discovers, LoadAll, Unwatch, 2 changes | OneWatcher; past the newest change the cache has it and the callback knows it, if it decodes (ConsumedIsApplied, ConsumedIsSeen); CachedIsWatched; an entry goes back in time only by LoadAll (TurnsBackOnlyAfterLoadAll); the whole is a read-through cache (ReadsThrough) |
| `watch_live` | 1 service, no callback set | events are consumed, calls return, LoadAll's panic included |
| `file_safety` | 2 services, `ns` and `ns.Svc` as it were, Discover, LoadAll, 2 writes of one file and 1 of the other, removals and a re-creation | OneWatcher; where the watcher has caught up with the file there is, the cache equals it unless LoadAll overwrote it (CacheFollowsFile), and so does what the callback was told, from the first change on (HookFollowsFile) |
| `file_live` | 1 service, Discover, LoadAll, Unwatch, 2 writes, a removal and a re-creation | every call returns, hits included, unless an Unwatch hangs (CallsReturn) |
| `health_safety` | 1 address, 2 incarnations, 2 services, 2 workers | a served entry is removed only by a check that could not know: one that began before the server served, or lost all its pings (ServingIsRegistered) |
| `health_live` | the same with 1 worker | whatever is left behind is removed (StaleEntriesLeave) |
| `pool` | sizes over all of uint32, int32 of 3 bits; 4 commands | the workers account for the size looked at (PoolMatches, while it fits an int32; PoolCongruent, modulo 2^32 always), reach it (PoolConverges), and Exit ends Run unless it came before the first worker (ExitEndsRun) |
| `programs` | startup: 3 InitSuitWithGrpc, 1 user | a nil error means a loaded configuration unless one load had failed (LoadedUnlessFailed); one discovery for all (OneDiscovery); the registered builder is told (RegisteredIsTold) |
| | proxy: 2 directories, 3 connections, 2 changes of the configuration, 3 of the service | a file follows its newest change (FilesFollow); rerun's hang does not stop the callback (ChangesAreHandled) |
| | stub: 2 callers, 2 default stubs and one of its own, an option of each kind | what is registered in time is in force (OptionsInForce); a nil client only after a failed dial (NilClientAfterFailure) |
| | resolvers: 2 connections, 3 versions, removals and records that do not decode included | an open connection shows the newest record that the stream brings once the watcher is through, unless an older one overtook it (NewestIsShown); a closed one is left alone (ClosedIsLeftAlone); every such change is shown, while the stream is open (ChangesAreShown) |
| | route: up to 3 nodes, int of 4 bits, every start | the nearest available node is returned, none only if none is available, a panic only from the last ints (RouteFinds) |
| `generator` | 2 proto files of one package, 2 runs of either generator | user code stays (UserCodeStays); what a successful run registers is handled, and has its stub (ServedIsHandled); a run that ends well registers all of its request (AllRegistered) |

Bounds and why they suffice:

* `Calls` of 4: a lost update takes two calls; deleting and creating a key under a
  third takes four.  A call is refused three times only by three others.
* `MaxRevision` 2: an event of the service and one after it; with `from` and `pos` of a
  stream, all orders of a fetch, an event and a store.
* `MaxWrites` 2, `MaxInode` 2: version 2 can be a change of version 1's file, or a new
  file after its removal; Truncate and Write give every partial content.  In `file_safety`
  the second file is written once (`Once`): it is there to have LoadAll confuse the two, and
  Unwatch, which ends watchers and adds nothing to cache or callback, is in `file_live`.
* Resolvers' `MaxWrites` 3: an older, a newer and a removed record meet in one connection, and a
  change falls before the stream with two after it.
* `MaxStarts` 2: a check outlives one restart.  Two workers can check one entry.
* Pool's `MaxNodes`, `MaxCommands` 4: as many nodes as default workers; three resets and an Exit.
* 3 `Inits`: one fails, and two overlap after it.
* Proxy's `MaxChanges` 2: a change before watchCfg has read what it compares with, or one that
  fails to be taken up, and one after it, or back.
  The connections differ from the first by an endpoint, and by the timeout.
* `Callers` 2: one merges or dials, the other comes meanwhile; a third stub for one that
  has options of its own.
* Generator's `Runs` 2, two proto files of one package: overlaps, repetitions, a server and a client run,
  and files that overwrite each other's mod.go.  The developer edits boot.go, which an error of
  os.Stat endangers besides a race; the proof is for any files.

Type invariants that are proved (section 5) are repeated only in the runs `programs`
(all parts' as one) and `generator`, where they say more than types: who owns a lock, and
that a run ends well only with nothing left to do.

Symmetry is used for interchangeable calls, services and workers, in safety runs only.
Deadlock is not checked where every call has one execution: there the system ends.
`health_*` check it.

### The finding

`atomicPersistSrv` (etcd `discovery.go:404`) compares the key's `Version`, the number
of changes since the key was created.  When the last node is removed the key is
deleted, and the next registration creates it again, with Version 1.  A call that read
the old record at Version 1 then commits over the new one, and drops nodes whose
Register has returned nil.  `registry_aba` shows it in four calls.  The message at
`discovery.go:390` takes it that such a conflict is refused, and
`discovery/test/discovery_test.go:154` looks up what two Registers were acknowledged.
`ModRevision` would not have this hole.  The theorems say that it is the only one:
CommitIsExact excepts a key whose creation revision has changed, and nothing else.

### What the exceptions in the properties stand for

Several properties hold only with an exception, and each exception is a behaviour of the
code that no document of the repository rules out:

* TurnsBackOnlyAfterLoadAll, CacheFollowsFile (`overtaken`): LoadAll overwrites an entry
  without the service's lock and without comparing versions.
* CachedIsWatched: a Discover under way during Unwatch caches an entry nobody watches.
* CacheFollowsFile (the watcher watches the file *there is*): after a file is removed and
  created again, the watch is on the old inode, and what Discover then caches stays.
* HookFollowsFile (from the first change on): what the watcher reads first is stored
  without telling the callback.
* CallsReturn of `FileCache` (UnwatchStuck): Unwatch and a watcher with an event wait for
  each other, and a second Unwatch waits for a watcher that is gone; every later call, hits
  included, then waits behind that watcher.
* ConsumedIsSeen, NewestIsShown (`junk`): a record that does not decode is passed to the callback
  as an empty or partial Service; whoever looks for its name there tells nobody.
* NewestIsShown (`overtaken`): Build enters the list after its Discover, and ResolveNow
  pushes what it found earlier.
* NewestIsShown, ChangesAreShown (`Streamed`), EventsConsumed, ConsumedIsApplied (`from`, "spin"): the stream
  is opened without a revision after the Get, so that a change in between is lost; and one that
  is closed leaves the loop spinning.  What is cached or shown then stays.
* ServingIsRegistered (`excused`): a check that outlasts a restart, or loses three pings,
  unregisters a server that serves, and nobody registers it again.
* LoadedUnlessFailed (`unread`): InitMeta assigns meta before it is loaded; after a failure
  every later InitMeta reports success over an empty configuration.
* RegisteredIsTold (`strayed`): each NewBuilder replaces the callback, also one that fails
  afterwards; the builder that gRPC has is then not told of changes.
* FilesFollow (`behind`): what `proxy.go` leaves undone when a write fails, the directory is
  switched, or something changes between LoadAll and the watch.
* OptionsInForce (`late`, `raced`): an option registered after the first dial empties the
  merged list for ever; GetCustomizedOptsMergedDefault may return a half-made list.
* RouteFinds: from within the last ints, the count runs over and the index is negative.
* UserCodeStays (`raced`): the server generator looks before it truncates, and truncates boot.go after
  any error of os.Stat.
* ServedIsHandled (StopsAt, `mixed`, `unseen`): what a run has left cut off, or two have mixed, every later
  run keeps; a handler that os.Stat cannot look at is passed over.  What a client run gives is
  promised only of proto files with messages.
* AllRegistered (`overlapped`, and the files of one package): the last file of a package has mod.go.
* ExitEndsRun: Exit before the first worker is started leaves the feeder waiting.

## 5. What is proved

For any number of calls, services, addresses, payloads, workers, changes:

| Module | Theorem | Statement |
|---|---|---|
| `RegistryProofs` | TypeCorrect, Exact, GiveUp, Removal | `Spec => []` TypeOK, CommitIsExact, GiveUpNeedsWinners; `Spec => OnlyUnregisterRemoves` |
| | AckedStays, Refinement | `ASSUME Anchored`: `Spec => []AckedStaysRegistered`, `Spec => Linearizable` |
| `WatchCacheProofs` | TypeCorrect, SingleWatcher | `Spec => []` TypeOK, OneWatcher |
| | Freshness, Seen, Watched | `Spec => []` ConsumedIsApplied, ConsumedIsSeen, CachedIsWatched |
| | Forward | `Spec => TurnsBackOnlyAfterLoadAll` |
| `ReadThroughProofs` | Refinement | `Spec => ReadsThrough` |
| `HealthCheckProofs` | TypeCorrect, ServingStays | `Spec => []` TypeOK, ServingIsRegistered |
| `WorkerPoolProofs` | TypeCorrect, Matches, Congruent | `Spec => []` TypeOK, PoolMatches, PoolCongruent |
| `FileCacheProofs` | TypeCorrect, SingleWatcher | `Spec => []` TypeOK, OneWatcher |
| | CacheFollows, HookFollows | `Spec => []` CacheFollowsFile, HookFollowsFile |
| `ProgramsProofs` | Loaded, SameDiscovery, Told | `ProgramsSpec => []` LoadedUnlessFailed, OneDiscovery, RegisteredIsTold |
| | Follows | `ProgramsSpec => []FilesFollow` |
| | InForceAlways, NilClient | `ProgramsSpec => []` OptionsInForce, NilClientAfterFailure |
| | Newest, LeftAlone | `ProgramsSpec => []NewestIsShown`, `ProgramsSpec => ClosedIsLeftAlone` |
| | Finds | `ProgramsSpec => []RouteFinds` |
| | TypeCorrect | `ProgramsSpec => []TypesOK` |
| `GeneratorProofs` | TypeCorrect, RegisteredIsHandled | `Spec => []` TypeOK, ServedIsHandled |
| | UserCode, Registers | `Spec => UserCodeStays`, `Spec => AllRegistered` |

The inductive invariants, and why the properties alone are not enough:

* **Registry**: `TypeOK /\ RetryLeft /\ KvOK /\ ReadOK /\ RefusalOK`.  ReadOK relates a
  record read to the key: if both are of one creation, the version read is not
  ahead, and equal versions mean equal records.  KvOK keeps creation revisions behind
  `rev`, so that a new one is unlike all that were read.  RefusalOK counts a change of the
  store for every refusal.  Under `Anchored`, NeverDeleted fixes the creation revision at
  1, so Matches becomes "is what I read", and a commit is the abstract Succeed.
* **WatchCache**: LockOwners (who holds a service's lock is between its second look and
  its return), Positions of the streams and Unspawned (a call starts its watcher once)
  give TypeOK and OneWatcher.  Freshness needs what a call under way is going to store:
  Fetched says that a revision fetched by a Discover is not older than any event
  of that service the watcher has applied, since the lock is held; Loaded says the
  same of LoadAll, which holds d.mu, without which no event is applied; Applied is the
  property itself for all events of a stream.  Seen extends ConsumedIsSeen to the time
  of a callback (but for a record that does not decode): what the watcher skips is older than the
  cache, so it is not the newest, and what LoadAll passes on is no older than what was applied (Loaded).
  Watched needs that whatever is, or is about to be, stored has a watcher that runs
  or is about to, unless somebody called Unwatch.  Forward needs that, until a LoadAll has
  had its answer, what a Discover is about to store is no older than what it replaces.
* **ReadThrough**: TypeOK's invariant is all the refinement needs.  By LockOwners a
  service's lock that is free, or held by another, means that no Discover has read that
  service and not yet stored it, which is what FromRegistry and Event ask; and d.mu means
  that there is one snapshot at a time.
* **HealthCheck**: Named (a worker's entry is an entry), Begun (a check that began with
  the current incarnation began while it served, so the service is one of its own),
  Counted (while it goes on serving only lost pings fail), Registered (what a
  server has registered so far is registered or excused).
* **WorkerPool**: Sized (unless `wide`, old and want stay below 2^31) makes `Minus` the
  difference; without it, the same sum holds modulo 2^32.
* **Startup**: an empty Meta is being loaded or has failed to be; no discovery is there
  while one is being made; the callback is that of the only builder under way.
* **Proxy**: Order (the callback under way is for the change the watcher, or before it
  LoadAll, is at) and FileIsLast (unless `behind`, the file is what that change makes it).
* **Resolvers**: Bounds (once the stream has brought a change, what is cached is not behind it),
  BuildIsFresh, OpenIsFresh: what a Build has found, and what an open connection that is not
  about to be told shows, is not behind the watcher's change, if the stream has brought it and it
  decodes (Settled), unless the connection is `overtaken`.
* **Stub**: what a merge under way has copied, and from which lists (Calling, GlobalMade,
  LocalMade): a list that is made is the registered options, unless one came `late` or a
  merge `raced`; then a connection dialled from it has them too.  A stub whose Once is over
  has a connection or is in `refused`.
* **Route**: Tried and Counted say that the nodes from the start up to the count, modulo the
  number of nodes, were tried and found unavailable.  The arithmetic (the remainder of a
  successor, that the nearest node is met before the count comes round) is in lemmas
  about `%` for any divisor.
* **FileCache**: Stations and Owners (where each call and watcher holds which lock), Claimed
  and Attached (one watcher per claim, and its watch on an inode) give TypeOK and
  OneWatcher.  Then, in the order in which a value travels: FreshReads (what a watcher has read
  is in the file, or an event is pending), FreshLookups (what a Discover is about to store,
  or to tell, under the service's lock), FreshEntries and FreshHooks.  An event that is still
  unread excuses each of them, and this is what makes them inductive: CacheFollowsFile
  speaks only of watchers that have read all of theirs.
* **Generator**: Progress (a place that a run has passed, and that its request asks for, has
  its file or is marked `unseen`, and no file is ever removed) with ModIsAsked (a mod.go belongs to a server run and
  to a proto file of its request) gives ServedIsHandled; ModIsFilled and ModStays (nobody
  else touches the mod.go of a run that is alone) give AllRegistered at its end.
  CutIsKnown (a file that is cut off is `mixed`, or a run is filling it, or has failed there) is needed for
  the first, WriterIsMarked (no run is about to write an edited file that is not `raced`) for
  UserCodeStays.

These invariants were checked on the runs' instances before they were proved.

Model-checked only: liveness (EventsConsumed, both CallsReturn, ChangesAreShown,
ChangesAreHandled, StaleEntriesLeave, PoolConverges, ExitEndsRun),
which is out of the prover's reach.  Every invariant and every action property that a run
checks is also a theorem.

## 6. Assumptions

On the constants (named ASSUMEs, evaluated in every run): the sets of calls are
disjoint, `None` is none of them; requests register nodes that are not marked dead
(what NewNode returns); offers are non-empty lists without repetition; the
default pool size fits an int32 and is not zero; the kinds of options, of stubs and of
calls are disjoint; files that a developer edits are none that every run generates; the
names of the generated files of different kinds differ (a handler's ends in `_hdl.go` or has
`_hdl_` in it, a stub's is that of its proto file).

On what is outside the repository:

* etcd's transactions, Gets and deletes are atomic, its watch streams deliver each
  change after they were opened in order, once, until they are closed.  A closed stream never
  delivers again.  (`Proxy` takes its stream, once open, to stay so.)
* `runtimeutil.MulElemMuFactory` hands out one lock per service name, always the same.
* Requests end, by an answer or by the timeout `factory` sets (5 s).
* An event of fsnotify follows each modification of a watched inode and its removal.
* Only the proxy changes the files of the file cache; only the generators and the developer
  the generated ones.
* The configuration that MustMeta returns is replaced as a whole when its file is
  reloaded; one value of it is never read half.
* grpc.NewClient fails or not, and needs credentials (one of `RoundRobin`'s options);
  it applies each option, so that a nil one panics.
* protoc passes a generator one request, and writes what it returns or nothing.

On the callers: OnSrvUpdated is called before the first event, or (Hooked = FALSE) not
at all; dial options are registered by one goroutine.

## 7. Fairness

* Weak fairness of each goroutine's next step: the Go scheduler runs what can run.
  Of calls, setters, crashes, closed streams, writes nothing is promised.
* A lock is given back after finitely many steps and Go's mutexes do not starve a
  waiter; with finitely many calls and changes weak fairness says as much.
* `Dismiss` and `Hand` (strong): an idle worker's select chooses at random between the
  channels, so neither is passed over for ever.
* The proxy's callback and the watch that feeds it go on (weak): a stream that delivers is
  assumed.  Of Run and watchCfg nothing is promised: ChangesAreHandled begins where the watch has opened.
* The watcher and its callback in `Resolvers`, and a Build that has found its service
  (weak); of ResolveNow's push nothing is promised, and the stream may be closed at any time.
* `Unregister` of the checker (strong): of infinitely many attempts one succeeds; each
  round of the checker tries again.

## 8. Not modelled

* `error.go`: stateless conversions between enums and gRPC codes.  Logging: nothing depends
  on it.  Code generated by protoc.  pprof in ServeGrpc.
* The generators' configuration (`protoc_gen_conf.go`), read once by one goroutine; ports
  (`net.go`), asked of the operating system by listening and closing, so that another
  process may have taken one before the server listens: ServeGrpc then fails before it registers.
* The text of the templates, but for what refers from one file to another (what mod.go
  registers, which names it takes from the stub); the search for a port enum.
* The proxy's code behind isExited and exitSignCh: nothing ever sets one or makes the
  other.  Its comparison of Conn, since the configuration knows only one kind (etcd).
* Close of a generated stub, which ends its connection and nothing else.
* Priority, Name and SlaveFlag of a node, which nothing reads.
* Timing: intervals and sleeps are "any time"; that three pings take up to 30 seconds
  matters only through what may happen meanwhile, and everything may.
* The end of HealthChecker.Run leaves its workers at their select: a leak of goroutines
  that no other state depends on.
