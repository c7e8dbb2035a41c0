-------------------------------- MODULE Proxy --------------------------------
(***************************************************************************)
(* The discovery proxy: one goroutine compares the configuration with the  *)
(* one it knows and takes changes up (watchCfg), Run sets the callback and *)
(* loads everything, and the callback keeps a file per service, in the     *)
(* proxy's directory, from the goroutines of the discovery.  p.dir and     *)
(* p.discover are shared between them without a lock.                      *)
(*                                                                         *)
(* The channels stopOrRerunSignCh and exitSignCh are never made, so that   *)
(* whoever sends or receives waits for ever, and isExited is never set: a  *)
(* change of the configuration is taken up once at most, Run does not load *)
(* again for it, and what changes after that is not noticed.               *)
(*                                                                         *)
(* One service is followed.  A discovery is the etcd one, as WatchCache    *)
(* has it: LoadAll holds its lock, so that its watcher opens only after    *)
(* LoadAll has returned, and hands on each change from then on, in order.  *)
(***************************************************************************)
EXTENDS ProxySettings

VARIABLES
  config,     \* what MustMeta says
  changes,    \* how often it has changed
  oldDir,     \* of oldCfg, which is never replaced
  oldConn,    \* oldConnCfg
  wpc, cfg,   \* where watchCfg stands, and the configuration it has read
  dir, disc,  \* p.dir and p.discover
  rpc,        \* where Run stands
  hooked,     \* the discovery that has the callback
  log,        \* the changes of the service
  loaded,     \* the change that LoadAll has seen, or 0
  watching, pos,  \* whether the watcher is open, and the change it is at
  cb,         \* the callback under way
  content,    \* of the service's file in each directory
  behind      \* history: the file there is may not be the newest

settings == <<config, changes>>
watchVars == <<oldDir, oldConn, wpc, cfg, dir, disc>>
runVars   == <<rpc, hooked, loaded>>
stream    == <<watching, pos>>
callback  == <<cb, content>>
vars == <<settings, watchVars, runVars, log, stream, callback, behind>>

Now  == Len(log)
Idle == [step |-> "idle", path |-> Torn, version |-> 0]

Init ==
  /\ config = Base
  /\ changes = 0
  /\ oldDir = Base.dir
  /\ oldConn = Base.conn
  /\ wpc = "conn"
  /\ cfg = Base
  /\ dir = Base.dir
  /\ disc = "own"
  /\ rpc = "idle"
  /\ hooked = NoDiscovery
  /\ log = <<"put">>
  /\ loaded = 0
  /\ watching = FALSE
  /\ pos = 0
  /\ cb = Idle
  /\ content = [d \in Dirs \cup {Torn} |-> 0]
  /\ behind = TRUE

\* The configuration file is changed, and reloaded.
Reconfigure(c) ==
  /\ changes < MaxChanges
  /\ changes' = changes + 1
  /\ config' = c
  /\ UNCHANGED <<watchVars, runVars, log, stream, callback, behind>>

\* The service changes; what is not registered cannot be removed.
Write(k) ==
  /\ Now < MaxVersion
  /\ k = "delete" => log[Now] = "put"
  /\ log' = Append(log, k)
  /\ UNCHANGED <<settings, watchVars, runVars, stream, callback, behind>>
-----------------------------------------------------------------------------
(***************************************************************************)
(* watchCfg.  It begins with two reads of the configuration of its own: a  *)
(* directory changed since NewProxy has read it passes for the old one,    *)
(* and is never noticed.                                                   *)
(***************************************************************************)
ReadOldConn ==
  /\ wpc = "conn"
  /\ oldConn' = config.conn
  /\ wpc' = "dir"
  /\ UNCHANGED <<settings, oldDir, cfg, dir, disc, runVars, log, stream, callback, behind>>

ReadOldCfg ==
  /\ wpc = "dir"
  /\ oldDir' = config.dir
  /\ wpc' = "tick"
  /\ UNCHANGED <<settings, oldConn, cfg, dir, disc, runVars, log, stream, callback, behind>>

\* Endpoints are compared one way, and remembered if one of the same number
\* is new.
SameShape(c) ==
  /\ c.timeout = oldConn.timeout
  /\ Len(c.endpoints) = Len(oldConn.endpoints)

NewEndpoint(c) ==
  \E i \in DOMAIN c.endpoints : \A j \in DOMAIN oldConn.endpoints :
    c.endpoints[i] # oldConn.endpoints[j]

Differs(c) == ~SameShape(c) \/ NewEndpoint(c)

Noticed == config.dir # oldDir \/ Differs(config.conn)

Notice ==
  /\ wpc = "tick"
  /\ Noticed
  /\ oldConn' = IF config.dir = oldDir /\ SameShape(config.conn) THEN config.conn ELSE oldConn
  /\ cfg' = config
  /\ wpc' = "get"
  /\ UNCHANGED <<settings, oldDir, dir, disc, runVars, log, stream, callback, behind>>

\* GetOrMakeDiscovery fails: continue.
GetFails ==
  /\ wpc = "get"
  /\ wpc' = "tick"
  /\ UNCHANGED <<settings, oldDir, oldConn, cfg, dir, disc, runVars, log, stream, callback, behind>>

GetOk ==
  /\ wpc = "get"
  /\ disc' = "shared"
  /\ wpc' = "switch"
  /\ UNCHANGED <<settings, oldDir, oldConn, cfg, dir, runVars, log, stream, callback, behind>>

\* The new directory, and then rerun, which never returns.
Switch ==
  /\ wpc = "switch"
  /\ dir' = cfg.dir
  /\ behind' = (behind \/ cfg.dir # dir)
  /\ wpc' = "rerun"
  /\ UNCHANGED <<settings, oldDir, oldConn, cfg, disc, runVars, log, stream, callback>>
-----------------------------------------------------------------------------
(***************************************************************************)
(* The callback: it makes the path out of p.dir, creates or truncates the  *)
(* file and writes it, or removes it; errors are logged.                   *)
(***************************************************************************)
Expected(v) == IF log[v] = "put" THEN v ELSE 0

\* What p.dir may be read as.
Readable == {dir} \cup IF wpc = "switch" THEN {cfg.dir, Torn} ELSE {}

Begins(v) == \E p \in Readable : cb' = [step |-> "path", path |-> p, version |-> v]

Truncate ==
  /\ cb.step = "path"
  /\ log[cb.version] = "put"
  /\ content' = [content EXCEPT ![cb.path] = -1]
  /\ cb' = [cb EXCEPT !.step = "file"]
  /\ UNCHANGED <<settings, watchVars, runVars, log, stream, behind>>

\* A file has been opened to be written, or is to be removed.
AtLastStep == cb.step = "file" \/ (cb.step = "path" /\ log[cb.version] = "delete")

Finished == cb' = Idle

\* Seeded fault: nothing is removed.
StoreOnly ==
  /\ AtLastStep
  /\ content' = IF cb.step = "file" THEN [content EXCEPT ![cb.path] = cb.version] ELSE content
  /\ behind' = (cb.path # dir)
  /\ Finished
  /\ UNCHANGED <<settings, watchVars, runVars, log, stream>>

Store ==
  /\ AtLastStep
  /\ content' = [content EXCEPT ![cb.path] = Expected(cb.version)]
  /\ behind' = (cb.path # dir)
  /\ Finished
  /\ UNCHANGED <<settings, watchVars, runVars, log, stream>>

StoreFails ==
  /\ cb.step \in {"path", "file"}
  /\ behind' = TRUE
  /\ Finished
  /\ UNCHANGED <<settings, watchVars, runVars, log, stream, content>>
-----------------------------------------------------------------------------
(***************************************************************************)
(* Run, and the watcher of the discovery it has loaded.                    *)
(***************************************************************************)
Run ==
  /\ rpc = "idle"
  /\ hooked' = disc
  /\ rpc' = "load"
  /\ UNCHANGED <<settings, watchVars, loaded, log, stream, callback, behind>>

\* A discovery that watchCfg has put in place since has no callback.
LoadPanics ==
  /\ rpc = "load"
  /\ disc # hooked
  /\ log[Now] = "put"
  /\ rpc' = "panicked"
  /\ UNCHANGED <<settings, watchVars, hooked, loaded, log, stream, callback, behind>>

Load ==
  /\ rpc = "load"
  /\ disc = hooked
  /\ loaded' = Now
  /\ IF log[Now] = "put" THEN Begins(Now) ELSE UNCHANGED cb
  /\ rpc' = "loaded"
  /\ UNCHANGED <<settings, watchVars, hooked, log, stream, content, behind>>

\* Nobody is told: Run waits for its other goroutine, which never ends.
LoadFails ==
  /\ rpc = "load"
  /\ disc = hooked
  /\ rpc' = "loaded"
  /\ UNCHANGED <<settings, watchVars, hooked, loaded, log, stream, callback, behind>>

\* It finds nothing to call back about, or fails, and nobody is told of what
\* comes after.
LoadUnheard ==
  /\ rpc = "load"
  /\ disc # hooked
  /\ rpc' = "unheard"
  /\ UNCHANGED <<settings, watchVars, hooked, loaded, log, stream, callback, behind>>

Alive == rpc # "panicked"

\* The watcher that LoadAll has started sees what comes from now on.
Watch ==
  /\ rpc = "loaded"
  /\ ~watching
  /\ cb = Idle
  /\ watching' = TRUE
  /\ pos' = Now
  /\ behind' = (behind \/ Expected(Now) # (IF loaded = 0 THEN 0 ELSE Expected(loaded)))
  /\ UNCHANGED <<settings, watchVars, runVars, log, callback>>

\* Seeded fault: the callback takes p.mu to write.
NextChangeLocked ==
  /\ watching
  /\ cb = Idle
  /\ pos < Now
  /\ wpc # "rerun"
  /\ pos' = pos + 1
  /\ Begins(pos + 1)
  /\ UNCHANGED <<settings, watchVars, runVars, log, watching, content, behind>>

NextChange ==
  /\ watching
  /\ cb = Idle
  /\ pos < Now
  /\ pos' = pos + 1
  /\ Begins(pos + 1)
  /\ UNCHANGED <<settings, watchVars, runVars, log, watching, content, behind>>
-----------------------------------------------------------------------------
Watcher  == ReadOldConn \/ ReadOldCfg \/ Notice \/ GetFails \/ GetOk \/ Switch
Callback == Truncate \/ Store \/ StoreFails
Runner   == Run \/ LoadPanics \/ Load \/ LoadFails \/ LoadUnheard \/ Watch \/ NextChange

Next ==
  /\ Alive
  /\ \/ \E c \in Configs : Reconfigure(c)
     \/ \E k \in {"put", "delete"} : Write(k)
     \/ Watcher
     \/ Callback
     \/ Runner

Spec == Init /\ [][Next]_vars

\* The callback's goroutine runs, and the watch delivers.
Fairness == WF_vars(Alive /\ (Callback \/ NextChange))

FairSpec == Spec /\ Fairness
-----------------------------------------------------------------------------
\* The variables hold what their declarations say.
TypeOK ==
  /\ config \in Configs /\ cfg \in Configs
  /\ changes \in 0 .. MaxChanges
  /\ oldDir \in Dirs /\ oldConn \in Conns
  /\ wpc \in {"conn", "dir", "tick", "get", "switch", "rerun"}
  /\ dir \in Dirs
  /\ disc \in {"own", "shared"} /\ hooked \in {"own", "shared", NoDiscovery}
  /\ rpc \in {"idle", "load", "loaded", "unheard", "panicked"}
  /\ log \in Seq({"put", "delete"}) /\ Now \in 1 .. MaxVersion
  /\ loaded \in 0 .. Now /\ pos \in 0 .. Now
  /\ watching \in BOOLEAN
  /\ cb = Idle \/ cb \in [step : {"path", "file"}, path : Dirs \cup {Torn}, version : 1 .. Now]
  /\ content \in [Dirs \cup {Torn} -> -1 .. Now]
  /\ behind \in BOOLEAN

(***************************************************************************)
(* The file of a service is what its newest change makes it, once the      *)
(* callback has been told of that change, in the directory that the proxy  *)
(* has.  Excepted are the files whose last writing failed, and those of a  *)
(* directory that has just been switched to or left in mid-callback, and   *)
(* what changed between LoadAll and the watch: until the next change.      *)
(***************************************************************************)
FilesFollow ==
  (watching /\ cb = Idle /\ pos = Now /\ ~behind) => content[dir] = Expected(Now)

(***************************************************************************)
(* rerun holds p.mu for ever, but the callback goes on: each change of a   *)
(* service that is watched is handled.                                     *)
(***************************************************************************)
ChangesAreHandled == watching ~> (pos = Now /\ cb = Idle)
=============================================================================
