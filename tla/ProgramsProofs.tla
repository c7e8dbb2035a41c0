--------------------------- MODULE ProgramsProofs ---------------------------
(***************************************************************************)
(* Proofs about the parts that Programs runs, for any number of calls,     *)
(* connections, stubs and nodes, and for any bounds.  Each part has an     *)
(* invariant of its own, which its steps preserve and the steps of the     *)
(* others do not touch.                                                    *)
(***************************************************************************)
EXTENDS Programs, TLAPS

\* What a step of Programs may be.
LEMMA OneRuns ==
  ASSUME [ProgramsNext]_programs
  PROVE  /\ Next \/ UNCHANGED vars
         /\ P!Next \/ UNCHANGED proxy
         /\ C!Next \/ UNCHANGED stub
         /\ R!Next \/ UNCHANGED resolving
         /\ N!Next \/ UNCHANGED routing
  BY DEF ProgramsNext, StartupRuns, ProxyRuns, StubRuns, ResolversRun, RouteRuns, programs
-----------------------------------------------------------------------------
(***************************************************************************)
(* Startup.  The invariant adds to the properties what the locks protect:  *)
(* an empty Meta is being loaded or has failed to be, no discovery is      *)
(* there while one is being made, and the callback is that of the only     *)
(* builder under way.                                                      *)
(***************************************************************************)
MetaIsGuarded     == meta = "empty" /\ metaMu = NoCall => unread
DiscoverIsGuarded == discoverMu # NoCall => discover = NoCall
HookIsOwn         == ~strayed => \A c \in Inits : Hooked(c) => hook = c

StartupInv ==
  /\ TypeOK
  /\ MetaIsGuarded /\ LoadedUnlessFailed
  /\ DiscoverIsGuarded /\ OneDiscovery
  /\ HookIsOwn /\ RegisteredIsTold

\* The initial states are of the types, and satisfy all of it.
LEMMA StartupInit == Init => StartupInv
  BY CallsAssumption
  DEF Init, StartupInv, TypeOK, MetaIsGuarded, LoadedUnlessFailed, DiscoverIsGuarded, OneDiscovery,
      HookIsOwn, RegisteredIsTold, Hooked, Calls, MetaSteps, BuildSteps

\* The configuration is only touched by steps of InitMeta.
LEMMA MetaSide ==
  ASSUME StartupInv, NEW c \in Calls,
         Call(c) \/ MetaCheck(c) \/ MetaLock(c) \/ MetaLoad(c) \/ MetaLoadFails(c)
  PROVE  StartupInv'
<1> USE CallsAssumption DEF StartupInv, TypeOK, Calls, MetaSteps, BuildSteps, Goto,
        discoverVars, builderVars, metaVars
<1>1. CASE Call(c)
  <2>1. TypeOK'  BY <1>1 DEF Call
  <2>2. (MetaIsGuarded /\ LoadedUnlessFailed)'
    BY <1>1 DEF Call, MetaIsGuarded, LoadedUnlessFailed
  <2>3. (DiscoverIsGuarded /\ OneDiscovery)'
    BY <1>1 DEF Call, DiscoverIsGuarded, OneDiscovery
  <2>4. (HookIsOwn /\ RegisteredIsTold)'
    BY <1>1 DEF Call, HookIsOwn, RegisteredIsTold, Hooked
  <2> QED BY <2>1, <2>2, <2>3, <2>4
<1>2. CASE MetaCheck(c)
  <2>1. TypeOK'  BY <1>2 DEF MetaCheck
  <2>2. (MetaIsGuarded /\ LoadedUnlessFailed)'
    BY <1>2 DEF MetaCheck, MetaIsGuarded, LoadedUnlessFailed
  <2>3. (DiscoverIsGuarded /\ OneDiscovery)'
    BY <1>2 DEF MetaCheck, DiscoverIsGuarded, OneDiscovery
  <2>4. (HookIsOwn /\ RegisteredIsTold)'
    BY <1>2 DEF MetaCheck, HookIsOwn, RegisteredIsTold, Hooked
  <2> QED BY <2>1, <2>2, <2>3, <2>4
<1>3. CASE MetaLock(c)
  <2>1. TypeOK'
    <3>1. CASE meta # "nil"  BY ZenonT(30), <1>3, <3>1 DEF MetaLock
    <3>2. CASE meta = "nil"
      <4>1. /\ metaMu' = c /\ meta' = "empty"
            /\ pc' = [pc EXCEPT ![c] = "load meta"]
            /\ UNCHANGED <<unread, discover, discoverMu, got, hook, registered, strayed>>
            /\ pc[c] = "lock meta" /\ metaMu = NoCall
        BY <1>3, <3>2 DEF MetaLock
      <4>2. \A d \in Calls : (pc[d] = "load meta" <=> metaMu = d)'  BY <4>1
      <4>3. \A d \in Calls : (pc[d] = "make" <=> discoverMu = d)'   BY <4>1
      <4> QED BY ZenonT(30), <4>1, <4>2, <4>3
    <3> QED BY <3>1, <3>2
  <2>2. (MetaIsGuarded /\ LoadedUnlessFailed)'
    BY <1>3 DEF MetaLock, MetaIsGuarded, LoadedUnlessFailed
  <2>3. (DiscoverIsGuarded /\ OneDiscovery)'
    BY <1>3 DEF MetaLock, DiscoverIsGuarded, OneDiscovery
  <2>4. (HookIsOwn /\ RegisteredIsTold)'
    BY ZenonT(30), <1>3 DEF MetaLock, HookIsOwn, RegisteredIsTold, Hooked
  <2> QED BY <2>1, <2>2, <2>3, <2>4
<1>4. CASE MetaLoad(c)
  <2>1. TypeOK'  BY ZenonT(30), <1>4 DEF MetaLoad
  <2>2. (MetaIsGuarded /\ LoadedUnlessFailed)'
    BY <1>4 DEF MetaLoad, MetaIsGuarded, LoadedUnlessFailed
  <2>3. (DiscoverIsGuarded /\ OneDiscovery)'
    BY <1>4 DEF MetaLoad, DiscoverIsGuarded, OneDiscovery
  <2>4. (HookIsOwn /\ RegisteredIsTold)'
    BY <1>4 DEF MetaLoad, HookIsOwn, RegisteredIsTold, Hooked
  <2> QED BY <2>1, <2>2, <2>3, <2>4
<1>5. CASE MetaLoadFails(c)
  <2>1. TypeOK'  BY ZenonT(30), <1>5 DEF MetaLoadFails
  <2>2. (MetaIsGuarded /\ LoadedUnlessFailed)'
    BY <1>5 DEF MetaLoadFails, MetaIsGuarded, LoadedUnlessFailed
  <2>3. (DiscoverIsGuarded /\ OneDiscovery)'
    BY <1>5 DEF MetaLoadFails, DiscoverIsGuarded, OneDiscovery
  <2>4. (HookIsOwn /\ RegisteredIsTold)'
    BY <1>5 DEF MetaLoadFails, HookIsOwn, RegisteredIsTold, Hooked
  <2> QED BY <2>1, <2>2, <2>3, <2>4
<1> QED BY <1>1, <1>2, <1>3, <1>4, <1>5

\* The discovery is only touched by steps of GetOrMakeDiscovery.
LEMMA DiscoverSide ==
  ASSUME StartupInv, NEW c \in Calls,
         Get(c) \/ GetLock(c) \/ Make(c) \/ MakeFails(c) \/ MakePanics(c)
  PROVE  StartupInv'
<1> USE CallsAssumption DEF StartupInv, TypeOK, Calls, MetaSteps, BuildSteps, Goto,
        discoverVars, builderVars, metaVars
<1>1. CASE Get(c)
  <2>1. TypeOK'
    <3>1. CASE discover = NoCall  BY ZenonT(30), <1>1, <3>1 DEF Get
    <3>2. CASE discover # NoCall /\ c \in Inits
      <4>1. /\ pc' = [pc EXCEPT ![c] = "hook"] /\ got' = [got EXCEPT ![c] = discover]
            /\ pc[c] \in {"get", "lock"}
            /\ UNCHANGED <<meta, metaMu, unread, discover, discoverMu, hook, registered, strayed>>
        BY <1>1, <3>2 DEF Get, Given
      <4>2. \A d \in Calls : (pc[d] = "load meta" <=> metaMu = d)'  BY <4>1
      <4>3. \A d \in Calls : (pc[d] = "make" <=> discoverMu = d)'   BY <4>1
      <4>4. \A d \in Users : (pc[d] \notin MetaSteps \cup BuildSteps)'  BY <3>2, <4>1
      <4> QED BY <4>1, <4>2, <4>3, <4>4
    <3>3. CASE discover # NoCall /\ c \notin Inits
      <4>1. /\ pc' = [pc EXCEPT ![c] = "ok"] /\ got' = [got EXCEPT ![c] = discover]
            /\ pc[c] \in {"get", "lock"}
            /\ UNCHANGED <<meta, metaMu, unread, discover, discoverMu, hook, registered, strayed>>
        BY <1>1, <3>3 DEF Get, Given
      <4>2. \A d \in Calls : (pc[d] = "load meta" <=> metaMu = d)'  BY <4>1
      <4>3. \A d \in Calls : (pc[d] = "make" <=> discoverMu = d)'   BY <4>1
      <4>4. \A d \in Users : (pc[d] \notin MetaSteps \cup BuildSteps)'  BY <3>3, <4>1
      <4> QED BY <4>1, <4>2, <4>3, <4>4
    <3> QED BY <3>1, <3>2, <3>3
  <2>2. (MetaIsGuarded /\ LoadedUnlessFailed)'
    BY <1>1 DEF Get, MetaIsGuarded, LoadedUnlessFailed, Given
  <2>3. (DiscoverIsGuarded /\ OneDiscovery)'
    BY <1>1 DEF Get, DiscoverIsGuarded, OneDiscovery, Given
  <2>4. (HookIsOwn /\ RegisteredIsTold)'
    BY ZenonT(30), <1>1 DEF Get, HookIsOwn, RegisteredIsTold, Hooked, Given
  <2> QED BY <2>1, <2>2, <2>3, <2>4
<1>2. CASE GetLock(c)
  <2>1. TypeOK'
    <3>1. CASE discover = NoCall
      <4>1. /\ discoverMu' = c /\ pc' = [pc EXCEPT ![c] = "make"] /\ pc[c] = "lock"
            /\ discoverMu = NoCall
            /\ UNCHANGED <<meta, metaMu, unread, discover, got, hook, registered, strayed>>
        BY <1>2, <3>1 DEF GetLock
      <4>2. \A d \in Calls : (pc[d] = "load meta" <=> metaMu = d)'  BY <4>1
      <4>3. \A d \in Calls : (pc[d] = "make" <=> discoverMu = d)'   BY <4>1
      <4> QED BY <4>1, <4>2, <4>3
    <3>2. CASE discover # NoCall /\ c \in Inits
      <4>1. /\ pc' = [pc EXCEPT ![c] = "hook"] /\ got' = [got EXCEPT ![c] = discover]
            /\ pc[c] \in {"get", "lock"}
            /\ UNCHANGED <<meta, metaMu, unread, discover, discoverMu, hook, registered, strayed>>
        BY <1>2, <3>2 DEF GetLock, Given
      <4>2. \A d \in Calls : (pc[d] = "load meta" <=> metaMu = d)'  BY <4>1
      <4>3. \A d \in Calls : (pc[d] = "make" <=> discoverMu = d)'   BY <4>1
      <4>4. \A d \in Users : (pc[d] \notin MetaSteps \cup BuildSteps)'  BY <3>2, <4>1
      <4> QED BY <4>1, <4>2, <4>3, <4>4
    <3>3. CASE discover # NoCall /\ c \notin Inits
      <4>1. /\ pc' = [pc EXCEPT ![c] = "ok"] /\ got' = [got EXCEPT ![c] = discover]
            /\ pc[c] \in {"get", "lock"}
            /\ UNCHANGED <<meta, metaMu, unread, discover, discoverMu, hook, registered, strayed>>
        BY <1>2, <3>3 DEF GetLock, Given
      <4>2. \A d \in Calls : (pc[d] = "load meta" <=> metaMu = d)'  BY <4>1
      <4>3. \A d \in Calls : (pc[d] = "make" <=> discoverMu = d)'   BY <4>1
      <4>4. \A d \in Users : (pc[d] \notin MetaSteps \cup BuildSteps)'  BY <3>3, <4>1
      <4> QED BY <4>1, <4>2, <4>3, <4>4
    <3> QED BY <3>1, <3>2, <3>3
  <2>2. (MetaIsGuarded /\ LoadedUnlessFailed)'
    BY <1>2 DEF GetLock, MetaIsGuarded, LoadedUnlessFailed, Given
  <2>3. (DiscoverIsGuarded /\ OneDiscovery)'
    BY <1>2 DEF GetLock, DiscoverIsGuarded, OneDiscovery, Given
  <2>4. (HookIsOwn /\ RegisteredIsTold)'
    BY ZenonT(30), <1>2 DEF GetLock, HookIsOwn, RegisteredIsTold, Hooked, Given
  <2> QED BY <2>1, <2>2, <2>3, <2>4
<1>3. CASE Make(c)
  <2>1. TypeOK'  BY <1>3 DEF Make, Given
  <2>2. (MetaIsGuarded /\ LoadedUnlessFailed)'
    BY <1>3 DEF Make, MetaIsGuarded, LoadedUnlessFailed, Given
  <2>3. (DiscoverIsGuarded /\ OneDiscovery)'
    BY <1>3 DEF Make, DiscoverIsGuarded, OneDiscovery, Given
  <2>4. (HookIsOwn /\ RegisteredIsTold)'
    BY <1>3 DEF Make, HookIsOwn, RegisteredIsTold, Hooked, Given
  <2> QED BY <2>1, <2>2, <2>3, <2>4
<1>4. CASE MakeFails(c)
  <2>1. TypeOK'  BY ZenonT(30), <1>4 DEF MakeFails
  <2>2. (MetaIsGuarded /\ LoadedUnlessFailed)'
    BY <1>4 DEF MakeFails, MetaIsGuarded, LoadedUnlessFailed
  <2>3. (DiscoverIsGuarded /\ OneDiscovery)'
    BY <1>4 DEF MakeFails, DiscoverIsGuarded, OneDiscovery
  <2>4. (HookIsOwn /\ RegisteredIsTold)'
    BY <1>4 DEF MakeFails, HookIsOwn, RegisteredIsTold, Hooked
  <2> QED BY <2>1, <2>2, <2>3, <2>4
<1>5. CASE MakePanics(c)
  <2>1. TypeOK'  BY ZenonT(30), <1>5 DEF MakePanics
  <2>2. (MetaIsGuarded /\ LoadedUnlessFailed)'
    BY <1>5 DEF MakePanics, MetaIsGuarded, LoadedUnlessFailed
  <2>3. (DiscoverIsGuarded /\ OneDiscovery)'
    BY <1>5 DEF MakePanics, DiscoverIsGuarded, OneDiscovery
  <2>4. (HookIsOwn /\ RegisteredIsTold)'
    BY <1>5 DEF MakePanics, HookIsOwn, RegisteredIsTold, Hooked
  <2> QED BY <2>1, <2>2, <2>3, <2>4
<1> QED BY <1>1, <1>2, <1>3, <1>4, <1>5

\* The callback and the resolver are only touched by steps of the builders.
LEMMA BuilderSide ==
  ASSUME StartupInv, NEW c \in Calls,
         SetHook(c) \/ LoadAll(c) \/ LoadAllFails(c) \/ Register(c)
  PROVE  StartupInv'
<1> USE CallsAssumption DEF StartupInv, TypeOK, Calls, MetaSteps, BuildSteps, Goto,
        discoverVars, builderVars, metaVars
<1>1. CASE SetHook(c)
  <2>1. TypeOK'  BY <1>1 DEF SetHook
  <2>2. (MetaIsGuarded /\ LoadedUnlessFailed)'
    BY <1>1 DEF SetHook, MetaIsGuarded, LoadedUnlessFailed
  <2>3. (DiscoverIsGuarded /\ OneDiscovery)'
    BY <1>1 DEF SetHook, DiscoverIsGuarded, OneDiscovery
  <2>4. (HookIsOwn /\ RegisteredIsTold)'
    BY <1>1 DEF SetHook, HookIsOwn, RegisteredIsTold, Hooked
  <2> QED BY <2>1, <2>2, <2>3, <2>4
<1>2. CASE LoadAll(c)
  <2>1. TypeOK'  BY <1>2 DEF LoadAll
  <2>2. (MetaIsGuarded /\ LoadedUnlessFailed)'
    BY <1>2 DEF LoadAll, MetaIsGuarded, LoadedUnlessFailed
  <2>3. (DiscoverIsGuarded /\ OneDiscovery)'
    BY <1>2 DEF LoadAll, DiscoverIsGuarded, OneDiscovery
  <2>4. (HookIsOwn /\ RegisteredIsTold)'
    BY <1>2 DEF LoadAll, HookIsOwn, RegisteredIsTold, Hooked
  <2> QED BY <2>1, <2>2, <2>3, <2>4
<1>3. CASE LoadAllFails(c)
  <2>1. TypeOK'  BY <1>3 DEF LoadAllFails
  <2>2. (MetaIsGuarded /\ LoadedUnlessFailed)'
    BY <1>3 DEF LoadAllFails, MetaIsGuarded, LoadedUnlessFailed
  <2>3. (DiscoverIsGuarded /\ OneDiscovery)'
    BY <1>3 DEF LoadAllFails, DiscoverIsGuarded, OneDiscovery
  <2>4. (HookIsOwn /\ RegisteredIsTold)'
    BY <1>3 DEF LoadAllFails, HookIsOwn, RegisteredIsTold, Hooked
  <2> QED BY <2>1, <2>2, <2>3, <2>4
<1>4. CASE Register(c)
  <2>1. TypeOK'  BY <1>4 DEF Register
  <2>2. (MetaIsGuarded /\ LoadedUnlessFailed)'
    BY <1>4 DEF Register, MetaIsGuarded, LoadedUnlessFailed
  <2>3. (DiscoverIsGuarded /\ OneDiscovery)'
    BY <1>4 DEF Register, DiscoverIsGuarded, OneDiscovery
  <2>4. (HookIsOwn /\ RegisteredIsTold)'
    BY <1>4 DEF Register, HookIsOwn, RegisteredIsTold, Hooked
  <2> QED BY <2>1, <2>2, <2>3, <2>4
<1> QED BY <1>1, <1>2, <1>3, <1>4

\* The invariant is inductive.
LEMMA StartupNext == StartupInv /\ [ProgramsNext]_programs => StartupInv'
<1> SUFFICES ASSUME StartupInv, [ProgramsNext]_programs PROVE StartupInv'
  OBVIOUS
<1>1. CASE UNCHANGED vars
  BY <1>1 DEF StartupInv, TypeOK, MetaIsGuarded, LoadedUnlessFailed, DiscoverIsGuarded, OneDiscovery,
      HookIsOwn, RegisteredIsTold, Hooked, vars, metaVars, discoverVars, builderVars
<1>2. ASSUME NEW c \in Calls, CallStep(c) PROVE StartupInv'
  BY <1>2, MetaSide, DiscoverSide, BuilderSide DEF CallStep
<1> QED BY <1>1, <1>2, OneRuns DEF Next

LEMMA StartupHolds == ProgramsSpec => []StartupInv
<1>1. ProgramsInit => StartupInv
  BY StartupInit DEF ProgramsInit
<1> QED BY <1>1, StartupNext, PTL DEF ProgramsSpec
-----------------------------------------------------------------------------
(***************************************************************************)
(* Proxy.  The invariant says which change the callback under way is for,  *)
(* and that the file is that of the last one handled unless history marks  *)
(* it.                                                                     *)
(***************************************************************************)
LEMMA ProxyConfigs == P!Configs = Configs
  BY DEF P!Configs, Configs

\* The change handled last, or being handled.
LastHandled == IF watching THEN pos ELSE loaded

Order ==
  /\ rpc \in {"idle", "load", "panicked"} => behind /\ cb = P!Idle /\ ~watching /\ loaded = 0
  /\ cb # P!Idle => cb.version = LastHandled
  /\ watching => pos # 0

FileIsLast == cb = P!Idle /\ ~behind => LastHandled # 0 /\ content[dir] = P!Expected(LastHandled)

ProxyInv == P!TypeOK /\ Order /\ FileIsLast

\* What is in the log stays what it is.
LEMMA LogGrows ==
  ASSUME NEW S, NEW l \in Seq(S), NEW k \in S
  PROVE  /\ Append(l, k) \in Seq(S)
         /\ Len(Append(l, k)) = Len(l) + 1
         /\ \A v \in 1 .. Len(l) : Append(l, k)[v] = l[v]
  OBVIOUS

LEMMA ProxyInit == P!Init => ProxyInv
<1> SUFFICES ASSUME P!Init PROVE ProxyInv
  OBVIOUS
<1>1. Base \in Configs /\ Base.dir \in Dirs /\ Base.conn \in Conns
  BY ProxyAssumption DEF Configs
<1>2. log \in Seq({"put", "delete"}) /\ Len(log) = 1
  BY DEF P!Init
<1>3. P!TypeOK
  <2>1. /\ content \in [Dirs \cup {Torn} -> -1 .. P!Now] /\ P!Now \in 1 .. MaxVersion
        /\ changes \in 0 .. MaxChanges
    BY <1>2, ProxyAssumption DEF P!Init, P!Now
  <2>2. /\ loaded \in 0 .. P!Now /\ pos \in 0 .. P!Now
    BY <1>2 DEF P!Init, P!Now
  <2> QED BY <1>1, <1>2, <2>1, <2>2, ProxyConfigs DEF P!Init, P!TypeOK
<1> QED
  BY <1>3 DEF P!Init, ProxyInv, Order, FileIsLast, P!Idle

\* The configuration, and watchCfg.
LEMMA ProxyWatcher ==
  ASSUME ProxyInv, (\E c \in Configs : P!Reconfigure(c)) \/ P!Watcher
  PROVE  ProxyInv'
<1> USE DEF ProxyInv, Order, FileIsLast, LastHandled, P!Expected, P!Now, P!Idle,
        P!settings, P!watchVars, P!runVars, P!stream, P!callback
<1>1. ASSUME NEW c \in Configs, P!Reconfigure(c) PROVE ProxyInv'
  BY <1>1, ProxyAssumption, ProxyConfigs DEF P!Reconfigure, P!TypeOK
<1>2. CASE P!Notice
  <2>1. config.conn \in Conns
    BY ProxyConfigs DEF P!TypeOK, Configs
  <2> QED BY <1>2, <2>1 DEF P!Notice, P!TypeOK
<1>3. CASE P!GetFails
  BY <1>3 DEF P!GetFails, P!TypeOK
<1>4. CASE P!GetOk
  BY <1>4 DEF P!GetOk, P!TypeOK
<1>5. CASE P!ReadOldConn \/ P!ReadOldCfg
  <2>1. config.conn \in Conns /\ config.dir \in Dirs
    BY ProxyConfigs DEF P!TypeOK, Configs
  <2> QED BY <1>5, <2>1 DEF P!ReadOldConn, P!ReadOldCfg, P!TypeOK
<1>6. CASE P!Switch
  <2>1. cfg.dir \in Dirs
    BY ProxyConfigs DEF P!TypeOK, Configs
  <2>2. /\ dir' = cfg.dir /\ behind' = (behind \/ cfg.dir # dir) /\ wpc' = "rerun"
        /\ UNCHANGED <<P!settings, oldDir, oldConn, cfg, disc, P!runVars, log, P!stream, P!callback>>
    BY <1>6 DEF P!Switch
  <2>3. P!TypeOK'
    BY <2>1, <2>2 DEF P!TypeOK
  <2>4. (Order /\ FileIsLast)'
    BY <2>2 DEF P!TypeOK
  <2> QED BY <2>3, <2>4
<1> QED BY <1>1, <1>2, <1>3, <1>4, <1>5, <1>6 DEF P!Watcher

\* The service.
LEMMA ProxyWrite ==
  ASSUME ProxyInv, NEW k \in {"put", "delete"}, P!Write(k)
  PROVE  ProxyInv'
<1>1. /\ log' = Append(log, k) /\ P!Now < MaxVersion
      /\ UNCHANGED <<P!settings, P!watchVars, P!runVars, P!stream, P!callback, behind>>
  BY DEF P!Write
<1>2. /\ log \in Seq({"put", "delete"}) /\ P!Now \in 1 .. MaxVersion
      /\ loaded \in 0 .. P!Now /\ pos \in 0 .. P!Now
  BY DEF ProxyInv, P!TypeOK
<1>3. /\ log' \in Seq({"put", "delete"}) /\ P!Now' = P!Now + 1
      /\ \A v \in 1 .. P!Now : log'[v] = log[v]
  BY <1>1, <1>2, LogGrows DEF P!Now
<1>4. 0 .. P!Now \subseteq 0 .. P!Now' /\ 1 .. P!Now \subseteq 1 .. P!Now' /\ -1 .. P!Now \subseteq -1 .. P!Now'
  BY <1>2, <1>3
<1>5. P!TypeOK'
  <2>1. content' \in [Dirs \cup {Torn} -> -1 .. P!Now']
    BY <1>1, <1>4 DEF ProxyInv, P!TypeOK, P!callback
  <2>2. cb' = P!Idle \/ cb' \in [step : {"path", "file"}, path : Dirs \cup {Torn}, version : 1 .. P!Now']
    BY <1>1, <1>4 DEF ProxyInv, P!TypeOK, P!callback
  <2>3. P!Now' \in 1 .. MaxVersion
    BY <1>1, <1>2, <1>3, ProxyAssumption
  <2> QED
    BY <1>1, <1>3, <1>4, <2>1, <2>2, <2>3
    DEF ProxyInv, P!TypeOK, P!settings, P!watchVars, P!runVars, P!stream, P!callback, P!Idle
<1>6. LastHandled' = LastHandled /\ LastHandled \in 0 .. P!Now
  BY <1>1, <1>2 DEF LastHandled, P!runVars, P!stream
<1>7. LastHandled # 0 => P!Expected(LastHandled)' = P!Expected(LastHandled)
  <2>1. LastHandled # 0 => log'[LastHandled] = log[LastHandled]
    BY <1>2, <1>3, <1>6
  <2> QED BY <2>1, <1>6 DEF P!Expected
<1> QED
  BY <1>1, <1>5, <1>6, <1>7
  DEF ProxyInv, Order, FileIsLast, P!Idle, P!watchVars, P!runVars, P!stream, P!callback

\* The callback.
LEMMA ProxyCallback ==
  ASSUME ProxyInv, P!Callback
  PROVE  ProxyInv'
<1>1. /\ log \in Seq({"put", "delete"}) /\ P!Now \in 1 .. MaxVersion /\ dir \in Dirs
      /\ content \in [Dirs \cup {Torn} -> -1 .. P!Now]
      /\ cb = P!Idle \/ cb \in [step : {"path", "file"}, path : Dirs \cup {Torn}, version : 1 .. P!Now]
  BY DEF ProxyInv, P!TypeOK
<1>2. cb \in [step : {"path", "file"}, path : Dirs \cup {Torn}, version : 1 .. P!Now]
  BY <1>1 DEF P!Callback, P!Truncate, P!Store, P!StoreFails, P!AtLastStep, P!Idle
<1>3. cb # P!Idle
  BY <1>2 DEF P!Idle
<1>4. P!Expected(cb.version) \in -1 .. P!Now
  BY <1>1, <1>2 DEF P!Expected, P!Now
<1>5. CASE P!Truncate
  <2>1. /\ content' = [content EXCEPT ![cb.path] = -1]
        /\ cb' = [cb EXCEPT !.step = "file"]
        /\ UNCHANGED <<P!settings, P!watchVars, P!runVars, log, P!stream, behind>>
    BY <1>5 DEF P!Truncate
  <2>2. cb' \in [step : {"path", "file"}, path : Dirs \cup {Torn}, version : 1 .. P!Now]
    BY <1>2, <2>1
  <2>3. cb' # P!Idle /\ cb'.version = cb.version
    BY <1>2, <2>1 DEF P!Idle
  <2>4. content' \in [Dirs \cup {Torn} -> -1 .. P!Now]
    <3>1. P!Now \in Int /\ 0 <= P!Now  BY <1>1
    <3>2. -1 \in -1 .. P!Now          BY <3>1
    <3> QED BY <1>1, <2>1, <3>2
  <2>5. P!TypeOK'
    BY <2>1, <2>2, <2>4
    DEF ProxyInv, P!TypeOK, P!settings, P!watchVars, P!runVars, P!stream, P!Now, P!Idle
  <2> QED
    BY <1>3, <2>1, <2>3, <2>5
    DEF ProxyInv, Order, FileIsLast, LastHandled, P!watchVars, P!runVars, P!stream, P!Idle
<1>6. CASE P!Store
  <2>1. /\ content' = [content EXCEPT ![cb.path] = P!Expected(cb.version)]
        /\ behind' = (cb.path # dir) /\ cb' = P!Idle
        /\ UNCHANGED <<P!settings, P!watchVars, P!runVars, log, P!stream>>
    BY <1>6 DEF P!Store, P!Finished
  <2>2. content' \in [Dirs \cup {Torn} -> -1 .. P!Now]
    BY <1>1, <1>2, <1>4, <2>1
  <2>3. P!TypeOK'
    BY <2>1, <2>2 DEF ProxyInv, P!TypeOK, P!settings, P!watchVars, P!runVars, P!stream, P!Now, P!Idle
  <2>4. Order'
    BY <1>3, <2>1 DEF ProxyInv, Order, LastHandled, P!watchVars, P!runVars, P!stream, P!Idle
  <2>5. cb.version = LastHandled /\ LastHandled # 0
    BY <1>2, <1>3 DEF ProxyInv, Order
  <2>6. LastHandled' = LastHandled /\ P!Expected(LastHandled)' = P!Expected(LastHandled) /\ dir' = dir
    BY <2>1 DEF LastHandled, P!Expected, P!watchVars, P!runVars, P!stream
  <2>7. ~behind' => content'[dir] = P!Expected(LastHandled)
    BY <1>1, <1>2, <2>1, <2>5
  <2> QED BY <2>3, <2>4, <2>5, <2>6, <2>7 DEF ProxyInv, FileIsLast
<1>7. CASE P!StoreFails
  <2>1. /\ cb' = P!Idle /\ behind' = TRUE
        /\ UNCHANGED <<P!settings, P!watchVars, P!runVars, log, P!stream, content>>
    BY <1>7 DEF P!StoreFails, P!Finished
  <2>2. P!TypeOK'
    BY <2>1 DEF ProxyInv, P!TypeOK, P!settings, P!watchVars, P!runVars, P!stream, P!Now, P!Idle
  <2> QED
    BY <1>3, <2>1, <2>2
    DEF ProxyInv, Order, FileIsLast, LastHandled, P!watchVars, P!runVars, P!stream, P!Idle
<1> QED BY <1>5, <1>6, <1>7 DEF P!Callback

\* Run, and the watcher.
LEMMA ProxyRunner ==
  ASSUME ProxyInv, P!Runner
  PROVE  ProxyInv'
<1>1. /\ log \in Seq({"put", "delete"}) /\ P!Now \in 1 .. MaxVersion /\ dir \in Dirs
      /\ cfg \in Configs /\ pos \in 0 .. P!Now /\ loaded \in 0 .. P!Now
  BY ProxyConfigs DEF ProxyInv, P!TypeOK
<1>2. ASSUME NEW v \in 1 .. P!Now, P!Begins(v)
      PROVE  /\ cb' \in [step : {"path", "file"}, path : Dirs \cup {Torn}, version : 1 .. P!Now]
             /\ cb' # P!Idle /\ cb'.version = v
  <2>1. P!Readable \subseteq Dirs \cup {Torn}
    BY <1>1 DEF P!Readable, Configs
  <2>2. PICK p \in P!Readable : cb' = [step |-> "path", path |-> p, version |-> v]
    BY <1>2 DEF P!Begins
  <2> QED BY <2>1, <2>2 DEF P!Idle
<1>3. CASE P!Run
  BY <1>3 DEF P!Run, ProxyInv, P!TypeOK, Order, FileIsLast, LastHandled, P!Expected, P!Now, P!Idle,
              P!settings, P!watchVars, P!stream, P!callback
<1>4. CASE P!LoadPanics
  BY <1>4
  DEF P!LoadPanics, ProxyInv, P!TypeOK, Order, FileIsLast, LastHandled, P!Expected, P!Now,
      P!Idle,
              P!settings, P!watchVars, P!stream, P!callback
<1>5. CASE P!Load
  <2>1. /\ loaded' = P!Now /\ rpc' = "loaded" /\ behind /\ cb = P!Idle /\ ~watching
        /\ UNCHANGED <<P!settings, P!watchVars, hooked, log, P!stream, content, behind>>
    BY <1>5 DEF P!Load, ProxyInv, Order
  <2>2. CASE log[P!Now] = "put"
    <3>1. P!Begins(P!Now)
      BY <1>5, <2>2 DEF P!Load
    <3>2. /\ cb' \in [step : {"path", "file"}, path : Dirs \cup {Torn}, version : 1 .. P!Now]
          /\ cb' # P!Idle /\ cb'.version = P!Now
      BY <1>1, <1>2, <3>1
    <3>3. P!TypeOK'
      BY <1>1, <2>1, <3>2 DEF ProxyInv, P!TypeOK, P!Now, P!settings, P!watchVars, P!stream, P!Idle
    <3> QED
      BY <2>1, <3>2, <3>3 DEF ProxyInv, Order, FileIsLast, LastHandled, P!watchVars, P!stream, P!Idle
  <2>3. CASE log[P!Now] # "put"
    <3>1. cb' = P!Idle
      BY <1>5, <2>1, <2>3 DEF P!Load
    <3>2. P!TypeOK'
      BY <1>1, <2>1, <3>1 DEF ProxyInv, P!TypeOK, P!Now, P!settings, P!watchVars, P!stream, P!Idle
    <3> QED
      BY <2>1, <3>1, <3>2 DEF ProxyInv, Order, FileIsLast, LastHandled, P!watchVars, P!stream, P!Idle
  <2> QED BY <2>2, <2>3
<1>6. CASE P!LoadFails \/ P!LoadUnheard
  BY <1>6
  DEF P!LoadFails, P!LoadUnheard, ProxyInv, P!TypeOK, Order, FileIsLast, LastHandled,
      P!Expected, P!Now, P!Idle,
              P!settings, P!watchVars, P!stream, P!callback
<1>7. CASE P!Watch
  <2>1. /\ watching' = TRUE /\ pos' = P!Now /\ cb = P!Idle /\ ~watching
        /\ behind' = (behind \/ P!Expected(P!Now) # (IF loaded = 0 THEN 0 ELSE P!Expected(loaded)))
        /\ rpc = "loaded"
        /\ UNCHANGED <<P!settings, P!watchVars, P!runVars, log, P!callback>>
    BY <1>7 DEF P!Watch
  <2>2. P!TypeOK'
    BY <1>1, <2>1 DEF ProxyInv, P!TypeOK, P!Now, P!settings, P!watchVars, P!runVars, P!callback, P!Idle
  <2>3. Order'
    BY <1>1, <2>1 DEF ProxyInv, Order, P!Now, P!runVars, P!callback, P!Idle
  <2>4. LastHandled = loaded /\ LastHandled' = P!Now /\ P!Expected(P!Now)' = P!Expected(P!Now)
    BY <2>1 DEF LastHandled, P!Expected, P!Now
  <2>5. ~behind' => content[dir] = P!Expected(P!Now)
    BY <2>1, <2>4 DEF ProxyInv, FileIsLast
  <2>6. FileIsLast'
    BY <1>1, <2>1, <2>4, <2>5 DEF FileIsLast, P!Expected, P!Now, P!watchVars, P!callback
  <2> QED BY <2>2, <2>3, <2>6 DEF ProxyInv
<1>8. CASE P!NextChange
  <2>1. /\ watching /\ cb = P!Idle /\ pos' = pos + 1 /\ pos + 1 \in 1 .. P!Now
        /\ P!Begins(pos + 1)
        /\ UNCHANGED <<P!settings, P!watchVars, P!runVars, log, watching, content, behind>>
    BY <1>1, <1>8 DEF P!NextChange
  <2>2. /\ cb' \in [step : {"path", "file"}, path : Dirs \cup {Torn}, version : 1 .. P!Now]
        /\ cb' # P!Idle /\ cb'.version = pos + 1
    BY <1>2, <2>1
  <2>3. P!TypeOK'
    BY <1>1, <2>1, <2>2 DEF ProxyInv, P!TypeOK, P!Now, P!settings, P!watchVars, P!runVars, P!Idle
  <2> QED
    BY <2>1, <2>2, <2>3 DEF ProxyInv, Order, FileIsLast, LastHandled, P!watchVars, P!runVars, P!Idle
<1> QED BY <1>3, <1>4, <1>5, <1>6, <1>7, <1>8 DEF P!Runner

\* The invariant is inductive.
LEMMA ProxyNext == ProxyInv /\ [ProgramsNext]_programs => ProxyInv'
<1> SUFFICES ASSUME ProxyInv, [ProgramsNext]_programs PROVE ProxyInv'
  OBVIOUS
<1>1. CASE UNCHANGED proxy
  BY <1>1 DEF proxy, ProxyInv, P!TypeOK, Order, FileIsLast, LastHandled, P!Expected, P!Now, P!Idle
<1>2. CASE P!Next
  BY <1>2, ProxyWatcher, ProxyWrite, ProxyCallback, ProxyRunner, ProxyConfigs DEF P!Next
<1> QED BY <1>1, <1>2, OneRuns

LEMMA ProxyHolds == ProgramsSpec => []ProxyInv
<1>1. ProgramsInit => ProxyInv
  BY ProxyInit DEF ProgramsInit
<1> QED BY <1>1, ProxyNext, PTL DEF ProgramsSpec
-----------------------------------------------------------------------------
(***************************************************************************)
(* Resolvers.  Once a change of the stream has been taken, neither the     *)
(* cache nor a record that was found is behind the watcher, unless the     *)
(* watcher has yet to tell of it, or marks the connection as overtaken.    *)
(***************************************************************************)
\* Nothing is newer than the log, and the cache no older than what the
\* stream has brought.
Bounds ==
  /\ \A c \in ClientConns : bgot[c] <= R!Now /\ asked[c] <= R!Now /\ state[c] <= R!Now
  /\ rpos > rfrom => cached = 0 \/ cached >= rpos

\* The stream is open, and has brought a change that is being told, or has
\* been, or was passed over.
Settled == rwpc \in {"walk", "wait"} /\ rpos > rfrom /\ rlog[rpos] # "junk"

\* The watcher is still to come to a record that is newer than v.
UpToDate(v) == v >= rpos \/ (rwpc = "wait" /\ cached > rpos)

BuildIsFresh ==
  \A c \in ClientConns \ overtaken :
    bpc[c] \in {"push", "append"} /\ Settled => UpToDate(bgot[c])

OpenIsFresh ==
  \A c \in ClientConns \ overtaken :
    bpc[c] = "open" /\ Settled => c \in todo \/ UpToDate(state[c])

Pushed ==
  \A c \in ClientConns :
    /\ bpc[c] = "append" => state[c] = bgot[c]
    /\ asked[c] # 0 => bpc[c] \in {"open", "closed"}

ResolversInv == R!TypeOK /\ Bounds /\ BuildIsFresh /\ OpenIsFresh /\ Pushed

\* What Discover returns is the newest there is, or no older than what the
\* stream has brought.
LEMMA FoundIsFresh ==
  ASSUME ResolversInv
  PROVE  R!Found \in 0 .. R!Now /\ (R!Found # 0 /\ rpos > rfrom => R!Found >= rpos)
  BY DEF ResolversInv, R!TypeOK, Bounds, R!Found

LEMMA ResolversInit == R!Init => ResolversInv
<1> SUFFICES ASSUME R!Init PROVE ResolversInv
  OBVIOUS
<1>1. rlog \in Seq(R!Changes) /\ R!Now = 1
  BY DEF R!Init, R!Changes, R!Now
<1>2. 1 \in 1 .. MaxWrites /\ 0 \in R!Version
  BY MaxWritesAssumption DEF R!Version
<1> QED
  BY <1>1, <1>2
  DEF R!Init, ResolversInv, R!TypeOK, Bounds, BuildIsFresh, OpenIsFresh, Settled, Pushed

\* A change of the service.
LEMMA ResolversWrite ==
  ASSUME ResolversInv, NEW k \in R!Changes, R!Write(k)
  PROVE  ResolversInv'
<1>1. /\ rlog \in Seq(R!Changes) /\ R!Now < MaxWrites /\ rlog' = Append(rlog, k) /\ R!Now \in 1 .. MaxWrites
      /\ UNCHANGED <<cached, rfrom, rpos, rwpc, todo, resolvers, bpc, bgot, asked, state, overtaken>>
  BY DEF R!Write, ResolversInv, R!TypeOK, R!watcher, R!builds
<1>2. /\ rlog' \in Seq(R!Changes) /\ R!Now' = R!Now + 1 /\ R!Now' \in 1 .. MaxWrites
      /\ \A v \in 1 .. R!Now : rlog'[v] = rlog[v]
  BY <1>1, MaxWritesAssumption, LogGrows DEF R!Now
<1>3. R!TypeOK'
  BY <1>1, <1>2 DEF ResolversInv, R!TypeOK
<1>4. Bounds'
  BY <1>1, <1>2, MaxWritesAssumption DEF ResolversInv, R!TypeOK, Bounds, R!Version
<1>5. Settled' => Settled
  <2>1. rpos \in Nat /\ rfrom \in Nat /\ rpos <= R!Now
    BY <1>1 DEF ResolversInv, R!TypeOK
  <2>2. rpos > rfrom => rpos \in 1 .. R!Now
    BY <1>1, <2>1
  <2> QED BY <1>1, <1>2, <2>2 DEF Settled
<1> QED
  BY <1>1, <1>3, <1>4, <1>5 DEF ResolversInv, BuildIsFresh, OpenIsFresh, Settled, UpToDate, Pushed

\* The watcher and its callback.
LEMMA ResolversWatch ==
  ASSUME ResolversInv, R!WatchStep \/ R!Closes
  PROVE  ResolversInv'
<1>1. /\ R!Now \in 1 .. MaxWrites /\ rfrom \in 0 .. R!Now /\ rpos \in rfrom .. R!Now /\ cached \in 0 .. R!Now /\ MaxWrites \in Nat
      /\ state \in [ClientConns -> R!Version] /\ bgot \in [ClientConns -> R!Version]
  BY MaxWritesAssumption DEF ResolversInv, R!TypeOK
<1>2. CASE R!Apply
  <2>1. /\ rwpc = "wait" /\ rpos' = rpos + 1 /\ rpos' \in rfrom .. R!Now /\ rpos' > rfrom
        /\ UNCHANGED <<rlog, rfrom, todo, resolvers, bpc, bgot, asked, state, overtaken>>
    BY <1>1, <1>2 DEF R!Apply, R!builds
  <2>2. CASE cached > rpos + 1
    <3>1. UNCHANGED <<cached, rwpc>>
      BY <1>2, <2>2 DEF R!Apply
    <3>2. R!TypeOK' /\ Bounds'
      BY <1>1, <2>1, <2>2, <3>1 DEF ResolversInv, R!TypeOK, Bounds, R!Now
    <3> QED
      BY <1>1, <2>1, <2>2, <3>1, <3>2 DEF ResolversInv, BuildIsFresh, OpenIsFresh, Settled, UpToDate, Pushed
  <2>3. CASE ~(cached > rpos + 1)
    <3>1. cached' \in {0, rpos + 1} /\ rwpc' = "notify"
      BY <1>2, <2>3 DEF R!Apply
    <3>2. R!TypeOK' /\ Bounds'
      BY <1>1, <2>1, <3>1 DEF ResolversInv, R!TypeOK, Bounds, R!Now
    <3> QED
      BY <2>1, <3>1, <3>2 DEF ResolversInv, BuildIsFresh, OpenIsFresh, Settled, Pushed
  <2> QED BY <2>2, <2>3
<1>3. CASE R!Notify
  <2>1. /\ rwpc = "notify" /\ rwpc' = "walk"
        /\ todo' = resolvers \/ (rlog[rpos] = "junk" /\ todo' = {})
        /\ overtaken' = overtaken
             \cup {c \in ClientConns : bpc[c] \in {"push", "append"} /\ bgot[c] < rpos}
        /\ UNCHANGED <<rlog, cached, rfrom, rpos, resolvers, bpc, bgot, asked, state>>
    BY <1>3 DEF R!Notify, R!cache, R!builds
  <2>2. R!TypeOK' /\ Bounds'
    BY <2>1 DEF ResolversInv, R!TypeOK, Bounds, R!Now
  <2>3. BuildIsFresh'
    BY <1>1, <2>1 DEF BuildIsFresh, Settled, UpToDate, R!Version
  <2>4. OpenIsFresh'
    BY <2>1 DEF ResolversInv, R!TypeOK, OpenIsFresh, Settled
  <2> QED BY <2>1, <2>2, <2>3, <2>4 DEF ResolversInv, Pushed
<1>4. ASSUME NEW c \in ClientConns, R!Tell(c) PROVE ResolversInv'
  <2>1. /\ rwpc = "walk" /\ c \in todo /\ todo' = todo \ {c}
        /\ state' = [state EXCEPT ![c] = rpos] /\ overtaken' = overtaken \ {c}
        /\ UNCHANGED <<rlog, cached, rfrom, rpos, rwpc, resolvers, bpc, bgot, asked>>
    BY <1>4 DEF R!Tell, R!cache, R!builds
  <2>2. bpc[c] = "open"
    BY <2>1 DEF ResolversInv, R!TypeOK
  <2>3. R!TypeOK' /\ Bounds'
    BY <1>1, <2>1 DEF ResolversInv, R!TypeOK, Bounds, R!Now, R!Version
  <2>4. BuildIsFresh' /\ Pushed'
    BY <1>1, <2>1, <2>2 DEF ResolversInv, BuildIsFresh, Settled, UpToDate, Pushed
  <2>5. OpenIsFresh'
    BY <1>1, <2>1 DEF ResolversInv, OpenIsFresh, Settled, UpToDate
  <2> QED BY <2>3, <2>4, <2>5 DEF ResolversInv
<1>5. CASE R!Told
  <2>1. /\ rwpc = "walk" /\ todo = {} /\ rwpc' = "wait"
        /\ UNCHANGED <<rlog, cached, rfrom, rpos, todo, resolvers, bpc, bgot, asked, state, overtaken>>
    BY <1>5 DEF R!Told, R!cache, R!builds
  <2>2. R!TypeOK' /\ Bounds'
    BY <2>1 DEF ResolversInv, R!TypeOK, Bounds, R!Now
  <2> QED
    BY <2>1, <2>2 DEF ResolversInv, BuildIsFresh, OpenIsFresh, Settled, UpToDate, Pushed
<1>6. CASE R!Open
  <2>1. /\ rwpc = "opening" /\ rwpc' = "wait" /\ rfrom' = R!Now /\ rpos' = R!Now
        /\ UNCHANGED <<rlog, cached, todo, resolvers, bpc, bgot, asked, state, overtaken>>
    BY <1>6 DEF R!Open, R!cache, R!builds
  <2>2. R!TypeOK' /\ Bounds'
    BY <1>1, <2>1 DEF ResolversInv, R!TypeOK, Bounds, R!Now
  <2>3. ~Settled'
    BY <1>1, <2>1 DEF Settled
  <2> QED BY <2>1, <2>2, <2>3 DEF ResolversInv, BuildIsFresh, OpenIsFresh, Pushed
<1>7. CASE R!Closes
  <2>1. /\ rwpc = "wait" /\ rwpc' = "spin"
        /\ UNCHANGED <<rlog, cached, rfrom, rpos, todo, resolvers, bpc, bgot, asked, state, overtaken>>
    BY <1>7 DEF R!Closes, R!cache, R!builds
  <2>2. R!TypeOK' /\ Bounds'
    BY <2>1 DEF ResolversInv, R!TypeOK, Bounds, R!Now
  <2>3. ~Settled'
    BY <2>1 DEF Settled
  <2> QED BY <2>1, <2>2, <2>3 DEF ResolversInv, BuildIsFresh, OpenIsFresh, Pushed
<1> QED BY <1>2, <1>3, <1>4, <1>5, <1>6, <1>7 DEF R!WatchStep

\* Build, ResolveNow and Close.
LEMMA ResolversBuild ==
  ASSUME ResolversInv, NEW c \in ClientConns,
         R!Build(c) \/ R!BuildFails(c) \/ R!BuildStep(c) \/ R!ResolveNow(c) \/ R!ResolvePush(c) \/ R!Close(c)
  PROVE  ResolversInv'
<1>1. /\ R!Now \in 1 .. MaxWrites /\ rfrom \in 0 .. R!Now /\ rpos \in rfrom .. R!Now /\ cached \in 0 .. R!Now /\ MaxWrites \in Nat
      /\ state \in [ClientConns -> R!Version] /\ bgot \in [ClientConns -> R!Version]
      /\ asked \in [ClientConns -> R!Version]
      /\ 0 .. R!Now \subseteq R!Version
  BY MaxWritesAssumption DEF ResolversInv, R!TypeOK, R!Version
<1>2. R!Found \in 0 .. R!Now /\ (R!Found # 0 /\ rpos > rfrom => R!Found >= rpos)
  BY FoundIsFresh
<1>3. CASE R!Build(c)
  <2>1. /\ bpc[c] = "idle" /\ cached' = R!Found /\ bgot' = [bgot EXCEPT ![c] = R!Found]
        /\ bpc' = [bpc EXCEPT ![c] = IF R!Found # 0 THEN "push" ELSE "failed"]
        /\ UNCHANGED <<rlog, rfrom, rpos, rwpc, todo, resolvers, asked, state, overtaken>>
    BY <1>3 DEF R!Build, R!Discover, R!Goto, R!watcher
  <2>2. R!TypeOK'
    BY <1>1, <1>2, <2>1 DEF ResolversInv, R!TypeOK, R!Now
  <2>3. Bounds'
    BY <1>1, <1>2, <2>1 DEF ResolversInv, R!TypeOK, Bounds, R!Now, R!Version
  <2>4. cached > rpos => cached' > rpos
    BY <1>1, <2>1 DEF R!Found
  <2> QED
    BY <1>1, <1>2, <2>1, <2>2, <2>3, <2>4
    DEF ResolversInv, R!TypeOK, BuildIsFresh, OpenIsFresh, Settled, UpToDate, Pushed
<1>4. CASE R!BuildFails(c)
  <2>1. /\ bpc[c] = "idle" /\ bpc' = [bpc EXCEPT ![c] = "failed"]
        /\ UNCHANGED <<rlog, cached, rfrom, rpos, rwpc, todo, resolvers, bgot, asked, state, overtaken>>
    BY <1>4 DEF R!BuildFails, R!Goto, R!watcher, R!cache
  <2>2. R!TypeOK' /\ Bounds'
    BY <2>1 DEF ResolversInv, R!TypeOK, Bounds, R!Now
  <2> QED
    BY <2>1, <2>2 DEF ResolversInv, R!TypeOK, BuildIsFresh, OpenIsFresh, Settled, UpToDate, Pushed
<1>5. CASE R!BuildPush(c)
  <2>1. /\ bpc[c] = "push" /\ bpc' = [bpc EXCEPT ![c] = "append"]
        /\ state' = [state EXCEPT ![c] = bgot[c]]
        /\ UNCHANGED <<rlog, cached, rfrom, rpos, rwpc, todo, resolvers, bgot, asked, overtaken>>
    BY <1>5 DEF R!BuildPush, R!Goto, R!watcher, R!cache
  <2>2. R!TypeOK' /\ Bounds'
    BY <1>1, <2>1 DEF ResolversInv, R!TypeOK, Bounds, R!Now
  <2> QED
    BY <1>1, <2>1, <2>2 DEF ResolversInv, R!TypeOK, BuildIsFresh, OpenIsFresh, Settled, UpToDate, Pushed
<1>6. CASE R!BuildAppend(c)
  <2>1. /\ bpc[c] = "append" /\ bpc' = [bpc EXCEPT ![c] = "open"] /\ rwpc # "walk"
        /\ resolvers' = resolvers \cup {c}
        /\ UNCHANGED <<rlog, cached, rfrom, rpos, rwpc, todo, bgot, asked, state, overtaken>>
    BY <1>6 DEF R!BuildAppend, R!Goto, R!watcher, R!cache
  <2>2. R!TypeOK' /\ Bounds'
    BY <2>1 DEF ResolversInv, R!TypeOK, Bounds, R!Now
  <2> QED
    BY <2>1, <2>2 DEF ResolversInv, R!TypeOK, BuildIsFresh, OpenIsFresh, Settled, UpToDate, Pushed
<1>7. CASE R!ResolveNow(c)
  <2>1. /\ bpc[c] = "open" /\ cached' = R!Found /\ asked' = [asked EXCEPT ![c] = R!Found]
        /\ UNCHANGED <<rlog, rfrom, rpos, rwpc, todo, resolvers, bpc, bgot, state, overtaken>>
    BY <1>7 DEF R!ResolveNow, R!Discover, R!watcher, R!builds
  <2>2. R!TypeOK'
    BY <1>1, <1>2, <2>1 DEF ResolversInv, R!TypeOK, R!Now
  <2>3. Bounds'
    BY <1>1, <1>2, <2>1 DEF ResolversInv, R!TypeOK, Bounds, R!Now, R!Version
  <2>4. cached > rpos => cached' > rpos
    BY <1>1, <2>1 DEF R!Found
  <2> QED
    BY <1>1, <1>2, <2>1, <2>2, <2>3, <2>4
    DEF ResolversInv, R!TypeOK, BuildIsFresh, OpenIsFresh, Settled, UpToDate, Pushed
<1>8. CASE R!ResolvePush(c)
  <2>1. /\ state' = [state EXCEPT ![c] = asked[c]] /\ asked' = [asked EXCEPT ![c] = 0]
        /\ overtaken' = CASE asked[c] < state[c] -> overtaken \cup {c}
                          [] asked[c] >= rpos     -> overtaken \ {c}
                          [] OTHER               -> overtaken
        /\ UNCHANGED <<rlog, cached, rfrom, rpos, rwpc, todo, resolvers, bpc, bgot>>
    BY <1>8 DEF R!ResolvePush, R!watcher, R!cache, R!builds
  <2>2. R!TypeOK' /\ Bounds'
    BY <1>1, <2>1 DEF ResolversInv, R!TypeOK, Bounds, R!Now, R!Version
  <2>3. bpc[c] \in {"open", "closed"} /\ asked[c] \in Nat /\ state[c] \in Nat
    BY <1>1, <1>8 DEF R!ResolvePush, ResolversInv, Pushed, R!Version
  <2>4. overtaken' \ {c} = overtaken \ {c}
    BY <2>1
  <2>5. BuildIsFresh' /\ Pushed'
    BY <1>1, <2>1, <2>3, <2>4 DEF ResolversInv, BuildIsFresh, Settled, UpToDate, Pushed
  <2>6. c \notin overtaken' => asked[c] >= rpos \/ (c \notin overtaken /\ asked[c] >= state[c])
    BY <1>1, <2>1, <2>3
  <2>7. OpenIsFresh'
    BY <1>1, <2>1, <2>3, <2>4, <2>6 DEF ResolversInv, OpenIsFresh, Settled, UpToDate
  <2> QED BY <2>2, <2>5, <2>7 DEF ResolversInv
<1>9. CASE R!Close(c)
  <2>1. /\ bpc[c] = "open" /\ bpc' = [bpc EXCEPT ![c] = "closed"] /\ rwpc # "walk"
        /\ resolvers' = resolvers \ {c}
        /\ UNCHANGED <<rlog, cached, rfrom, rpos, rwpc, todo, bgot, asked, state, overtaken>>
    BY <1>9 DEF R!Close, R!Goto, R!watcher, R!cache
  <2>2. R!TypeOK' /\ Bounds'
    BY <2>1 DEF ResolversInv, R!TypeOK, Bounds, R!Now
  <2> QED
    BY <2>1, <2>2 DEF ResolversInv, R!TypeOK, BuildIsFresh, OpenIsFresh, Settled, UpToDate, Pushed
<1> QED BY <1>3, <1>4, <1>5, <1>6, <1>7, <1>8, <1>9 DEF R!BuildStep

\* The invariant is inductive.
LEMMA ResolversNext == ResolversInv /\ [ProgramsNext]_programs => ResolversInv'
<1> SUFFICES ASSUME ResolversInv, [ProgramsNext]_programs PROVE ResolversInv'
  OBVIOUS
<1>1. CASE UNCHANGED resolving
  BY <1>1 DEF resolving, ResolversInv, R!TypeOK, Bounds, BuildIsFresh, OpenIsFresh,
              Settled, UpToDate, Pushed, R!Now
<1>2. CASE R!Next
  BY <1>2, ResolversWrite, ResolversWatch, ResolversBuild DEF R!Next
<1> QED BY <1>1, <1>2, OneRuns

LEMMA ResolversHold == ProgramsSpec => []ResolversInv
<1>1. ProgramsInit => ResolversInv
  BY ResolversInit DEF ProgramsInit
<1> QED BY <1>1, ResolversNext, PTL DEF ProgramsSpec
-----------------------------------------------------------------------------
(***************************************************************************)
(* Stub.  While nothing comes late and no half-made list is taken, each    *)
(* list that has been merged is what is registered; and where a dial has   *)
(* ended there is a client, or it has failed.                              *)
(***************************************************************************)
\* An instance has its own names for the sets that Stub inherits.
LEMMA StubSets == C!Options = Options /\ C!Stubs = Stubs
  BY DEF C!Options, Options, C!Stubs, Stubs

Everything == RoundRobin \cup customized

Merging(c) == cpc[c] \in {"global", "merge"}

OneMerges ==
  /\ \A c \in Callers : Merging(c) => localOnce = "running"
  /\ \A c, d \in Callers : Merging(c) /\ Merging(d) => c = d

Calling ==
  \A c \in Callers :
    /\ cpc[c] # "idle" => of[c] \in Stubs
    /\ cpc[c] = "call" => once[of[c]] = "done"

Dialled ==
  C!Alive => \A u \in Stubs : once[u] = "done" => conn[u] # {} \/ u \in refused

GlobalMade ==
  /\ globalOnce = "no" => globalMerged = {}
  /\ globalMerged = {Unset} => globalOnce = "running"
  /\ ~late => /\ globalOnce = "running" => globalMerged \in {{Unset}, RoundRobin}
              /\ globalOnce = "done" => globalMerged = Everything

LocalMade ==
  ~late /\ ~raced =>
    /\ \A c \in Callers : cpc[c] = "merge" => given = Everything
    /\ localOnce = "done" => localMerged = Everything \cup local

InForce ==
  \A u \in Default : conn[u] # {} =>
    /\ localOnce = "done"
    /\ ~late /\ ~raced => conn[u] = Everything \cup local

StubInv ==
  /\ C!TypeOK /\ OneMerges /\ Calling /\ Dialled /\ C!NilClientAfterFailure
  /\ GlobalMade /\ LocalMade /\ InForce

LEMMA StubInit == C!Init => StubInv
<1> SUFFICES ASSUME C!Init PROVE StubInv
  OBVIOUS
<1>1. C!TypeOK
  BY StubSets DEF C!Init, C!TypeOK
<1>2. OneMerges /\ Calling /\ C!NilClientAfterFailure
  BY DEF C!Init, OneMerges, Merging, Calling, C!NilClientAfterFailure
<1>3. Dialled /\ GlobalMade /\ LocalMade /\ InForce
  BY StubSets DEF C!Init, Dialled, GlobalMade, LocalMade, InForce, Stubs
<1> QED BY <1>1, <1>2, <1>3 DEF StubInv

\* The registration of an option.
LEMMA StubRegisters ==
  ASSUME StubInv, C!Alive, NEW o \in Options, C!Append(o) \/ C!Reset(o)
  PROVE  StubInv'
<1> USE StubAssumption, StubSets DEF StubInv, Options, Stubs
<1>1. /\ UNCHANGED <<globalOnce, localOnce, given, raced, once, conn, refused, cpc, of>>
      /\ late' = (late \/ localOnce # "no" \/ (o \in Global /\ globalOnce # "no"))
  BY DEF C!Append, C!Reset, C!Comes, C!stubs, C!callers
<1>2. CASE C!Append(o)
  <2>1. /\ o \in Global \cup Local
        /\ customized' = customized \cup ({o} \cap Global) /\ local' = local \cup ({o} \cap Local)
        /\ registering' = {o} /\ UNCHANGED <<globalMerged, localMerged>>
    BY <1>2 DEF C!Append
  <2>2. C!TypeOK'
    BY <1>1, <2>1 DEF C!TypeOK
  <2>3. (OneMerges /\ Calling /\ Dialled /\ C!NilClientAfterFailure)'
    BY <1>1 DEF OneMerges, Merging, Calling, Dialled, C!NilClientAfterFailure, C!Alive
  <2>4. GlobalMade'
    BY <1>1, <2>1 DEF GlobalMade, Everything
  <2>5. LocalMade' /\ InForce'
    BY <1>1, <2>1 DEF LocalMade, InForce, OneMerges, Merging, Everything
  <2> QED BY <2>2, <2>3, <2>4, <2>5
<1>3. CASE C!Reset(o)
  <2>1. /\ registering' = {} /\ UNCHANGED <<customized, local>>
        /\ globalMerged' = IF o \in Global THEN {} ELSE globalMerged
        /\ localMerged' = IF o \in Local THEN {} ELSE localMerged
    BY <1>3 DEF C!Reset
  <2>2. C!TypeOK'
    BY ZenonT(30), <1>1, <2>1 DEF C!TypeOK
  <2>3. (OneMerges /\ Calling /\ Dialled /\ C!NilClientAfterFailure)'
    BY <1>1 DEF OneMerges, Merging, Calling, Dialled, C!NilClientAfterFailure, C!Alive
  <2>4. GlobalMade'
    BY <1>1, <2>1 DEF GlobalMade, Everything
  <2>5. LocalMade' /\ InForce'
    BY <1>1, <2>1 DEF LocalMade, InForce, OneMerges, Merging, Everything
  <2> QED BY <2>2, <2>3, <2>4, <2>5
<1> QED BY <1>2, <1>3

\* The first dial of another service.
LEMMA StubElsewhere ==
  ASSUME StubInv, C!Elsewhere
  PROVE  StubInv'
<1> USE StubAssumption, StubSets DEF StubInv, Options, Stubs
<1>1. UNCHANGED <<customized, local, localMerged, localOnce, given, raced, registering, late,
                  once, conn, refused, cpc, of>>
  BY DEF C!Elsewhere, C!ElsewhereMakes, C!ElsewhereCopies, C!ElsewhereEnds, C!service, C!stubs,
         C!callers
<1>2. C!TypeOK'
  <2>1. /\ globalMerged' \in SUBSET (Options \cup {Unset}) /\ globalOnce' \in {"no", "running", "done"}
        /\ customized' = customized
    BY <1>1 DEF C!TypeOK, C!Elsewhere, C!ElsewhereMakes, C!ElsewhereCopies, C!ElsewhereEnds
  <2> QED BY ZenonT(30), <1>1, <2>1 DEF C!TypeOK
<1>3. (OneMerges /\ Calling /\ Dialled /\ C!NilClientAfterFailure)'
  BY <1>1 DEF OneMerges, Merging, Calling, Dialled, C!NilClientAfterFailure, C!Alive
<1>4. LocalMade' /\ InForce'
  BY <1>1 DEF LocalMade, InForce, Everything
<1>5. GlobalMade'
  <2>1. CASE C!ElsewhereMakes
    BY <1>1, <2>1 DEF C!ElsewhereMakes, GlobalMade
  <2>2. CASE C!ElsewhereCopies
    BY <1>1, <2>2 DEF C!ElsewhereCopies, GlobalMade
  <2>3. CASE C!ElsewhereEnds
    <3>1. /\ globalOnce = "running" /\ globalMerged # {Unset} /\ globalOnce' = "done"
          /\ globalMerged' = globalMerged \cup customized
      BY <2>3 DEF C!ElsewhereEnds
    <3>2. Unset \notin customized
      BY DEF C!TypeOK
    <3>3. globalMerged' # {Unset}
      BY <3>1, <3>2
    <3> QED BY <1>1, <3>1, <3>3 DEF GlobalMade, Everything
  <2> QED BY <2>1, <2>2, <2>3 DEF C!Elsewhere
<1> QED BY <1>2, <1>3, <1>4, <1>5

\* A method's way to its dial.
LEMMA StubMerges ==
  ASSUME StubInv, C!Alive, NEW c \in Callers,
         C!BeginMerge(c) \/ C!MergeGlobal(c) \/ C!Merge(c)
  PROVE  StubInv'
<1> USE StubAssumption, StubSets DEF StubInv, Options, Stubs, C!Goto
<1>0. /\ UNCHANGED <<customized, local, registering, late, once, conn, refused, of>>
      /\ cpc \in [Callers -> {"idle", "dial", "global", "merge", "call", "panicked", "dial panicked"}]
  BY DEF C!BeginMerge, C!MergeGlobal, C!Merge, C!TypeOK, C!global, C!stubs
<1>1. CASE C!BeginMerge(c)
  <2>1. /\ cpc[c] = "dial" /\ cpc' = [cpc EXCEPT ![c] = "global"]
        /\ localOnce = "no" /\ localOnce' = "running"
        /\ UNCHANGED <<globalMerged, globalOnce, localMerged, given, raced>>
    BY <1>1 DEF C!BeginMerge, C!global
  <2>2. OneMerges'
    BY <1>0, <2>1 DEF OneMerges, Merging
  <2>3. C!TypeOK'
    BY <1>0, <2>1, <2>2 DEF C!TypeOK, OneMerges, Merging
  <2>4. (Calling /\ Dialled /\ C!NilClientAfterFailure)'
    BY <1>0, <2>1 DEF Calling, Dialled, C!NilClientAfterFailure, C!Alive
  <2>5. (GlobalMade /\ LocalMade /\ InForce)'
    BY <1>0, <2>1 DEF GlobalMade, LocalMade, InForce, Everything
  <2> QED BY <2>2, <2>3, <2>4, <2>5
<1>2. CASE C!MergeGlobal(c)
  <2>1. /\ cpc[c] = "global" /\ cpc' = [cpc EXCEPT ![c] = "merge"]
        /\ globalMerged = {} => globalOnce # "running"
        /\ raced' = (globalOnce = "running") /\ given' = globalMerged'
        /\ IF globalMerged = {} /\ globalOnce = "no"
           THEN globalMerged' = Everything /\ globalOnce' = "done"
           ELSE UNCHANGED <<globalMerged, globalOnce>>
        /\ UNCHANGED <<localMerged, localOnce>>
    BY <1>2 DEF C!MergeGlobal, Everything
  <2>2. OneMerges'
    BY <1>0, <2>1 DEF OneMerges, Merging
  <2>3. C!TypeOK'
    <3>1. Everything \in SUBSET (Options \cup {Unset})
      BY DEF C!TypeOK, Everything
    <3>2. /\ globalMerged' \in SUBSET (Options \cup {Unset})
          /\ globalOnce' \in {"no", "running", "done"} /\ raced' \in BOOLEAN
      BY <2>1, <3>1 DEF C!TypeOK
    <3>3. /\ cpc' \in [Callers -> {"idle", "dial", "global", "merge", "call", "panicked", "dial panicked"}]
          /\ \A d, e \in Callers :
               cpc'[d] \in {"global", "merge"} /\ cpc'[e] \in {"global", "merge"} => d = e
      BY <1>0, <2>1, <2>2 DEF OneMerges, Merging
    <3>4. {globalMerged', given', localMerged'} \subseteq SUBSET (Options \cup {Unset})
      BY ZenonT(30), <2>1, <3>2 DEF C!TypeOK
    <3>5. {late', raced'} \subseteq BOOLEAN
      BY <1>0, <3>2 DEF C!TypeOK
    <3>6. {globalOnce', localOnce'} \subseteq {"no", "running", "done"}
      BY <2>1, <3>2 DEF C!TypeOK
    <3> QED BY <1>0, <3>3, <3>4, <3>5, <3>6 DEF C!TypeOK
  <2>4. (Calling /\ Dialled /\ C!NilClientAfterFailure)'
    BY <1>0, <2>1 DEF Calling, Dialled, C!NilClientAfterFailure, C!Alive
  <2>5. GlobalMade'
    BY <1>0, <2>1 DEF GlobalMade, Everything, C!TypeOK
  <2>6. ~late /\ ~raced' => given' = Everything
    BY <2>1 DEF GlobalMade, C!TypeOK
  <2>7. localOnce = "running"
    BY <2>1 DEF OneMerges, Merging
  <2>8. (LocalMade /\ InForce)'
    BY <1>0, <2>1, <2>6, <2>7 DEF LocalMade, InForce, Everything
  <2> QED BY <2>2, <2>3, <2>4, <2>5, <2>8
<1>3. CASE C!Merge(c)
  <2>1. /\ cpc[c] = "merge" /\ cpc' = [cpc EXCEPT ![c] = "dial"]
        /\ localMerged' = given \cup local /\ localOnce' = "done"
        /\ UNCHANGED <<globalMerged, globalOnce, given, raced>>
    BY <1>3 DEF C!Merge, C!global
  <2>2. OneMerges' /\ \A d \in Callers : cpc'[d] # "merge"
    BY <1>0, <2>1 DEF OneMerges, Merging
  <2>3. C!TypeOK'
    <3>1. localMerged' \in SUBSET (Options \cup {Unset})
      BY <2>1 DEF C!TypeOK
    <3>2. /\ cpc' \in [Callers -> {"idle", "dial", "global", "merge", "call", "panicked", "dial panicked"}]
          /\ \A d, e \in Callers :
               cpc'[d] \in {"global", "merge"} /\ cpc'[e] \in {"global", "merge"} => d = e
      BY <1>0, <2>1, <2>2 DEF OneMerges, Merging
    <3>0. globalMerged' \in SUBSET (Options \cup {Unset}) /\ given' \in SUBSET (Options \cup {Unset})
      BY <2>1 DEF C!TypeOK
    <3>3. {globalMerged', given', localMerged'} \subseteq SUBSET (Options \cup {Unset})
      BY <3>0, <3>1
    <3>4. {late', raced'} \subseteq BOOLEAN
      BY <1>0, <2>1 DEF C!TypeOK
    <3>5. {globalOnce', localOnce'} \subseteq {"no", "running", "done"}
      BY <2>1 DEF C!TypeOK
    <3> QED BY <1>0, <3>2, <3>3, <3>4, <3>5 DEF C!TypeOK
  <2>4. (Calling /\ Dialled /\ C!NilClientAfterFailure)'
    BY <1>0, <2>1 DEF Calling, Dialled, C!NilClientAfterFailure, C!Alive
  <2>5. GlobalMade'
    BY <1>0, <2>1 DEF GlobalMade, Everything
  <2>6. localOnce = "running"
    BY <2>1 DEF OneMerges, Merging
  <2>7. (LocalMade /\ InForce)'
    BY <1>0, <2>1, <2>2, <2>6 DEF LocalMade, InForce, Everything
  <2> QED BY <2>2, <2>3, <2>4, <2>5, <2>7
<1> QED BY <1>1, <1>2, <1>3

\* The rest of a method: prepareConn's Once, the dial, and the call.
LEMMA StubCalls ==
  ASSUME StubInv, C!Alive, NEW c \in Callers,
         \/ \E u \in Stubs : C!Prepare(c, u)
         \/ C!NewClient(c) \/ C!NewClientPanics(c) \/ C!NewClientFails(c) \/ C!Call(c)
  PROVE  StubInv'
<1> USE StubAssumption, StubSets DEF StubInv, Options, Stubs, C!Goto, C!Ends
<1>0. /\ UNCHANGED <<customized, globalMerged, globalOnce, local, localMerged, localOnce, given,
                     raced, registering, late>>
      /\ cpc \in [Callers -> {"idle", "dial", "global", "merge", "call", "panicked", "dial panicked"}]
      /\ of \in [Callers -> Stubs \cup {NoStub}] /\ once \in [Stubs -> {"no", "running", "done"}]
      /\ conn \in [Stubs -> SUBSET (Options \cup Own)]
  BY DEF C!Prepare, C!NewClient, C!NewClientPanics, C!NewClientFails, C!Call, C!TypeOK,
         C!options, C!global, C!service
<1>1. /\ cpc[c] \notin {"global", "merge"} /\ cpc'[c] \notin {"global", "merge"}
      /\ \A d \in Callers : d # c => cpc'[d] = cpc[d] /\ of'[d] = of[d]
  <2>1. ASSUME NEW u \in Stubs, C!Prepare(c, u)
        PROVE  /\ cpc[c] \notin {"global", "merge"} /\ cpc'[c] \notin {"global", "merge"}
               /\ \A d \in Callers : d # c => cpc'[d] = cpc[d] /\ of'[d] = of[d]
    BY <1>0, <2>1 DEF C!Prepare
  <2>2. CASE C!NewClient(c) \/ C!NewClientPanics(c)
    BY <1>0, <2>2 DEF C!NewClient, C!NewClientPanics, C!Dialled
  <2>3. CASE C!NewClientFails(c)
    BY <1>0, <2>3 DEF C!NewClientFails, C!Dialled
  <2>4. CASE C!Call(c)
    BY <1>0, <2>4 DEF C!Call
  <2> QED BY <2>1, <2>2, <2>3, <2>4
<1>2. (OneMerges /\ GlobalMade /\ LocalMade)'
  BY <1>0, <1>1 DEF OneMerges, Merging, GlobalMade, LocalMade, Everything
<1>3. ASSUME NEW u \in Stubs, C!Prepare(c, u) PROVE StubInv'
  <2>1. /\ cpc[c] = "idle" /\ once[u] # "running" /\ of' = [of EXCEPT ![c] = u]
        /\ \/ once[u] = "no" /\ once' = [once EXCEPT ![u] = "running"] /\ cpc' = [cpc EXCEPT ![c] = "dial"]
           \/ once[u] = "done" /\ once' = once /\ cpc' = [cpc EXCEPT ![c] = "call"]
        /\ UNCHANGED <<conn, refused>>
    BY <1>0, <1>3 DEF C!Prepare
  <2>0. \A d \in Callers : cpc'[d] # "idle" => of'[d] \in Stubs
    BY <1>0, <1>1, <2>1 DEF Calling
  <2>6. \A v \in Stubs : once[v] = "done" => once'[v] = "done"
    BY <1>0, <2>1
  <2>7. cpc'[c] = "call" => once'[of'[c]] = "done"
    BY <1>0, <2>1
  <2>2. C!TypeOK'
    <3>1. once' \in [Stubs -> {"no", "running", "done"}] /\ of' \in [Callers -> Stubs \cup {NoStub}]
      BY <1>0, <2>1
    <3>2. /\ cpc' \in [Callers -> {"idle", "dial", "global", "merge", "call", "panicked", "dial panicked"}]
          /\ \A d, e \in Callers :
               cpc'[d] \in {"global", "merge"} /\ cpc'[e] \in {"global", "merge"} => d = e
      BY <1>0, <1>2, <2>1 DEF OneMerges, Merging
    <3> QED BY <1>0, <2>1, <3>1, <3>2 DEF C!TypeOK
  <2>3. Calling'
    BY <1>1, <2>0, <2>6, <2>7 DEF Calling
  <2>4. Dialled' /\ C!NilClientAfterFailure'
    BY <1>0, <1>1, <2>1 DEF Dialled, C!NilClientAfterFailure, C!Alive
  <2>5. InForce'
    BY <1>0, <2>1 DEF InForce, Everything
  <2> QED BY <1>2, <2>2, <2>3, <2>4, <2>5
<1>4. CASE C!NewClient(c)
  <2> DEFINE u == of[c]
  <2>1. /\ cpc[c] = "dial" /\ cpc' = [cpc EXCEPT ![c] = "call"]
        /\ once' = [once EXCEPT ![u] = "done"]
        /\ conn' = [conn EXCEPT ![u] = IF u \in Own THEN {u} ELSE localMerged]
        /\ u \in Default => /\ localOnce = "done" /\ RoundRobin \subseteq localMerged
                            /\ Unset \notin localMerged
        /\ UNCHANGED <<refused, of>>
    BY <1>4 DEF C!NewClient, C!Dialled
  <2>2. u \in Stubs
    BY <2>1 DEF Calling
  <2>3. conn'[u] # {} /\ conn'[u] \subseteq Options \cup Own
    <3>1. conn'[u] = IF u \in Own THEN {u} ELSE localMerged
      BY <1>0, <2>1, <2>2
    <3>2. localMerged \subseteq Options \cup {Unset}
      BY DEF C!TypeOK
    <3>3. CASE u \in Own
      BY <3>1, <3>3
    <3>4. CASE u \in Default
      BY <2>1, <3>1, <3>2, <3>4
    <3> QED BY <2>2, <3>3, <3>4
  <2>4. C!TypeOK'
    BY <1>0, <1>2, <2>1, <2>2, <2>3 DEF C!TypeOK, OneMerges, Merging
  <2>5. Calling'
    BY <1>0, <1>1, <2>1, <2>2 DEF Calling
  <2>6. Dialled' /\ C!NilClientAfterFailure'
    BY <1>0, <1>1, <2>1, <2>2, <2>3 DEF Dialled, C!NilClientAfterFailure, C!Alive
  <2>7. InForce'
    BY <1>0, <2>1, <2>2 DEF InForce, LocalMade, Everything
  <2> QED BY <1>2, <2>4, <2>5, <2>6, <2>7
<1>5. CASE C!NewClientPanics(c)
  <2>1. /\ cpc[c] = "dial" /\ cpc' = [cpc EXCEPT ![c] = "dial panicked"]
        /\ once' = [once EXCEPT ![of[c]] = "done"]
        /\ UNCHANGED <<conn, refused, of>>
    BY <1>5 DEF C!NewClientPanics, C!Dialled
  <2>2. of[c] \in Stubs
    BY <2>1 DEF Calling
  <2>3. C!TypeOK'
    BY <1>0, <1>2, <2>1, <2>2 DEF C!TypeOK, OneMerges, Merging
  <2>4. Calling'
    BY <1>0, <1>1, <2>1, <2>2 DEF Calling
  <2>5. ~C!Alive' /\ C!NilClientAfterFailure'
    BY <1>0, <1>1, <2>1 DEF C!NilClientAfterFailure, C!Alive
  <2>6. InForce'
    BY <1>0, <2>1 DEF InForce, Everything
  <2> QED BY <1>2, <2>3, <2>4, <2>5, <2>6 DEF Dialled
<1>6. CASE C!NewClientFails(c)
  <2>1. /\ cpc[c] = "dial" /\ cpc' = [cpc EXCEPT ![c] = "idle"]
        /\ of' = [of EXCEPT ![c] = NoStub]
        /\ once' = [once EXCEPT ![of[c]] = "done"]
        /\ refused' = refused \cup {of[c]} /\ UNCHANGED conn
    BY <1>6 DEF C!NewClientFails, C!Dialled
  <2>2. of[c] \in Stubs
    BY <2>1 DEF Calling
  <2>3. C!TypeOK'
    BY <1>0, <1>2, <2>1, <2>2 DEF C!TypeOK, OneMerges, Merging
  <2>4. Calling'
    BY <1>0, <1>1, <2>1, <2>2 DEF Calling
  <2>5. Dialled' /\ C!NilClientAfterFailure'
    BY <1>0, <1>1, <2>1, <2>2 DEF Dialled, C!NilClientAfterFailure, C!Alive
  <2>6. InForce'
    BY <1>0, <2>1 DEF InForce, Everything
  <2> QED BY <1>2, <2>3, <2>4, <2>5, <2>6
<1>7. CASE C!Call(c)
  <2>1. /\ cpc[c] = "call" /\ UNCHANGED <<once, conn, refused>>
        /\ \/ /\ conn[of[c]] = {} /\ cpc' = [cpc EXCEPT ![c] = "panicked"] /\ UNCHANGED of
           \/ cpc' = [cpc EXCEPT ![c] = "idle"] /\ of' = [of EXCEPT ![c] = NoStub]
    BY <1>7 DEF C!Call, C!stubs
  <2>2. C!TypeOK'
    BY ZenonT(30), <1>0, <1>2, <2>1 DEF C!TypeOK, OneMerges, Merging
  <2>3. Calling'
    BY <1>0, <1>1, <2>1 DEF Calling
  <2>4. conn[of[c]] = {} => of[c] \in refused
    BY <2>1 DEF Calling, Dialled
  <2>5. Dialled' /\ C!NilClientAfterFailure'
    BY <1>0, <1>1, <2>1, <2>4 DEF Dialled, C!NilClientAfterFailure, C!Alive
  <2>6. InForce'
    BY <1>0, <2>1 DEF InForce, Everything
  <2> QED BY <1>2, <2>2, <2>3, <2>5, <2>6
<1> QED BY <1>3, <1>4, <1>5, <1>6, <1>7

LEMMA StubNext == StubInv /\ [ProgramsNext]_programs => StubInv'
<1> SUFFICES ASSUME StubInv, [ProgramsNext]_programs PROVE StubInv'
  OBVIOUS
<1>1. CASE UNCHANGED stub
  <2>1. C!TypeOK'
    BY <1>1 DEF stub, StubInv, C!TypeOK
  <2>2. (OneMerges /\ Calling /\ Dialled /\ C!NilClientAfterFailure)'
    BY <1>1 DEF stub, StubInv, OneMerges, Merging, Calling, Dialled, C!Alive,
                C!NilClientAfterFailure
  <2>3. (GlobalMade /\ LocalMade /\ InForce)'
    BY <1>1 DEF stub, StubInv, GlobalMade, LocalMade, InForce, Everything
  <2> QED BY <2>1, <2>2, <2>3 DEF StubInv
<1>2. CASE C!Next
  <2>1. C!Alive
    BY <1>2 DEF C!Next
  <2>2. CASE \E o \in Options : C!Append(o) \/ C!Reset(o)
    BY <2>1, <2>2, StubRegisters
  <2>3. CASE C!Elsewhere
    BY <2>3, StubElsewhere
  <2>4. ASSUME NEW c \in Callers,
               \/ \E u \in Stubs : C!Prepare(c, u)
               \/ C!BeginMerge(c) \/ C!MergeGlobal(c) \/ C!Merge(c)
               \/ C!NewClient(c) \/ C!NewClientPanics(c) \/ C!NewClientFails(c) \/ C!Call(c)
        PROVE  StubInv'
    BY <2>1, <2>4, StubMerges, StubCalls
  <2> QED BY <1>2, <2>2, <2>3, <2>4, StubSets DEF C!Next
<1> QED BY <1>1, <1>2, OneRuns

LEMMA StubHolds == ProgramsSpec => []StubInv
<1>1. ProgramsInit => StubInv
  BY StubInit DEF ProgramsInit
<1> QED BY <1>1, StubNext, PTL DEF ProgramsSpec
-----------------------------------------------------------------------------
(***************************************************************************)
(* Route.  The nodes from the start on that have been tried are not        *)
(* available, and the counter has not run over, or has at a multiple of    *)
(* the number of nodes, where it is still right, or one step ago, where    *)
(* the index is negative.  First, the remainder by any number of nodes.    *)
(***************************************************************************)
\* a % L is the r of a = L * q + r.
LEMMA ModRange ==
  ASSUME NEW L \in Nat \ {0}, NEW a \in Int
  PROVE  a % L \in 0 .. L - 1 
  OBVIOUS
LEMMA ModIs ==
  ASSUME NEW L \in Nat \ {0}, NEW q \in Int, NEW r \in 0 .. L - 1
  PROVE  (L * q + r) % L = r
  OBVIOUS
LEMMA Division ==
  ASSUME NEW L \in Nat \ {0}, NEW a \in Int
  PROVE  \E q \in Int : a = L * q + (a % L)
<1>1. a \div L \in Int
  OBVIOUS
<1>2. L \in Int /\ L > 0
  OBVIOUS
<1>3. a = L * (a \div L) + (a % L)
  BY <1>2, Z3
<1> QED BY <1>1, <1>3
LEMMA ModIsLess ==
  ASSUME NEW L \in Nat \ {0}, NEW q \in Int, NEW r \in 0 .. L - 1, NEW x \in Int, x = r - L * q
  PROVE  x % L = r
<1>1. L * (-q) = -(L * q) /\ L * q \in Int /\ -q \in Int
  OBVIOUS
<1>2. x = L * (-q) + r
  <2> DEFINE y == L * q
  <2>1. x = -y + r
    <3>1. y \in Int /\ x = r - y
      BY <1>1
    <3> HIDE DEF y
    <3> QED BY <3>1
  <2> QED BY <2>1, <1>1
<1> QED BY <1>1, <1>2, ModIs
\* Where the node at a distance from the start is, and back.
LEMMA Around ==
  ASSUME NEW L \in Nat \ {0}, NEW a \in Int, NEW b \in 0 .. L - 1
  PROVE  (a + ((b - a) % L)) % L = b
<1> DEFINE m == (b - a) % L
<1>0. b - a \in Int
  OBVIOUS
<1>1. PICK q \in Int : b - a = L * q + m
  BY <1>0, Division, Zenon
<1> DEFINE y == L * q
<1>2. m \in Int /\ y \in Int
  BY ModRange
<1>3. a + m \in Int /\ a + m = b - y
  <2>1. b - a = y + m
    BY <1>1
  <2> HIDE DEF m, y
  <2> QED BY <1>2, <2>1
<1> QED BY <1>3, ModIsLess
LEMMA Offset ==
  ASSUME NEW L \in Nat \ {0}, NEW a \in Int, NEW d \in 0 .. L - 1
  PROVE  (((a + d) % L) - a) % L = d
<1> DEFINE m == (a + d) % L
<1>0. a + d \in Int
  OBVIOUS
<1>1. PICK q \in Int : a + d = L * q + m
  BY <1>0, Division, Zenon
<1> DEFINE y == L * q
<1>2. m \in Int /\ y \in Int
  BY ModRange
<1>3. m - a \in Int /\ m - a = d - y
  <2>1. a + d = y + m
    BY <1>1
  <2> HIDE DEF m, y
  <2> QED BY <1>2, <2>1
<1> QED BY <1>3, ModIsLess
\* Before a multiple of L.
LEMMA ModBefore ==
  ASSUME NEW L \in Nat \ {0, 1}, NEW a \in Nat
  PROVE  (a + 1) % L = 0 => a % L = L - 1
<1>1. a + 1 \in Int /\ L \in Nat \ {0}
  OBVIOUS
<1>2. PICK q \in Int : a + 1 = L * q + ((a + 1) % L)
  BY <1>1, Division, Zenon
<1>3. SUFFICES ASSUME (a + 1) % L = 0 PROVE a % L = L - 1
  OBVIOUS
<1>4. a = L * (q - 1) + (L - 1)
  <2>1. L * (q - 1) = L * q - L /\ L * q \in Int
    OBVIOUS
  <2>2. a + 1 = L * q
    BY <1>2, <1>3, <2>1
  <2> QED BY <2>1, <2>2
<1> QED BY <1>4, ModIs

LEMMA NodeList ==
  ASSUME NEW ns \in NodeLists
  PROVE  /\ Len(ns) \in Nat
         /\ \A k \in 1 .. Len(ns) : ns[k] \in BOOLEAN
         /\ ns # <<>> => Len(ns) \in Nat \ {0}
  BY RouteAssumption DEF NodeLists, BoundedSeq, SeqOf

LEMMA RouteSets == N!NodeLists = NodeLists
  BY DEF N!NodeLists, NodeLists, N!BoundedSeq, BoundedSeq, N!SeqOf, SeqOf

Turned(j) == (origin + j) % Len(nodes)

Tried == \A j \in 0 .. i - 1 : ~nodes[Turned(j) + 1]

Counted ==
  \/ randN = origin + i
  \/ randN = -MaxInt - 1 /\ origin + i = MaxInt + 1
  \/ randN = -MaxInt /\ origin + i = MaxInt + 2 /\ (MaxInt + 1) % Len(nodes) = 0

RouteInv ==
  /\ N!TypeOK /\ N!RouteFinds
  /\ routed = "no" => nodes = <<>> /\ i = 0
  /\ routed = "trying" => nodes # <<>> /\ Tried /\ Counted

LEMMA RouteInit == N!Init => RouteInv
<1> SUFFICES ASSUME N!Init PROVE RouteInv
  OBVIOUS
<1>1. nodes \in NodeLists
  BY RouteAssumption DEF N!Init, NodeLists, BoundedSeq, SeqOf
<1> QED BY <1>1, RouteAssumption, RouteSets DEF N!Init, RouteInv, N!TypeOK, N!RouteFinds

\* The nodes tried are those at less than i from the start.
LEMMA Untried ==
  ASSUME N!TypeOK, nodes # <<>>, Tried, NEW k \in 0 .. Len(nodes) - 1, nodes[k + 1]
  PROVE  N!Distance(k) \in i .. Len(nodes) - 1
<1> DEFINE L == Len(nodes)
<1> DEFINE d == (k - origin) % L
<1>1. L \in Nat \ {0} /\ origin \in Int /\ k - origin \in Int /\ i \in Nat
  BY NodeList, RouteSets, RouteAssumption DEF N!TypeOK
<1>2. d \in 0 .. L - 1
  BY <1>1, ModRange
<1>3. Turned(d) = k
  <2>1. (origin + ((k - origin) % L)) % L = k
    BY <1>1, Around
  <2> QED BY <2>1 DEF Turned
<1>4. ~(d \in 0 .. i - 1)
  BY <1>3 DEF Tried
<1> QED BY <1>1, <1>2, <1>4 DEF N!Distance

\* One round of the loop.
LEMMA RouteTries ==
  ASSUME RouteInv, N!Try
  PROVE  RouteInv'
<1> DEFINE L == Len(nodes)
<1> DEFINE x == Turned(i)
<1>1. /\ L \in Nat \ {0} /\ origin \in 0 .. MaxInt /\ i \in 0 .. L - 1 /\ MaxInt \in Nat
      /\ randN \in -MaxInt - 1 .. MaxInt /\ routed = "trying" /\ Tried /\ Counted
      /\ \A k \in 1 .. L : nodes[k] \in BOOLEAN
  BY NodeList, RouteSets, RouteAssumption DEF RouteInv, N!TypeOK, N!Try
<1>2. x \in 0 .. L - 1
  <2>1. origin + i \in Int
    BY <1>1
  <2> QED BY <1>1, <2>1, ModRange DEF Turned
<1>3. \/ N!Index < 0 /\ origin + L > MaxInt + 1
      \/ /\ N!Index = x
         /\ \/ randN = origin + i
            \/ randN = -MaxInt - 1 /\ origin + i = MaxInt + 1 /\ (MaxInt + 1) % L = 0
  <2>1. CASE randN = origin + i
    <3>1. N!Index = x
      BY <1>1, <2>1 DEF N!Index, N!Remainder, Turned
    <3> QED BY <2>1, <3>1
  <2>2. CASE randN = -MaxInt - 1 /\ origin + i = MaxInt + 1
    <3>1. -randN = MaxInt + 1 /\ ~(randN >= 0) /\ origin + L > MaxInt + 1
      BY <1>1, <2>2
    <3>2. N!Index = -((MaxInt + 1) % L)
      BY <3>1 DEF N!Index, N!Remainder
    <3>3. (MaxInt + 1) % L \in 0 .. L - 1
      <4>1. MaxInt + 1 \in Int
        BY <1>1
      <4> QED BY <1>1, <4>1, ModRange
    <3>4. x = (MaxInt + 1) % L
      BY <2>2 DEF Turned
    <3> QED BY <2>2, <3>1, <3>2, <3>3, <3>4
  <2>3. CASE randN = -MaxInt /\ origin + i = MaxInt + 2 /\ (MaxInt + 1) % L = 0
    <3>1. L \in Nat \ {0, 1} /\ origin + L > MaxInt + 1
      BY <1>1, <2>3
    <3>2. MaxInt % L = L - 1
      BY <1>1, <2>3, <3>1, ModBefore
    <3>3. MaxInt > 0
      <4>1. 0 % L = 0
        BY <1>1
      <4> QED BY <1>1, <3>1, <3>2, <4>1
    <3>4. -randN = MaxInt /\ ~(randN >= 0)
      BY <1>1, <2>3, <3>3
    <3>5. N!Index = -(MaxInt % L)
      BY <3>4 DEF N!Index, N!Remainder
    <3> QED BY <1>1, <3>1, <3>2, <3>5
  <2> QED BY <1>1, <2>1, <2>2, <2>3 DEF Counted
<1>4. CASE N!Index < 0
  <2>1. routed' = "panicked" /\ UNCHANGED <<nodes, randN, origin, i>> /\ origin + L > MaxInt + 1
    BY <1>2, <1>3, <1>4 DEF N!Try
  <2>2. N!TypeOK'
    BY <2>1 DEF RouteInv, N!TypeOK
  <2> QED BY <2>1, <2>2 DEF RouteInv, N!RouteFinds
<1>5. CASE N!Index = x /\ nodes[x + 1]
  <2>1. routed' = "node" /\ UNCHANGED <<nodes, randN, origin, i>>
    BY <1>2, <1>5 DEF N!Try
  <2>2. N!TypeOK'
    BY <2>1 DEF RouteInv, N!TypeOK
  <2>3. N!Index' = x
    BY <1>5, <2>1 DEF N!Index, N!Remainder
  <2>4. N!Distance(x) = i
    <3>1. (((origin + i) % L) - origin) % L = i
      <4>1. L \in Nat \ {0} /\ origin \in Int /\ i \in 0 .. L - 1
        BY <1>1
      <4> HIDE DEF L
      <4> QED BY <4>1, Offset, Zenon
    <3> QED BY <3>1 DEF N!Distance, Turned
  <2>5. \A k \in 0 .. L - 1 : nodes[k + 1] => N!Distance(x) <= N!Distance(k)
    BY <1>1, <2>4, Untried DEF RouteInv
  <2>6. \A k \in 0 .. L - 1 : N!Distance(k)' = N!Distance(k)
    BY <2>1 DEF N!Distance
  <2>7. N!RouteFinds'
    BY <1>2, <1>5, <2>1, <2>3, <2>5, <2>6 DEF N!RouteFinds
  <2> QED BY <2>1, <2>2, <2>7 DEF RouteInv
<1>6. CASE N!Index = x /\ ~nodes[x + 1]
  <2>1. /\ randN' = N!Successor(randN) /\ i' = i + 1
        /\ routed' = "trying" /\ UNCHANGED <<nodes, origin>>
    BY <1>1, <1>2, <1>6 DEF N!Try
  <2>2. N!TypeOK'
    BY <1>1, <2>1 DEF RouteInv, N!TypeOK, N!Successor
  <2>3. Tried'
    <3> SUFFICES ASSUME NEW j \in 0 .. i PROVE ~nodes[Turned(j) + 1]
      <4>1. 0 .. i' - 1 = 0 .. i
        BY <1>1, <2>1
      <4> QED BY <2>1, <4>1 DEF Tried, Turned
    <3>1. j \in 0 .. i - 1 \/ j = i
      BY <1>1
    <3> QED BY <1>1, <1>6, <3>1 DEF Tried
  <2>4. Counted'
    BY <1>1, <1>2, <1>3, <1>6, <2>1 DEF Counted, N!Successor
  <2>5. N!RouteFinds' /\ nodes' # <<>>
    BY <1>1, <2>1 DEF RouteInv, N!RouteFinds
  <2> QED BY <2>1, <2>2, <2>3, <2>4, <2>5 DEF RouteInv
<1> QED BY <1>1, <1>2, <1>3, <1>4, <1>5, <1>6

LEMMA RouteNext == RouteInv /\ [ProgramsNext]_programs => RouteInv'
<1> SUFFICES ASSUME RouteInv, [ProgramsNext]_programs PROVE RouteInv'
  OBVIOUS
<1>1. CASE UNCHANGED routing
  BY <1>1 DEF routing, RouteInv, N!TypeOK, N!RouteFinds, N!Index, N!Remainder, N!Distance, Tried,
              Turned, Counted
<1>2. CASE N!DiscoverFails
  <2>1. /\ nodes = <<>> /\ nodes' = <<>> /\ routed' = "none"
        /\ UNCHANGED <<randN, origin, i>>
    BY <1>2 DEF N!DiscoverFails, RouteInv
  <2>2. N!TypeOK'
    BY <2>1 DEF RouteInv, N!TypeOK
  <2> QED BY <2>1, <2>2 DEF RouteInv, N!RouteFinds
<1>3. ASSUME NEW ns \in NodeLists, NEW r \in 0 .. MaxInt, N!Discover(ns, r)
      PROVE  RouteInv'
  <2>1. /\ nodes' = ns /\ ns # <<>> /\ randN' = r /\ origin' = r /\ routed' = "trying"
        /\ i = 0 /\ i' = 0
    BY <1>3 DEF N!Discover, RouteInv
  <2>2. N!TypeOK'
    BY <2>1, RouteAssumption, RouteSets, NodeList DEF N!TypeOK
  <2>3. (Tried /\ Counted)'
    BY <2>1 DEF Tried, Counted
  <2> QED BY <2>1, <2>2, <2>3 DEF RouteInv, N!RouteFinds
<1>4. CASE N!Try
  BY <1>4, RouteTries
<1>5. CASE N!Exhausted
  <2>1. /\ routed = "trying" /\ routed' = "none" /\ i = Len(nodes)
        /\ UNCHANGED <<nodes, randN, origin, i>>
    BY <1>5 DEF N!Exhausted
  <2>2. N!TypeOK'
    BY <2>1 DEF RouteInv, N!TypeOK
  <2>3. \A k \in 0 .. Len(nodes) - 1 : ~nodes[k + 1]
    <3> SUFFICES ASSUME NEW k \in 0 .. Len(nodes) - 1, nodes[k + 1]
                 PROVE  FALSE
      OBVIOUS
    <3>1. N!Distance(k) \in i .. Len(nodes) - 1
      BY <2>1, Untried DEF RouteInv
    <3>2. Len(nodes) \in Nat
      BY NodeList, RouteSets DEF RouteInv, N!TypeOK
    <3> QED BY <2>1, <3>1, <3>2
  <2> QED BY <2>1, <2>2, <2>3 DEF RouteInv, N!RouteFinds
<1> QED BY <1>1, <1>2, <1>3, <1>4, <1>5, OneRuns, RouteSets DEF N!Next

LEMMA RouteHolds == ProgramsSpec => []RouteInv
<1>1. ProgramsInit => RouteInv
  BY RouteInit DEF ProgramsInit
<1> QED BY <1>1, RouteNext, PTL DEF ProgramsSpec
-----------------------------------------------------------------------------
(***************************************************************************)
(* What follows.                                                           *)
(***************************************************************************)
\* InitMeta: who has gone on has a loaded configuration, unless one failed.
THEOREM Loaded == ProgramsSpec => []LoadedUnlessFailed
  BY StartupHolds, PTL DEF StartupInv

\* GetOrMakeDiscovery: no two have different discoveries.
THEOREM SameDiscovery == ProgramsSpec => []OneDiscovery
  BY StartupHolds, PTL DEF StartupInv

\* NewBuilder: the registered builder is told, unless builders overlapped.
THEOREM Told == ProgramsSpec => []RegisteredIsTold
  BY StartupHolds, PTL DEF StartupInv

\* Proxy: the file is what the newest change makes it, but for the marked cases.
THEOREM Follows == ProgramsSpec => []FilesFollow
<1>1. ProxyInv => FilesFollow
  BY DEF ProxyInv, FileIsLast, FilesFollow, P!FilesFollow, LastHandled
<1> QED BY <1>1, ProxyHolds, PTL

\* Stub: what is registered in time is in force wherever there is a client.
THEOREM InForceAlways == ProgramsSpec => []OptionsInForce
<1>1. StubInv => OptionsInForce
  BY DEF StubInv, InForce, Everything, OptionsInForce, C!OptionsInForce
<1> QED BY <1>1, StubHolds, PTL

\* Stub: no call finds a nil client unless the dial of its stub has failed.
THEOREM NilClient == ProgramsSpec => []NilClientAfterFailure
<1>1. StubInv => NilClientAfterFailure
  BY DEF StubInv, NilClientAfterFailure
<1> QED BY <1>1, StubHolds, PTL

\* Resolvers: an open connection has the newest addresses once the watcher is
\* through with what the stream has brought.
THEOREM Newest == ProgramsSpec => []NewestIsShown
<1>1. ResolversInv => NewestIsShown
  <2> SUFFICES ASSUME ResolversInv, NEW c \in ClientConns \ overtaken,
                      R!Streamed, bpc[c] = "open", rwpc = "wait", rpos = R!Now
               PROVE  state[c] = R!Now
    BY DEF NewestIsShown, R!NewestIsShown
  <2>1. todo = {} /\ cached \in 0 .. R!Now /\ R!Now \in Nat /\ state[c] \in Nat
    BY MaxWritesAssumption DEF ResolversInv, R!TypeOK, R!Version
  <2>2. Settled
    BY <2>1 DEF R!Streamed, Settled, ResolversInv, R!TypeOK
  <2> QED BY <2>1, <2>2 DEF ResolversInv, Bounds, OpenIsFresh, UpToDate
<1> QED BY <1>1, ResolversHold, PTL

\* Resolvers: the callback and Build leave the connection of a closed resolver
\* alone.
THEOREM LeftAlone == ProgramsSpec => ClosedIsLeftAlone
<1>1. ResolversInv /\ [ProgramsNext]_programs =>
        [\A c \in ClientConns : bpc[c] = "closed" /\ asked[c] = 0 => state'[c] = state[c]]_R!vars
  <2> SUFFICES ASSUME ResolversInv, R!Next, NEW c \in ClientConns, bpc[c] = "closed", asked[c] = 0
               PROVE  state'[c] = state[c]
    BY OneRuns DEF resolving, R!vars, R!cache, R!watcher, R!builds
  <2>1. state \in [ClientConns -> R!Version] /\ c \notin todo
    BY DEF ResolversInv, R!TypeOK
  <2>2. CASE UNCHANGED state
    BY <2>2
  <2>3. ASSUME NEW d \in ClientConns, R!Tell(d) \/ R!BuildPush(d) \/ R!ResolvePush(d)
        PROVE  state'[c] = state[c]
    BY <2>1, <2>3 DEF R!Tell, R!BuildPush, R!ResolvePush
  <2> QED
    BY <2>2, <2>3 DEF R!Next, R!Write, R!WatchStep, R!Open, R!Apply, R!Notify, R!Told, R!Closes, R!Build,
                      R!BuildFails, R!BuildStep, R!BuildAppend, R!ResolveNow, R!Close
<1> QED BY <1>1, ResolversHold, PTL DEF ProgramsSpec, ClosedIsLeftAlone, R!ClosedIsLeftAlone

\* Route: the node returned is available and nearest, and none is missed.
THEOREM Finds == ProgramsSpec => []RouteFinds
<1>1. RouteInv => RouteFinds
  BY DEF RouteInv, RouteFinds
<1> QED BY <1>1, RouteHolds, PTL

\* Types, and that one caller at most is in a Once of a package.
THEOREM TypeCorrect == ProgramsSpec => []TypesOK
<1>1. StartupInv /\ ProxyInv /\ StubInv /\ ResolversInv /\ RouteInv => TypesOK
  BY DEF StartupInv, ProxyInv, StubInv, ResolversInv, RouteInv, TypesOK
<1> QED BY <1>1, StartupHolds, ProxyHolds, StubHolds, ResolversHold, RouteHolds, PTL
=============================================================================
