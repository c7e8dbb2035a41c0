------------------------------ MODULE Programs ------------------------------
(***************************************************************************)
(* The parts on top of a discovery: what a process makes when it starts,   *)
(* the resolvers of its connections, its generated client stubs, the       *)
(* choice of a node, and the discovery proxy.  As modelled they share no   *)
(* state, so that one behaviour has one of them run: what is said of it    *)
(* holds beside the others.  (Startup is extended: its variables and its   *)
(* properties have their own names here.)                                  *)
(***************************************************************************)
EXTENDS Startup, ResolverConns, StubOptions, ProxySettings, RouteNodes

VARIABLES
  program,
  config, changes, oldDir, oldConn, wpc, cfg, dir, disc, rpc, hooked, log, loaded,
  watching, pos, cb, content, behind,
  customized, globalMerged, globalOnce, local, localMerged, localOnce, given, raced,
  registering, once, conn, cpc, of, late, refused,
  rlog, cached, rfrom, rpos, rwpc, todo, resolvers, bpc, bgot, asked, state, overtaken,
  nodes, randN, origin, i, routed

P == INSTANCE Proxy
C == INSTANCE Stub WITH pc <- cpc
R == INSTANCE Resolvers WITH
       log <- rlog, from <- rfrom, pos <- rpos, wpc <- rwpc, pc <- bpc, got <- bgot
N == INSTANCE Route

proxy == <<config, changes, oldDir, oldConn, wpc, cfg, dir, disc, rpc, hooked, log, loaded,
           watching, pos, cb, content, behind>>
stub == <<customized, globalMerged, globalOnce, local, localMerged, localOnce, given, raced,
          registering, once, conn, cpc, of, late, refused>>
resolving == <<rlog, cached, rfrom, rpos, rwpc, todo, resolvers, bpc, bgot, asked, state, overtaken>>
routing == <<nodes, randN, origin, i, routed>>
programs == <<program, vars, proxy, stub, resolving, routing>>

ProgramsInit ==
  /\ program \in {"startup", "proxy", "stub", "resolvers", "route"}
  /\ Init /\ P!Init /\ C!Init /\ R!Init /\ N!Init
  /\ program # "resolvers" => cached = 0

StartupRuns  == program = "startup" /\ UNCHANGED <<program, proxy, stub, resolving, routing>>
ProxyRuns    == program = "proxy" /\ UNCHANGED <<program, vars, stub, resolving, routing>>
StubRuns     == program = "stub" /\ UNCHANGED <<program, vars, proxy, resolving, routing>>
ResolversRun == program = "resolvers" /\ UNCHANGED <<program, vars, proxy, stub, routing>>
RouteRuns    == program = "route" /\ UNCHANGED <<program, vars, proxy, stub, resolving>>

ProgramsNext ==
  \/ StartupRuns /\ Next
  \/ ProxyRuns /\ P!Next
  \/ StubRuns /\ C!Next
  \/ ResolversRun /\ R!Next
  \/ RouteRuns /\ N!Next

ProgramsSpec == ProgramsInit /\ [][ProgramsNext]_programs

\* That of the proxy and of the resolvers; of the rest nothing is promised.
Fairness ==
  /\ WF_programs(ProxyRuns /\ P!Alive /\ (P!Callback \/ P!NextChange))
  /\ WF_programs(ResolversRun /\ R!WatchStep)
  /\ \A c \in ClientConns : WF_programs(ResolversRun /\ R!BuildStep(c))

FairSpec == ProgramsSpec /\ Fairness
-----------------------------------------------------------------------------
\* The types of Startup, Proxy, Stub, Resolvers and Route.  (The other
\* properties of Startup are LoadedUnlessFailed, OneDiscovery, RegisteredIsTold.)
TypesOK == TypeOK /\ P!TypeOK /\ C!TypeOK /\ R!TypeOK /\ N!TypeOK

\* Proxy: a service's file follows its newest change.
FilesFollow == P!FilesFollow

\* Proxy: the hanging rerun does not hold up the callback.
ChangesAreHandled == P!ChangesAreHandled

\* Stub: options registered in time are in force.
OptionsInForce == C!OptionsInForce

\* Stub: a call finds no client only after a failed dial.
NilClientAfterFailure == C!NilClientAfterFailure

\* Resolvers: after the last change an open connection has the newest addresses.
NewestIsShown == R!NewestIsShown

\* Resolvers: the callback leaves a closed connection alone.
ClosedIsLeftAlone == R!ClosedIsLeftAlone

\* Resolvers: each open connection is shown every change, or a later one.
ChangesAreShown == R!ChangesAreShown

\* Route: the nearest available node, if there is one.
RouteFinds == N!RouteFinds
=============================================================================
