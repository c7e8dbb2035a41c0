---------------------------- MODULE StartupCalls ----------------------------
\* The calls by which a process comes by what it has one of.
CONSTANTS
  Inits,   \* the calls of InitSuitWithGrpc
  Users,   \* the other calls of GetOrMakeDiscovery
  NoCall

Calls == Inits \cup Users

ASSUME CallsAssumption == Inits \cap Users = {} /\ NoCall \notin Calls
=============================================================================
