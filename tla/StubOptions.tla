----------------------------- MODULE StubOptions -----------------------------
\* The dial options and the stubs of one generated client package.
CONSTANTS
  Callers,    \* the goroutines that call methods
  Default,    \* the stubs that dial with the registered options
  Own,        \* the stubs that were given options of their own
  RoundRobin, \* the options a dial has anyway
  Global,     \* those that are registered for every service
  Local,      \* those that are registered for the service
  NoStub,
  Unset       \* an element of a list not yet written

Stubs   == Default \cup Own
Options == RoundRobin \cup Global \cup Local

ASSUME StubAssumption ==
  /\ Default \cap Own = {}
  /\ RoundRobin # {} /\ RoundRobin \cap (Global \cup Local) = {}
  /\ Global \cap Local = {}
  /\ Unset \notin Options /\ NoStub \notin Stubs
=============================================================================
