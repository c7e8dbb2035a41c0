---------------------------- MODULE ProxySettings ----------------------------
\* What the discovery proxy may find in its configuration.
EXTENDS Integers, Sequences

CONSTANTS
  Dirs,         \* the directories
  Conns,        \* the connections, as records of a timeout and endpoints
  Base,         \* the configuration that NewProxy finds
  Torn,         \* a directory read while it is being written
  NoDiscovery,
  MaxChanges,   \* bound on the changes of the configuration
  MaxVersion    \* bound on the history of the service

Configs == [dir : Dirs, conn : Conns]

ASSUME ProxyAssumption ==
  /\ \A c \in Conns : c.endpoints \in Seq(STRING)
  /\ Base \in Configs
  /\ Torn \notin Dirs
  /\ MaxChanges \in Nat /\ MaxVersion \in Nat \ {0}
=============================================================================
