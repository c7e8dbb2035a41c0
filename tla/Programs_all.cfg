CONSTANTS
  Inits = {i1, i2, i3}
  Users = {u1}
  NoCall = NoCall
  d1 = d1
  d2 = d2
  Dirs = {d1, d2}
  Conns <- MCConns
  Base <- MCBase
  Torn = Torn
  NoDiscovery = NoDiscovery
  MaxChanges = 2
  MaxVersion = 3
  Callers = {c1, c2}
  Default = {s1, s2}
  Own = {s3}
  RoundRobin = {creds}
  Global = {g}
  Local = {x}
  Unset = Unset
  NoStub = NoStub
  ClientConns = {k1, k2}
  MaxWrites = 3
  MaxNodes = 3
  MaxInt = 7
SPECIFICATION FairSpec
CHECK_DEADLOCK FALSE
INVARIANTS
  TypesOK
  LoadedUnlessFailed
  OneDiscovery
  RegisteredIsTold
  FilesFollow
  OptionsInForce
  NilClientAfterFailure
  NewestIsShown
  RouteFinds
PROPERTIES
  ChangesAreHandled
  ClosedIsLeftAlone
  ChangesAreShown
