CONSTANTS
  n0 = n0
  n1 = n1
  n2 = n2
  x = x
  NoAddr = NoAddr
  Calls = {c1, c2, c3, c4}
  Addrs = {n0, n1, n2}
  Extras = {x}
  Requests <- MCRequests
  InitialNodes = {}
SPECIFICATION Spec
SYMMETRY Symmetry
CHECK_DEADLOCK FALSE
INVARIANTS
  CommitIsExact
  GiveUpNeedsWinners
PROPERTY OnlyUnregisterRemoves
