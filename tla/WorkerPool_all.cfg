CONSTANTS
  Sizes = {0, 1, 3, 5, 7}
  Half = 4
  DefaultSize = 2
  MaxNodes = 2
  MaxCommands = 4
SPECIFICATION FairSpec
CHECK_DEADLOCK FALSE
INVARIANTS
  PoolMatches
  PoolCongruent
PROPERTIES
  PoolConverges
  ExitEndsRun
