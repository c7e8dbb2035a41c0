CONSTANTS
  Srvs = {s1, s2}
  Once = {s2}
  Lookups = {d1}
  Loads = {a1}
  Unwatches = {}
  None = None
  s1 = s1
  Cut <- CutAtDot
  MaxWrites = 2
  MaxInode = 2
SPECIFICATION Spec
CHECK_DEADLOCK FALSE
INVARIANTS
  OneWatcher
  CacheFollowsFile
  HookFollowsFile
