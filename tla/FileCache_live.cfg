CONSTANTS
  Srvs = {s1}
  Once = {}
  Lookups = {d1}
  Loads = {a1}
  Unwatches = {u1}
  None = None
  s1 = s1
  Cut <- CutAtDot
  MaxWrites = 2
  MaxInode = 2
SPECIFICATION FairSpec
CHECK_DEADLOCK FALSE
PROPERTY CallsReturn
