CONSTANTS
  Srvs = {s1, s2}
  Lookups = {d1, d2}
  Loads = {a1}
  Unwatches = {u1}
  None = None
  Hooked = TRUE
  MaxRevision = 2
SPECIFICATION Spec
SYMMETRY Symmetry
CHECK_DEADLOCK FALSE
INVARIANTS
  OneWatcher
  ConsumedIsApplied
  ConsumedIsSeen
  CachedIsWatched
PROPERTIES
  TurnsBackOnlyAfterLoadAll
  ReadsThrough
