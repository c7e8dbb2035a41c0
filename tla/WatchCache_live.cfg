CONSTANTS
  Srvs = {s1}
  Lookups = {d1, d2}
  Loads = {a1}
  Unwatches = {}
  None = None
  Hooked = FALSE
  MaxRevision = 2
SPECIFICATION FairSpec
CHECK_DEADLOCK FALSE
PROPERTIES
  EventsConsumed
  CallsReturn
