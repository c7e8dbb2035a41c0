CONSTANTS
  s1 = s1
  s2 = s2
  Srvs = {s1, s2}
  Addrs = {a1}
  Workers = {w1}
  Offers <- MCOffers
  None = None
  MaxStarts = 2
SPECIFICATION FairSpec
PROPERTY StaleEntriesLeave
