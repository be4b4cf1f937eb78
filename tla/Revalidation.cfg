SPECIFICATION Spec
CONSTANTS
  Procs = {p1}
  Urls = {u1}
  TTL = 1
  AgeCap = 3
  MaxCrashes = 0
  ETagOffers = {TRUE}
INVARIANT ExpiredIsRevalidated
