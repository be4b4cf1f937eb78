SPECIFICATION Spec
CONSTANTS
  Procs = {p1, p2}
  Urls = {u1}
  TTL = 1
  AgeCap = 3
  MaxCrashes = 1
  ETagOffers = {FALSE}
INVARIANT HitIsTheResponse
