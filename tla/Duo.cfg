SPECIFICATION Spec
CONSTANTS
  Procs = {p1, p2}
  Urls = {u1}
  TTL = 1
  AgeCap = 3
  MaxCrashes = 2
  ETagOffers = {FALSE}
INVARIANTS
  TypeOK
  QuietEntryMatched
  UndisturbedHitSound
PROPERTIES
  MisleadingEntryLapses
  ServesTheContract
