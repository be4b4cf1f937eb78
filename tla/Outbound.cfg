SPECIFICATION Spec
CONSTANTS
  Procs = {p1}
  Hosts = {h1, h2}
  Interval = 1
  AgeCap = 2
  Timeout = 2
  MaxBytes = 2
  ChunkSizes = {1, 2}
  MaxHops = 2
  Addresses = 2
  IdleCap = 2
  Horizon = 44
INVARIANTS
  TypeOK
  NoBurst
  DurationBound
PROPERTY FetchEnds
