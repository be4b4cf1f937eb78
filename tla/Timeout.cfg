SPECIFICATION Spec
CONSTANTS
  Procs = {p1}
  Hosts = {h1}
  Interval = 2
  AgeCap = 2
  Timeout = 2
  MaxBytes = 1
  ChunkSizes = {1}
  MaxHops = 0
  Addresses = 1
  IdleCap = 1
  Horizon = 12
INVARIANT RequestsTimeOut
