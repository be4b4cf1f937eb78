SPECIFICATION Spec
CONSTANTS
  Procs = {p1}
  Hosts = {h1}
  Interval = 2
  AgeCap = 2
  Timeout = 1
  MaxBytes = 1
  ChunkSizes = {1}
  MaxHops = 1
  Addresses = 1
  IdleCap = 1
  Horizon = 12
PROPERTY RateAsDocumented
