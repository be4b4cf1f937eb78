SPECIFICATION Spec
CONSTANTS
  Procs = {p1, p2}
  Files = {f1, f2}
  HttpTTL = 1
  MaxCall = 1
  MaxVersions = 2
  AgeCap = 6
INVARIANTS
  TypeOK
  VersionLagBounded
PROPERTY Settles
