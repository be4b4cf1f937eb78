SPECIFICATION Spec
CONSTANTS
  Procs = {p1, p2}
  NumListings = 2
  CatalogTTL = 2
  HttpTTL = 1
  MaxRebuild = 1
  AgeCap = 5
INVARIANTS
  TypeOK
  ServedNotTooOld
  RebuildsSpaced
  ProcessesAgree
PROPERTY Recovers
