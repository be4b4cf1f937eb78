SPECIFICATION FairSpec
CONSTANTS
  Calls = {c1, c2}
  MaxShort = 1
  MaxCrashes = 1
INVARIANTS
  TypeOK
  ResultsAccountedFor
  LossBounded
PROPERTIES
  HandlersLeaveATrail
  InterceptorsLeaveATrail
  CallsEnd
CHECK_DEADLOCK FALSE
