SPECIFICATION Spec
CONSTANTS
  Keys = {k1, k2}
  Stamps = {1, 2}
  Limits <- MCLimits
  MaxItems = 2
INVARIANTS
  LocalRemainsUsable
CHECK_DEADLOCK FALSE
