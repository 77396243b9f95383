CONSTANTS
  r1 = r1
  r2 = r2
  Object = {1, 2}
  Request = {r1, r2}
  Wants <- Everything
  MaxFailures = 1
SPECIFICATION Spec
INVARIANTS
  GrantedBundlesAreWhole
  ExclusiveOnceQueued
  NoCircularWait
CHECK_DEADLOCK FALSE
