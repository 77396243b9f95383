CONSTANTS
  App = {a1, a2}
  MaxSequence = 1
  MaxOps = 2
  MaxAttempts = 1
  MaxAsked = 1
  MaxFaults = 1
SPECIFICATION Spec
INVARIANTS
  TypeOK
  StartedJobsAreFollowed
PROPERTIES
  RequestsAreKept
SYMMETRY Apps
CHECK_DEADLOCK FALSE
