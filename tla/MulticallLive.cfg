CONSTANTS
  App = {a1, a2}
  MaxSequence = 1
  MaxOps = 1
  MaxAttempts = 1
  MaxAsked = 0
  MaxFaults = 1
SPECIFICATION FairSpec
PROPERTIES
  RunsEnd
  PendingJobsStart
CHECK_DEADLOCK FALSE
