CONSTANTS
  Chain = {c1, c2}
  Method = {m1, m2}
  None = None
  MinInterval = 1
  RetryInterval = 1
  U8Max = 2
  MaxJobs = 2
  MaxNow = 1
  MaxBatch = 2
  Intervals <- MCIntervals
  StartTimes <- MCStartTimes
  MaxAttempts <- MCMaxAttempts
  Memory <- MCMemory
SPECIFICATION AppSpec
INVARIANTS
  PendingAgrees
  FailedAgrees
  AttemptsNeverOverflow
  MemoryBudget
  LiveSettlementJobIsReferenced
PROPERTIES
  PeriodicSpacing
  ImplementsLifecycle
SYMMETRY Symmetry
CHECK_DEADLOCK FALSE
