CONSTANTS
  Chain = {c1}
  Method = {m1}
  None = None
  MinInterval = 1
  RetryInterval = 1
  U8Max = 2
  MaxJobs = 1
  MaxNow = 1
  MaxBatch = 1
  Intervals <- MCIntervals
  StartTimes <- MCStartTimes
  MaxAttempts <- MCMaxAttempts
  Memory <- MCMemory
SPECIFICATION AppSpec
INVARIANTS
  FailedIndexRefersToJobs
CHECK_DEADLOCK FALSE
