CONSTANTS
  MaxSequence = 2
  MaxNow = 1
  Timeout = 0
SPECIFICATION PSpec
INVARIANTS
  RejectedMergesAreTriedAgain
CHECK_DEADLOCK FALSE
