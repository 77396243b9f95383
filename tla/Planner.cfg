CONSTANTS
  MaxSequence = 4
  MaxNow = 1
  Timeout = 0
SPECIFICATION PSpec
INVARIANTS
  HeldProofsHaveData
  NoFullProofIsMissed
  ProofsFitTheTree
  NeverStuck
PROPERTIES
  ImplementsCalculation
CHECK_DEADLOCK FALSE
