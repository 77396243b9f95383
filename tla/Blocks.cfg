CONSTANTS
  Chain = {c1, c2}
  MinTime = 0
  MaxSequence = 3
  MaxNow = 3
  Index = {0, 1, 2}
  MaxAction = 4
  Updates <- Writes
SPECIFICATION AppSpec
INVARIANTS
  BlocksTile
  TablesHoldTheUnsettled
  ProvedFrontier
  SettledIsProved
  PurgeKeepsTheUnsettled
  CommitmentIsOfTheState
  RecordsReachTheStates
  BlocksCommitToTheirEnd
  JobsNameTheirBlock
PROPERTIES
  ImplementsCalculations
SYMMETRY Symmetry
CHECK_DEADLOCK FALSE
