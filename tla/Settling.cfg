CONSTANTS
  Chain = {c1}
  Coordinator = {k1}
  Searcher = searcher
  Loop = {searcher, periodic}
  MaxJobs = 2
  MaxStale = 1
  MaxFaults = 2
SPECIFICATION FairSpec
INVARIANTS
  TypeOK
  OnlyNewWorkIsForgotten
PROPERTIES
  SettledWhileTracked
CHECK_DEADLOCK FALSE
