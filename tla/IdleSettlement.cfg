CONSTANTS
  Chain = {c1}
  Coordinator = {k1}
  Searcher = searcher
  Loop = {searcher}
  MaxJobs = 1
  MaxStale = 0
  MaxFaults = 0
SPECIFICATION FairSpec
PROPERTIES
  SettlementJobsEnd
CHECK_DEADLOCK FALSE
