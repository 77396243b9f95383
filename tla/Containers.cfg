SPECIFICATION Spec
CONSTANTS
  Job = {1}
  s1 = s1
  s2 = s2
  Session = {s1, s2}
  MaxContainers = 1
  MaxRetries = 1
  MaxAttempts = 2
  MaxStarts = 2
  MaxCuts = 1
SYMMETRY Symmetry
INVARIANTS
  TypeOK
  StartsAreFollowed
  EndsLeaveNothing
CHECK_DEADLOCK FALSE
