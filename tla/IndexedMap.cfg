\* four leaves: the fourth key finds the tree full
CONSTANTS
  Key = {0, 1, 2, 3, 4, 5}
  Value = {0, 1}
  Height = 3
SPECIFICATION Spec
INVARIANTS
  GapsAreEmpty
  ProofsDecide
PROPERTIES
  WitnessesVerify
  ImplementsMap
