CONSTANTS
  MaxHeight = 8
  Default = {1, 4}
  Later = {6, 7}
  Lengths = {1, 2, 5, 6}
  MaxCrashes = 2
SPECIFICATION FairSpec
INVARIANTS Enforced
PROPERTIES RollsBack
CHECK_DEADLOCK FALSE
