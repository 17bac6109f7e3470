SPECIFICATION Spec
CONSTANTS
  Texts = {"x", "y"}
  MaxLines = 4
  Habits = {}
INVARIANTS TypeOK ReconstructsOrFails OrdinaryDiffsApply HashIgnoresLayout
CHECK_DEADLOCK FALSE
