SPECIFICATION Spec
CONSTANTS
  Texts = {"x", "y", "++i", "--i"}
  MaxLines = 3
  Habits = {}
INVARIANTS ReconstructsOrFails
CHECK_DEADLOCK FALSE
