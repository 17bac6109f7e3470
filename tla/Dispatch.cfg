SPECIFICATION Spec
CONSTANTS
  MaxRemediations = 1
  MaxPulls = 2
  MaxEvents = 2
  Diffs = {d1, d2}
  NoDiff = none
  Names = {name}
  NameOf <- OneName
  LastSuffix = 2
  Workers = {w1, w2}
  Interference = {"github", "web", "repository"}
  Elsewhere = {"scanning", "pattern_detected"}
SYMMETRY WorkerSymmetry
INVARIANTS TypeOK OnlyConfirmedDiffs
PROPERTIES ImplementsChange
CHECK_DEADLOCK FALSE
