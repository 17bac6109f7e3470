SPECIFICATION Spec
CONSTANTS
  MaxRemediations = 1
  MaxPulls = 1
  MaxEvents = 4
  Diffs = {d1}
  NoDiff = none
  Names = {name}
  NameOf <- OneName
  LastSuffix = 1
  Workers = {w1}
  Interference = {"reopen"}
  Elsewhere = {}
INVARIANTS PrOpenUntilVerified
CHECK_DEADLOCK FALSE
