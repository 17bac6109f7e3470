SPECIFICATION FairSpec
CONSTANTS
  MaxRemediations = 2
  MaxPulls = 1
  MaxEvents = 3
  Diffs = {d1}
  NoDiff = none
  Names = {name}
  NameOf <- OneName
  LastSuffix = 1
  Workers = {w1}
  Interference = {"web"}
  Elsewhere = {}
PROPERTIES MergedIsVerified
CHECK_DEADLOCK FALSE
