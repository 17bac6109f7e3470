SPECIFICATION Spec
CONSTANTS
  MaxRemediations = 2
  MaxPulls = 2
  MaxEvents = 4
  Diffs = {d1}
  NoDiff = none
  Names = {name}
  NameOf <- OneName
  LastSuffix = 2
  Workers = {w1}
  Interference = {"reopen", "verification", "manual"}
  Elsewhere = {}
INVARIANTS RowsMatchGitHub PrOpenHasLivePull LiveBranchNotReused VerifiesOnlyMerges OnePullPerRemediation
CHECK_DEADLOCK FALSE
