SPECIFICATION Spec
CONSTANTS
  Entries = {e1}
  Repos = {r1}
  Branches = {main}
  DefaultBranch = main
  BranchLists <- DefaultOnly
  Matching <- AllPairs
  Workers = {w1, w2}
  Faults <- Crashes
  Overlaps <- NoOverlaps
  MaxJobs = 2
  e1 = e1
  r1 = r1
  r2 = r2
  main = main
  release = release
  w1 = w1
  w2 = w2
SYMMETRY WorkerSymmetry
INVARIANTS TypeOK ExclusiveClaims
PROPERTIES DoneIsFinal ImplementsJobLease
