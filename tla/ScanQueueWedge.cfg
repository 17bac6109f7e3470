SPECIFICATION FairSpec
CONSTANTS
  Entries = {e1}
  Repos = {r1}
  Branches = {main, release}
  DefaultBranch = main
  BranchLists <- BothBranches
  Matching <- AllPairs
  Workers = {w1}
  Faults <- NoFaults
  Overlaps <- NoOverlaps
  MaxJobs = 2
  e1 = e1
  r1 = r1
  r2 = r2
  main = main
  release = release
  w1 = w1
  w2 = w2
PROPERTY NoJobWedgesTheQueue
