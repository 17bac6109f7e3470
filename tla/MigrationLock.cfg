SPECIFICATION FairSpec
CONSTANTS
  Containers <- Three
  c1 = c1
  c2 = c2
  c3 = c3
PROPERTIES ExclusiveUntilStale EveryContainerServes
