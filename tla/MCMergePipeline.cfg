SPECIFICATION FairSpec
CONSTANTS
  p1 = p1  p2 = p2  a1 = a1  b1 = b1  c1 = c1  d1 = d1
  PR <- MCPR
  Change <- MCChange
  FileOf <- MCFileOf
  Commits <- MCCommits
  Clash <- MCClash
  Batches <- AllBatches
  MaxSubmits = 2
  MaxCrashes = 1
INVARIANTS MergedIsLanded RevertRestores BatchIsDisjoint
PROPERTIES WorkIsKept EveryRequestIsDecided
CHECK_DEADLOCK FALSE
