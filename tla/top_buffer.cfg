SPECIFICATION FairSpec
CONSTANTS
  N = 4
  L = 3
  Fids = {f1, f2}
  NoFid = NoFid
  Capacities = {1, 3}
  ReusesTrimed = TRUE
  MaxBlocks = 2
  Ascending = TRUE
INVARIANTS
  TypeOK
  Resolves
  LinksAgree
  CountRight
  ScpSafe
  FullMeansFull
PROPERTIES
  WriteEnds
CHECK_DEADLOCK FALSE
