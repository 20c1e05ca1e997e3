SPECIFICATION Spec
CONSTANTS
  N = 4
  L = 4
  Hashes = {h1, h2, h3}
  NoHash = NoHash
  NoLba = NoLba
  InFlight = InFlight
  Garbage <- NeverAnLba
  OutOfBounds <- ReadsZero
  MaxBlocks = 1
  Trace = {"append", "same", "update", "rewrite", "trim"}
SYMMETRY Contents
INVARIANTS
  Integrity
  OwnersListed
  ListFits
  StopsOnlyWhenFull
  ScanComplete
PROPERTIES
  KeepsContent
  ForeignContentKept
CHECK_DEADLOCK FALSE
