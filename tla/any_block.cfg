SPECIFICATION Spec
CONSTANTS
  N = 4
  L = 2
  Hashes = {h1, h2}
  NoHash = NoHash
  NoLba = NoLba
  Garbage <- NeverAnLba
  OutOfBounds <- AnyAnswer
  MaxBlocks = 2
  Trace = {"fresh", "append", "same_shared", "update", "update_shared", "rewrite", "rewrite_taken", "restore", "beyond", "trim"}
SYMMETRY Contents
INVARIANTS
  TypeOK
  Phase1Frontier
  TopPhases
  MappedAllocated
  FullMeansFull
  IInv
PROPERTIES
  NeverFreed
  WritesShorten
CHECK_DEADLOCK FALSE
