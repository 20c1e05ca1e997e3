SPECIFICATION Spec
CONSTANTS
  N = 4
  L = 4
  Hashes = {h1, h2}
  NoHash = NoHash
  NoLba = NoLba
  Garbage <- NeverAnLba
  OutOfBounds <- ReadsZero
  MaxBlocks = 1
  Trace = {"append", "same_shared", "trim"}
SYMMETRY Contents
INVARIANTS
  TrimFindsOwner
CHECK_DEADLOCK FALSE
