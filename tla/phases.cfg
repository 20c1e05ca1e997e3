SPECIFICATION Spec
CONSTANTS
  N = 8
  L = 8
  Hashes = {h1, h2, h3, h4, h5, h6, h7}
  NoHash = NoHash
  NoLba = NoLba
  Garbage <- NeverAnLba
  OutOfBounds <- ReadsZero
  MaxBlocks = 1
  Trace = {"append"}
SYMMETRY Contents
INVARIANTS
  TopsBetweenShared
  StoredOnce
CHECK_DEADLOCK FALSE
