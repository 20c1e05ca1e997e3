SPECIFICATION Spec
CONSTANTS
  N = 4
  L = 2
  Hashes = {h1, h2}
  NoHash = NoHash
  NoLba = NoLba
  Garbage <- NeverAnLba
  OutOfBounds <- ReadsZero
  MaxBlocks = 1
  Trace = {"append", "rewrite_taken", "trim"}
SYMMETRY Contents
PROPERTIES
  ForeignContentKept
CHECK_DEADLOCK FALSE
