SPECIFICATION NewSpec
CONSTANTS
  N = 4
  L = 4
  Hashes = {h1, h2, h3}
  NoHash = NoHash
  NoLba = NoLba
  InFlight = InFlight
  Garbage <- NeverAnLba
  OutOfBounds <- ReadsZero
  MaxBlocks = 2
  Trace <- AllKinds
  BufNum = 3
  BufCap = 1
  SpareCell <- EitherWay
  MaxInstr = 6
  Plain = {FALSE}
SYMMETRY Contents
INVARIANTS NewFrontier FlushesFullBuffer OneCellPast
PROPERTIES EachStepCloser
CHECK_DEADLOCK FALSE
