SPECIFICATION NewSpec
CONSTANTS
  N = 4
  L = 4
  Hashes = {h1, h2, h3, h4}
  NoHash = NoHash
  NoLba = NoLba
  InFlight = InFlight
  Garbage <- NeverAnLba
  OutOfBounds <- ReadsZero
  MaxBlocks = 1
  Trace <- AllKinds
  BufNum = 2
  BufCap = 1
  SpareCell <- EitherWay
  MaxInstr = 0
  Plain = {TRUE}
SYMMETRY Contents
INVARIANTS NewTypeOK PlainOwners PlainStops
PROPERTIES BufferKeepsContent
CHECK_DEADLOCK FALSE
