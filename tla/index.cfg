SPECIFICATION Spec
CONSTANTS
  h1 = h1
  h2 = h2
  h3 = h3
  h4 = h4
  Tracks = {0, 1, 2}
  Size = 3
  Hashes = {h1, h2, h3, h4}
  NoHash = NoHash
  NULL = NULL
  Code <- Codes
INVARIANTS
  IInv
  EveryCallReturns
  FindsContent
  FindsHolder
