CONSTANTS
  S = S
  A = A
  B = B
  D = D
  Node = {S, A, B, D}
  NoError = NoError
  Gratuitous = A
  Links <- MCLinks
  Start <- MCStart
  Setups <- MCSetups
  Flow <- MCFlow
  CanFail = {A}
  CanList <- MCCanList
  MaxLen = 4
  MaxErrors = 2
  MaxSeq = 1
  MaxAir = 1
  MaxMoves <- MCMaxMoves
SPECIFICATION Spec
INVARIANT NoListedRelay
CHECK_DEADLOCK FALSE
