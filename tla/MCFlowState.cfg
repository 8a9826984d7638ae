CONSTANTS
  S = S
  A = A
  B = B
  D = D
  Node = {S, A, B, D}
  NoFlow = NoFlow
  Start <- MCLinks
  Mobile <- MCMobile
  Discovered <- MCDiscovered
  Traffic <- MCTraffic
  ErrorTTL = 5
  FlowIds = 8
  TableSize = 2
  EndToEnd = 0
  MaxErrors = 2
  MaxSalvage = 1
  MaxMoves = 1
SPECIFICATION MCSpec
INVARIANTS TypeOK FlowFollowsRoute DefaultIsNewest
PROPERTIES NotRevived BlameJust
CHECK_DEADLOCK FALSE
