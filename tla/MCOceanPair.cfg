CONSTANTS
  a = a
  b = b
  Agent = {a, b}
  INITIAL_CHIPCOUNT = 1
  MAX_CHIPCOUNT = 2
  FAULTY_RATING_THRESHOLD <- MCFaultyThreshold
  GOOD_RATING_THRESHOLD = 0
  SEC_CHANCE_NEW_RATING <- MCSecChanceRating
  MaxCached = 2
  MaxCount = 2
  NoEntry = NoEntry
SPECIFICATION Spec
SYMMETRY Symmetry
INVARIANTS TypeOK  ChipsCovered
PROPERTY BlameMeansCredit
