CONSTANTS
  n1 = n1
  n2 = n2
  Me = me
  Node = {n1, n2}
  PrevHop = {n1, n2}
  NextHop = {n1}
  SeqNo = {1}
  Route <- OneRelay
  Role = "normal"
  INITIAL_CHIPCOUNT = 2
  MAX_CHIPCOUNT = 3
  FAULTY_RATING_THRESHOLD <- MCFaultyThreshold
  GOOD_RATING_THRESHOLD = 1
  SEC_CHANCE_NEW_RATING <- MCSecChanceRating
  PACKET_TIMEOUT = 0
  SEC_CHANCE_PERIOD = 2
  BANK_TIMER_FREQUENCY = 1
  MaxDelay = 1
  MaxCached = 2
  MaxCount = 2
  NoEntry = NoEntry
  NoPacket = NoPacket
SPECIFICATION FairSpec
INVARIANTS TypeOK SecondChancePending ThresholdMeansListed ListedRelayUnchecked
PROPERTIES CreditFollowsService SecondChanceGiven
