SPECIFICATION Spec
CONSTANTS
  PoolThreads = {t1, t2}
  PoolSize = 2
  TagModulus = 3
  CountModulus = 4
  RateThreads = {r1, r2}
  Rates = {1, 2}
  LastSecond = 2
  MpscProducers = {p1, p2}
  MpscConsumer = c1
  MpscItems = {a, b}
  MpscNoItem = none
  MpscCapacity = 2
  MpscMaxPush = 3
  SpscProducer = p3
  SpscConsumer = c2
  SpscItems = {d, e}
  SpscNoItem = none
  SpscCapacity = 4
  SpscMaxPush = 6
  BookPrices = {1, 2, 3, 4}
  BookQuantities = {1, 2}
  BookDepth = 3
  RouteVenues = {v1, v2}
  RouteBooks <- MCBooks
  RouteOrders <- MCOrders
  RouteDepth = 2
  MinSlice = 1
  SlippageTicks = 1
  NumSlices = 2
  MaxShare = 2
SYMMETRY Symmetry
INVARIANTS PoolPartition RateLimitKept BookMatchesReference
  NbboIsTopOfBook DecisionWithinOrder IocWithinSlippage
PROPERTIES MpscImplementsTicketQueue SpscImplementsTicketQueue
CHECK_DEADLOCK FALSE
