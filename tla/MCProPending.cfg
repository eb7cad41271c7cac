SPECIFICATION Spec
CONSTANTS
  b1 = b1
  b2 = b2
  s1 = s1
  NoTruth = NoTruth
  OrderIds = {b1, s1}
  OrderOf <- BidAndAsk
  Books <- AllBooks
  TradeLists <- AllTrades
  Truths = {}
  RatioDen = 2
  MinRatio = 1
  MaxRatio = 1
  Horizon = 3
  Gaps = {1}
  OrderDelays = {1, 2}
  CancelDelays = {1, 2}
  MaxPosition = 3
  MaxCancels = 2
INVARIANT PendingWhileInFlight
CHECK_DEADLOCK FALSE
