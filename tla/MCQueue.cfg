SPECIFICATION Spec
CONSTANTS
  b1 = b1
  b2 = b2
  NoTruth = NoTruth
  OrderIds <- MCOrderIds
  OrderOf <- MCOrderOf
  Books <- MCBooks
  TradeLists <- MCTradeLists
  Truths <- MCTruths
  RatioDen = 4
  MinRatio = 1
  MaxRatio = 3
  MaxTicks = 3
INVARIANT TypeOK
INVARIANT FrontAccounted
INVARIANT FilledInTime
INVARIANT NoEarlyFill
PROPERTY PriorityKept
CHECK_DEADLOCK FALSE
