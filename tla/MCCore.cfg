SPECIFICATION Spec
CONSTANTS
  b1 = b1
  b2 = b2
  s1 = s1
  NoTruth = NoTruth
  OrderIds <- MCOrderIds
  OrderOf <- MCOrderOf
  Books <- MCBooks
  TradeLists <- MCTradeLists
  Truths = {}
  RatioDen = 4
  MinRatio = 1
  MaxRatio = 3
  MaxTicks = 3
INVARIANT TypeOK
PROPERTY CoreIsQueue
CHECK_DEADLOCK FALSE
