SPECIFICATION Spec
CONSTANTS
  A = A
  B = B
  a1 = a1
  a2 = a2
  b1 = b1
  NoTruth = NoTruth
  OrderIds = {a1, a2, b1}
  OrderOf <- MCOrderOf
  SymbolOf <- MCSymbolOf
  Symbols = {A, B}
  Rows <- MCRows
  StartTs = 1
  EndTs = 3
  SnapshotEvery = 1
  Books <- MCBooks
  TradeLists <- MCTradeLists
  Truths = {}
  RatioDen = 1
  MinRatio = 0
  MaxRatio = 0
  FillNum = 1
  FillDen = 2
  MaxPosition = 5
  MakerRate <- MakerFee
  TakerRate <- TakerFee
INVARIANT PositionsStayApart
CHECK_DEADLOCK FALSE
