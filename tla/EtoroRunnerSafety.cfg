SPECIFICATION Spec
CONSTANTS
  i1 = i1
  i2 = i2
  i3 = i3
  n1 = n1
  Unseen = Unseen
  Limits <- TightRiskLimits
  RealMoney = FALSE
  Instruments = {i1, i2, i3}
  PromptFills = TRUE
  MaxJudged = 2
  MaxPairs = 1
  Quotes <- OneQuote
  Ages = {0}
  Equities <- OneEquity
  Briefs = {n1}
  MaxCycles = 2
  MaxCrashes = 0
  MaxHalts = 0
INVARIANTS
  TypeOK
  PositionsBounded
  PerAssetBounded
  OpenRiskOvershoot
  TimeStopFlattens
SYMMETRY Symmetry
