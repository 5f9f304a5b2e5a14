SPECIFICATION Spec
CONSTANTS
  i1 = i1
  i2 = i2
  i3 = i3
  n1 = n1
  Unseen = Unseen
  Limits <- SupervisorLimits
  RealMoney = FALSE
  Instruments = {i1, i2}
  PromptFills = FALSE
  MaxJudged = 1
  MaxPairs = 1
  Quotes <- ZeroQuote
  Ages <- FreshOrNot
  Equities <- OneEquity
  Briefs = {n1}
  MaxCycles = 1
  MaxCrashes = 1
  MaxHalts = 1
INVARIANTS
  KillStopsOrders
  SeenMeansJudged
PROPERTIES
  DeskPromise
  JobEnds
