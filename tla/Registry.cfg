SPECIFICATION Spec
CONSTANTS
  s1 = s1
  s2 = s2
  x1 = x1
  None = None
  Universe <- MCUniverse
  Offers <- MCOffers
  Terms <- MCTerms
  Aliases <- MCAliases
  OwnName <- MCOwnName
  Titles <- MCTitles
  Spares = {x1}
INVARIANTS
  TypeOK
  ResolveAnswers
  StopsOnRefusal
PROPERTIES
  FetchedKept
