\* One track or two with noise.
SPECIFICATION Spec
CONSTANTS
  Directions <- SixLayers
  XLayers <- XPair
  Criterion = 5
  MinHit = 5
  MinCombos = 6
  MaxPrHits = 12
  MaxPairs = 40
  MaxCombos = 150
  MaxPoints = 4
  MaxKept = 2
  MaxChoices = 3
  Unit = 1
  Events <- TwoChambers

INVARIANTS CombosUsed FitForTracking
PROPERTIES KeepsEarliest ChoicesComplete
CHECK_DEADLOCK FALSE
