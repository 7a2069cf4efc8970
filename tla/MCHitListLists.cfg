\* Detectors of every kind.
SPECIFICATION Spec
CONSTANTS
  Detectors <- Fitting
  MaxWords = 5

INVARIANTS PairsComplete SignalsOwn WireHits
CHECK_DEADLOCK FALSE
