\* More words than the arrays hold.
SPECIFICATION Spec
CONSTANTS
  Detectors <- Overrunning
  MaxWords = 4

INVARIANTS WithinArrays
CHECK_DEADLOCK FALSE
