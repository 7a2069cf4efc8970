\* A file read while it is written, or after a crash of its writer or a write
\* that failed, or with blocks missing.
SPECIFICATION Spec
CONSTANTS
  HdSiz = 2
  BlkSiz = 4
  Lengths = {1, 5}
  BufLen = 6
  NewSizes = {6}
  MaxEvents = 3
  Online = TRUE
  MaxLost = 1
  Faulty = TRUE
PROPERTIES ReadsWhatWasWritten
CHECK_DEADLOCK FALSE
