\* All kinds of banks, and the scalers.
SPECIFICATION FairSpec
CONSTANTS
  MapFile <- MCMapFile
  MaxRocs = 15
  MaxSlots = 29
  MaxMap = 40
  Half = 8
  Jump = 4
  MaxCount = 4
  Counters = {1, 2, 3}
  Clock = 1
  Monitors = {2}
  Bcm1 = 2
  Offset = 1
  Threshold = 1
  MaxInterval = 3
  WeirdCorrect = TRUE
  Streams <- MCStreams
  FbDetectors = {1, 11}
  AllDetectors = {2, 6}
  GMISC_ID = 6
  ReferPlanes = {3, 4}
  VmeRocs = {13}
  ParallelRocs = {8, 9}
  ShiftedRocs = {11}
  TriggerRoc = 20
  ScalerRocs = {13, 14, 20}
  InvalidSub = 5
  Increments = {0, 1, 2, 4}
  ClearsShow = TRUE
INVARIANTS
  WordsRouted
  TimesCurrent
  ScalersTrue
PROPERTY DecodingEnds
CHECK_DEADLOCK FALSE
