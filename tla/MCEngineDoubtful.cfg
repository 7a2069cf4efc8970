\* An error of the scaler analysis and a later call in the same iteration.
\* Also PedestalsNotSkipped, of pedestal events before the starting event, with
\* EventKinds, Events <- TriggerKinds; Enabled = {1, 2, 3, 4, 8}; StartEvent = 2;
\* and DigitNotSegmented, of a file name that ends in a digit, with EventKinds,
\* Events <- FileKinds; MaxEvents = 1; NameEnd = "digit0"; Disks <- SegmentDisks.
SPECIFICATION Spec
CONSTANTS
  Bad = Bad
  NoFile = NoFile
  NoEvent = NoEvent
  EventKinds <- ControlKinds
  Events <- ControlKinds
  MaxEvents = 2
  MaxSegments = 1
  NameEnd = "letter"
  Disks <- PlainDisks
  Enabled = {1, 15}
  StartEvent = 0
  StopEvent = 0
  PreprocOn = TRUE
  PreprocOpened = TRUE
  DumpInterval = 0
  PedAna = FALSE
  RpcOn = FALSE
  RpcControl <- NoBlocking
  Faults = {}
PROPERTIES ErrorEndsRun
