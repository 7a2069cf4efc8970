\* A whole run from one file or several, with every kind of event.
SPECIFICATION FairSpec
CONSTANTS
  Bad = Bad
  NoFile = NoFile
  NoEvent = NoEvent
  EventKinds <- RunKinds
  Events <- RunKinds
  MaxEvents = 4
  MaxSegments = 3
  NameEnd = "digit0"
  Disks <- RunDisks
  Enabled = {1, 2, 3, 4, 8, 15}
  StartEvent = 2
  StopEvent = 2
  PreprocOn = TRUE
  PreprocOpened = TRUE
  DumpInterval = 1
  PedAna = FALSE
  RpcOn = TRUE
  RpcControl = 1
  Faults = {"write", "report", "hks", "keep"}
INVARIANTS Accounting StartHonoured StopHonoured ResultsKept PedestalsCurrent WrittenOnce LeftForAReason Inductive
PROPERTIES RunEnds DeliversStream
