CONSTANTS
  Call <- LibraryCall
  PointerWords = 1
  MaxOpen = 3
  Junk = 7
  MaxEvents = 3
  MaxWrites = 1
  Registered <- MCRegistered
  Disks <- MCDisks
  CommandLine <- MCCommandLine
  Events <- MCEvents
  Titles <- MCTitles
  Values <- MCValues
SPECIFICATION Spec
INVARIANTS
  Sound
  GroupsAsWritten
  ParmsAsWritten
  HistsFollowFlags
  ReportsAddUp
PROPERTY EventsIndependent
CHECK_DEADLOCK FALSE
