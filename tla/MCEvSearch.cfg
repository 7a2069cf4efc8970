\* A closed file, complete, with events too long for the reader, read and then
\* searched; another block size may be asked for with evIoctl.
SPECIFICATION SearchSpec
CONSTANTS
  HdSiz = 3
  BlkSiz = 7
  Lengths = {3, 4, 6, 7}
  BufLen = 7
  NewSizes = {6}
  MaxEvents = 4
  Online = FALSE
  MaxLost = 0
  Faulty = FALSE
  NumAt = 2
  Specials <- OneSpecial
  Junk <- AnyJunk
  MaxSearches = 2
INVARIANTS EventFound
PROPERTIES ReadsAll
CHECK_DEADLOCK FALSE
