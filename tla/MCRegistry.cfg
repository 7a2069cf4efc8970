\* A client and the analyzer, with every call.
SPECIFICATION Spec
CONSTANTS
  Fold <- MCFold
  HashFunction <- MCHash
  Buckets = 2
  Names <- MCNames
  Bins <- MCBins
  Junk = 7
  Vars <- MCVars
  Arrays <- MCArrays
  Contents <- MCContents
  Patterns <- MCPatterns
  Reads <- MCReads
  Writes <- MCWrites
  MaxEvents = 1
  MaxCalls = 2
  MaxList = 4
INVARIANTS CallsDeliver HistCurrent
PROPERTIES IsDictionary
CHECK_DEADLOCK FALSE
