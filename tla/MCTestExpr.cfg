SPECIFICATION Spec
CONSTANTS
  PointerWords = 1
  Garbage = {0, 7}
  Variables <- MCVariables
  Statements <- MCStatements
INVARIANTS
  LineAsWritten
  ImmediateAgrees
  CodeFits
CHECK_DEADLOCK FALSE
