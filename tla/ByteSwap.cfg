\* Banks, segments and packets in one another, in wrapped events and bare ones.
SPECIFICATION FairSpec
CONSTANTS
  IntTypes = {1}
  ShortTypes = {4, 52}
  ByteTypes = {3, 54}
  Lengths = {0, 1, 2}
  Wrappers = {16}
  BareLengths = {2, 3}
PROPERTIES EventSwapped
CHECK_DEADLOCK FALSE
