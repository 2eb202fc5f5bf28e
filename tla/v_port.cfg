CONSTANTS
  Size = 6
  Counts = {1, 2}
  MaxByte = 14
SPECIFICATION Spec
PROPERTIES WrittenStays
CHECK_DEADLOCK FALSE
