CONSTANTS
  Size = 5
  Counts = {1, 3}
  MaxByte = 10
SPECIFICATION FairSpec
INVARIANTS SidesApart
PROPERTIES ImplementsPort EachByteLeaves
CHECK_DEADLOCK FALSE
