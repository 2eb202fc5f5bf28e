CONSTANTS
  Depth = 4
  Value = {v1, v2}
  MaxSample = 7
  ULongMax = 1
SPECIFICATION FairSpec
INVARIANTS StreamTypeOK NoTornRecord
PROPERTIES ImplementsFifo Delivered
