SPECIFICATION FairSpec
CONSTANTS
    Machines <- MCMachines
    MaxSerial = 4
INVARIANTS SpindleKnown AbortHonored
PROPERTIES WaitsItsTurn Answered
