SPECIFICATION FairSpec
CONSTANTS
    InterpMaxLen = 2
    MotionQueue = 2
    MaxMdi = 1
    Sessions <- MCSessions
INVARIANTS MovesAndToolChangesExclude StopIsFinal MdiInTurn
PROPERTIES Settles NoMoveIntoStop
