SPECIFICATION Spec
CONSTANTS
  Size = 7
  ReverseMargin = 1
  Slack = 4
  MaxOrders = 2
  Systems <- MCSystems
INVARIANTS QueueWhole InProgramOrder FrontHasTurn
PROPERTIES PauseHolds
CHECK_DEADLOCK FALSE
