CONSTANTS
  Parallel = FALSE
  HeadCount = 5
  ErrorNum = 2
  CopyPeriods = 2
  MaxCommand = 2
  MaxError = 3
  Orients = {1}
SPECIFICATION Spec
INVARIANTS MessagesWhole AnswerTrue
PROPERTIES InOrder ErrorsInOrder
