CONSTANTS
  Comp = {"a", "b"}
  Signal = {"x"}
  MaxName = 3
  Systems <- MCSystems
  PinMemory = 3
  NameMemory = 1
SPECIFICATION Spec
INVARIANTS LinksAgree
PROPERTIES ValuesSurvive
