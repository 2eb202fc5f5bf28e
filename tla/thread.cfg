CONSTANTS
  Parallel = FALSE
  Comp = {"a", "b"}
  Funct = {"f", "g"}
  Owner <- MCOwner
  Reentrant = {"f"}
  Threads = 2
  EntryMemory = 3
SPECIFICATION FairSpec
INVARIANTS ListsWalkable CallsSafe
PROPERTIES OneChange Served
