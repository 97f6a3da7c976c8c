CONSTANTS
  Programs <- Nests
  Types <- MCTypes
  Env0 <- MCEnv
  Heap0 <- MCHeap
  MaxLen = 100
SPECIFICATION Spec
CHECK_DEADLOCK FALSE
INVARIANTS
  TypeOK
  IndexInBounds
PROPERTIES
  ImplementsPyLoops
  Ends
