CONSTANTS
  Programs <- Repeated
  Types <- MCTypes
  Env0 <- MCEnv
  Heap0 <- MCHeap
  MaxLen = 100
SPECIFICATION Spec
CHECK_DEADLOCK FALSE
PROPERTIES
  ImplementsPyLoops
