CONSTANTS
  Keys <- MCKeys
  Vals = {0, 1}
  Empty = Empty
  MaxEntries = 3
SPECIFICATION Spec
INVARIANTS
  TypeOK
  SizeCounts
  Reachable
  FreeSlot
  NoNestedGrowth
PROPERTIES
  ImplementsPyDict
  EveryCallReturns
