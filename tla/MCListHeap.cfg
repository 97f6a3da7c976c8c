CONSTANTS
  x = x
  y = y
  u = u
  v = v
  p = p
  q = q
  r = r
  b1 = b1
  b2 = b2
  b3 = b3
  b4 = b4
  Last = Last
  Garbage = Garbage
  None = None
  Names = {x, y}
  Values = {u, v}
  Structs = {p, q, r}
  Blocks = {b1, b2, b3, b4}
  MaxLen = 5
  MaxTotal = 5
  Subscripts <- Constant
  SliceCalls = FALSE
SPECIFICATION Spec
SYMMETRY MCSymmetry
CHECK_DEADLOCK FALSE
INVARIANTS
  TypeOK
  PointersLive
  SoleOwner
  NoGarbage
PROPERTIES
  ImplementsPyLists
