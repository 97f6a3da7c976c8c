CONSTANTS
  x = x
  y = y
  u = u
  v = v
  p = p
  q = q
  r = r
  b1 = b1
  b2 = b2
  b3 = b3
  b4 = b4
  Last = Last
  Garbage = Garbage
  None = None
  Names = {x, y}
  Values = {u, v}
  Structs = {p, q}
  Blocks = {b1, b2, b3}
  MaxLen = 5
  MaxTotal = 5
  Subscripts <- Constant
  SliceCalls = TRUE
SPECIFICATION Spec
CHECK_DEADLOCK FALSE
INVARIANTS
  SliceIsFresh
