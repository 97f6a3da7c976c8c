CONSTANTS
  NoBase = NoBase
  ABC = ABC
  None = None
  Programs <- RootedPrograms
  Vals = {v0, v1}
  Zero = v0
  InitName = 0
SPECIFICATION Spec
CHECK_DEADLOCK FALSE
INVARIANTS
  VtableWellTyped
