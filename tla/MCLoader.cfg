CONSTANTS
  Root = "root"
  Libraries = {"math"}
  Builtins = {"abs", "sorted"}
  Inlined = {"abs", "floor"}
  Main = "main"
  None = None
  Programs <- AllPrograms
SPECIFICATION Spec
CHECK_DEADLOCK FALSE
INVARIANTS
  TypeOK
  Linkable
  CallsAsPython
  AcceptsPython
