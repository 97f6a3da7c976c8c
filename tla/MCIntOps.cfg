\* The program ends, and with it the behaviour.
CHECK_DEADLOCK FALSE
SPECIFICATION IntSpec
CONSTANTS
  Widths = {2, 3, 4}
  Word = 4
INVARIANTS IntTypeOK ExactInRange WrapsOnce UndefinedWhere
PROPERTIES Ends
