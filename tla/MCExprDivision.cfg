SPECIFICATION ExprSpec
CONSTANTS
  PtrBits = 4
  HostBits = 4
  IntTypes <- MCIntTypes
  Leaves <- MCLeaves
  MaxOperators = 3
  MaxSize = 4
  MaxFloat = 16
INVARIANT DivisionIsFloat
CHECK_DEADLOCK FALSE
