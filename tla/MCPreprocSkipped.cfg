SPECIFICATION Spec
CONSTANTS
  Files = {main, inc}
  MainFile = main
  Names = {d}
  MaxConds = 3
  MaxLevel = 3
INVARIANTS SkippedIsIgnored
CHECK_DEADLOCK FALSE
