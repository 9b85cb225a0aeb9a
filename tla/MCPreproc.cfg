SPECIFICATION Spec
CONSTANTS
  Files = {main, inc}
  MainFile = main
  Names = {d}
  MaxConds = 3
  MaxLevel = 3
INVARIANTS TypeOK ActiveIsSelected SkippedHasNoEffect BodyReadOnce
PROPERTIES OtherFilesUntouched
CHECK_DEADLOCK FALSE
