SPECIFICATION MCSpec
CONSTANTS
  Module = "module"
  Objects = {"object"}
  Names = {"f", "g"}
  Fields <- MCFields
  Declarations <- MCDeclarations
  CallTexts <- MCCallTexts
  MaxFuncs = 3
  PtrBits = 64
  HostBits = 4
  IntTypes <- MCIntTypes
  Leaves <- MCLeaves
  MaxOperators = 3
  MaxSize = 4
  MaxFloat = 16
  MaxText = 6
  MaxIifs = 1
INVARIANTS ModuleTypeOK BestOverload AllDefined SetsAreDistinct FoldEqualsRun OperandsAgree RunsAsWritten OneTerminator
PROPERTY SignaturesKept
CHECK_DEADLOCK FALSE
