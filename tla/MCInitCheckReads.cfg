SPECIFICATION Spec
CONSTANTS
  Vars = {result, x}
  Result = result
  Never = never
  MaxDepth = 2
INVARIANTS ReadsAreSafe
