SPECIFICATION Spec
CONSTANTS
  NFiles = 3
  MaxWorkers = 3
  Counts = {0, 1}
INVARIANTS TypeOK OneOwner AllProcessed NoUseAfterDelete
PROPERTIES ResultsFrozen Terminates RefinesBatch
