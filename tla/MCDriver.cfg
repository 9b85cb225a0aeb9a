SPECIFICATION Spec
CONSTANTS
  Procs = {p, q}
  Commands <- MCCommands
  Files <- MCFiles
  Sources <- MCSources
  Programs <- MCPrograms
  MaxVersion = 2
  MaxErrors = 2
  StatusMod = 2
INVARIANTS TypeOK OwnProgram OutputIsThere ZeroMeansRan
PROPERTIES SourceKept
SYMMETRY Symmetry
CHECK_DEADLOCK FALSE
