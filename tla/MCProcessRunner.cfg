SPECIFICATION Spec
CONSTANTS
  Runners = {1, 2}
  ProgramEnds <- MCProgramEnds
INVARIANTS TypeOK NoLeak NoZombie TrueMeansRan
PROPERTIES Returns QuietTimeLimit
