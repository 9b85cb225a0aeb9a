SPECIFICATION Spec
CONSTANTS
  Runners = {1}
  ProgramEnds <- MCProgramEnds
PROPERTIES TimeLimit
