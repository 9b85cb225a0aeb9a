SPECIFICATION Spec
CONSTANTS
  Runners = {1}
  ProgramEnds <- MCProgramEnds
INVARIANTS ExecErrorReported
