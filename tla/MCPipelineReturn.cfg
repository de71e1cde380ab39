CONSTANTS
  Conversions <- MCConversions
  Programs <- ReturningProgram
  Parsed <- ReturningParsed
  Reported <- ReturningReported
  Compiled <- ReturningCompiled
  Expected <- ReturningExpected
SPECIFICATION FairSpec
INVARIANT RunsToReference
CHECK_DEADLOCK FALSE
