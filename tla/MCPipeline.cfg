CONSTANTS
  Conversions <- MCConversions
  Programs <- MCPrograms
  Parsed <- MCParsed
  Reported <- MCReported
  Compiled <- MCCompiled
  Expected <- MCExpected
SPECIFICATION FairSpec
INVARIANTS ParsesAsWritten RunsToReference NeverRunsOff NothingLeftBehind
PROPERTIES Finishes
CHECK_DEADLOCK FALSE
