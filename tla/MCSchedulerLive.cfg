CONSTANTS
  MaxRoutines = 3
  MaxScopes = 1
SPECIFICATION FairSpec
PROPERTIES
  ReadyRuns
  CancelledEnds
  FailureEndsProgram
