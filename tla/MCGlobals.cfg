CONSTANTS
  MaxRoutines = 2
  Globals = {"a", "b"}
  Reads <- MCReads
  MaxCalls = 2
  MaxSwitches = 1
SPECIFICATION FairSpec
INVARIANTS
  OneInitializer
  NilOnlyAfterAStop
PROPERTIES
  RecursionIsReal
  ReadsEnd
