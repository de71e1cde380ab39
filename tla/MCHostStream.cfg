CONSTANTS
  MaxRoutines = 3
  MaxBytes = 2
  Sizes = {1, 2}
  ReaderSets = {{0}, {1}, {0, 1}, {1, 2}}
SPECIFICATION FairSpec
INVARIANTS
  NothingLost
PROPERTIES
  OneReaderIsNoDeadlock
  ReadsAnswered
