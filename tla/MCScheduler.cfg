CONSTANTS
  MaxRoutines = 3
  MaxScopes = 2
SPECIFICATION Spec
INVARIANTS
  TypeOK
  LockExact
  NeverStalls
  StoppedWaitForStopped
  ClosedScopesAreEmpty
  OrphansAreCancelled
  FailureStopsUserCode
  NilMeansCancelled
PROPERTIES
  DeadlockIsReal
