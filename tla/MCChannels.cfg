CONSTANTS
  plain = plain
  timeout = timeout
  MaxRoutines = 3
  Chans = {plain}
  Timers = {}
  Capacities = {0, 1, 2}
  Selects <- OnlyReceives
  MaxValues = 3
SPECIFICATION Spec
INVARIANTS
  NoLostWakeup
  OutcomesAreTrue
PROPERTIES
  KeepsFifoPromise
