CONSTANTS
  plain = plain
  timeout = timeout
  MaxRoutines = 2
  Chans = {plain, timeout}
  Timers = {timeout}
  Capacities = {0, 1}
  Selects <- BothOrders
  MaxValues = 1
SPECIFICATION FairSpec
PROPERTIES
  DrainedForever
  TimerWakes
