\* Starts and stops are bounded: the system may stop.
SPECIFICATION RestartSpec
CONSTANTS
  Agents = {x1}
  CloseCancels = TRUE
  MaxActs = 2
  MaxStops = 2
INVARIANT InterruptionIsKept
CHECK_DEADLOCK FALSE
