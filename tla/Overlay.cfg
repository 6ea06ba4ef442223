SPECIFICATION Spec
CONSTANTS
  None = None
  Procs = {1, 2, 3, 4, 5, 6}
  Overlapping = TRUE
  MaxRequests = 2
  MaxFaults = 1
  MaxUnwritten = 1
VIEW Decisive
CHECK_DEADLOCK FALSE
INVARIANTS
  EveryChildIsReachable
