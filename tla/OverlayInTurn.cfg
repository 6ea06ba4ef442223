SPECIFICATION Spec
CONSTANTS
  None = None
  Procs = {1, 2, 3, 4, 5, 6}
  Overlapping = FALSE
  MaxRequests = 2
  MaxFaults = 1
  MaxUnwritten = 1
VIEW Readable
CHECK_DEADLOCK FALSE
INVARIANTS
  StoppedMeansGone
  NothingIsLost
  StatusIsTruthful
PROPERTIES
  EverythingEnds
  StaleIsResolved
