\* A queue of one is full as soon as an action waits behind the running one, so a
\* pending recheck meets a full queue.
SPECIFICATION Spec
CONSTANTS
  QueueMax = 1
  MaxSubmits = 4
  NoAction = NoAction
INVARIANTS
  AcceptedRefreshIsCarried
  LastSettingWins
PROPERTIES
  NothingBeginsAfterDrain
  AcceptedRefreshRuns
  EverythingEnds
CHECK_DEADLOCK FALSE
