\* Two callers: one refreshes, one waits.
SPECIFICATION Spec
CONSTANT Callers = {1, 2}
CHECK_DEADLOCK FALSE
INVARIANTS
  ForcedSourcesAreCarried
  StopReachesWorkers
  RetentionIsTried
  WaitersShareTheRun
PROPERTIES
  EverythingEnds
