SPECIFICATION Spec
CONSTANTS
  LastGame = 2
  LastView = 2
CHECK_DEADLOCK FALSE
INVARIANTS
  NothingAfterTheFirst
  ResultsBelong
PROPERTIES
  OneGenerationPerGame
  SelectionIsServed
