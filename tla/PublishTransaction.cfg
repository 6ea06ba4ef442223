SPECIFICATION Spec
CONSTANTS
  a = a
  b = b
  missing = missing
  FileCount = 3
  Contents <- MCContents
  Absent <- missing
  MaxForeign = 2
SYMMETRY Symmetry
INVARIANTS
  EveryCrashIsRecoverable
PROPERTIES
  AllOrNothing
  LiveMovesUnderJournal
  ForeignIsNotOverwritten
