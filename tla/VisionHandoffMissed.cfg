SPECIFICATION Spec
CONSTANTS
  MaxCatalog = 2
  MaxGames = 0
  MaxFaults = 0
  MaxToggles = 1
PROPERTIES
  NewestIsAdopted
