SPECIFICATION Spec
CONSTANTS
  MaxCatalog = 3
  MaxGames = 2
  MaxFaults = 1
  MaxToggles = 3
 
PROPERTY NothingNewerInGame
PROPERTY PendingIsSettled
VIEW Decisive
