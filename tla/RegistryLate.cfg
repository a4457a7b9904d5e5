\* One zone server: the branch of OnServerLogin for a registered server.
CONSTANTS
  z1 = z1
  z2 = z2
  Zones <- OneZone
  FactionZones = {}
  NoZone = NoZone
  NoServer = NoServer
  MaxLinks = 2
  MaxQueries = 1
  MaxFlight = 1
  MaxRestarts = 0
SPECIFICATION Spec
PROPERTY UnregisteredAtItsEnd
CHECK_DEADLOCK FALSE
