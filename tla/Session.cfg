\* Up to three links, two accounts and two faults on two login servers, but not all at once.
CONSTANTS
  a1 = a1
  a2 = a2
  s1 = s1
  s2 = s2
  z1 = z1
  z2 = z2
  z3 = z3
  l1 = l1
  l2 = l2
  l3 = l3
  Accounts <- TwoAccounts
  Servers <- TwoServers
  Zones <- ThreeZones
  Links <- ThreeLinks
  ServerOf <- Layout
  NoServer = NoServer
  NoZone = NoZone
  NoPlayer = NoPlayer
  NoUnit = NoUnit
  NoQuery = NoQuery
  NoLogin = NoLogin
  NoVisit = NoVisit
  MaxClock = 2
  MaxFlight = 1
  MaxFaults = 2
  MaxEffort = 4
SYMMETRY Symmetry
SPECIFICATION Spec
INVARIANTS
  TypeOK
  SessionHoldsRow
  SavesAreOwned
  BeginsWithLast
  OnePlayer
  OwnCharacter
CHECK_DEADLOCK FALSE
