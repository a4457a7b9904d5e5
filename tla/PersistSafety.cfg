\* One account, two login servers, saves from anyone.
CONSTANTS
  a1 = a1
  a2 = a2
  s1 = s1
  s2 = s2
  Accounts <- OneAccount
  Servers <- TwoServers
  NoServer = NoServer
  NoRow = NoRow
  NoAccount = NoAccount
  NoUnit = NoUnit
  LateSaves = TRUE
  MaxVersion = 3
  MaxBacklog = 2
  MaxFailures = 1
  MaxCrashes = 1
SYMMETRY ServerSymmetry
SPECIFICATION Spec
INVARIANTS
  TypeOK
  CleanIsStored
  GrantHoldsLock
PROPERTIES
  NeverOlder
  OnlyFailureStrands
  ImplementsStore
