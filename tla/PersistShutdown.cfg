\* The assertion of dpl.cpp:320.
CONSTANTS
  a1 = a1
  a2 = a2
  s1 = s1
  s2 = s2
  Accounts <- OneAccount
  Servers <- OneServer
  NoServer = NoServer
  NoRow = NoRow
  NoAccount = NoAccount
  NoUnit = NoUnit
  LateSaves = FALSE
  MaxVersion = 2
  MaxBacklog = 2
  MaxFailures = 1
  MaxCrashes = 0
SPECIFICATION Spec
INVARIANT NothingUnsavedAtEnd
