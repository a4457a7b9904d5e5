\* Two zone servers, three links, one restart of the login server.
CONSTANTS
  z1 = z1
  z2 = z2
  Zones <- TwoZones
  FactionZones <- OneZone
  NoZone = NoZone
  NoServer = NoServer
  MaxLinks = 3
  MaxQueries = 1
  MaxFlight = 1
  MaxRestarts = 1
SPECIFICATION Spec
INVARIANTS
  TypeOK
  OneEntryPerServer
  EntryIsCurrent
  AnswersTaken
  FactionKnown
PROPERTY RegisteredAgain
CHECK_DEADLOCK FALSE
