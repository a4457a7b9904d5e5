\* Two senders of different kinds; the counter comes round after two messages.
CONSTANTS
  s1 = s1
  s2 = s2
  Senders <- TwoSenders
  KindOf <- DistinctKinds
  MaxId = 2
  MaxSize = 2
  MaxSent = 3
  MaxFlight = 3
  MaxLosses = 1
SPECIFICATION Spec
INVARIANTS
  TypeOK
  OnlyReuseMixes
  WholeMessages
  NothingLeft
PROPERTY Arrives
CHECK_DEADLOCK FALSE
