\* Two accounts, four links, two places, reports that may or may not come.
CONSTANTS
  a1 = a1
  a2 = a2
  l1 = l1
  l2 = l2
  l3 = l3
  l4 = l4
  Accounts <- TwoAccounts
  Links <- FourLinks
  NoAccount = NoAccount
  Gm = {}
  Kinds <- AnyKind
  MaxPlayerLimit = 2
  MaxCounter = 2
SPECIFICATION Spec
INVARIANTS
  TypeOK
  WaitersQueued
  OneLogin
PROPERTY QueueMoves
CHECK_DEADLOCK FALSE
