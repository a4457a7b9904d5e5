\* NetAccountCheckModule.cpp:17, with the objects zone servers create.
CONSTANTS
  a1 = a1
  a2 = a2
  l1 = l1
  l2 = l2
  l3 = l3
  l4 = l4
  Accounts <- OneAccount
  Links <- OneLink
  NoAccount = NoAccount
  Gm = {}
  Kinds <- KindCreated
  MaxPlayerLimit = 1
  MaxCounter = 1
SPECIFICATION Spec
PROPERTY EntryLeavesList
CHECK_DEADLOCK FALSE
