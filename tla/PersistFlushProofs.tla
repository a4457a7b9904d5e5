------------------------- MODULE PersistFlushProofs -------------------------
(***************************************************************************)
(* What holds in PersistLayer of the lock of a cached account and of the   *)
(* update queue, for any accounts, servers and bounds: an account is       *)
(* locked for the server it is cached for, only a failed save strands a    *)
(* logout, and a backup and a shutdown write every unit.                   *)
(*                                                                         *)
(* The events of an account need not all be for the server it is cached    *)
(* for: an event outlives the unit it was made for.  The save of such an   *)
(* event fails without a failing call.  But it is older than the unit, so  *)
(* the event of the unit's own server still waits behind it.               *)
(***************************************************************************)
EXTENDS PersistProofs

-----------------------------------------------------------------------------
(* How a step changes a unit.                                              *)

(* The unit was saved by a login server, or read from the database.        *)
SavedNow(a) ==
  \E s \in Servers, flag \in StoreFlags :
    /\ SaveIntoCache(a, s, flag)
    /\ cacheMap'[a] = SavedUnit(a, s, flag, clock[a] + 1)

LoadedNow(a) ==
  /\ LoadIntoCache /\ query.account = a /\ ~Cached(a)
  /\ cacheMap'[a].serverId = query.serverId
  /\ ~cacheMap'[a].modified /\ ~cacheMap'[a].removeMe

(* Or the persistent thread, or time, edited it: not its server.           *)
EditedNow(a) ==
  /\ Cached(a)
  /\ cacheMap'[a].serverId = cacheMap[a].serverId
  /\ cacheMap'[a].storeFlag = cacheMap[a].storeFlag \/ cacheMap'[a].storeFlag = "LOGOUT"
  /\ \/ cacheMap'[a].removeMe = cacheMap[a].removeMe
     \/ /\ ExecuteUnlock /\ query.account = a /\ cacheMap[a].serverId = query.serverId
        /\ cacheMap'[a].storeFlag = "LOGOUT"
  /\ \/ cacheMap'[a].modified = cacheMap[a].modified
     \/ PopTake /\ Head(updateQueue).id = a /\ ~cacheMap'[a].modified
     \/ FinishFailed /\ ue.id = a

LEMMA SameUnit ==
  ASSUME NEW a \in Accounts, Cached(a)', cacheMap'[a] = cacheMap[a]
  PROVE  EditedNow(a)
BY DEF Cached, EditedNow

LEMMA SaveChanges ==
  ASSUME TypeInv, NEW b \in Accounts, NEW s \in Servers, NEW flag \in StoreFlags,
         SaveIntoCache(b, s, flag), NEW a \in Accounts, Cached(a)'
  PROVE  (a = b /\ SavedNow(a)) \/ EditedNow(a)
<1>1. cacheMap' = [cacheMap EXCEPT ![b] = SavedUnit(b, s, flag, clock[b] + 1)]
  BY DEF SaveIntoCache
<1>2. CASE a = b
  BY <1>1, <1>2 DEF SavedNow, TypeInv, TypeOK
<1>3. CASE a # b
  BY <1>1, <1>3, SameUnit DEF TypeInv, TypeOK
<1> QED  BY <1>2, <1>3

LEMMA AgeChanges ==
  ASSUME TypeInv, NEW b \in Accounts, Age(b), NEW a \in Accounts, Cached(a)'
  PROVE  EditedNow(a)
<1>1. cacheMap' = [cacheMap EXCEPT ![b].recent = FALSE] /\ Cached(b)
  BY DEF Age
<1>2. CASE a = b
  <2>1. cacheMap[a] \in CacheUnit /\ cacheMap'[a] = [cacheMap[a] EXCEPT !.recent = FALSE]
    BY <1>1, <1>2 DEF Cached, TypeInv, TypeOK
  <2> QED  BY <1>1, <1>2, <2>1 DEF EditedNow, CacheUnit
<1>3. CASE a # b
  BY <1>1, <1>3, SameUnit DEF TypeInv, TypeOK
<1> QED  BY <1>2, <1>3

LEMMA UnlockChanges ==
  ASSUME TypeInv, ExecuteUnlock, NEW a \in Accounts, Cached(a)'
  PROVE  EditedNow(a)
<1>1. CASE /\ query.account = a /\ Cached(a)
           /\ cacheMap[a].serverId = query.serverId
  <2>1. cacheMap' = MarkRemoved(a)
    BY <1>1 DEF ExecuteUnlock
  <2>2. cacheMap[a] \in CacheUnit
    BY <1>1 DEF Cached, TypeInv, TypeOK
  <2>3. cacheMap'[a] = [cacheMap[a] EXCEPT !.removeMe = TRUE, !.storeFlag = "LOGOUT"]
    BY <2>1, <2>2 DEF MarkRemoved, TypeInv, TypeOK
  <2> QED  BY <1>1, <2>2, <2>3 DEF EditedNow, CacheUnit
<1>2. CASE ~(/\ query.account = a /\ Cached(a)
             /\ cacheMap[a].serverId = query.serverId)
  <2>1. cacheMap'[a] = cacheMap[a]
    <3>1. CASE UNCHANGED cacheVars
      BY <3>1 DEF cacheVars
    <3>2. CASE ~UNCHANGED cacheVars
      BY <1>2, <3>2 DEF ExecuteUnlock, MarkRemoved, Cached, TypeInv, TypeOK
    <3> QED  BY <3>1, <3>2
  <2> QED  BY <2>1, SameUnit
<1> QED  BY <1>1, <1>2

LEMMA LoadChanges ==
  ASSUME TypeInv, LoadIntoCache, NEW a \in Accounts, Cached(a)'
  PROVE  LoadedNow(a) \/ EditedNow(a)
<1>1. CASE query.account = a /\ ~Cached(a)
  <2>1. \E flag \in StoreFlags :
          cacheMap' = [cacheMap EXCEPT ![a] =
            [data |-> loaded, storeFlag |-> flag, serverId |-> query.serverId,
             modified |-> FALSE, removeMe |-> FALSE, recent |-> TRUE]]
    BY <1>1 DEF LoadIntoCache
  <2> QED  BY <1>1, <2>1 DEF LoadedNow, TypeInv, TypeOK
<1>2. CASE ~(query.account = a /\ ~Cached(a))
  <2>1. cacheMap'[a] = cacheMap[a]
    BY <1>2 DEF LoadIntoCache, Cached, TypeInv, TypeOK
  <2> QED  BY <2>1, SameUnit
<1> QED  BY <1>1, <1>2

LEMMA TakeChanges ==
  ASSUME TypeInv, PopTake, NEW a \in Accounts, Cached(a)'
  PROVE  EditedNow(a)
<1>1. PICK b \in Accounts : /\ b = Head(updateQueue).id /\ Cached(b)
                            /\ cacheMap' = MarkTaken(b)
  BY DEF PopTake, Cached
<1>2. CASE a = b
  <2>1. cacheMap[a] \in CacheUnit
    BY <1>1, <1>2 DEF Cached, TypeInv, TypeOK
  <2>2. cacheMap'[a] = [cacheMap[a] EXCEPT !.modified = FALSE,
                          !.recent = IF cacheMap[a].modified THEN TRUE ELSE @]
    BY <1>1, <1>2 DEF MarkTaken, TypeInv, TypeOK
  <2> QED  BY <1>1, <1>2, <2>1, <2>2 DEF EditedNow, CacheUnit
<1>3. CASE a # b
  <2>1. cacheMap'[a] = cacheMap[a]
    BY <1>1, <1>3 DEF MarkTaken, TypeInv, TypeOK
  <2> QED  BY <2>1, SameUnit
<1> QED  BY <1>2, <1>3

LEMMA FinishChanges ==
  ASSUME TypeInv, FinishRemove \/ FinishFailed, NEW a \in Accounts, Cached(a)'
  PROVE  EditedNow(a)
<1>1. CASE cacheMap'[a] = cacheMap[a]
  BY <1>1, SameUnit
<1>2. CASE cacheMap'[a] # cacheMap[a]
  <2>1. FinishFailed /\ ue.id = a /\ Cached(a)
    BY <1>2 DEF FinishRemove, FinishFailed, Cached, TypeInv, TypeOK
  <2>2. cacheMap[a] \in CacheUnit /\ cacheMap'[a] = Unsaved(cacheMap[a])
    BY <2>1 DEF FinishFailed, Cached, TypeInv, TypeOK
  <2> QED  BY <2>1, <2>2 DEF EditedNow, Unsaved, CacheUnit
<1> QED  BY <1>1, <1>2

LEMMA UnitStep ==
  ASSUME TypeInv, [Next]_vars, NEW a \in Accounts, Cached(a)'
  PROVE  SavedNow(a) \/ LoadedNow(a) \/ EditedNow(a)
<1>1. CASE UNCHANGED cacheMap
  BY <1>1, SameUnit
<1>2. CASE Restart \/ Crash
  BY <1>2 DEF Restart, Crash, StartAgain, EmptyCache, Cached
<1>3. CASE \/ \E q \in Query : SubmitQuery(q)
           \/ BackupStart \/ MainBackup \/ ExitServer
           \/ LoopTest \/ ServiceDone \/ TakeQuery \/ ListCached \/ IgnoreCached
           \/ PopEmpty \/ PopMark \/ PopDrop \/ UNCHANGED vars
  BY <1>1, <1>3, UntouchedSteps DEF Untouched
<1>4. CASE \/ GoToDatabase \/ ListInDatabase \/ CreateInDatabase \/ SelectInDatabase
           \/ DeletePlayer \/ SaveToDB \/ FinishKeep
  BY <1>1, <1>4 DEF GoToDatabase, ListInDatabase, CreateInDatabase, SelectInDatabase,
     DeletePlayer, SaveToDB, FinishKeep, cacheVars
<1> QED
  BY <1>2, <1>3, <1>4, SaveChanges, AgeChanges, UnlockChanges, LoadChanges, TakeChanges,
     FinishChanges
     DEF Next, Environment, MainMessages, PersistentThread, ExecuteQuery

-----------------------------------------------------------------------------
(* The lock.  A save may come from the server that holds the account only: *)
(* LoginSession shows that it does.                                        *)

(* How a step changes the row of an account that is and stays cached: it   *)
(* is never unlocked, and never loses its character.                       *)
RowKept(a) == /\ row'[a].serverId = row[a].serverId
              /\ row[a].data # 0 => row'[a].data # 0

LEMMA RequestsKeepRow ==
  ASSUME TypeInv, IInv, NEW a \in Accounts, Cached(a), row[a].serverId \in Servers,
         ListInDatabase \/ CreateInDatabase \/ SelectInDatabase
  PROVE  RowKept(a)
<1>1. PICK b \in Accounts, s \in Servers : b = query.account /\ s = query.serverId
  BY DEF ListInDatabase, CreateInDatabase, SelectInDatabase, IInv, InvQuery,
     Executing, Query
<1>2. clock[a] # 0 /\ row[a].serverId \notin {NoServer, NoRow}
  BY PersistAssumption DEF IInv, InvOrder, InOrder
<1>3. \/ row' = row
      \/ row' = LockRow(b, s) /\ (Lockable(b, s) \/ row[b].serverId = NoRow)
      \/ /\ \E v \in {0, 1} : row' = [row EXCEPT ![b] = [serverId |-> s, data |-> v]]
         /\ row[b].serverId = NoRow \/ clock[b] = 0
  BY <1>1 DEF ListInDatabase, CreateInDatabase, SelectInDatabase, CreateRow, FreeName
<1>4. CASE row' = row
  BY <1>4 DEF RowKept
<1>5. CASE row' = LockRow(b, s) /\ (Lockable(b, s) \/ row[b].serverId = NoRow)
  BY <1>2, <1>5 DEF RowKept, LockRow, Lockable, TypeInv, TypeOK, Row
<1>6. CASE /\ \E v \in {0, 1} : row' = [row EXCEPT ![b] = [serverId |-> s, data |-> v]]
           /\ row[b].serverId = NoRow \/ clock[b] = 0
  <2>1. a # b
    BY <1>2, <1>6 DEF IInv, InvOrder, InOrder
  <2> QED  BY <1>6, <2>1 DEF RowKept, TypeInv, TypeOK
<1> QED  BY <1>3, <1>4, <1>5, <1>6

LEMMA RowStep ==
  ASSUME TypeInv, IInv, [Next]_vars, NEW a \in Accounts, Cached(a), Cached(a)',
         row[a].serverId \in Servers
  PROVE  RowKept(a)
<1>1. CASE UNCHANGED row
  BY <1>1 DEF RowKept
<1>2. CASE ListInDatabase \/ CreateInDatabase \/ SelectInDatabase
  BY <1>2, RequestsKeepRow
<1>3. CASE DeletePlayer
  <2>1. row'[a] = row[a]
    BY <1>3 DEF DeletePlayer, DeleteRow, TypeInv, TypeOK
  <2> QED  BY <2>1 DEF RowKept
<1>4. CASE SaveToDB
  <2>1. row' = row \/ (row' = WrittenRow /\ cu.modified /\ pc = "Save")
    BY <1>4 DEF SaveToDB
  <2>2. CASE row' = WrittenRow /\ cu.modified /\ pc = "Save"
    <3>1. row[ue.id].data <= cu.data
      BY <2>2 DEF IInv, InvOrder
    <3>2. CASE ue.id = a
      <4>1. row'[a].data = cu.data /\ row'[a].serverId = row[a].serverId
        BY <2>2, <3>2 DEF WrittenRow, TypeInv, TypeOK, Row
      <4>2. row[a].data \in Nat /\ cu.data \in Nat
        BY DEF TypeInv, TypeOK, Row, Snapshot
      <4> QED  BY <3>1, <3>2, <4>1, <4>2 DEF RowKept
    <3>3. CASE ue.id # a
      BY <2>2, <3>3 DEF RowKept, WrittenRow, TypeInv, TypeOK
    <3> QED  BY <3>2, <3>3
  <2> QED  BY <1>1, <2>1, <2>2
<1>5. CASE FinishRemove
  <2>1. ue.id # a
    BY <1>5 DEF FinishRemove, Cached, TypeInv, TypeOK
  <2> QED  BY <1>5, <2>1 DEF FinishRemove, UnlockRow, RowKept, TypeInv, TypeOK
<1>6. CASE \/ \E q \in Query : SubmitQuery(q)
           \/ BackupStart \/ MainBackup \/ ExitServer
           \/ LoopTest \/ ServiceDone \/ TakeQuery \/ ListCached \/ IgnoreCached
           \/ PopEmpty \/ PopMark \/ PopDrop \/ UNCHANGED vars
  BY <1>1, <1>6, UntouchedSteps DEF Untouched
<1>7. CASE \/ \E b \in Accounts : Age(b)
           \/ \E b \in Accounts, s \in Servers, flag \in StoreFlags : SaveIntoCache(b, s, flag)
           \/ Restart \/ Crash
  BY <1>1, <1>7 DEF Age, SaveIntoCache, Restart, Crash, StartAgain
<1>8. CASE \/ ExecuteUnlock \/ GoToDatabase \/ LoadIntoCache \/ PopTake
           \/ FinishKeep \/ FinishFailed
  BY <1>1, <1>8 DEF ExecuteUnlock, GoToDatabase, LoadIntoCache, PopTake, FinishKeep,
     FinishFailed
<1> QED
  BY <1>2, <1>3, <1>4, <1>5, <1>6, <1>7, <1>8
     DEF Next, Environment, MainMessages, PersistentThread, ExecuteQuery

(* A cached account is locked for its server, and has its character.       *)
OwnerInv == LockHeld /\ \A a \in Accounts : Cached(a) => row[a].data # 0

LEMMA OwnerInit == Init => OwnerInv
BY DEF Init, OwnerInv, LockHeld, Cached, EmptyCache

LEMMA OwnerNext ==
  ASSUME ~LateSaves, TypeInv, IInv, OwnerInv, [Next]_vars
  PROVE  OwnerInv'
<1> SUFFICES ASSUME NEW a \in Accounts, Cached(a)'
             PROVE  row'[a].serverId = cacheMap'[a].serverId /\ row'[a].data # 0
  BY DEF OwnerInv, LockHeld
<1>1. Cached(a) => /\ cacheMap[a] \in CacheUnit
                   /\ row[a].serverId = cacheMap[a].serverId
                   /\ row[a].serverId \in Servers /\ row[a].data # 0
  BY DEF Cached, OwnerInv, LockHeld, TypeInv, TypeOK, CacheUnit
<1>2. Cached(a) => row'[a].serverId = row[a].serverId /\ row'[a].data # 0
  BY <1>1, RowStep DEF RowKept
<1>3. CASE SavedNow(a)
  BY <1>1, <1>3 DEF SavedNow, SaveIntoCache, SavedUnit
<1>4. CASE LoadedNow(a)
  <2>1. row' = row /\ row[a].serverId = query.serverId /\ row[a].data # 0
    BY <1>4 DEF LoadedNow, LoadIntoCache, IInv, InvQuery
  <2> QED  BY <1>4, <2>1 DEF LoadedNow
<1>5. CASE EditedNow(a)
  BY <1>1, <1>2, <1>5 DEF EditedNow
<1> QED  BY <1>3, <1>4, <1>5, UnitStep

LEMMA OwnerAlways ==
  ASSUME ~LateSaves
  PROVE  Spec => [](TypeInv /\ IInv /\ OwnerInv)
<1>1. Init => OwnerInv
  BY OwnerInit
<1>2. TypeInv /\ IInv /\ OwnerInv /\ [Next]_vars => OwnerInv'
  BY OwnerNext
<1> QED  BY <1>1, <1>2, Invariant, PTL DEF Spec

(* While an account is cached its row is locked by the server it is cached *)
(* for, through restarts, failed unlocks, and requests that run between a  *)
(* cache check and a database call; provided a save comes from the server  *)
(* that holds the account, which SavesComeFromOwners of SessionProofs      *)
(* proves of the login servers.                                            *)
THEOREM LockIsHeld ==
  ASSUME ~LateSaves
  PROVE  Spec => []LockHeld
<1>1. OwnerInv => LockHeld
  BY DEF OwnerInv
<1> QED  BY <1>1, OwnerAlways, PTL

-----------------------------------------------------------------------------
(* The update queue.  EventOf(a) is the event a's unit is written by.      *)
EventOf(a) == [id |-> a, serverId |-> cacheMap[a].serverId]

(* _SaveAll queues the events of the changed units, and no others.         *)
LEMMA SaveAllEvents ==
  ASSUME TypeOK, SaveAll
  PROVE  \E s \in Seq(UpdateEvent) :
           /\ updateQueue' = updateQueue \o s
           /\ \A i \in 1..Len(s) : s[i].id \in DirtyAccounts /\ s[i] = EventOf(s[i].id)
           /\ \A a \in DirtyAccounts : \E i \in 1..Len(s) : s[i] = EventOf(a)
<1> DEFINE n == Cardinality(DirtyAccounts)
<1>1. n \in Nat
  BY PersistAssumption, FS_Subset, FS_CardinalityType DEF DirtyAccounts
<1>2. PICK order \in Bijection(1..n, DirtyAccounts) :
        updateQueue' = updateQueue \o
          [i \in 1..n |-> [id |-> order[i], serverId |-> cacheMap[order[i]].serverId]]
  BY DEF SaveAll
<1> DEFINE s == [i \in 1..n |-> [id |-> order[i], serverId |-> cacheMap[order[i]].serverId]]
<1> HIDE DEF n
<1>3. /\ \A i \in 1..n : order[i] \in DirtyAccounts
      /\ \A a \in DirtyAccounts : \E i \in 1..n : order[i] = a
  BY <1>2 DEF Bijection, Injection, Surjection, IsInjective
<1>4. \A a \in DirtyAccounts : EventOf(a) \in UpdateEvent
  BY DEF DirtyAccounts, Cached, TypeOK, UpdateEvent, CacheUnit, EventOf
<1>5. \A i \in 1..n : s[i] = EventOf(order[i]) /\ s[i].id = order[i]
  BY DEF EventOf
<1>6. s \in Seq(UpdateEvent) /\ Len(s) = n
  BY <1>1, <1>3, <1>4, <1>5
<1>7. /\ \A i \in 1..Len(s) : s[i].id \in DirtyAccounts /\ s[i] = EventOf(s[i].id)
      /\ \A a \in DirtyAccounts : \E i \in 1..Len(s) : s[i] = EventOf(a)
  <2> HIDE DEF s
  <2> QED  BY <1>3, <1>5, <1>6
<1> QED  BY <1>2, <1>6, <1>7

(* One event is added, or two.                                             *)
LEMMA AppendIsConcat ==
  ASSUME NEW S, NEW q \in Seq(S), NEW e \in S
  PROVE  Append(q, e) = q \o <<e>> /\ <<e>> \in Seq(S)
OBVIOUS

LEMMA PushMarkEvents ==
  ASSUME TypeOK, PushMark
  PROVE  \E s \in Seq(UpdateEvent) :
           /\ updateQueue' = updateQueue \o s
           /\ s = <<>> \/ s = <<BackupMark>>
                \/ \E a \in Accounts, t \in Servers :
                     s = <<BackupMark, [id |-> a, serverId |-> t]>>
<1>1. BackupMark \in UpdateEvent
  BY DEF BackupMark, UpdateEvent
<1>2. \A a \in Accounts, t \in Servers : [id |-> a, serverId |-> t] \in UpdateEvent
  BY DEF UpdateEvent
<1>3. updateQueue \in Seq(UpdateEvent)
  BY DEF TypeOK
<1>4. CASE updateQueue' = Append(updateQueue, BackupMark)
  BY <1>1, <1>3, <1>4, AppendIsConcat
<1>5. CASE UNCHANGED updateQueue
  <2>1. updateQueue' = updateQueue \o <<>> /\ <<>> \in Seq(UpdateEvent)
    BY <1>3, <1>5
  <2> QED  BY <2>1
<1>6. CASE \E a \in Accounts, t \in Servers :
             updateQueue' = updateQueue \o <<BackupMark, [id |-> a, serverId |-> t]>>
  <2>1. PICK a \in Accounts, t \in Servers :
          updateQueue' = updateQueue \o <<BackupMark, [id |-> a, serverId |-> t]>>
    BY <1>6
  <2>2. \A e \in UpdateEvent : <<BackupMark, e>> \in Seq(UpdateEvent)
    BY <1>1
  <2> QED  BY <1>2, <2>1, <2>2
<1> QED  BY <1>4, <1>5, <1>6 DEF PushMark

(* A step adds events at the end, takes the first, or forgets them all.    *)
(* But for the mark of a backup, what it adds is for the server the        *)
(* account is cached for, or comes with a save.                            *)
OwnEvents(s) ==
  \A i \in 1..Len(s) : /\ s[i].id \in Accounts
                       /\ s[i] = EventOf(s[i].id) \/ SavedNow(s[i].id)

Grows ==
  \E s \in Seq(UpdateEvent) : /\ updateQueue' = updateQueue \o s
                              /\ BackupPushMark \/ OwnEvents(s)

LEMMA QueueStep ==
  ASSUME TypeInv, [Next]_vars
  PROVE  \/ UNCHANGED updateQueue
         \/ Grows
         \/ /\ PopMark \/ PopDrop \/ PopTake
            /\ updateQueue # <<>> /\ updateQueue' = Tail(updateQueue)
         \/ Restart \/ Crash
<1> USE DEF TypeInv
<1>1. ASSUME NEW a \in Accounts, NEW s \in Servers, NEW flag \in StoreFlags,
             SaveIntoCache(a, s, flag)
      PROVE  Grows
  <2>1. PICK e \in UpdateEvent : /\ e.id = a
                                 /\ updateQueue' = Append(updateQueue, e)
    BY <1>1 DEF SaveIntoCache, UpdateEvent
  <2>2. SavedNow(a)
    BY <1>1 DEF SaveIntoCache, SavedNow, TypeOK
  <2>3. OwnEvents(<<e>>)
    BY <2>1, <2>2 DEF OwnEvents
  <2>4. updateQueue \in Seq(UpdateEvent)
    BY DEF TypeOK
  <2> QED  BY <2>1, <2>3, <2>4, AppendIsConcat DEF Grows
<1>2. CASE ExecuteUnlock
  <2>1. CASE UNCHANGED updateQueue
    BY <2>1
  <2>2. CASE ~UNCHANGED updateQueue
    <3>1. /\ Cached(query.account) /\ cacheMap[query.account].serverId = query.serverId
          /\ updateQueue' = Append(updateQueue,
                                   [id |-> query.account, serverId |-> query.serverId])
      BY <1>2, <2>2 DEF ExecuteUnlock, cacheVars
    <3>2. PICK e \in UpdateEvent : /\ e = EventOf(e.id) /\ e.id \in Accounts
                                   /\ updateQueue' = Append(updateQueue, e)
      BY <3>1 DEF Cached, CacheUnit, UpdateEvent, EventOf, TypeOK
    <3>3. OwnEvents(<<e>>)
      BY <3>2 DEF OwnEvents
    <3>4. updateQueue \in Seq(UpdateEvent)
      BY DEF TypeOK
    <3> QED  BY <3>2, <3>3, <3>4, AppendIsConcat DEF Grows
  <2> QED  BY <2>1, <2>2
<1>3. CASE BackupSaveAll \/ ExitServer
  <2>1. PICK s \in Seq(UpdateEvent) :
          /\ updateQueue' = updateQueue \o s
          /\ \A i \in 1..Len(s) : s[i].id \in DirtyAccounts /\ s[i] = EventOf(s[i].id)
    BY <1>3, SaveAllEvents DEF BackupSaveAll, ExitServer
  <2>2. OwnEvents(s)
    BY <2>1 DEF OwnEvents, DirtyAccounts
  <2> QED  BY <2>1, <2>2 DEF Grows
<1>4. CASE BackupPushMark
  BY <1>4, PushMarkEvents DEF BackupPushMark, Grows
<1>5. CASE PopMark \/ PopDrop \/ PopTake
  BY <1>5 DEF PopMark, PopDrop, PopTake
<1>6. CASE \/ \E q \in Query : SubmitQuery(q)
           \/ \E a \in Accounts : Age(a)
           \/ BackupStart \/ BackupEnd
  BY <1>6 DEF SubmitQuery, Age, BackupStart, BackupEnd, cacheVars
<1>7. CASE \/ LoopTest \/ ServiceDone \/ TakeQuery \/ ListCached \/ IgnoreCached
           \/ GoToDatabase \/ ListInDatabase \/ CreateInDatabase \/ SelectInDatabase
           \/ LoadIntoCache \/ DeletePlayer
  BY <1>7 DEF LoopTest, ServiceDone, TakeQuery, ListCached, IgnoreCached, GoToDatabase,
     ListInDatabase, CreateInDatabase, SelectInDatabase, LoadIntoCache, DeletePlayer,
     cacheVars
<1>8. CASE PopEmpty \/ SaveToDB \/ FinishRemove \/ FinishKeep \/ FinishFailed \/ UNCHANGED vars
  BY <1>8 DEF PopEmpty, SaveToDB, FinishRemove, FinishKeep, FinishFailed, vars, cacheVars
<1> QED
  BY <1>1, <1>2, <1>3, <1>4, <1>5, <1>6, <1>7, <1>8
     DEF Next, Environment, MainMessages, MainBackup, PersistentThread, ExecuteQuery

(* An event waits until it is taken.                                       *)
LEMMA EventKept ==
  ASSUME TypeInv, [Next]_vars, NEW a \in Accounts, EventWaits(a), ~EventWaits(a)'
  PROVE  /\ PopDrop \/ PopTake \/ Restart \/ Crash
         /\ PopDrop \/ PopTake => updateQueue # <<>> /\ Head(updateQueue).id = a
<1>1. updateQueue \in Seq(UpdateEvent)
  BY DEF TypeInv, TypeOK
<1>2. PICK i \in 1..Len(updateQueue) : updateQueue[i].id = a
  BY <1>1 DEF EventWaits
<1>3. ~Grows
  <2> SUFFICES ASSUME NEW s \in Seq(UpdateEvent), updateQueue' = updateQueue \o s
               PROVE  FALSE
    BY DEF Grows
  <2>1. i \in DOMAIN updateQueue' /\ updateQueue'[i] = updateQueue[i]
    BY <1>1, <1>2
  <2> QED  BY <1>2, <2>1 DEF EventWaits
<1>4. CASE /\ PopMark \/ PopDrop \/ PopTake
           /\ updateQueue # <<>> /\ updateQueue' = Tail(updateQueue)
  <2>1. i = 1
    <3> SUFFICES ASSUME i # 1
                 PROVE  FALSE
      OBVIOUS
    <3>1. i - 1 \in DOMAIN updateQueue' /\ updateQueue'[i - 1] = updateQueue[i]
      BY <1>1, <1>2, <1>4
    <3> QED  BY <1>2, <3>1 DEF EventWaits
  <2>2. Head(updateQueue) = updateQueue[1]
    BY <1>1, <1>4
  <2>3. ~PopMark
    BY <1>2, <2>1, <2>2, PersistAssumption DEF PopMark, BackupMark
  <2> QED  BY <1>2, <1>4, <2>1, <2>2, <2>3
<1>5. CASE UNCHANGED updateQueue
  BY <1>2, <1>5 DEF EventWaits
<1>6. CASE Restart \/ Crash
  <2>1. ~PopDrop /\ ~PopTake
    BY <1>6 DEF PopDrop, PopTake, Popping, Restart, Crash, StartAgain
  <2> QED  BY <1>6, <2>1
<1> QED  BY <1>3, <1>4, <1>5, <1>6, QueueStep

-----------------------------------------------------------------------------
(* Logouts.  A unit that should leave was marked by a logout; a unit that  *)
(* is changed while the thread saves it has a new event.                   *)
LogoutInv ==
  /\ pc # "Finish" => result
  /\ \A a \in Accounts :
       /\ Cached(a) /\ cacheMap[a].removeMe => cacheMap[a].storeFlag = "LOGOUT"
       /\ Cached(a) /\ InHand(a) /\ cacheMap[a].modified => EventWaits(a)

LEMMA LogoutInit == Init => LogoutInv
BY DEF Init, LogoutInv, Cached, EmptyCache

(* The thread keeps its copy until it is done with it.                     *)
LEMMA JobStep ==
  ASSUME TypeInv, [Next]_vars
  PROVE  \/ UNCHANGED <<pc, jobVars>> /\ ~PopTake
         \/ pc \notin {"Save", "Finish"} /\ pc' \notin {"Save", "Finish"}
              /\ UNCHANGED jobVars /\ ~PopTake
         \/ PopTake \/ SaveToDB
         \/ FinishRemove \/ FinishKeep \/ FinishFailed \/ Restart \/ Crash
<1>1. ASSUME \/ \E q \in Query : SubmitQuery(q)
             \/ \E a \in Accounts, s \in Servers, flag \in StoreFlags :
                  SaveIntoCache(a, s, flag)
             \/ \E a \in Accounts : Age(a)
             \/ BackupStart \/ MainBackup \/ ExitServer \/ UNCHANGED vars
      PROVE  UNCHANGED <<pc, jobVars>>
  BY <1>1 DEF SubmitQuery, SaveIntoCache, Age, BackupStart, MainBackup, BackupSaveAll,
     BackupPushMark, BackupEnd, ExitServer, vars
<1>2. ASSUME \/ LoopTest \/ ServiceDone \/ TakeQuery
             \/ PopEmpty \/ PopMark \/ PopDrop
      PROVE  pc \notin {"Save", "Finish"} /\ pc' \notin {"Save", "Finish"}
               /\ UNCHANGED jobVars
  BY <1>2 DEF LoopTest, ServiceDone, TakeQuery, PopEmpty, PopMark, PopDrop, Popping
<1>3. ASSUME \/ ExecuteUnlock \/ ListCached \/ IgnoreCached \/ GoToDatabase
             \/ ListInDatabase \/ CreateInDatabase \/ SelectInDatabase
             \/ LoadIntoCache \/ DeletePlayer
      PROVE  pc \notin {"Save", "Finish"} /\ pc' \notin {"Save", "Finish"}
               /\ UNCHANGED jobVars
  BY <1>3 DEF ExecuteUnlock, ListCached, IgnoreCached, GoToDatabase, ListInDatabase,
     CreateInDatabase, SelectInDatabase, LoadIntoCache, DeletePlayer, QueryDone
<1>4. PopTake \/ ~PopTake
  OBVIOUS
<1> QED
  BY <1>1, <1>2, <1>3, <1>4
     DEF Next, Environment, MainMessages, PersistentThread, ExecuteQuery

(* The unit that is taken is clean, and in hand with what it was.          *)
LEMMA TakeEffect ==
  ASSUME TypeInv, PopTake
  PROVE  \E a \in Accounts :
           /\ updateQueue # <<>> /\ a = Head(updateQueue).id /\ ue' = Head(updateQueue)
           /\ Cached(a) /\ ~cacheMap'[a].modified
           /\ cu'.removeMe = cacheMap[a].removeMe
           /\ cu'.modified = cacheMap[a].modified
           /\ result' = result /\ pc' = "Save" /\ pc \in {"Pop", "Retry"}
<1>1. PICK a \in Accounts : a = Head(updateQueue).id /\ Cached(a) /\ cacheMap' = MarkTaken(a)
  BY DEF PopTake, Cached
<1>2. ~cacheMap'[a].modified
  BY <1>1, UnitEdits DEF TypeInv
<1> QED  BY <1>1, <1>2 DEF PopTake, Popping

(* A save and an unlock leave an event for their account.                  *)
LEMMA NewEvents ==
  ASSUME TypeInv, NEW a \in Accounts,
         SavedNow(a) \/ (/\ ExecuteUnlock /\ query.account = a /\ Cached(a)
                         /\ cacheMap[a].serverId = query.serverId)
  PROVE  EventWaits(a)'
<1>1. PICK s \in Servers :
        updateQueue' = Append(updateQueue, [id |-> a, serverId |-> s])
  BY DEF SavedNow, SaveIntoCache, ExecuteUnlock, TypeInv, TypeOK, Cached, CacheUnit
<1>2. updateQueue \in Seq(UpdateEvent)
  BY DEF TypeInv, TypeOK
<1>3. /\ Len(updateQueue) + 1 \in DOMAIN updateQueue'
      /\ updateQueue'[Len(updateQueue) + 1].id = a
  BY <1>1, <1>2
<1> QED  BY <1>3 DEF EventWaits

LEMMA LogoutNext ==
  ASSUME TypeInv, IInv, LogoutInv, [Next]_vars
  PROVE  LogoutInv'
<1>1. pc' # "Finish" => result'
  BY JobStep DEF LogoutInv, PopTake, Popping, SaveToDB, FinishRemove, FinishKeep,
     FinishFailed, JobDone, Restart, Crash, StartAgain, jobVars
<1>2. ASSUME NEW a \in Accounts, Cached(a)', cacheMap'[a].removeMe
      PROVE  cacheMap'[a].storeFlag = "LOGOUT"
  <2>1. CASE SavedNow(a)
    <3>1. PICK flag \in StoreFlags : /\ cacheMap'[a].storeFlag = flag
                                     /\ cacheMap'[a].removeMe = (flag = "LOGOUT")
      BY <2>1 DEF SavedNow, SavedUnit
    <3>2. flag = "LOGOUT"
      BY <1>2, <3>1
    <3> QED  BY <3>1, <3>2
  <2>2. CASE LoadedNow(a)
    BY <1>2, <2>2 DEF LoadedNow
  <2>3. CASE EditedNow(a)
    BY <1>2, <2>3 DEF EditedNow, LogoutInv
  <2> QED  BY <1>2, <2>1, <2>2, <2>3, UnitStep
<1>3. ASSUME NEW a \in Accounts, Cached(a)', InHand(a)', cacheMap'[a].modified
      PROVE  EventWaits(a)'
  <2>1. CASE SavedNow(a)
    BY <2>1, NewEvents
  <2>2. CASE LoadedNow(a)
    BY <1>3, <2>2 DEF LoadedNow
  <2>3. CASE EditedNow(a)
    <3>1. ~PopTake
      <4> SUFFICES ASSUME PopTake
                   PROVE  FALSE
        OBVIOUS
      <4>1. ue'.id = a
        BY <1>3 DEF InHand
      <4> QED  BY <1>3, <4>1, TakeEffect
    <3>2. ~(FinishRemove \/ FinishKeep \/ FinishFailed \/ Restart \/ Crash)
      BY <1>3 DEF InHand, FinishRemove, FinishKeep, FinishFailed, JobDone, Restart, Crash,
         StartAgain
    <3>3. InHand(a)
      BY <1>3, <3>1, <3>2, JobStep DEF InHand, SaveToDB, jobVars
    <3>4. Cached(a) /\ cacheMap[a].modified
      BY <1>3, <2>3, <3>1, <3>2 DEF EditedNow
    <3>5. EventWaits(a)
      BY <3>3, <3>4 DEF LogoutInv
    <3>6. ~PopDrop /\ ~PopTake
      BY <3>3 DEF InHand, PopDrop, PopTake, Popping
    <3> QED  BY <3>2, <3>5, <3>6, EventKept
  <2> QED  BY <1>3, <2>1, <2>2, <2>3, UnitStep
<1> QED  BY <1>1, <1>2, <1>3 DEF LogoutInv

LEMMA StrandedStep ==
  ASSUME TypeInv, IInv, LogoutInv, [Next]_vars, NEW a \in Accounts, Stranded(a)',
         ~(InHand(a) /\ ~result')
  PROVE  Stranded(a)
<1>1. /\ Cached(a)' /\ cacheMap'[a].removeMe /\ ~EventWaits(a)'
      /\ ~(InHand(a)' /\ result' /\ cu'.removeMe)
  BY DEF Stranded
<1>2. ~Restart /\ ~Crash
  BY <1>1 DEF Restart, Crash, StartAgain, Cached, EmptyCache
<1>3. ~SavedNow(a) /\ ~LoadedNow(a)
  BY <1>1, NewEvents DEF LoadedNow
<1>4. EditedNow(a)
  BY <1>1, <1>3, UnitStep
<1>5. Cached(a) /\ cacheMap[a].removeMe
  BY <1>1, <1>4, NewEvents DEF EditedNow
<1>6. ~EventWaits(a)
  <2> SUFFICES ASSUME EventWaits(a)
               PROVE  FALSE
    OBVIOUS
  <2>1. (PopDrop \/ PopTake) /\ updateQueue # <<>> /\ Head(updateQueue).id = a
    BY <1>1, <1>2, EventKept
  <2>2. CASE PopDrop
    BY <1>5, <2>1, <2>2 DEF PopDrop, Throttled
  <2>3. CASE PopTake
    <3>1. /\ ue'.id = a /\ cu'.removeMe = cacheMap[a].removeMe
          /\ result' = result /\ pc' = "Save" /\ pc # "Finish"
      BY <2>1, <2>3, TakeEffect
    <3>2. result
      BY <3>1 DEF LogoutInv
    <3> QED  BY <1>1, <1>5, <3>1, <3>2 DEF InHand
  <2> QED  BY <2>1, <2>2, <2>3
<1>7. ~(InHand(a) /\ result /\ cu.removeMe)
  <2> SUFFICES ASSUME InHand(a), result, cu.removeMe
               PROVE  FALSE
    OBVIOUS
  <2>1. pc \in {"Save", "Finish"} /\ ue.id = a
    BY DEF InHand
  <2>2. CASE UNCHANGED <<pc, jobVars>>
    BY <1>1, <2>1, <2>2 DEF InHand, jobVars
  <2>3. CASE SaveToDB
    BY <1>1, <2>1, <2>3 DEF InHand, SaveToDB
  <2>4. CASE FinishRemove
    BY <1>1, <2>1, <2>4 DEF FinishRemove, Cached, TypeInv, TypeOK
  <2>5. CASE FinishKeep
    <3>1. cacheMap[a].modified
      BY <1>5, <2>1, <2>5 DEF FinishKeep, MayRemove, LogoutInv
    <3> QED  BY <1>5, <1>6, <3>1 DEF LogoutInv
  <2>6. CASE FinishFailed
    BY <2>6 DEF FinishFailed
  <2>7. ~PopTake
    BY <2>1 DEF PopTake, Popping
  <2> QED  BY <1>2, <2>1, <2>2, <2>3, <2>4, <2>5, <2>6, <2>7, JobStep
<1> QED  BY <1>5, <1>6, <1>7 DEF Stranded

(* Only a failed save strands a logout: no order of saves, requests,       *)
(* backups, pops and crashes leaves a unit in the cache that should leave  *)
(* it and has no event left.                                               *)
THEOREM LogoutsAreNotStranded == Spec => OnlyFailureStrands
<1>1. Init => LogoutInv
  BY LogoutInit
<1>2. TypeInv /\ IInv /\ LogoutInv /\ [Next]_vars => LogoutInv'
  BY LogoutNext
<1>3. TypeInv /\ IInv /\ LogoutInv /\ [Next]_vars =>
        [\A a \in Accounts :
           Stranded(a)' => Stranded(a) \/ (InHand(a) /\ ~result')]_vars
  BY StrandedStep
<1> QED  BY <1>1, <1>2, <1>3, Invariant, PTL DEF Spec, OnlyFailureStrands

-----------------------------------------------------------------------------
(* The order of the queue.  An event behind the mark of a backup is not    *)
(* part of the backup.                                                     *)
Ahead(q, i) == \A j \in 1..i : q[j] # BackupMark

(* The event e waits behind place i, ahead of the mark.                    *)
Follows(q, e, i) == \E k \in 1..Len(q) : k > i /\ q[k] = e /\ Ahead(q, k)

(* Every other event of the account, for another server, is followed by e. *)
Overruled(q, e) ==
  \A i \in 1..Len(q) : q[i].id = e.id /\ q[i] # e /\ Ahead(q, i) => Follows(q, e, i)

HasMark(q) == \E i \in 1..Len(q) : q[i] = BackupMark
OneMark(q) == \A i, j \in 1..Len(q) : q[i] = BackupMark /\ q[j] = BackupMark => i = j

(* What comes at the end, as long as it is of other accounts, equal to e   *)
(* or behind the mark, changes nothing for e.                              *)
LEMMA GrowKeeps ==
  ASSUME NEW q \in Seq(UpdateEvent), NEW s \in Seq(UpdateEvent), NEW e,
         \A i \in 1..Len(s) : s[i].id # e.id \/ s[i] = e \/ ~Ahead(q \o s, Len(q) + i)
  PROVE  /\ \A i \in Nat : Follows(q, e, i) => Follows(q \o s, e, i)
         /\ Overruled(q, e) => Overruled(q \o s, e)
<1> DEFINE p == q \o s
<1>1. /\ Len(q) \in Nat /\ Len(s) \in Nat /\ Len(p) = Len(q) + Len(s)
      /\ \A i \in 1..Len(q) : p[i] = q[i]
      /\ \A i \in 1..Len(p) : i > Len(q) => i - Len(q) \in 1..Len(s) /\ p[i] = s[i - Len(q)]
  OBVIOUS
<1>2. \A i \in 1..Len(q) : i \in 1..Len(p) /\ (Ahead(p, i) <=> Ahead(q, i))
  BY <1>1 DEF Ahead
<1> HIDE DEF p
<1>3. ASSUME NEW i \in Nat, Follows(q, e, i)
      PROVE  Follows(p, e, i)
  BY <1>1, <1>2, <1>3 DEF Follows
<1>4. ASSUME Overruled(q, e), NEW i \in 1..Len(p), p[i].id = e.id, p[i] # e, Ahead(p, i)
      PROVE  Follows(p, e, i)
  <2>1. CASE i > Len(q)
    <3>1. PICK j \in 1..Len(s) : j = i - Len(q) /\ p[i] = s[j]
      BY <1>1, <2>1
    <3>2. i = Len(q) + j
      BY <1>1, <3>1
    <3> QED  BY <1>4, <3>1, <3>2 DEF p
  <2>2. CASE ~(i > Len(q))
    <3>1. i \in 1..Len(q) /\ i \in Nat
      BY <1>1, <2>2
    <3>2. q[i] = p[i] /\ Ahead(q, i)
      BY <1>1, <1>2, <1>4, <3>1
    <3>3. Follows(q, e, i)
      BY <1>4, <3>1, <3>2 DEF Overruled
    <3> QED  BY <1>3, <3>1, <3>3
  <2> QED  BY <2>1, <2>2
<1> QED  BY <1>3, <1>4 DEF Overruled, p

(* An event that is added, with no mark around, is behind all others.      *)
LEMMA GrowGives ==
  ASSUME NEW q \in Seq(UpdateEvent), NEW s \in Seq(UpdateEvent), ~HasMark(q \o s),
         NEW i \in 1..Len(s)
  PROVE  /\ Follows(q \o s, s[i], 0)
         /\ Len(s) = 1 => Overruled(q \o s, s[i])
<1> DEFINE p == q \o s
           k == Len(q) + i
<1>1. k \in 1..Len(p) /\ p[k] = s[i] /\ k > 0 /\ Len(p) = Len(q) + Len(s) /\ k \in Nat
  OBVIOUS
<1>2. \A j \in 1..Len(p) : Ahead(p, j)
  BY DEF HasMark, Ahead
<1>3. Len(s) = 1 => k = Len(p)
  BY <1>1
<1> HIDE DEF p, k
<1>4. Follows(p, s[i], 0)
  BY <1>1, <1>2 DEF Follows
<1>5. ASSUME Len(s) = 1, NEW j \in 1..Len(p), p[j] # s[i]
      PROVE  Follows(p, s[i], j)
  <2>1. k > j
    BY <1>1, <1>3, <1>5
  <2> QED  BY <1>1, <1>2, <2>1 DEF Follows
<1> QED  BY <1>4, <1>5 DEF Overruled, p

(* Taking the first event, which is not a mark.                            *)
LEMMA TailKeeps ==
  ASSUME NEW q \in Seq(UpdateEvent), q # <<>>, Head(q) # BackupMark, NEW e
  PROVE  /\ Overruled(q, e) => Overruled(Tail(q), e)
         /\ Follows(q, e, 0) /\ Head(q) # e => Follows(Tail(q), e, 0)
         /\ Overruled(q, e) /\ Head(q).id = e.id /\ Head(q) # e => Follows(Tail(q), e, 0)
<1> DEFINE p == Tail(q)
<1>1. /\ Len(q) \in Nat \ {0} /\ Len(p) = Len(q) - 1 /\ Head(q) = q[1]
      /\ \A i \in 1..Len(p) : p[i] = q[i + 1]
      /\ 1 \in 1..Len(q)
  OBVIOUS
<1> HIDE DEF p
<1>2. \A i \in 1..Len(p) : i + 1 \in 1..Len(q) /\ i \in Nat
  BY <1>1
<1>3. ASSUME NEW i \in 1..Len(p)
      PROVE  Ahead(p, i) <=> Ahead(q, i + 1)
  <2>1. ASSUME Ahead(p, i), NEW j \in 1..(i + 1)
        PROVE  q[j] # BackupMark
    <3>1. CASE j = 1
      BY <1>1, <3>1
    <3>2. CASE j # 1
      <4>1. j - 1 \in 1..i /\ j - 1 \in 1..Len(p) /\ (j - 1) + 1 = j
        BY <1>1, <3>2
      <4>2. p[j - 1] = q[(j - 1) + 1]
        BY <1>1, <4>1
      <4> QED  BY <2>1, <4>1, <4>2 DEF Ahead
    <3> QED  BY <3>1, <3>2
  <2>2. ASSUME Ahead(q, i + 1), NEW j \in 1..i
        PROVE  p[j] # BackupMark
    <3>1. j + 1 \in 1..(i + 1) /\ j \in 1..Len(p)
      BY <1>1
    <3> QED  BY <1>1, <2>2, <3>1 DEF Ahead
  <2> QED  BY <2>1, <2>2 DEF Ahead
<1>4. ASSUME NEW i \in Nat, Follows(q, e, i + 1)
      PROVE  Follows(p, e, i)
  <2>1. PICK k \in 1..Len(q) : k > i + 1 /\ q[k] = e /\ Ahead(q, k)
    BY <1>4 DEF Follows
  <2>2. k - 1 \in 1..Len(p) /\ k - 1 > i /\ (k - 1) + 1 = k
    BY <1>1, <2>1
  <2>3. p[k - 1] = e /\ Ahead(p, k - 1)
    <3>1. p[k - 1] = q[(k - 1) + 1]
      BY <1>1, <2>2
    <3>2. Ahead(p, k - 1) <=> Ahead(q, (k - 1) + 1)
      BY <1>3, <2>2
    <3> QED  BY <2>1, <2>2, <3>1, <3>2
  <2> QED  BY <2>2, <2>3 DEF Follows
<1>5. Overruled(q, e) => Overruled(p, e)
  <2> SUFFICES ASSUME Overruled(q, e), NEW i \in 1..Len(p), p[i].id = e.id, p[i] # e,
                      Ahead(p, i)
               PROVE  Follows(p, e, i)
    BY DEF Overruled
  <2>1. q[i + 1].id = e.id /\ q[i + 1] # e /\ Ahead(q, i + 1)
    BY <1>1, <1>3
  <2>2. Follows(q, e, i + 1)
    BY <1>2, <2>1 DEF Overruled
  <2> QED  BY <1>2, <1>4, <2>2
<1>6. ASSUME Follows(q, e, 0), Head(q) # e
      PROVE  Follows(p, e, 0)
  <2>1. Follows(q, e, 1)
    BY <1>1, <1>6 DEF Follows
  <2> QED  BY <1>4, <2>1
<1>7. ASSUME Overruled(q, e), Head(q).id = e.id, Head(q) # e
      PROVE  Follows(p, e, 0)
  <2>1. Ahead(q, 1)
    BY <1>1 DEF Ahead
  <2>2. Follows(q, e, 1)
    BY <1>1, <1>7, <2>1 DEF Overruled
  <2> QED  BY <1>4, <2>2
<1> QED  BY <1>5, <1>6, <1>7 DEF p

(* Marks in a queue that grows or is taken from.                           *)
LEMMA MarksOfTail ==
  ASSUME NEW q \in Seq(UpdateEvent), q # <<>>
  PROVE  /\ HasMark(Tail(q)) => HasMark(q)
         /\ OneMark(q) => OneMark(Tail(q))
         /\ OneMark(q) /\ Head(q) = BackupMark => ~HasMark(Tail(q))
<1>1. /\ Len(Tail(q)) = Len(q) - 1 /\ Len(q) \in Nat \ {0} /\ Head(q) = q[1]
      /\ \A i \in 1..Len(Tail(q)) : Tail(q)[i] = q[i + 1]
      /\ 1 \in 1..Len(q)
  OBVIOUS
<1>2. \A i \in 1..Len(Tail(q)) : i + 1 \in 1..Len(q) /\ i + 1 # 1 /\ i \in Nat
  BY <1>1
<1>3. HasMark(Tail(q)) => HasMark(q)
  BY <1>1, <1>2 DEF HasMark
<1>4. ASSUME OneMark(q), NEW i \in 1..Len(Tail(q)), NEW j \in 1..Len(Tail(q)),
             Tail(q)[i] = BackupMark, Tail(q)[j] = BackupMark
      PROVE  i = j
  <2>1. i + 1 = j + 1
    BY <1>1, <1>2, <1>4 DEF OneMark
  <2> QED  BY <1>2, <2>1
<1>5. OneMark(q) /\ Head(q) = BackupMark => ~HasMark(Tail(q))
  BY <1>1, <1>2 DEF OneMark, HasMark
<1> QED  BY <1>3, <1>4, <1>5 DEF OneMark

LEMMA MarksOfConcat ==
  ASSUME NEW q \in Seq(UpdateEvent), NEW s \in Seq(UpdateEvent)
  PROVE  /\ HasMark(q \o s) <=> HasMark(q) \/ HasMark(s)
         /\ ~HasMark(q) /\ OneMark(s) => OneMark(q \o s)
         /\ ~HasMark(s) /\ OneMark(q) => OneMark(q \o s)
<1> DEFINE p == q \o s
<1>1. /\ Len(q) \in Nat /\ Len(s) \in Nat /\ Len(p) = Len(q) + Len(s)
      /\ \A i \in 1..Len(q) : i \in 1..Len(p) /\ p[i] = q[i]
      /\ \A i \in 1..Len(s) : Len(q) + i \in 1..Len(p) /\ p[Len(q) + i] = s[i]
      /\ \A i \in 1..Len(p) : \/ i \in 1..Len(q)
                              \/ i - Len(q) \in 1..Len(s) /\ p[i] = s[i - Len(q)]
  OBVIOUS
<1> HIDE DEF p
<1>2. HasMark(p) <=> HasMark(q) \/ HasMark(s)
  BY <1>1 DEF HasMark
<1>3. ASSUME ~HasMark(q), OneMark(s), NEW i \in 1..Len(p), NEW j \in 1..Len(p),
             p[i] = BackupMark, p[j] = BackupMark
      PROVE  i = j
  <2>1. /\ i - Len(q) \in 1..Len(s) /\ s[i - Len(q)] = BackupMark
        /\ j - Len(q) \in 1..Len(s) /\ s[j - Len(q)] = BackupMark
    BY <1>1, <1>3 DEF HasMark
  <2>2. i - Len(q) = j - Len(q)
    BY <1>3, <2>1 DEF OneMark
  <2> QED  BY <1>1, <2>2
<1>4. ASSUME ~HasMark(s), OneMark(q), NEW i \in 1..Len(p), NEW j \in 1..Len(p),
             p[i] = BackupMark, p[j] = BackupMark
      PROVE  i = j
  <2>1. i \in 1..Len(q) /\ j \in 1..Len(q)
    BY <1>1, <1>4 DEF HasMark
  <2> QED  BY <1>1, <1>4, <2>1 DEF OneMark
<1> QED  BY <1>2, <1>3, <1>4 DEF OneMark, p

-----------------------------------------------------------------------------
(* Backup and shutdown.                                                    *)

(* The job writes a's unit under an event of another server.               *)
Outdated(a) == InHand(a) /\ cu.modified /\ ue # EventOf(a)

(* _SaveAll has queued an event for every unit, for good or for a backup.  *)
Flushing == quitEvent \/ (mainPc \in {"Mark", "Wait"} /\ atBackup)

(* A unit that is to be written, or whose write is bound to fail, is       *)
(* written by its own event after all others, and that event waits while   *)
(* everything is flushed.                                                  *)
EventInv(a) ==
  Cached(a) =>
    /\ cacheMap[a].modified \/ Outdated(a) => Overruled(updateQueue, EventOf(a))
    /\ Outdated(a) => Follows(updateQueue, EventOf(a), 0)
    /\ cacheMap[a].modified /\ Flushing => Follows(updateQueue, EventOf(a), 0)

(* There is a mark in the queue only while the main thread waits for it.   *)
MarkInv ==
  /\ mainPc \in {"SaveAll", "Mark"} => atBackup
  /\ HasMark(updateQueue) => mainPc = "Wait" /\ atBackup
  /\ OneMark(updateQueue)
  /\ quitEvent <=> mainPc = "Quit"
  /\ pc = "End" => quitEvent /\ updateQueue = <<>>

(* As long as no call failed, only an outdated save did.                   *)
FailInv == pc = "Finish" /\ ~result => cu.modified /\ ue # EventOf(ue.id)

FlushInv == failures = 0 => FailInv /\ \A a \in Accounts : EventInv(a)

(* What the steps do to the main thread.                                   *)
LEMMA MainStep ==
  ASSUME TypeInv, [Next]_vars
  PROVE  \/ UNCHANGED mainVars /\ ~PopMark
         \/ BackupStart \/ BackupSaveAll \/ BackupPushMark \/ BackupEnd
         \/ ExitServer \/ PopMark \/ Restart \/ Crash
<1>1. ASSUME \/ \E q \in Query : SubmitQuery(q)
             \/ \E a \in Accounts, s \in Servers, flag \in StoreFlags :
                  SaveIntoCache(a, s, flag)
             \/ \E a \in Accounts : Age(a)
             \/ UNCHANGED vars
      PROVE  UNCHANGED mainVars
  BY <1>1 DEF SubmitQuery, SaveIntoCache, Age, vars
<1>2. ASSUME \/ LoopTest \/ ServiceDone \/ TakeQuery
             \/ PopEmpty \/ PopDrop \/ PopTake \/ SaveToDB
             \/ FinishRemove \/ FinishKeep \/ FinishFailed
      PROVE  UNCHANGED mainVars
  BY <1>2 DEF LoopTest, ServiceDone, TakeQuery, PopEmpty, PopDrop, PopTake, SaveToDB,
     FinishRemove, FinishKeep, FinishFailed
<1>3. ASSUME \/ ExecuteUnlock \/ ListCached \/ IgnoreCached \/ GoToDatabase
             \/ ListInDatabase \/ CreateInDatabase \/ SelectInDatabase
             \/ LoadIntoCache \/ DeletePlayer
      PROVE  UNCHANGED mainVars
  BY <1>3 DEF ExecuteUnlock, ListCached, IgnoreCached, GoToDatabase, ListInDatabase,
     CreateInDatabase, SelectInDatabase, LoadIntoCache, DeletePlayer
<1>4. PopMark \/ ~PopMark
  OBVIOUS
<1> QED
  BY <1>1, <1>2, <1>3, <1>4
     DEF Next, Environment, MainMessages, MainBackup, PersistentThread, ExecuteQuery

LEMMA MarkInit == Init => MarkInv
BY DEF Init, MarkInv, HasMark, OneMark

(* The marks a step adds.                                                  *)
LEMMA MarksStep ==
  ASSUME TypeInv, [Next]_vars
  PROVE  /\ HasMark(updateQueue') => HasMark(updateQueue) \/ BackupPushMark
         /\ OneMark(updateQueue) /\ ~(BackupPushMark /\ HasMark(updateQueue)) =>
              OneMark(updateQueue')
         /\ OneMark(updateQueue) /\ PopMark => ~HasMark(updateQueue')
<1>1. updateQueue \in Seq(UpdateEvent)
  BY DEF TypeInv, TypeOK
<1>2. CASE Grows /\ ~BackupPushMark
  <2>1. PICK s \in Seq(UpdateEvent) : updateQueue' = updateQueue \o s /\ OwnEvents(s)
    BY <1>2 DEF Grows
  <2>2. ~HasMark(s)
    BY <2>1, PersistAssumption DEF OwnEvents, HasMark, BackupMark
  <2>3. ~PopMark
    <3>1. Len(updateQueue') = Len(updateQueue) + Len(s)
      BY <1>1, <2>1
    <3> QED  BY <1>1, <3>1 DEF PopMark
  <2> QED  BY <1>1, <1>2, <2>1, <2>2, <2>3, MarksOfConcat
<1>3. CASE BackupPushMark
  <2>1. PICK s \in Seq(UpdateEvent) :
          /\ updateQueue' = updateQueue \o s
          /\ s = <<>> \/ s = <<BackupMark>>
               \/ \E a \in Accounts, t \in Servers :
                    s = <<BackupMark, [id |-> a, serverId |-> t]>>
    BY <1>3, PushMarkEvents DEF BackupPushMark, TypeInv
  <2>2. OneMark(s)
    <3>1. CASE s = <<>> \/ s = <<BackupMark>>
      BY <3>1 DEF OneMark
    <3>2. CASE \E a \in Accounts, t \in Servers :
                 s = <<BackupMark, [id |-> a, serverId |-> t]>>
      <4>1. Len(s) = 2 /\ s[2] # BackupMark
        BY <3>2, PersistAssumption DEF BackupMark
      <4> QED  BY <4>1 DEF OneMark
    <3> QED  BY <2>1, <3>1, <3>2
  <2>3. ~PopMark
    BY <1>3 DEF PopMark, BackupPushMark
  <2> QED  BY <1>1, <1>3, <2>1, <2>2, <2>3, MarksOfConcat
<1>4. CASE UNCHANGED updateQueue
  <2>1. ~PopMark
    <3> SUFFICES ASSUME PopMark
                 PROVE  FALSE
      OBVIOUS
    <3>1. Len(Tail(updateQueue)) = Len(updateQueue) - 1
      BY <1>1 DEF PopMark
    <3> QED  BY <1>1, <1>4, <3>1 DEF PopMark
  <2> QED  BY <1>4, <2>1
<1>5. CASE /\ PopMark \/ PopDrop \/ PopTake
           /\ updateQueue # <<>> /\ updateQueue' = Tail(updateQueue)
  BY <1>1, <1>5, MarksOfTail DEF PopMark
<1>6. CASE Restart \/ Crash
  <2>1. updateQueue' = <<>>
    BY <1>6 DEF Restart, Crash, StartAgain
  <2> QED  BY <2>1 DEF HasMark, OneMark
<1> QED  BY <1>2, <1>3, <1>4, <1>5, <1>6, QueueStep

(* The thread ends at the test of its loop, and then does nothing.         *)
LEMMA EndStep ==
  ASSUME TypeInv, [Next]_vars, pc' = "End"
  PROVE  \/ LoopTest
         \/ /\ pc = "End"
            /\ \/ \E q \in Query : SubmitQuery(q)
               \/ \E a \in Accounts, s \in Servers, flag \in StoreFlags :
                    SaveIntoCache(a, s, flag)
               \/ \E a \in Accounts : Age(a)
               \/ BackupStart \/ MainBackup \/ ExitServer \/ UNCHANGED vars
<1>1. ~(Restart \/ Crash)
  BY DEF Restart, Crash, StartAgain
<1>2. ~(\/ ServiceDone \/ TakeQuery \/ PopEmpty \/ PopMark \/ PopDrop \/ PopTake
        \/ SaveToDB \/ FinishRemove \/ FinishKeep \/ FinishFailed)
  BY DEF ServiceDone, TakeQuery, PopEmpty, PopMark, PopDrop, PopTake, SaveToDB,
     FinishRemove, FinishKeep, FinishFailed, JobDone
<1>3. ~(\/ ExecuteUnlock \/ ListCached \/ IgnoreCached \/ GoToDatabase
        \/ ListInDatabase \/ CreateInDatabase \/ SelectInDatabase
        \/ LoadIntoCache \/ DeletePlayer)
  BY DEF ExecuteUnlock, ListCached, IgnoreCached, GoToDatabase, ListInDatabase,
     CreateInDatabase, SelectInDatabase, LoadIntoCache, DeletePlayer, QueryDone
<1>4. ASSUME \/ \E q \in Query : SubmitQuery(q)
             \/ \E a \in Accounts, s \in Servers, flag \in StoreFlags :
                  SaveIntoCache(a, s, flag)
             \/ \E a \in Accounts : Age(a)
             \/ BackupStart \/ MainBackup \/ ExitServer \/ UNCHANGED vars
      PROVE  pc = "End"
  BY <1>4 DEF SubmitQuery, SaveIntoCache, Age, BackupStart, MainBackup, BackupSaveAll,
     BackupPushMark, BackupEnd, ExitServer, vars
<1> QED
  BY <1>1, <1>2, <1>3, <1>4
     DEF Next, Environment, MainMessages, PersistentThread, ExecuteQuery

LEMMA MarkNext ==
  ASSUME TypeInv, MarkInv, [Next]_vars
  PROVE  MarkInv'
<1>1. OneMark(updateQueue')
  BY MarksStep DEF MarkInv, BackupPushMark
<1>2. /\ mainPc' \in {"SaveAll", "Mark"} => atBackup'
      /\ quitEvent' <=> mainPc' = "Quit"
  <2>1. (mainPc \in {"SaveAll", "Mark"} => atBackup) /\ (quitEvent <=> mainPc = "Quit")
    BY DEF MarkInv
  <2>2. CASE UNCHANGED mainVars
    BY <2>1, <2>2 DEF mainVars
  <2>3. CASE BackupStart \/ BackupSaveAll \/ BackupPushMark \/ BackupEnd \/ ExitServer
    BY <2>1, <2>3 DEF BackupStart, BackupSaveAll, BackupPushMark, BackupEnd, ExitServer
  <2>4. CASE PopMark
    <3>1. HasMark(updateQueue)
      BY <2>4 DEF PopMark, HasMark, TypeInv, TypeOK
    <3>2. mainPc = "Wait"
      BY <3>1 DEF MarkInv
    <3> QED  BY <2>1, <2>4, <3>2 DEF PopMark
  <2>5. CASE Restart \/ Crash
    BY <2>5 DEF Restart, Crash, StartAgain
  <2> QED  BY <2>2, <2>3, <2>4, <2>5, MainStep
<1>3. ASSUME HasMark(updateQueue')
      PROVE  mainPc' = "Wait" /\ atBackup'
  <2>1. CASE BackupPushMark
    BY <2>1 DEF BackupPushMark, MarkInv
  <2>2. CASE ~BackupPushMark
    <3>1. HasMark(updateQueue) /\ mainPc = "Wait" /\ atBackup /\ ~PopMark
      BY <1>3, <2>2, MarksStep DEF MarkInv
    <3>2. ~Restart /\ ~Crash
      BY <1>3 DEF Restart, Crash, StartAgain, HasMark
    <3> QED
      BY <2>2, <3>1, <3>2, MainStep DEF mainVars, BackupStart, BackupSaveAll, BackupEnd,
         ExitServer
  <2> QED  BY <2>1, <2>2
<1>4. ASSUME pc' = "End"
      PROVE  quitEvent' /\ updateQueue' = <<>>
  <2>1. CASE LoopTest
    BY <1>4, <2>1 DEF LoopTest, cacheVars, mainVars
  <2>2. CASE ~LoopTest
    <3>1. pc = "End" /\ mainPc = "Quit" /\ quitEvent /\ updateQueue = <<>>
      BY <1>4, <2>2, EndStep DEF MarkInv
    <3>2. (\E a \in Accounts : Age(a)) \/ UNCHANGED vars
      BY <1>4, <2>2, <3>1, EndStep DEF SubmitQuery, SaveIntoCache, BackupStart, MainBackup,
         BackupSaveAll, BackupPushMark, BackupEnd, ExitServer
    <3> QED  BY <3>1, <3>2 DEF Age, vars, cacheVars, mainVars
  <2> QED  BY <2>1, <2>2
<1> QED  BY <1>1, <1>2, <1>3, <1>4 DEF MarkInv

LEMMA MarkAlways == Spec => [](TypeInv /\ IInv /\ MarkInv)
<1>1. Init => MarkInv
  BY MarkInit
<1>2. TypeInv /\ MarkInv /\ [Next]_vars => MarkInv'
  BY MarkNext
<1> QED  BY <1>1, <1>2, Invariant, PTL DEF Spec

(* A unit that stays cached keeps its server, and so its event.            *)
LEMMA ServerKept ==
  ASSUME TypeInv, [Next]_vars, NEW a \in Accounts, Cached(a), Cached(a)'
  PROVE  EventOf(a)' = EventOf(a)
<1>1. cacheMap'[a].serverId = cacheMap[a].serverId
  <2>1. CASE SavedNow(a)
    <3>1. PICK s \in Servers, flag \in StoreFlags :
            cacheMap'[a] = SavedUnit(a, s, flag, clock[a] + 1)
      BY <2>1 DEF SavedNow
    <3> QED  BY <3>1 DEF SavedUnit
  <2>2. CASE LoadedNow(a)
    BY <2>2 DEF LoadedNow
  <2>3. CASE EditedNow(a)
    BY <2>3 DEF EditedNow
  <2> QED  BY <2>1, <2>2, <2>3, UnitStep
<1> QED  BY <1>1 DEF EventOf

(* What a step adds leaves the event of a cached account in its place.     *)
LEMMA EventsStay ==
  ASSUME TypeInv, [Next]_vars, NEW a \in Accounts, ~SavedNow(a),
         UNCHANGED updateQueue \/ Grows
  PROVE  /\ Overruled(updateQueue, EventOf(a)) => Overruled(updateQueue', EventOf(a))
         /\ Follows(updateQueue, EventOf(a), 0) => Follows(updateQueue', EventOf(a), 0)
<1>1. CASE UNCHANGED updateQueue
  BY <1>1
<1>2. CASE Grows
  <2>1. updateQueue \in Seq(UpdateEvent)
    BY DEF TypeInv, TypeOK
  <2>0. PICK e : e = EventOf(a)
    OBVIOUS
  <2>2. e = EventOf(a) /\ e.id = a
    BY <2>0 DEF EventOf
  <2>3. \E s \in Seq(UpdateEvent) :
          /\ updateQueue' = updateQueue \o s
          /\ \A i \in 1..Len(s) :
               s[i].id # a \/ s[i] = e \/ ~Ahead(updateQueue \o s, Len(updateQueue) + i)
    <3>1. CASE BackupPushMark
      <4>1. PICK s \in Seq(UpdateEvent) :
              /\ updateQueue' = updateQueue \o s
              /\ s = <<>> \/ s = <<BackupMark>>
                   \/ \E b \in Accounts, t \in Servers :
                        s = <<BackupMark, [id |-> b, serverId |-> t]>>
        BY <3>1, PushMarkEvents DEF BackupPushMark, TypeInv
      <4>2. BackupMark.id # a
        BY PersistAssumption DEF BackupMark
      <4>3. ASSUME NEW i \in 1..Len(s), s[i].id = a
            PROVE  ~Ahead(updateQueue \o s, Len(updateQueue) + i)
        <5>1. i > 1 /\ s[1] = BackupMark /\ Len(s) > 0 /\ i \in Nat
          BY <4>1, <4>2, <4>3
        <5>2. /\ Len(updateQueue) + 1 \in 1..(Len(updateQueue) + i)
              /\ (updateQueue \o s)[Len(updateQueue) + 1] = BackupMark
          BY <2>1, <5>1
        <5> QED  BY <5>2 DEF Ahead
      <4> QED  BY <4>1, <4>3
    <3>2. CASE ~BackupPushMark
      <4>1. PICK s \in Seq(UpdateEvent) : updateQueue' = updateQueue \o s /\ OwnEvents(s)
        BY <1>2, <3>2 DEF Grows
      <4>2. \A i \in 1..Len(s) : s[i].id # a \/ s[i] = e
        BY <2>2, <4>1 DEF OwnEvents
      <4> QED  BY <4>1, <4>2
    <3> QED  BY <3>1, <3>2
  <2> QED  BY <2>1, <2>2, <2>3, GrowKeeps
<1> QED  BY <1>1, <1>2

(* A save is the newest event of its account.                              *)
LEMMA EventAfterSave ==
  ASSUME ~LateSaves, TypeInv, OwnerInv, MarkInv, [Next]_vars, NEW a \in Accounts,
         SavedNow(a)
  PROVE  /\ Overruled(updateQueue', EventOf(a)')
         /\ Follows(updateQueue', EventOf(a)', 0)
<1>1. PICK s \in Servers, flag \in StoreFlags :
        /\ SaveIntoCache(a, s, flag)
        /\ cacheMap'[a] = SavedUnit(a, s, flag, clock[a] + 1)
  BY DEF SavedNow
<1>2. cacheMap'[a].serverId = s
  BY <1>1 DEF SavedUnit, SaveIntoCache, OwnerInv, LockHeld
<1>3. PICK e \in UpdateEvent : e = EventOf(a)' /\ updateQueue' = Append(updateQueue, e)
  BY <1>1, <1>2 DEF SaveIntoCache, EventOf, UpdateEvent
<1>4. updateQueue \in Seq(UpdateEvent)
  BY DEF TypeInv, TypeOK
<1>5. updateQueue' = updateQueue \o <<e>> /\ <<e>> \in Seq(UpdateEvent)
  BY <1>3, <1>4, AppendIsConcat
<1>6. ~HasMark(updateQueue')
  BY <1>1, MarksStep DEF MarkInv, SaveIntoCache, BackupPushMark
<1>7. 1 \in 1..Len(<<e>>) /\ <<e>>[1] = e /\ Len(<<e>>) = 1
  OBVIOUS
<1> QED
  BY <1>3, <1>4, <1>5, <1>6, <1>7, GrowGives

(* _SaveAll leaves an event for every changed unit.                        *)
LEMMA EventAfterSaveAll ==
  ASSUME TypeInv, MarkInv, [Next]_vars, BackupSaveAll \/ ExitServer,
         NEW a \in Accounts, Cached(a), cacheMap[a].modified
  PROVE  Follows(updateQueue', EventOf(a), 0)
<1>1. PICK s \in Seq(UpdateEvent) :
        /\ updateQueue' = updateQueue \o s
        /\ \A b \in DirtyAccounts : \E i \in 1..Len(s) : s[i] = EventOf(b)
  BY SaveAllEvents DEF BackupSaveAll, ExitServer, TypeInv
<1>2. PICK i \in 1..Len(s) : s[i] = EventOf(a)
  BY <1>1 DEF DirtyAccounts
<1>3. ~HasMark(updateQueue')
  BY MarksStep DEF MarkInv, BackupSaveAll, ExitServer, BackupPushMark
<1>4. updateQueue \in Seq(UpdateEvent)
  BY DEF TypeInv, TypeOK
<1>5. PICK e : e = EventOf(a)
  OBVIOUS
<1> QED  BY <1>1, <1>2, <1>3, <1>4, <1>5, GrowGives

(* A save that fails although no call did was one of another server.       *)
LEMMA FailNext ==
  ASSUME TypeInv, IInv, IInv', OwnerInv, FailInv, [Next]_vars, failures' = 0
  PROVE  FailInv'
<1> SUFFICES ASSUME pc' = "Finish", ~result'
             PROVE  cu'.modified /\ ue' # EventOf(ue.id)'
  <2>1. ue' # EventOf(ue.id)' /\ pc' = "Finish" => ue' # EventOf(ue.id)'
    OBVIOUS
  <2>2. ASSUME pc' = "Finish"
        PROVE  ue' = ue
    BY <2>2, JobStep DEF PopTake, SaveToDB, FinishRemove, FinishKeep, FinishFailed, JobDone,
       Restart, Crash, StartAgain, jobVars
  <2> QED  BY <2>1, <2>2 DEF FailInv
<1>1. CASE UNCHANGED <<pc, jobVars>>
  <2>1. pc = "Finish" /\ ~result /\ ue' = ue /\ cu' = cu
    BY <1>1 DEF jobVars
  <2>2. PICK a \in Accounts : a = ue.id /\ Cached(a) /\ Cached(a)'
    BY <2>1 DEF IInv, InvThread, Cached
  <2>3. EventOf(a)' = EventOf(a)
    BY <2>2, ServerKept
  <2> QED  BY <2>1, <2>2, <2>3 DEF FailInv
<1>2. CASE SaveToDB
  <2>1. cu.modified /\ ~Writable
    <3>1. ~DbFails
      BY DEF DbFails, TypeInv, TypeOK
    <3> QED  BY <1>2, <3>1 DEF SaveToDB
  <2>2. Cached(ue.id) /\ ue.id \in Accounts
    BY <1>2 DEF SaveToDB, IInv, InvThread, Cached
  <2>3. ue # EventOf(ue.id)
    BY <2>1, <2>2 DEF Writable, OwnerInv, LockHeld, EventOf
  <2>4. ue' = ue /\ cu' = cu /\ EventOf(ue.id)' = EventOf(ue.id)
    BY <1>2 DEF SaveToDB, cacheVars, EventOf
  <2> QED  BY <2>1, <2>3, <2>4
<1>3. ~(PopTake \/ FinishRemove \/ FinishKeep \/ FinishFailed \/ Restart \/ Crash)
  BY DEF PopTake, FinishRemove, FinishKeep, FinishFailed, JobDone, Restart, Crash, StartAgain
<1> QED  BY <1>1, <1>2, <1>3, JobStep

(* Taking an event: the unit's own, or one the own event is behind.        *)
LEMMA EventTaken ==
  ASSUME TypeInv, MarkInv, NEW a \in Accounts, EventInv(a), Cached(a), EditedNow(a),
         EventOf(a)' = EventOf(a), PopTake, UNCHANGED mainVars,
         updateQueue # <<>>, updateQueue' = Tail(updateQueue)
  PROVE  EventInv(a)'
<1>1. PICK b \in Accounts :
        /\ b = Head(updateQueue).id /\ ue' = Head(updateQueue)
        /\ Cached(b) /\ ~cacheMap'[b].modified /\ cu'.modified = cacheMap[b].modified
        /\ pc' = "Save"
  BY TakeEffect
<1>2. updateQueue \in Seq(UpdateEvent) /\ Head(updateQueue) # BackupMark
  BY <1>1, PersistAssumption DEF TypeInv, TypeOK, BackupMark
<1>3. PICK e : e = EventOf(a)
  OBVIOUS
<1>4. e.id = a /\ e = EventOf(a)'
  BY <1>3 DEF EventOf
<1>5. cacheMap'[a].modified => cacheMap[a].modified /\ a # b
  BY <1>1 DEF EditedNow, FinishFailed, PopTake, Popping
<1>6. Flushing' => Flushing
  BY DEF Flushing, mainVars
<1>7. Outdated(a)' => a = b /\ cacheMap[a].modified /\ Head(updateQueue) # e
  BY <1>1, <1>4 DEF Outdated, InHand
<1>8. a # b => Head(updateQueue) # e
  BY <1>1, <1>4
<1>9. /\ cacheMap[a].modified => Overruled(updateQueue, e)
      /\ cacheMap[a].modified /\ Flushing => Follows(updateQueue, e, 0)
  BY <1>3 DEF EventInv
<1>10. cacheMap'[a].modified \/ Outdated(a)' => Overruled(updateQueue', e)
  BY <1>2, <1>5, <1>7, <1>9, TailKeeps
<1>11. Outdated(a)' => Follows(updateQueue', e, 0)
  BY <1>1, <1>2, <1>4, <1>7, <1>9, TailKeeps
<1>12. cacheMap'[a].modified /\ Flushing' => Follows(updateQueue', e, 0)
  BY <1>2, <1>5, <1>6, <1>8, <1>9, TailKeeps
<1> QED  BY <1>4, <1>10, <1>11, <1>12 DEF EventInv

(* Dropping one: while everything is flushed the own event is not dropped, *)
(* and the mark comes after every own event.                               *)
LEMMA EventDropped ==
  ASSUME TypeInv, MarkInv, NEW a \in Accounts, EventInv(a), Cached(a), EditedNow(a),
         EventOf(a)' = EventOf(a), PopDrop \/ PopMark,
         updateQueue # <<>>, updateQueue' = Tail(updateQueue)
  PROVE  EventInv(a)'
<1>1. updateQueue \in Seq(UpdateEvent) /\ Head(updateQueue) = updateQueue[1]
        /\ 1 \in 1..Len(updateQueue)
  BY DEF TypeInv, TypeOK
<1>2. PICK e : e = EventOf(a)
  OBVIOUS
<1>3. e.id = a /\ e = EventOf(a)'
  BY <1>2 DEF EventOf
<1>4. pc' = "Retry" /\ (cacheMap'[a].modified => cacheMap[a].modified)
  BY DEF EditedNow, FinishFailed, PopDrop, PopMark, Popping, PopTake
<1>5. ~Outdated(a)'
  BY <1>4 DEF Outdated, InHand
<1>6. Head(updateQueue) = BackupMark => mainPc = "Wait" /\ atBackup /\ ~quitEvent
  BY <1>1 DEF HasMark, MarkInv
<1>7. CASE Head(updateQueue) = BackupMark
  <2>1. Flushing
    BY <1>6, <1>7 DEF Flushing
  <2>2. ~Follows(updateQueue, e, 0)
    <3>1. \A k \in 1..Len(updateQueue) : ~Ahead(updateQueue, k)
      BY <1>1, <1>7 DEF Ahead
    <3> QED  BY <3>1 DEF Follows
  <2>3. ~cacheMap[a].modified
    BY <1>2, <2>1, <2>2 DEF EventInv
  <2> QED  BY <1>4, <1>5, <2>3 DEF EventInv
<1>8. CASE Head(updateQueue) # BackupMark
  <2>1. PopDrop /\ (Flushing' => Flushing)
    BY <1>8 DEF PopDrop, PopMark, Flushing, mainVars
  <2>2. Flushing => Head(updateQueue) # e
    BY <1>3, <2>1, PersistAssumption DEF PopDrop, Throttled, Flushing
  <2>3. /\ cacheMap[a].modified => Overruled(updateQueue, e)
        /\ cacheMap[a].modified /\ Flushing => Follows(updateQueue, e, 0)
    BY <1>2 DEF EventInv
  <2>4. cacheMap'[a].modified => Overruled(updateQueue', e)
    BY <1>1, <1>4, <1>8, <2>3, TailKeeps
  <2>5. cacheMap'[a].modified /\ Flushing' => Follows(updateQueue', e, 0)
    BY <1>1, <1>4, <1>8, <2>1, <2>2, <2>3, TailKeeps
  <2> QED  BY <1>3, <1>5, <2>4, <2>5 DEF EventInv
<1> QED  BY <1>7, <1>8

(* All other steps only add events, and change no unit that has none.      *)
LEMMA EventStays ==
  ASSUME TypeInv, IInv, MarkInv, FailInv, NEW a \in Accounts, EventInv(a), Cached(a),
         Cached(a)', EditedNow(a), ~SavedNow(a), EventOf(a)' = EventOf(a), [Next]_vars,
         ~PopMark, ~PopTake, UNCHANGED updateQueue \/ Grows
  PROVE  EventInv(a)'
<1>1. PICK e : e = EventOf(a)
  OBVIOUS
<1>2. e = EventOf(a)'
  BY <1>1
<1>3. /\ Overruled(updateQueue, e) => Overruled(updateQueue', e)
      /\ Follows(updateQueue, e, 0) => Follows(updateQueue', e, 0)
  BY <1>1, EventsStay
<1>4. ~Restart /\ ~Crash
  BY DEF Restart, Crash, StartAgain, EmptyCache, Cached
<1>5. Outdated(a)' => Outdated(a)
  <2>1. CASE UNCHANGED <<pc, jobVars>>
    BY <1>1, <1>2, <2>1 DEF Outdated, InHand, jobVars
  <2>2. CASE pc' \notin {"Save", "Finish"}
    BY <2>2 DEF Outdated, InHand
  <2>3. CASE SaveToDB
    BY <1>1, <1>2, <2>3 DEF Outdated, InHand, SaveToDB
  <2>4. CASE FinishRemove \/ FinishKeep \/ FinishFailed
    BY <2>4 DEF Outdated, InHand, FinishRemove, FinishKeep, FinishFailed, JobDone
  <2> QED  BY <1>4, <2>1, <2>2, <2>3, <2>4, JobStep
<1>6. cacheMap'[a].modified => cacheMap[a].modified \/ (FinishFailed /\ Outdated(a))
  <2>1. FinishFailed /\ ue.id = a => Outdated(a)
    BY DEF FinishFailed, FailInv, Outdated, InHand
  <2> QED  BY <2>1 DEF EditedNow
<1>7. /\ cacheMap[a].modified \/ Outdated(a) => Overruled(updateQueue, e)
      /\ Outdated(a) => Follows(updateQueue, e, 0)
      /\ cacheMap[a].modified /\ Flushing => Follows(updateQueue, e, 0)
  BY <1>1 DEF EventInv
<1>8. cacheMap'[a].modified /\ Flushing' => Follows(updateQueue', e, 0)
  <2>1. CASE Flushing' => Flushing
    BY <1>3, <1>6, <1>7, <2>1
  <2>2. CASE BackupSaveAll \/ ExitServer
    <3>1. ~FinishFailed
      BY <2>2 DEF FinishFailed, BackupSaveAll, ExitServer, mainVars
    <3> QED  BY <1>1, <1>6, <2>2, <3>1, EventAfterSaveAll
  <2>3. CASE ~(BackupSaveAll \/ ExitServer)
    <3>1. Flushing' => Flushing
      BY <1>4, <2>3, MainStep DEF Flushing, mainVars, BackupStart, BackupPushMark, BackupEnd
    <3> QED  BY <2>1, <3>1
  <2> QED  BY <2>2, <2>3
<1> QED  BY <1>2, <1>3, <1>5, <1>6, <1>7, <1>8 DEF EventInv

LEMMA EventNext ==
  ASSUME ~LateSaves, TypeInv, IInv, OwnerInv, MarkInv, FailInv, [Next]_vars,
         NEW a \in Accounts, EventInv(a)
  PROVE  EventInv(a)'
<1> SUFFICES ASSUME Cached(a)'
             PROVE  EventInv(a)'
  BY DEF EventInv
<1>1. CASE SavedNow(a)
  <2>1. PICK e : e = EventOf(a)'
    OBVIOUS
  <2> QED  BY <1>1, <2>1, EventAfterSave DEF EventInv
<1>2. CASE LoadedNow(a)
  <2>1. ~cacheMap'[a].modified /\ pc' = "Service"
    BY <1>2 DEF LoadedNow, LoadIntoCache, QueryDone
  <2> QED  BY <2>1 DEF EventInv, Outdated, InHand
<1>3. CASE EditedNow(a) /\ ~SavedNow(a)
  <2>1. Cached(a) /\ EventOf(a)' = EventOf(a)
    BY <1>3, ServerKept DEF EditedNow
  <2>2. ~Restart /\ ~Crash
    BY <1>3 DEF Restart, Crash, StartAgain, EmptyCache, Cached
  <2>3. CASE /\ PopMark \/ PopDrop \/ PopTake
             /\ updateQueue # <<>> /\ updateQueue' = Tail(updateQueue)
    <3>1. CASE PopTake
      BY <1>3, <2>1, <2>3, <3>1, EventTaken DEF PopTake
    <3>2. CASE PopDrop \/ PopMark
      BY <1>3, <2>1, <2>3, <3>2, EventDropped
    <3> QED  BY <2>3, <3>1, <3>2
  <2>4. CASE (UNCHANGED updateQueue \/ Grows) /\ ~PopMark /\ ~PopTake
    BY <1>3, <2>1, <2>4, EventStays
  <2>5. PopMark \/ PopTake => updateQueue # <<>> /\ updateQueue' = Tail(updateQueue)
    BY DEF PopMark, PopTake
  <2> QED  BY <2>2, <2>3, <2>4, <2>5, QueueStep
<1> QED  BY <1>1, <1>2, <1>3, UnitStep

(* Failing calls are counted.                                              *)
LEMMA FailuresCount ==
  ASSUME TypeInv, [Next]_vars
  PROVE  failures' = failures \/ failures' = failures + 1
<1>1. CASE \/ TakeQuery \/ ListInDatabase \/ CreateInDatabase \/ SelectInDatabase
           \/ DeletePlayer \/ SaveToDB \/ FinishRemove
  BY <1>1 DEF TakeQuery, ListInDatabase, CreateInDatabase, SelectInDatabase, DeletePlayer,
     SaveToDB, FinishRemove, DbWorks, DbFails
<1>2. CASE \/ \E q \in Query : SubmitQuery(q)
           \/ \E a \in Accounts, s \in Servers, flag \in StoreFlags : SaveIntoCache(a, s, flag)
           \/ \E a \in Accounts : Age(a)
           \/ BackupStart \/ MainBackup \/ ExitServer \/ Restart \/ Crash \/ UNCHANGED vars
  BY <1>2 DEF SubmitQuery, SaveIntoCache, Age, BackupStart, MainBackup, BackupSaveAll,
     BackupPushMark, BackupEnd, ExitServer, Restart, Crash, StartAgain, vars
<1>3. CASE \/ LoopTest \/ ServiceDone \/ ExecuteUnlock \/ ListCached \/ IgnoreCached
           \/ GoToDatabase \/ LoadIntoCache
  BY <1>3 DEF LoopTest, ServiceDone, ExecuteUnlock, ListCached, IgnoreCached, GoToDatabase,
     LoadIntoCache
<1>4. CASE \/ PopEmpty \/ PopMark \/ PopDrop \/ PopTake \/ FinishKeep \/ FinishFailed
  BY <1>4 DEF PopEmpty, PopMark, PopDrop, PopTake, FinishKeep, FinishFailed
<1> QED
  BY <1>1, <1>2, <1>3, <1>4
     DEF Next, Environment, MainMessages, PersistentThread, ExecuteQuery

LEMMA FlushAlways ==
  ASSUME ~LateSaves
  PROVE  Spec => [](TypeInv /\ MarkInv /\ FlushInv)
<1>1. Init => FlushInv
  BY DEF Init, FlushInv, FailInv, EventInv, Cached, EmptyCache
<1>2. TypeInv /\ IInv /\ IInv' /\ OwnerInv /\ MarkInv /\ FlushInv /\ [Next]_vars => FlushInv'
  <2> SUFFICES ASSUME TypeInv, IInv, IInv', OwnerInv, MarkInv, FlushInv, [Next]_vars,
                      failures' = 0
               PROVE  FailInv' /\ \A a \in Accounts : EventInv(a)'
    BY DEF FlushInv
  <2>1. failures = 0
    BY FailuresCount DEF TypeInv, TypeOK
  <2> QED  BY <2>1, FailNext, EventNext DEF FlushInv
<1> QED  BY <1>1, <1>2, OwnerAlways, MarkAlways, PTL DEF Spec

(* When a backup ends every unit is in the database, unless a call failed: *)
(* whatever is saved, unlocked, dropped or saved for another server while  *)
(* the marked queue is worked off.                                         *)
THEOREM BackupsFlush ==
  ASSUME ~LateSaves
  PROVE  Spec => BackupFlushes
<1>1. TypeInv /\ MarkInv /\ FlushInv => [PopMark /\ failures = 0 => DirtyAccounts = {}]_vars
  <2> SUFFICES ASSUME TypeInv, MarkInv, FlushInv, PopMark, failures = 0,
                      NEW a \in Accounts, Cached(a), cacheMap[a].modified
               PROVE  FALSE
    BY DEF DirtyAccounts
  <2>1. 1 \in 1..Len(updateQueue) /\ updateQueue[1] = BackupMark
    BY DEF PopMark, TypeInv, TypeOK
  <2>2. Flushing
    BY <2>1 DEF MarkInv, HasMark, Flushing
  <2>3. Follows(updateQueue, EventOf(a), 0)
    BY <2>2 DEF FlushInv, EventInv
  <2>4. \A k \in 1..Len(updateQueue) : ~Ahead(updateQueue, k)
    BY <2>1 DEF Ahead, TypeInv, TypeOK
  <2> QED  BY <2>3, <2>4 DEF Follows
<1> QED  BY <1>1, FlushAlways, PTL DEF BackupFlushes

(* The shutdown has written every unit, unless a call failed: the check of *)
(* PersistentThread before it frees the cache.                             *)
THEOREM ShutdownsFlush ==
  ASSUME ~LateSaves
  PROVE  Spec => []ShutdownFlushes
<1>1. TypeInv /\ MarkInv /\ FlushInv => ShutdownFlushes
  <2> SUFFICES ASSUME TypeInv, MarkInv, FlushInv, pc = "End", failures = 0,
                      NEW a \in Accounts, Cached(a), cacheMap[a].modified
               PROVE  FALSE
    BY DEF ShutdownFlushes, DirtyAccounts
  <2>1. updateQueue = <<>> /\ Flushing
    BY DEF MarkInv, Flushing
  <2>2. Follows(updateQueue, EventOf(a), 0)
    BY <2>1 DEF FlushInv, EventInv
  <2> QED  BY <2>1, <2>2 DEF Follows
<1> QED  BY <1>1, FlushAlways, PTL
=============================================================================
