--------------------------- MODULE PersistProofs ---------------------------
(***************************************************************************)
(* What holds in PersistLayer for any accounts, servers and bounds.        *)
(*                                                                         *)
(* The argument rests on two facts about the persistent thread: it alone   *)
(* erases units and changes the database, and it copies a unit and clears  *)
(* `modified` in one critical section.  InvThread ties the thread's local  *)
(* copies to the unit they were taken from, InvOrder orders the contents   *)
(* by the number of their commit.                                          *)
(***************************************************************************)
EXTENDS PersistLayer, FiniteSetTheorems, TLAPS

Executing == {"Execute", "Database", "Load"}

(* What the persistent thread remembers about the query it executes.  A    *)
(* unit that appears after the cache was checked comes from a save.        *)
InvQuery ==
  /\ pc \in Executing => query \in Query
  /\ pc \in {"Database", "Load"} /\ Cached(query.account)
       => cacheMap[query.account].modified
  /\ pc = "Load" => /\ query.kind = "select"
                    /\ row[query.account].serverId = query.serverId
                    /\ loaded = row[query.account].data /\ loaded # 0

(* The unit it saves stays cached, and as long as nobody saves the player  *)
(* again the copy, then the row, is the unit's content.                    *)
InvThread ==
  pc \in {"Save", "Finish"} =>
    /\ Cached(ue.id)
    /\ cu.modified /\ ~cacheMap[ue.id].modified =>
         /\ pc = "Save" => cu.data = cacheMap[ue.id].data
         /\ pc = "Finish" /\ result => row[ue.id].data = cacheMap[ue.id].data

(* Row, copy and unit of an account are in the order of the commits.       *)
InOrder(a) ==
  /\ row[a].data <= clock[a]
  /\ Cached(a) => /\ row[a].data <= cacheMap[a].data
                  /\ cacheMap[a].data <= clock[a]
                  /\ clock[a] > 0
  /\ row[a].serverId = NoRow => clock[a] = 0

InvOrder ==
  /\ \A a \in Accounts : InOrder(a)
  /\ pc = "Save" /\ cu.modified => /\ row[ue.id].data <= cu.data
                                   /\ cu.data <= cacheMap[ue.id].data

IInv == InvQuery /\ InvThread /\ InvOrder /\ CleanIsStored

-----------------------------------------------------------------------------
(* Types.                                                                  *)

(* TypeOK alone is not inductive: an answer repeats the executed query.    *)
TypeInv == TypeOK /\ (pc \in Executing => query \in Query)

(* A queue with one query exchanged, or one appended, is a queue.          *)
LEMMA PushQueryType ==
  ASSUME queryQueue \in Seq(Query), NEW q \in Query, PushQuery(q)
  PROVE  queryQueue' \in Seq(Query)
BY DEF PushQuery

(* _SaveAll appends well-formed events.                                    *)
LEMMA SaveAllType ==
  ASSUME TypeOK, SaveAll
  PROVE  updateQueue' \in Seq(UpdateEvent)
<1>1. IsFiniteSet(DirtyAccounts)
  BY PersistAssumption, FS_Subset DEF DirtyAccounts
<1>2. Cardinality(DirtyAccounts) \in Nat
  BY <1>1, FS_CardinalityType
<1>3. PICK order \in Bijection(1..Cardinality(DirtyAccounts), DirtyAccounts) :
        updateQueue' = updateQueue \o
          [i \in 1..Cardinality(DirtyAccounts) |->
             [id |-> order[i], serverId |-> cacheMap[order[i]].serverId]]
  BY DEF SaveAll
<1>4. \A i \in 1..Cardinality(DirtyAccounts) : order[i] \in DirtyAccounts
  BY <1>3 DEF Bijection, Injection, Surjection, IsInjective
<1>5. \A a \in DirtyAccounts :
        [id |-> a, serverId |-> cacheMap[a].serverId] \in UpdateEvent
  BY DEF DirtyAccounts, Cached, TypeOK, UpdateEvent, CacheUnit
<1>6. [i \in 1..Cardinality(DirtyAccounts) |->
         [id |-> order[i], serverId |-> cacheMap[order[i]].serverId]]
        \in Seq(UpdateEvent)
  BY <1>2, <1>4, <1>5
<1> QED BY <1>3, <1>6 DEF TypeOK

(* The initial states are well formed.                                     *)
LEMMA TypeInit == Init => TypeInv
<1> SUFFICES ASSUME Init PROVE TypeInv
  OBVIOUS
<1>1. row \in [Accounts -> Row]
  BY DEF Init, Row
<1>2. clock \in [Accounts -> Nat]
  BY <1>1 DEF Init, Row
<1>3. cacheMap \in [Accounts -> CacheUnit \cup {NoUnit}]
  BY DEF Init, EmptyCache
<1>4. /\ updateQueue \in Seq(UpdateEvent)
      /\ queryQueue \in Seq(Query)
  BY DEF Init
<1>5. ue \in UpdateEvent /\ cu \in Snapshot
  BY DEF Init, UpdateEvent, BackupMark, Snapshot, NoSnapshot
<1>6. failures \in 0..MaxFailures /\ crashes \in 0..MaxCrashes
  BY PersistAssumption DEF Init
<1> QED
  BY <1>1, <1>2, <1>3, <1>4, <1>5, <1>6
     DEF Init, TypeInv, TypeOK, ThreadStates, Executing

(* What the operations leave in the database and in the cache is typed.    *)
LEMMA RowTypes ==
  ASSUME TypeOK, NEW a \in Accounts, NEW s \in Servers, NEW v \in Nat
  PROVE  /\ LockRow(a, s) \in [Accounts -> Row]
         /\ DeleteRow(a) \in [Accounts -> Row]
         /\ [row EXCEPT ![a] = [serverId |-> s, data |-> v]] \in [Accounts -> Row]
         /\ [row EXCEPT ![a].data = v] \in [Accounts -> Row]
         /\ UnlockRow(a, s) \in [Accounts -> Row]
BY DEF TypeOK, Row, LockRow, DeleteRow, UnlockRow

(* The operations on one unit leave well-formed units.                     *)
LEMMA UnitTypes ==
  ASSUME TypeOK, NEW a \in Accounts, Cached(a)
  PROVE  /\ MarkRemoved(a) \in [Accounts -> CacheUnit \cup {NoUnit}]
         /\ MarkTaken(a) \in [Accounts -> CacheUnit \cup {NoUnit}]
         /\ Unsaved(cacheMap[a]) \in CacheUnit
<1>1. cacheMap[a] \in CacheUnit /\ cacheMap \in [Accounts -> CacheUnit \cup {NoUnit}]
  BY DEF TypeOK, Cached
<1>2. Unsaved(cacheMap[a]) \in CacheUnit
  BY <1>1 DEF Unsaved, CacheUnit
<1>3. [cacheMap[a] EXCEPT !.removeMe = TRUE, !.storeFlag = "LOGOUT"] \in CacheUnit
  BY <1>1 DEF CacheUnit, StoreFlags
<1>4. /\ MarkRemoved(a) = [cacheMap EXCEPT
            ![a] = [cacheMap[a] EXCEPT !.removeMe = TRUE, !.storeFlag = "LOGOUT"]]
  BY <1>1 DEF MarkRemoved
<1>5. [cacheMap[a] EXCEPT !.modified = FALSE,
         !.recent = IF cacheMap[a].modified THEN TRUE ELSE @] \in CacheUnit
  BY <1>1 DEF CacheUnit
<1>6. MarkTaken(a) = [cacheMap EXCEPT
        ![a] = [cacheMap[a] EXCEPT !.modified = FALSE,
                  !.recent = IF cacheMap[a].modified THEN TRUE ELSE @]]
  BY <1>1 DEF MarkTaken
<1> QED BY <1>1, <1>2, <1>3, <1>4, <1>5, <1>6

(* They change the unit of one account, and of it not the content.         *)
LEMMA UnitEdits ==
  ASSUME TypeOK, NEW a \in Accounts, Cached(a)
  PROVE  /\ MarkRemoved(a)[a] # NoUnit /\ MarkTaken(a)[a] # NoUnit
         /\ MarkRemoved(a)[a].data = cacheMap[a].data
         /\ MarkRemoved(a)[a].modified = cacheMap[a].modified
         /\ MarkTaken(a)[a].data = cacheMap[a].data
         /\ MarkTaken(a)[a].modified = FALSE
         /\ \A b \in Accounts : b # a => /\ MarkRemoved(a)[b] = cacheMap[b]
                                         /\ MarkTaken(a)[b] = cacheMap[b]
<1>1. /\ cacheMap[a] \in CacheUnit
      /\ cacheMap \in [Accounts -> CacheUnit \cup {NoUnit}]
  BY DEF TypeOK, Cached
<1>2. /\ MarkRemoved(a)[a] =
           [cacheMap[a] EXCEPT !.removeMe = TRUE, !.storeFlag = "LOGOUT"]
      /\ \A b \in Accounts : b # a => MarkRemoved(a)[b] = cacheMap[b]
  BY <1>1 DEF MarkRemoved
<1>3. /\ MarkTaken(a)[a] =
           [cacheMap[a] EXCEPT !.modified = FALSE,
              !.recent = IF cacheMap[a].modified THEN TRUE ELSE @]
      /\ \A b \in Accounts : b # a => MarkTaken(a)[b] = cacheMap[b]
  BY <1>1 DEF MarkTaken
<1>4. /\ [cacheMap[a] EXCEPT !.removeMe = TRUE, !.storeFlag = "LOGOUT"] \in CacheUnit
      /\ [cacheMap[a] EXCEPT !.modified = FALSE,
           !.recent = IF cacheMap[a].modified THEN TRUE ELSE @] \in CacheUnit
  BY <1>1 DEF CacheUnit, StoreFlags
<1>5. /\ MarkRemoved(a)[a].data = cacheMap[a].data
      /\ MarkRemoved(a)[a].modified = cacheMap[a].modified
  BY <1>1, <1>2 DEF CacheUnit
<1>6. /\ MarkTaken(a)[a].data = cacheMap[a].data
      /\ MarkTaken(a)[a].modified = FALSE
  BY <1>1, <1>3 DEF CacheUnit
<1> QED BY <1>2, <1>3, <1>4, <1>5, <1>6, UnitAssumption

(* A save leaves a well-formed unit.                                       *)
LEMMA SavedUnitType ==
  ASSUME TypeOK, NEW a \in Accounts, NEW s \in Servers, NEW flag \in StoreFlags,
         NEW v \in Nat
  PROVE  SavedUnit(a, s, flag, v) \in CacheUnit
<1>1. Cached(a) => cacheMap[a] \in CacheUnit
  BY DEF TypeOK, Cached
<1>2. (flag = "LOGOUT") \in BOOLEAN
  OBVIOUS
<1> QED BY <1>1, <1>2 DEF SavedUnit, CacheUnit

(* Counting a database call stays within the bound.                        *)
LEMMA CallType ==
  ASSUME TypeOK, DbWorks \/ DbFails
  PROVE  failures' \in 0..MaxFailures
BY PersistAssumption DEF TypeOK, DbWorks, DbFails

(* An answer repeats the query, and ending one leaves no query.            *)
LEMMA AnswerType ==
  ASSUME query \in Query, NEW res \in Results, NEW v \in Nat, Answer(res, v)
  PROVE  reply' \in Reply
BY DEF Answer, Reply

(* The state after a query is well formed.                                 *)
LEMMA QueryDoneType ==
  ASSUME QueryDone
  PROVE  /\ pc' \in ThreadStates /\ pc' \notin Executing
         /\ query' \in Query \cup {NoQuery} /\ loaded' \in Nat
BY DEF QueryDone, ThreadStates, Executing

(* The state after an event is well formed.                                *)
LEMMA JobDoneType ==
  ASSUME JobDone
  PROVE  /\ pc' \in ThreadStates /\ pc' \notin Executing
         /\ ue' \in UpdateEvent /\ cu' \in Snapshot /\ result' \in BOOLEAN
BY DEF JobDone, ThreadStates, Executing, UpdateEvent, BackupMark, Snapshot, NoSnapshot

(* Every step keeps the types.                                             *)
LEMMA TypeNext == TypeInv /\ [Next]_vars => TypeInv'
<1> SUFFICES ASSUME TypeInv, [Next]_vars PROVE TypeInv'
  OBVIOUS
<1> USE DEF TypeInv, TypeOK, Executing
<1>1. ASSUME NEW q \in Query, SubmitQuery(q) PROVE TypeInv'
  BY <1>1, PushQueryType DEF SubmitQuery, cacheVars, jobVars, mainVars
<1>2. ASSUME NEW a \in Accounts, NEW s \in Servers, NEW flag \in StoreFlags,
             SaveIntoCache(a, s, flag)
      PROVE  TypeInv'
  <2>1. clock[a] + 1 \in Nat /\ clock' \in [Accounts -> Nat]
    BY <1>2 DEF SaveIntoCache
  <2>2. cacheMap' \in [Accounts -> CacheUnit \cup {NoUnit}]
    BY <1>2, <2>1, SavedUnitType DEF SaveIntoCache
  <2>3. updateQueue' \in Seq(UpdateEvent)
    BY <1>2 DEF SaveIntoCache, UpdateEvent
  <2> QED
    BY <1>2, <2>1, <2>2, <2>3 DEF SaveIntoCache, jobVars, mainVars, queryVars
<1>3. CASE BackupStart
  BY <1>3 DEF BackupStart, cacheVars, jobVars, queryVars
<1>4. CASE BackupSaveAll
  BY <1>4, SaveAllType DEF BackupSaveAll, jobVars, queryVars
<1>5. CASE BackupPushMark
  <2>1. BackupMark \in UpdateEvent
    BY DEF BackupMark, UpdateEvent
  <2>2. \A a \in Accounts, s \in Servers : [id |-> a, serverId |-> s] \in UpdateEvent
    BY DEF UpdateEvent
  <2>3. \A e \in UpdateEvent : updateQueue \o <<BackupMark, e>> \in Seq(UpdateEvent)
    BY <2>1
  <2>4. Append(updateQueue, BackupMark) \in Seq(UpdateEvent)
    BY <2>1
  <2>5. updateQueue' \in Seq(UpdateEvent)
    BY <1>5, <2>2, <2>3, <2>4 DEF BackupPushMark, PushMark
  <2> QED
    BY <1>5, <2>5 DEF BackupPushMark, jobVars, queryVars
<1>6. CASE BackupEnd
  BY <1>6 DEF BackupEnd, cacheVars, jobVars, queryVars
<1>7. CASE ExitServer
  BY <1>7, SaveAllType DEF ExitServer, jobVars, queryVars
<1>8. CASE Restart \/ Crash
  <2>1. StartAgain /\ crashes' \in 0..MaxCrashes
    BY <1>8, PersistAssumption DEF Restart, Crash
  <2>2. ue' \in UpdateEvent /\ cu' \in Snapshot
    BY <2>1 DEF StartAgain, UpdateEvent, BackupMark, Snapshot, NoSnapshot
  <2>3. /\ cacheMap' \in [Accounts -> CacheUnit \cup {NoUnit}]
        /\ updateQueue' \in Seq(UpdateEvent)
        /\ queryQueue' \in Seq(Query)
    BY <2>1 DEF StartAgain, EmptyCache
  <2> QED
    BY <2>1, <2>2, <2>3 DEF StartAgain, ThreadStates
<1>9. ASSUME NEW a \in Accounts, Age(a) PROVE TypeInv'
  BY <1>9 DEF Age, Cached, CacheUnit, jobVars, mainVars, queryVars
<1>10. CASE LoopTest
  BY <1>10 DEF LoopTest, cacheVars, jobVars, mainVars, queryVars, ThreadStates
<1>11. CASE ServiceDone
  BY <1>11 DEF ServiceDone, cacheVars, jobVars, mainVars, queryVars, ThreadStates
<1>12. CASE TakeQuery
  BY <1>12, PersistAssumption DEF TakeQuery, DbWorks, DbFails, cacheVars, jobVars,
     mainVars, ThreadStates
<1>13. CASE ExecuteUnlock
  <2>1. query \in Query
    BY <1>13 DEF ExecuteUnlock
  <2>2. cacheMap' \in [Accounts -> CacheUnit \cup {NoUnit}]
    BY <1>13, <2>1, UnitTypes DEF ExecuteUnlock, Query, cacheVars
  <2>3. [id |-> query.account, serverId |-> query.serverId] \in UpdateEvent
    BY <2>1 DEF Query, UpdateEvent
  <2>4. updateQueue' \in Seq(UpdateEvent)
    <3>1. Append(updateQueue, [id |-> query.account, serverId |-> query.serverId])
            \in Seq(UpdateEvent)
      BY <2>3
    <3> QED BY <1>13, <3>1 DEF ExecuteUnlock, cacheVars
  <2> QED
    BY <1>13, <2>2, <2>4, QueryDoneType DEF ExecuteUnlock, jobVars, mainVars
<1>14. CASE ListCached
  BY <1>14 DEF ListCached, QueryDone, Answer, Reply, Results, cacheVars, jobVars,
     mainVars, ThreadStates
<1>15. CASE IgnoreCached
  BY <1>15 DEF IgnoreCached, QueryDone, cacheVars, jobVars, mainVars, ThreadStates
<1>16. CASE GoToDatabase
  BY <1>16 DEF GoToDatabase, cacheVars, jobVars, mainVars, queryVars, ThreadStates
<1>17. CASE ListInDatabase
  <2>1. query \in Query /\ query.account \in Accounts /\ query.serverId \in Servers
    BY <1>17 DEF ListInDatabase, Query
  <2> DEFINE New(v) == [row EXCEPT ![query.account] =
                          [serverId |-> query.serverId, data |-> v]]
  <2>2. /\ \/ row' = row \/ row' = LockRow(query.account, query.serverId)
           \/ \E v \in {0, 1} : row' = New(v)
        /\ clock' = clock \/ clock' = [clock EXCEPT ![query.account] = 1]
    BY <1>17 DEF ListInDatabase, CreateRow
  <2>3. /\ LockRow(query.account, query.serverId) \in [Accounts -> Row]
        /\ New(0) \in [Accounts -> Row] /\ New(1) \in [Accounts -> Row]
    BY <2>1, RowTypes
  <2> HIDE DEF New
  <2>4. row' \in [Accounts -> Row] /\ clock' \in [Accounts -> Nat]
    BY <2>2, <2>3
  <2>5. reply' \in Reply
    BY <1>17, <2>1, AnswerType DEF ListInDatabase, Results
  <2>6. failures' \in 0..MaxFailures
    BY <1>17, CallType DEF ListInDatabase
  <2> QED
    BY <1>17, <2>4, <2>5, <2>6, QueryDoneType
       DEF ListInDatabase, cacheVars, jobVars, mainVars
<1>18. CASE CreateInDatabase
  <2>1. query \in Query /\ query.account \in Accounts /\ query.serverId \in Servers
    BY <1>18 DEF CreateInDatabase, Query
  <2> DEFINE New(v) == [row EXCEPT ![query.account] =
                          [serverId |-> query.serverId, data |-> v]]
  <2>2. /\ row' = row \/ \E v \in {0, 1} : row' = New(v)
        /\ clock' = clock \/ clock' = [clock EXCEPT ![query.account] = 1]
    BY <1>18 DEF CreateInDatabase, CreateRow
  <2>3. New(0) \in [Accounts -> Row] /\ New(1) \in [Accounts -> Row]
    BY <2>1, RowTypes
  <2> HIDE DEF New
  <2>4. row' \in [Accounts -> Row] /\ clock' \in [Accounts -> Nat]
    BY <2>2, <2>3
  <2>5. reply' \in Reply
    BY <1>18, <2>1, AnswerType DEF CreateInDatabase, Results
  <2>6. failures' \in 0..MaxFailures
    BY <1>18, CallType DEF CreateInDatabase
  <2> QED
    BY <1>18, <2>4, <2>5, <2>6, QueryDoneType
       DEF CreateInDatabase, cacheVars, jobVars, mainVars
<1>19. CASE SelectInDatabase
  <2>1. query \in Query /\ query.account \in Accounts /\ query.serverId \in Servers
    BY <1>19 DEF SelectInDatabase, Query
  <2>2. row' = row \/ row' = LockRow(query.account, query.serverId)
    BY <1>19 DEF SelectInDatabase
  <2>3. LockRow(query.account, query.serverId) \in [Accounts -> Row]
    BY <2>1, RowTypes
  <2>4. row' \in [Accounts -> Row]
    BY <2>2, <2>3
  <2>5. reply' \in Reply \cup {NoReply}
    BY <1>19, <2>1, AnswerType DEF SelectInDatabase, Results
  <2>6. failures' \in 0..MaxFailures
    BY <1>19, CallType DEF SelectInDatabase
  <2>7. /\ pc' \in ThreadStates /\ query' \in Query \cup {NoQuery} /\ loaded' \in Nat
        /\ pc' \in Executing => query' \in Query
    BY <1>19, <2>1, QueryDoneType DEF SelectInDatabase, ThreadStates, Row
  <2> QED
    BY <1>19, <2>4, <2>5, <2>6, <2>7
       DEF SelectInDatabase, cacheVars, jobVars, mainVars
<1>20. CASE LoadIntoCache
  <2>1. query \in Query /\ query.account \in Accounts /\ query.serverId \in Servers
    BY <1>20 DEF LoadIntoCache, Query
  <2>2. \A flag \in StoreFlags :
          [data |-> loaded, storeFlag |-> flag, serverId |-> query.serverId,
           modified |-> FALSE, removeMe |-> FALSE, recent |-> TRUE] \in CacheUnit
    BY <2>1 DEF CacheUnit
  <2>3. cacheMap' \in [Accounts -> CacheUnit \cup {NoUnit}]
    BY <1>20, <2>2 DEF LoadIntoCache
  <2>4. reply' \in Reply
    BY <1>20, <2>1, AnswerType DEF LoadIntoCache, Results
  <2> QED
    BY <1>20, <2>3, <2>4, QueryDoneType DEF LoadIntoCache, jobVars, mainVars
<1>21. CASE DeletePlayer
  <2>1. query \in Query /\ query.account \in Accounts
    BY <1>21 DEF DeletePlayer, Query
  <2>2. row' = row \/ row' = DeleteRow(query.account)
    BY <1>21 DEF DeletePlayer
  <2>3. DeleteRow(query.account) \in [Accounts -> Row]
    BY <2>1 DEF DeleteRow, Row
  <2>4. row' \in [Accounts -> Row]
    BY <2>2, <2>3
  <2>5. reply' \in Reply \cup {NoReply}
    BY <1>21, <2>1, AnswerType DEF DeletePlayer, Results
  <2>6. failures' \in 0..MaxFailures
    BY <1>21, CallType DEF DeletePlayer
  <2> QED
    BY <1>21, <2>4, <2>5, <2>6, QueryDoneType
       DEF DeletePlayer, cacheVars, jobVars, mainVars
<1>22. CASE PopEmpty
  BY <1>22 DEF PopEmpty, cacheVars, jobVars, mainVars, queryVars, ThreadStates
<1>23. CASE PopMark
  <2>1. updateQueue' \in Seq(UpdateEvent)
    BY <1>23 DEF PopMark
  <2> QED
    BY <1>23, <2>1 DEF PopMark, jobVars, queryVars, ThreadStates
<1>24. CASE PopDrop
  BY <1>24 DEF PopDrop, jobVars, mainVars, queryVars, ThreadStates
<1>25. CASE PopTake
  <2>1. updateQueue' \in Seq(UpdateEvent) /\ Head(updateQueue) \in UpdateEvent
    BY <1>25 DEF PopTake
  <2> DEFINE a == Head(updateQueue).id
  <2>2. a \in Accounts /\ Cached(a) /\ cacheMap[a] \in CacheUnit
    BY <1>25 DEF PopTake, Cached
  <2>3. cacheMap' \in [Accounts -> CacheUnit \cup {NoUnit}]
    BY <1>25, <2>2, UnitTypes DEF PopTake
  <2>4. cu' \in Snapshot
    BY <1>25, <2>2 DEF PopTake, CacheUnit, Snapshot
  <2> QED
    BY <1>25, <2>1, <2>3, <2>4 DEF PopTake, mainVars, queryVars, ThreadStates
<1>26. CASE SaveToDB
  <2>1. row' = row \/ row' = WrittenRow
    BY <1>26 DEF SaveToDB
  <2>2. WrittenRow \in [Accounts -> Row]
    BY DEF WrittenRow, Row, Snapshot
  <2>3. row' \in [Accounts -> Row]
    BY <2>1, <2>2
  <2>4. failures' \in 0..MaxFailures
    BY <1>26, CallType DEF SaveToDB
  <2> QED
    BY <1>26, <2>3, <2>4 DEF SaveToDB, cacheVars, mainVars, queryVars, ThreadStates
<1>27. CASE FinishRemove
  <2>1. row' = row \/ row' = UnlockRow(ue.id, ue.serverId)
    BY <1>27 DEF FinishRemove
  <2>2. UnlockRow(ue.id, ue.serverId) \in [Accounts -> Row]
    BY DEF UnlockRow, Row
  <2>3. row' \in [Accounts -> Row]
    BY <2>1, <2>2
  <2>4. cacheMap' \in [Accounts -> CacheUnit \cup {NoUnit}]
    BY <1>27 DEF FinishRemove
  <2>5. failures' \in 0..MaxFailures
    BY <1>27, CallType DEF FinishRemove
  <2> QED
    BY <1>27, <2>3, <2>4, <2>5, JobDoneType DEF FinishRemove, mainVars, queryVars
<1>28. CASE FinishKeep
  BY <1>28 DEF FinishKeep, JobDone, BackupMark, NoSnapshot, Snapshot, UpdateEvent, cacheVars,
     mainVars, queryVars, ThreadStates
<1>29. CASE FinishFailed
  <2>1. cacheMap' \in [Accounts -> CacheUnit \cup {NoUnit}]
    BY <1>29, UnitTypes DEF FinishFailed, Cached
  <2> QED
    BY <1>29, <2>1, JobDoneType DEF FinishFailed, mainVars, queryVars
<1>30. CASE UNCHANGED vars
  BY <1>30 DEF vars, cacheVars, jobVars, mainVars, queryVars
<1> QED
  BY <1>1, <1>2, <1>3, <1>4, <1>5, <1>6, <1>7, <1>8, <1>9, <1>10, <1>11, <1>12,
     <1>13, <1>14, <1>15, <1>16, <1>17, <1>18, <1>19, <1>20, <1>21, <1>22, <1>23,
     <1>24, <1>25, <1>26, <1>27, <1>28, <1>29, <1>30
     DEF Next, Environment, MainMessages, MainBackup, PersistentThread, ExecuteQuery

(* PersistLayer is type correct.                                           *)
THEOREM TypeCorrect == Spec => []TypeOK
<1>1. Init => TypeInv
  BY TypeInit
<1>2. TypeInv /\ [Next]_vars => TypeInv'
  BY TypeNext
<1>3. TypeInv => TypeOK
  BY DEF TypeInv
<1> QED BY <1>1, <1>2, <1>3, PTL DEF Spec

-----------------------------------------------------------------------------
(* The inductive invariant.                                                *)

(* Two kinds of steps the invariant does not notice: those that leave the  *)
(* thread where it is, and those that leave the thread without a copy and  *)
(* without a checked query.                                                *)
Untouched ==
  /\ UNCHANGED <<row, cacheMap, clock>>
  /\ \/ UNCHANGED <<pc, query, loaded, jobVars>>
     \/ /\ pc \notin {"Save", "Finish"}
        /\ pc' \notin {"Database", "Load", "Save", "Finish"}
        /\ pc' = "Execute" => query' \in Query

(* What leaves rows, units and the job alone keeps the invariant.          *)
LEMMA UntouchedKeeps == IInv /\ Untouched => IInv'
<1> SUFFICES ASSUME IInv, Untouched PROVE IInv'
  OBVIOUS
<1> USE DEF IInv, Executing, Cached, Writing, InHand
<1>1. CASE UNCHANGED <<row, cacheMap, clock, pc, query, loaded, jobVars>>
  <2>1. InvQuery'
    BY <1>1 DEF InvQuery
  <2>2. InvThread' /\ InvOrder'
    BY <1>1 DEF InvThread, InvOrder, InOrder, jobVars
  <2>3. CleanIsStored'
    BY <1>1 DEF CleanIsStored, jobVars
  <2> QED BY <2>1, <2>2, <2>3
<1>2. CASE /\ UNCHANGED <<row, cacheMap, clock>>
           /\ pc \notin {"Save", "Finish"}
           /\ pc' \notin {"Database", "Load", "Save", "Finish"}
           /\ pc' = "Execute" => query' \in Query
  <2>1. InvQuery' /\ InvThread'
    BY <1>2 DEF InvQuery, InvThread
  <2>2. InvOrder'
    BY <1>2 DEF InvOrder, InOrder
  <2>3. CleanIsStored'
    BY <1>2 DEF CleanIsStored
  <2> QED BY <2>1, <2>2, <2>3
<1> QED BY <1>1, <1>2 DEF Untouched

(* The invariant holds before anything is cached.                          *)
LEMMA InvInit == Init => IInv
<1> SUFFICES ASSUME Init PROVE IInv
  OBVIOUS
<1>1. \A a \in Accounts : /\ ~Cached(a) /\ clock[a] = row[a].data /\ row[a].data \in {0, 1}
                          /\ row[a].serverId = NoRow => row[a].data = 0
  BY PersistAssumption DEF Init, Cached, EmptyCache
<1> QED
  BY <1>1 DEF Init, IInv, InvQuery, InvThread, InvOrder, InOrder, CleanIsStored, Executing

(* The steps of the main thread and of its queries that touch nothing.     *)
LEMMA UntouchedSteps ==
  ASSUME TypeInv,
         \/ \E q \in Query : SubmitQuery(q)
         \/ BackupStart \/ MainBackup \/ ExitServer
         \/ LoopTest \/ ServiceDone \/ TakeQuery \/ ListCached \/ IgnoreCached
         \/ PopEmpty \/ PopMark \/ PopDrop \/ UNCHANGED vars
  PROVE  Untouched
<1>1. ASSUME \/ \E q \in Query : SubmitQuery(q)
             \/ BackupStart \/ MainBackup \/ ExitServer \/ UNCHANGED vars
      PROVE  Untouched
  BY <1>1 DEF Untouched, SubmitQuery, BackupStart, MainBackup, BackupSaveAll,
     BackupPushMark, BackupEnd, ExitServer, vars, cacheVars, queryVars
<1>2. ASSUME LoopTest \/ ServiceDone \/ PopEmpty \/ PopMark \/ PopDrop
      PROVE  Untouched
  BY <1>2 DEF Untouched, LoopTest, ServiceDone, PopEmpty, PopMark, PopDrop, Popping,
     cacheVars, queryVars
<1>3. CASE TakeQuery
  BY <1>3 DEF Untouched, TakeQuery, TypeInv, TypeOK, cacheVars
<1>4. CASE ListCached \/ IgnoreCached
  BY <1>4 DEF Untouched, ListCached, IgnoreCached, QueryDone, cacheVars
<1> QED BY <1>1, <1>2, <1>3, <1>4

(* A save: the unit becomes the newest content and is marked changed, so   *)
(* nothing is claimed about its row and its copy.                          *)
LEMMA InvSave ==
  ASSUME TypeInv, IInv, NEW a \in Accounts, NEW s \in Servers,
         NEW flag \in StoreFlags, SaveIntoCache(a, s, flag)
  PROVE  IInv'
<1>1. /\ cacheMap' = [cacheMap EXCEPT ![a] = SavedUnit(a, s, flag, clock[a] + 1)]
      /\ clock' = [clock EXCEPT ![a] = @ + 1]
      /\ UNCHANGED <<row, pc, query, loaded, ue, cu, result>>
      /\ clock[a] > 0
  BY DEF SaveIntoCache, queryVars, jobVars
<1>2. SavedUnit(a, s, flag, clock[a] + 1) \in CacheUnit
  BY SavedUnitType DEF TypeInv, TypeOK
<1>3. /\ Cached(a)' /\ cacheMap'[a].modified /\ cacheMap'[a].data = clock[a] + 1
      /\ clock'[a] = clock[a] + 1 /\ clock[a] \in Nat
  BY <1>1, <1>2, UnitAssumption DEF Cached, SavedUnit, TypeInv, TypeOK
<1>4. \A b \in Accounts : b # a => /\ cacheMap'[b] = cacheMap[b] /\ clock'[b] = clock[b]
                                   /\ Cached(b)' <=> Cached(b)
  BY <1>1 DEF Cached, TypeInv, TypeOK
<1>5. \A b \in Accounts : row[b].data \in Nat /\ (Cached(b) => cacheMap[b].data \in Nat)
  BY DEF TypeInv, TypeOK, Row, CacheUnit, Cached
<1>6. cu.data \in Nat
  BY DEF TypeInv, TypeOK, Snapshot
<1>7. InvQuery'
  <2>1. pc \in Executing => query.account \in Accounts
    BY DEF IInv, InvQuery, Query
  <2> QED BY <1>1, <1>3, <1>4, <2>1 DEF IInv, InvQuery, Executing
<1>8. InvThread'
  BY <1>1, <1>3, <1>4 DEF IInv, InvThread, Cached
<1>9. InvOrder'
  <2>1. \A b \in Accounts : InOrder(b)'
    BY <1>1, <1>3, <1>4, <1>5 DEF IInv, InvOrder, InOrder
  <2>2. pc' = "Save" /\ cu'.modified => /\ row'[ue'.id].data <= cu'.data
                                        /\ cu'.data <= cacheMap'[ue'.id].data
    BY <1>1, <1>3, <1>4, <1>5, <1>6 DEF IInv, InvOrder, InOrder, InvThread, Cached
  <2> QED BY <2>1, <2>2 DEF InvOrder, InOrder
<1>10. CleanIsStored'
  BY <1>1, <1>3, <1>4 DEF IInv, CleanIsStored, Writing, InHand
<1> QED BY <1>7, <1>8, <1>9, <1>10 DEF IInv

(* Time passes: only the age of a unit changes.                            *)
LEMMA InvAge ==
  ASSUME TypeInv, IInv, NEW a \in Accounts, Age(a)
  PROVE  IInv'
<1>1. /\ cacheMap' = [cacheMap EXCEPT ![a].recent = FALSE]
      /\ UNCHANGED <<row, clock, pc, query, loaded, ue, cu, result>>
      /\ Cached(a)
  BY DEF Age, queryVars, jobVars
<1>2. [cacheMap[a] EXCEPT !.recent = FALSE] \in CacheUnit
  BY <1>1 DEF Cached, CacheUnit, TypeInv, TypeOK
<1>3. \A b : Cached(b)' <=> Cached(b)
  BY <1>1, <1>2, UnitAssumption DEF Cached, TypeInv, TypeOK
<1>4. \A b \in Accounts : Cached(b) => /\ cacheMap'[b].modified = cacheMap[b].modified
                                       /\ cacheMap'[b].data = cacheMap[b].data
  BY <1>1 DEF Cached, CacheUnit, TypeInv, TypeOK
<1>5. InvQuery'
  BY <1>1, <1>3, <1>4 DEF IInv, InvQuery, Executing, Cached
<1>6. InvThread'
  BY <1>1, <1>3, <1>4 DEF IInv, InvThread, Cached
<1>7. InvOrder'
  BY <1>1, <1>3, <1>4 DEF IInv, InvOrder, InOrder, InvThread, Cached
<1>8. CleanIsStored'
  BY <1>1, <1>3, <1>4 DEF IInv, CleanIsStored, Writing, InHand
<1> QED BY <1>5, <1>6, <1>7, <1>8 DEF IInv

(* The process starts again with nothing cached.                           *)
LEMMA InvStartAgain ==
  ASSUME TypeInv, IInv, StartAgain
  PROVE  IInv'
<1>1. \A a \in Accounts : ~Cached(a)'
  BY DEF StartAgain, EmptyCache, Cached
<1> QED
  BY <1>1 DEF StartAgain, IInv, InvQuery, InvThread, InvOrder, InOrder, CleanIsStored, Executing

(* A logout: the unit is told to leave, its content stays.                 *)
LEMMA InvUnlock ==
  ASSUME TypeInv, IInv, ExecuteUnlock
  PROVE  IInv'
<1>1. /\ UNCHANGED <<row, clock>> /\ pc = "Execute" /\ pc' = "Service"
      /\ query.account \in Accounts
      /\ cacheMap' = cacheMap \/ /\ cacheMap' = MarkRemoved(query.account)
                                 /\ Cached(query.account)
  BY DEF ExecuteUnlock, QueryDone, cacheVars, IInv, InvQuery, Executing, Query
<1>2. \A b \in Accounts :
        /\ Cached(b)' <=> Cached(b)
        /\ Cached(b) => /\ cacheMap'[b].modified = cacheMap[b].modified
                        /\ cacheMap'[b].data = cacheMap[b].data
  BY <1>1, UnitEdits DEF Cached, TypeInv
<1> QED
  BY <1>1, <1>2 DEF IInv, InvQuery, InvThread, InvOrder, InOrder, CleanIsStored,
     Writing, InHand, Executing, Cached

(* The cache is left for the database.                                     *)
LEMMA InvGoToDatabase ==
  ASSUME TypeInv, IInv, GoToDatabase
  PROVE  IInv'
BY DEF GoToDatabase, cacheVars, queryVars, IInv, InvQuery, InvThread, InvOrder, InOrder,
   CleanIsStored, Writing, InHand, Executing, Cached

(* A query changes at most the row of its account, and leaves a content in *)
(* it only when the account has none and is not cached.                    *)
LEMMA InvRow ==
  ASSUME TypeInv, IInv, NEW a \in Accounts, NEW s \in Servers, NEW v \in Nat,
         pc \in Executing, pc' = "Service", UNCHANGED cacheMap,
         row'[a].serverId = s, row'[a].data = v,
         \A b \in Accounts : b # a => row'[b] = row[b],
         \/ v = row[a].data /\ UNCHANGED clock
         \/ v = 0 /\ ~Cached(a) /\ UNCHANGED clock
         \/ v \in {0, 1} /\ clock[a] = 0 /\ clock' = [clock EXCEPT ![a] = 1]
  PROVE  IInv'
<1>1. /\ s # NoRow
      /\ \A b \in Accounts : b # a => clock'[b] = clock[b]
      /\ \A b : Cached(b)' <=> Cached(b)
  BY PersistAssumption DEF Cached, TypeInv, TypeOK, Row
<1>2. /\ clock[a] = 0 => ~Cached(a) /\ row[a].data = 0
      /\ row[a].data \in Nat /\ clock[a] \in Nat
      /\ clock'[a] \in {clock[a], 1}
  BY DEF IInv, InvOrder, InOrder, TypeInv, TypeOK, Row
<1>3. InvQuery' /\ InvThread'
  BY DEF IInv, InvQuery, InvThread, Executing
<1>4. \A b \in Accounts : b # a => InOrder(b)'
  BY <1>1 DEF IInv, InvOrder, InOrder
<1>5. InOrder(a)'
  BY <1>1, <1>2 DEF IInv, InvOrder, InOrder, TypeInv, TypeOK
<1>6. InvOrder'
  BY <1>4, <1>5 DEF InvOrder
<1>7. CleanIsStored'
  BY <1>1, <1>2 DEF IInv, CleanIsStored, Writing, InHand, Executing
<1> QED BY <1>3, <1>6, <1>7 DEF IInv

(* The edits of a row, field by field.                                     *)
LEMMA RowEdits ==
  ASSUME TypeOK, NEW a \in Accounts, NEW s \in Servers, NEW v \in Nat
  PROVE  LET new == [row EXCEPT ![a] = [serverId |-> s, data |-> v]] IN
         /\ LockRow(a, s)[a].serverId = s /\ LockRow(a, s)[a].data = row[a].data
         /\ DeleteRow(a)[a].serverId = row[a].serverId /\ DeleteRow(a)[a].data = 0
         /\ new[a].serverId = s /\ new[a].data = v
         /\ \A b \in Accounts : b # a => /\ LockRow(a, s)[b] = row[b]
                                         /\ DeleteRow(a)[b] = row[b]
                                         /\ new[b] = row[b]
BY DEF TypeOK, Row, LockRow, DeleteRow

(* List requests lock, create or leave a row.                              *)
LEMMA InvListInDatabase ==
  ASSUME TypeInv, IInv, ListInDatabase
  PROVE  IInv'
<1> DEFINE a == query.account
           s == query.serverId
           New(v) == [row EXCEPT ![a] = [serverId |-> s, data |-> v]]
<1>1. /\ a \in Accounts /\ s \in Servers /\ pc = "Database" /\ pc' = "Service"
      /\ UNCHANGED cacheMap /\ row[a].data \in Nat
  BY DEF ListInDatabase, QueryDone, cacheVars, IInv, InvQuery, Executing, Query,
     TypeInv, TypeOK, Row
<1>2. row[a].serverId = NoRow => clock[a] = 0
  BY <1>1 DEF IInv, InvOrder, InOrder
<1>3. \/ UNCHANGED <<row, clock>>
      \/ row' = LockRow(a, s) /\ UNCHANGED clock
      \/ /\ row' = New(0) \/ row' = New(1)
         /\ clock[a] = 0 /\ clock' = [clock EXCEPT ![a] = 1]
  BY <1>2 DEF ListInDatabase, CreateRow
<1>4. CASE UNCHANGED <<row, clock>>
  BY <1>1, <1>4, UntouchedKeeps DEF Untouched
<1>5. CASE row' = LockRow(a, s) /\ UNCHANGED clock
  BY <1>1, <1>5, RowEdits, InvRow DEF TypeInv, Executing
<1>6. CASE /\ row' = New(0) \/ row' = New(1)
           /\ clock[a] = 0 /\ clock' = [clock EXCEPT ![a] = 1]
  <2>1. PICK v \in {0, 1} : row' = New(v)
    BY <1>6
  <2>2. /\ row'[a].serverId = s /\ row'[a].data = v
        /\ \A b \in Accounts : b # a => row'[b] = row[b]
    BY <1>1, <2>1, RowEdits DEF TypeInv
  <2>3. pc \in Executing /\ v \in Nat
    BY <1>1, <2>1 DEF Executing
  <2> HIDE DEF a, s, New
  <2> QED BY <1>1, <1>6, <2>1, <2>2, <2>3, InvRow
<1> QED BY <1>3, <1>4, <1>5, <1>6

(* A creation fills a row that has no character.                           *)
LEMMA InvCreateInDatabase ==
  ASSUME TypeInv, IInv, CreateInDatabase
  PROVE  IInv'
<1> DEFINE a == query.account
           s == query.serverId
           New(v) == [row EXCEPT ![a] = [serverId |-> s, data |-> v]]
<1>1. /\ a \in Accounts /\ s \in Servers /\ pc = "Database" /\ pc' = "Service"
      /\ UNCHANGED cacheMap
  BY DEF CreateInDatabase, QueryDone, cacheVars, IInv, InvQuery, Executing, Query
<1>2. \/ UNCHANGED <<row, clock>>
      \/ /\ \E v \in {0, 1} : row' = New(v)
         /\ clock[a] = 0 /\ clock' = [clock EXCEPT ![a] = 1]
  BY DEF CreateInDatabase, CreateRow, FreeName
<1>3. CASE UNCHANGED <<row, clock>>
  BY <1>1, <1>3, UntouchedKeeps DEF Untouched
<1>4. CASE /\ \E v \in {0, 1} : row' = New(v)
           /\ clock[a] = 0 /\ clock' = [clock EXCEPT ![a] = 1]
  <2>1. PICK v \in {0, 1} : row' = New(v)
    BY <1>4
  <2>2. /\ row'[a].serverId = s /\ row'[a].data = v
        /\ \A b \in Accounts : b # a => row'[b] = row[b]
    BY <1>1, <2>1, RowEdits DEF TypeInv
  <2>3. pc \in Executing /\ v \in Nat
    BY <1>1, <2>1 DEF Executing
  <2> HIDE DEF a, s, New
  <2> QED BY <1>1, <1>4, <2>1, <2>2, <2>3, InvRow
<1> QED BY <1>2, <1>3, <1>4

(* A selection locks the row and remembers its content.                    *)
LEMMA InvSelectInDatabase ==
  ASSUME TypeInv, IInv, SelectInDatabase
  PROVE  IInv'
<1> DEFINE a == query.account
           s == query.serverId
<1>1. /\ a \in Accounts /\ s \in Servers /\ pc = "Database"
      /\ UNCHANGED <<cacheMap, clock>> /\ row[a].data \in Nat
  BY DEF SelectInDatabase, cacheVars, IInv, InvQuery, Executing, Query,
     TypeInv, TypeOK, Row
<1>2. CASE pc' = "Service"
  <2>1. row' = row \/ row' = LockRow(a, s)
    BY DEF SelectInDatabase
  <2>2. CASE row' = row
    BY <1>1, <1>2, <2>2, UntouchedKeeps DEF Untouched
  <2>3. CASE row' = LockRow(a, s)
    BY <1>1, <1>2, <2>3, RowEdits, InvRow DEF TypeInv, Executing
  <2> QED BY <2>1, <2>2, <2>3
<1>3. CASE pc' = "Load"
  <2>1. /\ query.kind = "select" /\ UNCHANGED query
        /\ row' = LockRow(a, s) /\ loaded' = row[a].data /\ row[a].data # 0
    BY <1>3 DEF SelectInDatabase, QueryDone
  <2>2. /\ row'[a].serverId = s /\ row'[a].data = row[a].data /\ s # NoRow
        /\ \A b \in Accounts : b # a => row'[b] = row[b]
    BY <1>1, <2>1, RowEdits, PersistAssumption DEF TypeInv
  <2>3. \A b : Cached(b)' <=> Cached(b)
    BY <1>1 DEF Cached
  <2>4. InvQuery'
    BY <1>1, <1>3, <2>1, <2>2, <2>3 DEF IInv, InvQuery, Executing
  <2>5. InvThread'
    BY <1>3 DEF InvThread
  <2>6. InvOrder'
    BY <1>1, <1>3, <2>2, <2>3 DEF IInv, InvOrder, InOrder
  <2>7. CleanIsStored'
    BY <1>1, <1>3, <2>2, <2>3 DEF IInv, CleanIsStored, Writing, InHand
  <2> QED BY <2>4, <2>5, <2>6, <2>7 DEF IInv
<1> QED BY <1>2, <1>3 DEF SelectInDatabase, QueryDone

(* A character that was read enters the cache as it is in its row.         *)
LEMMA InvLoadIntoCache ==
  ASSUME TypeInv, IInv, LoadIntoCache
  PROVE  IInv'
<1>1. PICK a \in Accounts :
      /\ a = query.account /\ pc = "Load" /\ pc' = "Service"
      /\ UNCHANGED <<row, clock>> /\ loaded = row[a].data
      /\ row[a].data <= clock[a] /\ clock[a] > 0 /\ row[a].data \in Nat
  BY DEF LoadIntoCache, QueryDone, IInv, InvQuery, InvOrder, InOrder, Executing, Query,
     TypeInv, TypeOK, Row
<1>2. CASE UNCHANGED cacheMap
  BY <1>1, <1>2, UntouchedKeeps DEF Untouched
<1>3. CASE ~UNCHANGED cacheMap
  <2>1. PICK flag \in StoreFlags :
          cacheMap' = [cacheMap EXCEPT ![query.account] =
            [data |-> loaded, storeFlag |-> flag, serverId |-> query.serverId,
             modified |-> FALSE, removeMe |-> FALSE, recent |-> TRUE]]
    BY <1>1, <1>3 DEF LoadIntoCache
  <2>2. /\ cacheMap'[a].data = row[a].data
        /\ \A b \in Accounts : b # a => /\ cacheMap'[b] = cacheMap[b]
                                        /\ Cached(b)' <=> Cached(b)
    BY <1>1, <2>1 DEF Cached, TypeInv, TypeOK
  <2>3. InvQuery' /\ InvThread'
    BY <1>1 DEF InvQuery, InvThread, Executing
  <2>4. \A b \in Accounts : InOrder(b)'
    <3>1. \A b \in Accounts : b # a => InOrder(b)'
      BY <1>1, <2>2 DEF IInv, InvOrder, InOrder
    <3>2. InOrder(a)'
      BY <1>1, <2>2 DEF IInv, InvOrder, InOrder
    <3> QED BY <3>1, <3>2
  <2>5. InvOrder'
    BY <1>1, <2>4 DEF InvOrder
  <2>6. CleanIsStored'
    BY <1>1, <2>2 DEF IInv, CleanIsStored, Writing, InHand, Cached
  <2> QED BY <2>3, <2>5, <2>6 DEF IInv
<1> QED BY <1>2, <1>3

(* A deletion empties the row of an account that is not cached.            *)
LEMMA InvDeletePlayer ==
  ASSUME TypeInv, IInv, DeletePlayer
  PROVE  IInv'
<1>1. PICK a \in Accounts : a = query.account
  BY DEF DeletePlayer, IInv, InvQuery, Executing, Query
<1>2. /\ query.serverId \in Servers /\ pc = "Execute" /\ pc' = "Service"
      /\ UNCHANGED <<cacheMap, clock>>
  BY DEF DeletePlayer, QueryDone, cacheVars, IInv, InvQuery, Executing, Query
<1>3. CASE row' = row
  BY <1>2, <1>3, UntouchedKeeps DEF Untouched
<1>4. CASE row' # row
  <2>1. /\ row' = DeleteRow(a) /\ ~Cached(a)
        /\ row[a].serverId = query.serverId
    BY <1>1, <1>4 DEF DeletePlayer
  <2>2. /\ row'[a].serverId = query.serverId /\ row'[a].data = 0
        /\ \A b \in Accounts : b # a => row'[b] = row[b]
    BY <1>2, <2>1, RowEdits DEF TypeInv
  <2>3. pc \in Executing
    BY <1>2 DEF Executing
  <2> QED BY <1>2, <2>1, <2>2, <2>3, InvRow
<1> QED BY <1>3, <1>4

(* The copy is the unit's content at the moment it counts as written.      *)
LEMMA InvPopTake ==
  ASSUME TypeInv, IInv, PopTake
  PROVE  IInv'
<1>1. PICK a \in Accounts : a = Head(updateQueue).id /\ Cached(a)
  BY DEF PopTake, Cached
<1>2. /\ ue' = Head(updateQueue) /\ pc' = "Save" /\ pc \in {"Pop", "Retry"}
      /\ UNCHANGED <<row, clock>>
      /\ cacheMap' = MarkTaken(a)
      /\ cu'.data = cacheMap[a].data /\ cu'.modified = cacheMap[a].modified
  BY <1>1 DEF PopTake, Popping
<1>3. /\ Cached(a)' /\ ~cacheMap'[a].modified /\ cacheMap'[a].data = cacheMap[a].data
      /\ \A b \in Accounts : b # a => cacheMap'[b] = cacheMap[b]
  BY <1>1, <1>2, UnitEdits DEF Cached, TypeInv
<1>4. \A b \in Accounts : Cached(b)' <=> Cached(b)
  BY <1>1, <1>3 DEF Cached
<1>5. InvQuery'
  BY <1>2 DEF InvQuery, Executing
<1>6. InvThread'
  BY <1>1, <1>2, <1>3 DEF InvThread
<1>7. InvOrder'
  <2>1. \A b \in Accounts : InOrder(b)'
    BY <1>2, <1>3, <1>4 DEF IInv, InvOrder, InOrder
  <2>2. /\ row[a].data <= cacheMap[a].data
        /\ cacheMap[a].data \in Nat
    BY <1>1 DEF IInv, InvOrder, InOrder, TypeInv, TypeOK, CacheUnit, Cached
  <2> QED BY <1>1, <1>2, <1>3, <2>1, <2>2 DEF InvOrder
<1>8. CleanIsStored'
  BY <1>1, <1>2, <1>3, <1>4 DEF IInv, CleanIsStored, Writing, InHand
<1> QED BY <1>5, <1>6, <1>7, <1>8 DEF IInv

(* A save writes the copy, or leaves the row.                              *)
LEMMA InvSaveToDB ==
  ASSUME TypeInv, IInv, SaveToDB
  PROVE  IInv'
<1>1. PICK a \in Accounts : a = ue.id /\ Cached(a)
  BY DEF SaveToDB, IInv, InvThread, Cached
<1>2. /\ pc = "Save" /\ pc' = "Finish"
      /\ UNCHANGED <<cacheMap, clock, ue, cu>>
      /\ \A b : Cached(b)' <=> Cached(b)
  BY DEF SaveToDB, cacheVars, Cached
<1>3. \/ row' = row
      \/ row' = WrittenRow /\ cu.modified
  BY DEF SaveToDB
<1>4. result' /\ cu.modified => row' = WrittenRow
  BY DEF SaveToDB
<1>5. /\ WrittenRow[a].data = cu.data /\ WrittenRow[a].serverId = row[a].serverId
      /\ \A b \in Accounts : b # a => WrittenRow[b] = row[b]
  BY <1>1 DEF WrittenRow, TypeInv, TypeOK, Row
<1>6. cu.modified => /\ row[a].data <= cu.data
                     /\ cu.data <= cacheMap[a].data
  BY <1>1, <1>2 DEF IInv, InvOrder
<1>7. InvQuery'
  BY <1>2 DEF InvQuery, Executing
<1>8. InvThread'
  <2>1. cu.modified /\ ~cacheMap[a].modified => cu.data = cacheMap[a].data
    BY <1>1, <1>2 DEF IInv, InvThread
  <2> QED BY <1>1, <1>2, <1>4, <1>5, <2>1 DEF InvThread
<1>9. InvOrder'
  <2>1. \A b \in Accounts : b # a => InOrder(b)'
    BY <1>2, <1>3, <1>5 DEF IInv, InvOrder, InOrder
  <2>2. InOrder(a)'
    <3>1. /\ InOrder(a)
          /\ row[a].data \in Nat /\ cu.data \in Nat /\ clock[a] \in Nat
          /\ cacheMap[a].data \in Nat
      BY <1>1 DEF IInv, InvOrder, TypeInv, TypeOK, Row, Snapshot, CacheUnit, Cached
    <3> QED BY <1>1, <1>2, <1>3, <1>5, <1>6, <3>1 DEF InOrder
  <2> QED BY <1>2, <2>1, <2>2 DEF InvOrder
<1>10. CleanIsStored'
  BY <1>1, <1>2, <1>3, <1>5 DEF IInv, CleanIsStored, Writing, InHand
<1> QED BY <1>7, <1>8, <1>9, <1>10 DEF IInv

(* The unit that leaves is unchanged, and every other one is as before.    *)
LEMMA InvFinishRemove ==
  ASSUME TypeInv, IInv, FinishRemove
  PROVE  IInv'
<1>1. PICK a \in Accounts : a = ue.id
  BY DEF FinishRemove, Cached
<1>2. /\ pc = "Finish" /\ pc' = "Loop" /\ UNCHANGED clock
      /\ cacheMap' = [cacheMap EXCEPT ![a] = NoUnit]
      /\ row' = row \/ row' = UnlockRow(a, ue.serverId)
  BY <1>1 DEF FinishRemove, JobDone
<1>3. /\ ~Cached(a)'
      /\ \A b \in Accounts : b # a => /\ cacheMap'[b] = cacheMap[b]
                                      /\ Cached(b)' <=> Cached(b)
  BY <1>2 DEF Cached, TypeInv, TypeOK
<1>4. /\ row'[a].data = row[a].data
      /\ row'[a].serverId = NoRow => row[a].serverId = NoRow
      /\ \A b \in Accounts : b # a => row'[b] = row[b]
  BY <1>2, PersistAssumption DEF UnlockRow, TypeInv, TypeOK, Row
<1>5. InvQuery' /\ InvThread'
  BY <1>2 DEF InvQuery, InvThread, Executing
<1>6. InvOrder'
  <2>1. \A b \in Accounts : InOrder(b)'
    BY <1>2, <1>3, <1>4 DEF IInv, InvOrder, InOrder
  <2> QED BY <1>2, <2>1 DEF InvOrder
<1>7. CleanIsStored'
  BY <1>1, <1>2, <1>3, <1>4 DEF IInv, CleanIsStored, Writing, InHand
<1> QED BY <1>5, <1>6, <1>7 DEF IInv

(* A copy that was written, or did not have to be, is forgotten.           *)
LEMMA InvFinishKeep ==
  ASSUME TypeInv, IInv, FinishKeep
  PROVE  IInv'
<1>1. /\ pc = "Finish" /\ pc' = "Loop" /\ result
      /\ UNCHANGED <<row, cacheMap, clock>>
      /\ \A b : Cached(b)' <=> Cached(b)
  BY DEF FinishKeep, JobDone, cacheVars, Cached
<1>2. InvQuery' /\ InvThread'
  BY <1>1 DEF InvQuery, InvThread, Executing
<1>3. InvOrder'
  BY <1>1 DEF IInv, InvOrder, InOrder
<1>4. CleanIsStored'
  BY <1>1 DEF IInv, InvThread, CleanIsStored, Writing, InHand
<1> QED BY <1>2, <1>3, <1>4 DEF IInv

(* After a failed save the unit is marked changed again.                   *)
LEMMA InvFinishFailed ==
  ASSUME TypeInv, IInv, FinishFailed
  PROVE  IInv'
<1>1. PICK a \in Accounts : a = ue.id /\ Cached(a)
  BY DEF FinishFailed, IInv, InvThread, Cached
<1>2. /\ pc = "Finish" /\ pc' = "Loop" /\ UNCHANGED <<row, clock>>
      /\ cacheMap' = [cacheMap EXCEPT ![a] = Unsaved(cacheMap[a])]
  BY <1>1 DEF FinishFailed, JobDone
<1>3. /\ Unsaved(cacheMap[a]).modified
      /\ Unsaved(cacheMap[a]).data = cacheMap[a].data
      /\ Unsaved(cacheMap[a]) # NoUnit
  BY <1>1, UnitTypes, UnitAssumption DEF Unsaved, Cached, CacheUnit, TypeInv, TypeOK
<1>4. /\ cacheMap'[a].modified /\ cacheMap'[a].data = cacheMap[a].data
      /\ \A b \in Accounts : b # a => cacheMap'[b] = cacheMap[b]
      /\ \A b \in Accounts : Cached(b)' <=> Cached(b)
  BY <1>1, <1>2, <1>3 DEF Cached, TypeInv, TypeOK
<1>5. InvQuery' /\ InvThread'
  BY <1>2 DEF InvQuery, InvThread, Executing
<1>6. InvOrder'
  <2>1. \A b \in Accounts : InOrder(b)'
    BY <1>2, <1>4 DEF IInv, InvOrder, InOrder
  <2> QED BY <1>2, <2>1 DEF InvOrder
<1>7. CleanIsStored'
  BY <1>1, <1>2, <1>4 DEF IInv, CleanIsStored, Writing, InHand
<1> QED BY <1>5, <1>6, <1>7 DEF IInv

(* Every step keeps the inductive invariant.                               *)
LEMMA InvNext == TypeInv /\ IInv /\ [Next]_vars => IInv'
<1> SUFFICES ASSUME TypeInv, IInv, [Next]_vars PROVE IInv'
  OBVIOUS
<1>1. ASSUME \/ \E q \in Query : SubmitQuery(q)
             \/ BackupStart \/ MainBackup \/ ExitServer
             \/ LoopTest \/ ServiceDone \/ TakeQuery \/ ListCached \/ IgnoreCached
             \/ PopEmpty \/ PopMark \/ PopDrop \/ UNCHANGED vars
      PROVE  IInv'
  BY <1>1, UntouchedSteps, UntouchedKeeps
<1>2. ASSUME NEW a \in Accounts, NEW s \in Servers, NEW flag \in StoreFlags,
             SaveIntoCache(a, s, flag)
      PROVE  IInv'
  BY <1>2, InvSave
<1>3. ASSUME NEW a \in Accounts, Age(a) PROVE IInv'
  BY <1>3, InvAge
<1>4. CASE Restart \/ Crash
  BY <1>4, InvStartAgain DEF Restart, Crash
<1>5. CASE ExecuteUnlock \/ GoToDatabase
  BY <1>5, InvUnlock, InvGoToDatabase
<1>6. CASE ListInDatabase \/ CreateInDatabase \/ SelectInDatabase
  BY <1>6, InvListInDatabase, InvCreateInDatabase, InvSelectInDatabase
<1>7. CASE LoadIntoCache \/ DeletePlayer
  BY <1>7, InvLoadIntoCache, InvDeletePlayer
<1>8. CASE PopTake \/ SaveToDB
  BY <1>8, InvPopTake, InvSaveToDB
<1>9. CASE FinishRemove \/ FinishKeep \/ FinishFailed
  BY <1>9, InvFinishRemove, InvFinishKeep, InvFinishFailed
<1> QED
  BY <1>1, <1>2, <1>3, <1>4, <1>5, <1>6, <1>7, <1>8, <1>9
     DEF Next, Environment, MainMessages, PersistentThread, ExecuteQuery

(* A unit that is not marked changed is in the database, and the queries   *)
(* and jobs under way agree with the rows and the cache: the invariant     *)
(* the other theorems follow from (dpl.cpp: PersistentThread, queries).    *)
THEOREM Invariant == Spec => [](TypeInv /\ IInv)
<1>1. Init => TypeInv /\ IInv
  BY TypeInit, InvInit
<1>2. TypeInv /\ IInv /\ [Next]_vars => (TypeInv /\ IInv)'
  BY TypeNext, InvNext
<1> QED BY <1>1, <1>2, PTL DEF Spec

(* A unit that is not marked changed is in the database, however saves,    *)
(* logouts, backups and failures of the database interleave.               *)
THEOREM CleanUnitsAreStored == Spec => []CleanIsStored
<1>1. IInv => CleanIsStored
  BY DEF IInv
<1> QED BY <1>1, Invariant, PTL

-----------------------------------------------------------------------------
(* What a login server is told.                                            *)

(* Most steps grant nothing.                                               *)
NoGrant == reply' = NoReply \/ reply'.result # "success"

(* Only the steps of the queries answer.                                   *)
LEMMA NoGrantSteps ==
  ASSUME \/ Environment \/ MainBackup \/ LoopTest \/ ServiceDone \/ TakeQuery
         \/ ExecuteUnlock \/ ListCached \/ IgnoreCached \/ GoToDatabase
         \/ SelectInDatabase \/ PopEmpty \/ PopMark \/ PopDrop \/ PopTake
         \/ SaveToDB \/ FinishRemove \/ FinishKeep \/ FinishFailed
  PROVE  NoGrant
<1>1. CASE Environment \/ MainBackup
  BY <1>1 DEF NoGrant, Environment, MainMessages, SubmitQuery, SaveIntoCache,
     BackupStart, ExitServer, Restart, Crash, StartAgain, Age,
     MainBackup, BackupSaveAll, BackupPushMark, BackupEnd
<1>2. CASE \/ LoopTest \/ ServiceDone \/ TakeQuery \/ ExecuteUnlock
           \/ IgnoreCached \/ GoToDatabase
  BY <1>2 DEF NoGrant, LoopTest, ServiceDone, TakeQuery, ExecuteUnlock,
     IgnoreCached, GoToDatabase
<1>3. CASE ListCached \/ SelectInDatabase
  BY <1>3 DEF NoGrant, ListCached, SelectInDatabase, Answer
<1>4. CASE \/ PopEmpty \/ PopMark \/ PopDrop \/ PopTake \/ SaveToDB
           \/ FinishRemove \/ FinishKeep \/ FinishFailed
  BY <1>4 DEF NoGrant, PopEmpty, PopMark, PopDrop, PopTake, SaveToDB,
     FinishRemove, FinishKeep, FinishFailed
<1> QED BY <1>1, <1>2, <1>3, <1>4

(* A step that answers "success" leaves the lock with the sender.          *)
LEMMA GrantNext ==
  ASSUME TypeInv, IInv, GrantHoldsLock, [Next]_vars
  PROVE  GrantHoldsLock'
<1>1. ASSUME NoGrant PROVE GrantHoldsLock'
  BY <1>1 DEF NoGrant, GrantHoldsLock
<1>2. pc \in Executing => /\ query \in Query /\ query.account \in Accounts
                          /\ query.serverId \in Servers
  BY DEF IInv, InvQuery, Query
<1>3. CASE ListInDatabase
  <2>1. /\ query.account \in Accounts /\ query.serverId \in Servers
        /\ query.kind = "list"
    BY <1>2, <1>3 DEF ListInDatabase, Executing
  <2>2. reply'.result = "success" =>
          /\ reply' = [query |-> query, result |-> "success", data |-> 0]
          /\ \/ row' = LockRow(query.account, query.serverId)
             \/ row' = [row EXCEPT ![query.account] =
                          [serverId |-> query.serverId, data |-> 1]]
    BY <1>3 DEF ListInDatabase, Answer, CreateRow
  <2>3. reply'.result = "success" => row'[query.account].serverId = query.serverId
    BY <2>1, <2>2, RowEdits DEF TypeInv
  <2> QED BY <2>1, <2>2, <2>3 DEF GrantHoldsLock
<1>4. CASE CreateInDatabase
  <2>1. /\ query.account \in Accounts /\ query.serverId \in Servers
        /\ query.kind = "create"
    BY <1>2, <1>4 DEF CreateInDatabase, Executing
  <2>2. reply'.result = "success" =>
          /\ reply' = [query |-> query, result |-> "success", data |-> 0]
          /\ row' = [row EXCEPT ![query.account] =
                       [serverId |-> query.serverId, data |-> 1]]
    BY <1>4 DEF CreateInDatabase, Answer, CreateRow
  <2>3. reply'.result = "success" => row'[query.account].serverId = query.serverId
    BY <2>1, <2>2, RowEdits DEF TypeInv
  <2> QED BY <2>1, <2>2, <2>3 DEF GrantHoldsLock
<1>5. CASE LoadIntoCache
  <2>1. /\ query.account \in Accounts
        /\ row[query.account].serverId = query.serverId
        /\ loaded = row[query.account].data
        /\ row' = row
    BY <1>2, <1>5 DEF LoadIntoCache, IInv, InvQuery, Executing
  <2>2. CASE ~Cached(query.account)
    <3>1. reply' = [query |-> query, result |-> "success", data |-> loaded]
      BY <1>5, <2>2 DEF LoadIntoCache, Answer
    <3>2. PICK flag \in StoreFlags : cacheMap' = [cacheMap EXCEPT ![query.account] =
            [data |-> loaded, storeFlag |-> flag, serverId |-> query.serverId,
             modified |-> FALSE, removeMe |-> FALSE, recent |-> TRUE]]
      BY <1>5, <2>2 DEF LoadIntoCache
    <3>3. [data |-> loaded, storeFlag |-> flag, serverId |-> query.serverId,
           modified |-> FALSE, removeMe |-> FALSE, recent |-> TRUE] \in CacheUnit
      BY <1>2, <1>5 DEF LoadIntoCache, Executing, CacheUnit, TypeInv, TypeOK
    <3>4. cacheMap'[query.account] # NoUnit
      BY <2>1, <3>2, <3>3, UnitAssumption DEF TypeInv, TypeOK
    <3> QED BY <2>1, <3>1, <3>4 DEF GrantHoldsLock, Cached
  <2>3. CASE Cached(query.account)
    BY <1>5, <2>3 DEF LoadIntoCache, Answer, GrantHoldsLock
  <2> QED BY <2>2, <2>3
<1>6. CASE DeletePlayer
  <2>1. /\ query.account \in Accounts /\ query.serverId \in Servers
        /\ query.kind = "delete"
    BY <1>2, <1>6 DEF DeletePlayer, Executing
  <2>2. reply' # NoReply /\ reply'.result = "success" =>
          /\ reply' = [query |-> query, result |-> "success", data |-> 0]
          /\ row' = DeleteRow(query.account)
          /\ row[query.account].serverId = query.serverId
    BY <1>6 DEF DeletePlayer, Answer
  <2>3. reply' # NoReply /\ reply'.result = "success" =>
          row'[query.account].serverId = query.serverId
    BY <2>1, <2>2, RowEdits DEF TypeInv
  <2> QED BY <2>1, <2>2, <2>3 DEF GrantHoldsLock
<1>7. CASE UNCHANGED vars
  BY <1>7 DEF vars, cacheVars, GrantHoldsLock, Cached
<1> QED
  BY <1>1, <1>3, <1>4, <1>5, <1>6, <1>7, NoGrantSteps
     DEF Next, PersistentThread, ExecuteQuery

(* Whoever is told that it may play, create or delete a character holds    *)
(* the lock of the account in the database.                                *)
THEOREM GrantsHoldTheLock == Spec => []GrantHoldsLock
<1>1. Init => GrantHoldsLock
  BY DEF Init, GrantHoldsLock
<1>2. TypeInv /\ IInv /\ GrantHoldsLock /\ [Next]_vars => GrantHoldsLock'
  BY GrantNext
<1> QED BY <1>1, <1>2, Invariant, PTL DEF Spec

-----------------------------------------------------------------------------
(* What a step does to the database.                                       *)

(* Only these steps write a row; each is described by the content it may   *)
(* leave in the row of one account.                                        *)
LEMMA OrderedStep ==
  ASSUME TypeInv, IInv, [Next]_vars
  PROVE  \A a \in Accounts : \/ row'[a].data >= row[a].data
                             \/ DeletePlayer /\ row'[a].data = 0
<1>1. CASE row' = row
  BY <1>1 DEF TypeInv, TypeOK, Row
<1>2. CASE ListInDatabase \/ CreateInDatabase \/ SelectInDatabase
  <2>1. /\ query.account \in Accounts /\ query.serverId \in Servers
    BY <1>2 DEF ListInDatabase, CreateInDatabase, SelectInDatabase, IInv, InvQuery,
       Executing, Query
  <2>2. row[query.account].serverId = NoRow => clock[query.account] = 0
    BY <2>1 DEF IInv, InvOrder, InOrder
  <2>3. \/ row' = row
        \/ row' = LockRow(query.account, query.serverId)
        \/ /\ \E v \in {0, 1} : row' = [row EXCEPT ![query.account] =
                                 [serverId |-> query.serverId, data |-> v]]
           /\ clock[query.account] = 0
    BY <1>2, <2>2 DEF ListInDatabase, CreateInDatabase, SelectInDatabase, CreateRow, FreeName
  <2>4. clock[query.account] = 0 => row[query.account].data = 0
    BY <2>1 DEF IInv, InvOrder, InOrder, TypeInv, TypeOK, Row
  <2>5. \A a \in Accounts : row[a].data \in Nat
    BY DEF TypeInv, TypeOK, Row
  <2>6. CASE row' = LockRow(query.account, query.serverId)
    BY <2>1, <2>5, <2>6, RowEdits DEF TypeInv
  <2>7. ASSUME NEW v \in {0, 1}, clock[query.account] = 0,
               row' = [row EXCEPT ![query.account] =
                         [serverId |-> query.serverId, data |-> v]]
        PROVE  \A a \in Accounts : row'[a].data >= row[a].data
    BY <2>1, <2>4, <2>5, <2>7, RowEdits DEF TypeInv
  <2> QED BY <1>1, <2>3, <2>6, <2>7
<1>3. CASE DeletePlayer
  <2>1. query.account \in Accounts /\ query.serverId \in Servers
    BY <1>3 DEF DeletePlayer, IInv, InvQuery, Executing, Query
  <2>2. row' = row \/ row' = DeleteRow(query.account)
    BY <1>3 DEF DeletePlayer
  <2>3. \A a \in Accounts : row[a].data \in Nat
    BY DEF TypeInv, TypeOK, Row
  <2> QED BY <1>1, <1>3, <2>1, <2>2, <2>3, RowEdits DEF TypeInv
<1>4. CASE SaveToDB
  <2>1. /\ row' = row \/ (row' = WrittenRow /\ cu.modified)
        /\ pc = "Save"
    BY <1>4 DEF SaveToDB
  <2>2. ue.id \in Accounts
    BY <2>1 DEF IInv, InvThread, Cached
  <2>3. cu.modified => row[ue.id].data <= cu.data
    BY <2>1 DEF IInv, InvOrder
  <2>4. /\ WrittenRow[ue.id].data = cu.data
        /\ \A a \in Accounts : a # ue.id => WrittenRow[a] = row[a]
        /\ cu.data \in Nat /\ \A a \in Accounts : row[a].data \in Nat
    BY <2>2 DEF WrittenRow, TypeInv, TypeOK, Row, Snapshot
  <2> QED BY <1>1, <2>1, <2>3, <2>4
<1>5. CASE FinishRemove
  <2>1. row' = row \/ row' = UnlockRow(ue.id, ue.serverId)
    BY <1>5 DEF FinishRemove
  <2>2. \A a \in Accounts : /\ UnlockRow(ue.id, ue.serverId)[a].data = row[a].data
                            /\ row[a].data \in Nat
    BY DEF UnlockRow, TypeInv, TypeOK, Row
  <2> QED BY <1>1, <2>1, <2>2
<1>6. CASE Environment \/ MainBackup \/ UNCHANGED vars
  <2>1. row' = row
    BY <1>6 DEF Environment, MainMessages, SubmitQuery, SaveIntoCache, BackupStart,
       ExitServer, Restart, Crash, StartAgain, Age, MainBackup, BackupSaveAll,
       BackupPushMark, BackupEnd, vars
  <2> QED BY <1>1, <2>1
<1>7. CASE \/ LoopTest \/ ServiceDone \/ TakeQuery \/ ExecuteUnlock \/ ListCached
           \/ IgnoreCached \/ GoToDatabase \/ LoadIntoCache \/ PopEmpty \/ PopMark
           \/ PopDrop \/ PopTake \/ FinishKeep \/ FinishFailed
  <2>1. row' = row
    BY <1>7 DEF LoopTest, ServiceDone, TakeQuery, ExecuteUnlock, ListCached,
       IgnoreCached, GoToDatabase, LoadIntoCache, PopEmpty, PopMark, PopDrop, PopTake,
       FinishKeep, FinishFailed
  <2> QED BY <1>1, <2>1
<1> QED
  BY <1>2, <1>3, <1>4, <1>5, <1>6, <1>7 DEF Next, PersistentThread, ExecuteQuery

(* A late, repeated or overtaken save never takes a character back to an   *)
(* older content; only a deletion empties it.                              *)
THEOREM DatabaseNeverOlder == Spec => NeverOlder
<1>1. TypeInv /\ IInv /\ [Next]_vars =>
        [\A a \in Accounts : \/ row'[a].data >= row[a].data
                             \/ DeletePlayer /\ row'[a].data = 0]_vars
  BY OrderedStep
<1> QED BY <1>1, Invariant, PTL DEF Spec, NeverOlder

-----------------------------------------------------------------------------
(* The refinement of AccountStore.                                         *)

Stored == [a \in Accounts |-> row[a].data]
Owner == [a \in Accounts |-> row[a].serverId]

(* A step that leaves content, latest content and owner of all accounts    *)
(* stutters; one that changes them for one account is an EXCEPT.           *)
LEMMA StoreStutters ==
  ASSUME \A a \in Accounts : /\ row'[a].data = row[a].data
                             /\ row'[a].serverId = row[a].serverId
                             /\ Latest'[a] = Latest[a]
  PROVE  UNCHANGED Store!vars
<1>1. UNCHANGED Stored
  BY DEF Stored
<1>2. UNCHANGED Owner
  BY DEF Owner
<1>3. UNCHANGED Latest
  BY DEF Latest
<1> QED BY <1>1, <1>2, <1>3 DEF Store!vars, Stored, Owner

(* A step that changes one account changes the store at that account.      *)
LEMMA StoreChange ==
  ASSUME NEW a \in Accounts,
         \A b \in Accounts : b # a => /\ row'[b].data = row[b].data
                                      /\ row'[b].serverId = row[b].serverId
                                      /\ Latest'[b] = Latest[b]
  PROVE  /\ Stored' = [Stored EXCEPT ![a] = row'[a].data]
         /\ Owner' = [Owner EXCEPT ![a] = row'[a].serverId]
         /\ Latest' = [Latest EXCEPT ![a] = Latest'[a]]
         /\ row'[a].data = row[a].data => Stored' = Stored
         /\ row'[a].serverId = row[a].serverId => Owner' = Owner
         /\ Latest'[a] = Latest[a] => Latest' = Latest
<1>1. /\ Stored' = [Stored EXCEPT ![a] = row'[a].data]
      /\ row'[a].data = row[a].data => Stored' = Stored
  BY DEF Stored
<1>2. /\ Owner' = [Owner EXCEPT ![a] = row'[a].serverId]
      /\ row'[a].serverId = row[a].serverId => Owner' = Owner
  BY DEF Owner
<1>3. /\ Latest' = [Latest EXCEPT ![a] = Latest'[a]]
      /\ Latest'[a] = Latest[a] => Latest' = Latest
  BY DEF Latest
<1> QED BY <1>1, <1>2, <1>3

(* The latest content of one account, before and after a step.             *)
LEMMA LatestOf ==
  ASSUME NEW a \in Accounts
  PROVE  /\ Latest[a] = IF Cached(a) THEN cacheMap[a].data ELSE row[a].data
         /\ Latest'[a] = IF Cached(a)' THEN cacheMap'[a].data ELSE row'[a].data
BY DEF Latest

(* The initial states are those of the store.                              *)
LEMMA RefInit == Init => Store!Init
<1> SUFFICES ASSUME Init PROVE Store!Init
  OBVIOUS
<1>1. \A a \in Accounts : /\ row[a].data \in {0, 1}
                          /\ row[a].serverId \in {NoServer, NoRow}
  BY DEF Init
<1>2. Latest = Stored
  BY DEF Init, Latest, Stored, Cached, EmptyCache
<1> QED BY <1>1, <1>2 DEF Store!Init, Stored

(* Saves commit.                                                           *)
LEMMA RefSave ==
  ASSUME TypeInv, IInv, NEW a \in Accounts, NEW s \in Servers,
         NEW flag \in StoreFlags, SaveIntoCache(a, s, flag)
  PROVE  Store!Commit(a)
<1>1. /\ cacheMap' = [cacheMap EXCEPT ![a] = SavedUnit(a, s, flag, clock[a] + 1)]
      /\ row' = row
  BY DEF SaveIntoCache
<1>2. SavedUnit(a, s, flag, clock[a] + 1) \in CacheUnit /\ clock[a] \in Nat
  BY SavedUnitType DEF TypeInv, TypeOK
<1>3. /\ Cached(a)' /\ cacheMap'[a].data = clock[a] + 1
      /\ \A b \in Accounts : b # a => /\ cacheMap'[b] = cacheMap[b]
                                      /\ Cached(b)' <=> Cached(b)
  BY <1>1, <1>2, UnitAssumption DEF Cached, SavedUnit, TypeInv, TypeOK
<1>4. Latest[a] <= clock[a] /\ Latest[a] \in Nat
  BY DEF Latest, IInv, InvOrder, InOrder, TypeInv, TypeOK, Row, CacheUnit, Cached
<1>5. Latest'[a] = clock[a] + 1
  BY <1>3, LatestOf
<1>6. \A b \in Accounts : b # a => Latest'[b] = Latest[b]
  BY <1>1, <1>3, LatestOf
<1>7. UNCHANGED <<Stored, Owner>> /\ Latest' = [Latest EXCEPT ![a] = Latest'[a]]
  BY <1>1, <1>6, StoreChange
<1> QED BY <1>2, <1>4, <1>5, <1>7 DEF Store!Commit, Stored, Owner

(* Locking a row acquires the account, or changes nothing.                 *)
LEMMA RefLock ==
  ASSUME TypeInv, NEW a \in Accounts, NEW s \in Servers, UNCHANGED cacheMap,
         row[a].serverId \in {NoServer, NoRow, s},
         row'[a].serverId = s, row'[a].data = row[a].data,
         \A b \in Accounts : b # a => row'[b] = row[b]
  PROVE  Store!Acquire(a, s) \/ UNCHANGED Store!vars
<1>1. \A b \in Accounts : Latest'[b] = Latest[b]
  BY LatestOf DEF Cached
<1>2. CASE row[a].serverId = s
  BY <1>1, <1>2, StoreStutters
<1>3. CASE row[a].serverId \in {NoServer, NoRow}
  <2>1. /\ Owner' = [Owner EXCEPT ![a] = s] /\ UNCHANGED <<Stored, Latest>>
    BY <1>1, StoreChange
  <2>2. Owner[a] \in {NoServer, NoRow}
    BY <1>3 DEF Owner
  <2> QED BY <2>1, <2>2 DEF Store!Acquire, Stored, Owner
<1> QED BY <1>2, <1>3

(* Creating the first content of an account nobody holds, or the sender.   *)
LEMMA RefCreate ==
  ASSUME TypeInv, IInv, NEW a \in Accounts, NEW s \in Servers, UNCHANGED cacheMap,
         clock[a] = 0, row[a].serverId \in {NoRow, s},
         row'[a].serverId = s, row'[a].data = 1,
         \A b \in Accounts : b # a => row'[b] = row[b]
  PROVE  Store!Create(a, s)
<1>1. ~Cached(a) /\ row[a].data = 0
  BY DEF IInv, InvOrder, InOrder, TypeInv, TypeOK, Row
<1>2. /\ Latest[a] = 0 /\ Latest'[a] = 1
      /\ \A b \in Accounts : b # a => Latest'[b] = Latest[b]
  BY <1>1, LatestOf DEF Cached
<1>3. /\ Owner' = [Owner EXCEPT ![a] = s]
      /\ Stored' = [Stored EXCEPT ![a] = 1]
      /\ Latest' = [Latest EXCEPT ![a] = 1]
  BY <1>2, StoreChange
<1>4. Owner[a] \in {NoRow, s} /\ Stored[a] = 0
  BY <1>1 DEF Owner, Stored
<1> QED BY <1>2, <1>3, <1>4 DEF Store!Create, Stored, Owner

(* The requests of the login servers.                                      *)
LEMMA RefRequests ==
  ASSUME TypeInv, IInv, ListInDatabase \/ CreateInDatabase \/ SelectInDatabase
  PROVE  Store!Next \/ UNCHANGED Store!vars
<1>1. PICK a \in Accounts, s \in Servers : a = query.account /\ s = query.serverId
  BY DEF ListInDatabase, CreateInDatabase, SelectInDatabase, IInv, InvQuery,
     Executing, Query
<1> DEFINE New(v) == [row EXCEPT ![a] = [serverId |-> s, data |-> v]]
<1>2. /\ UNCHANGED cacheMap
      /\ row[a].serverId = NoRow => clock[a] = 0
      /\ clock[a] = 0 => row[a].data = 0
  BY DEF ListInDatabase, CreateInDatabase, SelectInDatabase, cacheVars,
     IInv, InvOrder, InOrder, TypeInv, TypeOK, Row
<1>3. \/ row' = row
      \/ row' = LockRow(a, s) /\ row[a].serverId \in {NoServer, NoRow, s}
      \/ /\ row' = New(0) \/ row' = New(1)
         /\ clock[a] = 0 /\ row[a].serverId \in {NoRow, s}
  BY <1>1, <1>2 DEF ListInDatabase, CreateInDatabase, SelectInDatabase, Lockable,
     CreateRow, FreeName
<1>4. CASE row' = row
  BY <1>2, <1>4, StoreStutters, LatestOf DEF Cached
<1>5. CASE row' = LockRow(a, s) /\ row[a].serverId \in {NoServer, NoRow, s}
  <2>1. Store!Acquire(a, s) \/ UNCHANGED Store!vars
    BY <1>2, <1>5, RefLock, RowEdits DEF TypeInv
  <2> QED BY <2>1 DEF Store!Next
<1>6. CASE row' = New(0) /\ clock[a] = 0 /\ row[a].serverId \in {NoRow, s}
  <2>1. /\ row'[a].serverId = s /\ row'[a].data = 0
        /\ \A b \in Accounts : b # a => row'[b] = row[b]
    BY <1>6, RowEdits DEF TypeInv
  <2>2. Store!Acquire(a, s) \/ UNCHANGED Store!vars
    BY <1>2, <1>6, <2>1, RefLock
  <2> QED BY <2>2 DEF Store!Next
<1>7. CASE row' = New(1) /\ clock[a] = 0 /\ row[a].serverId \in {NoRow, s}
  <2>1. /\ row'[a].serverId = s /\ row'[a].data = 1
        /\ \A b \in Accounts : b # a => row'[b] = row[b]
    BY <1>7, RowEdits DEF TypeInv
  <2>2. Store!Create(a, s)
    BY <1>2, <1>7, <2>1, RefCreate
  <2> QED BY <2>2 DEF Store!Next
<1> QED BY <1>3, <1>4, <1>5, <1>6, <1>7

(* A character leaves the database only while it is not cached.            *)
LEMMA RefDelete ==
  ASSUME TypeInv, IInv, DeletePlayer
  PROVE  Store!Next \/ UNCHANGED Store!vars
<1>1. PICK a \in Accounts : a = query.account
  BY DEF DeletePlayer, IInv, InvQuery, Executing, Query
<1>2. query.serverId \in Servers /\ UNCHANGED cacheMap
  BY DEF DeletePlayer, cacheVars, IInv, InvQuery, Executing, Query
<1>3. CASE row' = row
  BY <1>2, <1>3, StoreStutters, LatestOf DEF Cached
<1>4. CASE row' # row
  <2>1. row' = DeleteRow(a) /\ ~Cached(a)
    BY <1>1, <1>4 DEF DeletePlayer
  <2>2. /\ row'[a].serverId = row[a].serverId /\ row'[a].data = 0
        /\ \A b \in Accounts : b # a => row'[b] = row[b]
    BY <1>2, <2>1, RowEdits DEF TypeInv
  <2>3. /\ Latest[a] = row[a].data /\ Latest'[a] = 0
        /\ \A b \in Accounts : b # a => Latest'[b] = Latest[b]
    BY <1>2, <2>1, <2>2, LatestOf DEF Cached
  <2>4. /\ Stored' = [Stored EXCEPT ![a] = 0] /\ Latest' = [Latest EXCEPT ![a] = 0]
        /\ UNCHANGED Owner
    BY <2>2, <2>3, StoreChange
  <2>5. Store!Delete(a)
    BY <2>3, <2>4 DEF Store!Delete, Stored, Owner
  <2> QED BY <2>5 DEF Store!Next
<1> QED BY <1>3, <1>4

(* A write flushes the copy.                                               *)
LEMMA RefSaveToDB ==
  ASSUME TypeInv, IInv, SaveToDB
  PROVE  Store!Next \/ UNCHANGED Store!vars
<1>1. PICK a \in Accounts : a = ue.id /\ Cached(a)
  BY DEF SaveToDB, IInv, InvThread, Cached
<1>2. /\ pc = "Save" /\ UNCHANGED cacheMap
      /\ row' = row \/ (row' = WrittenRow /\ cu.modified)
  BY DEF SaveToDB, cacheVars
<1>3. CASE row' = row
  BY <1>2, <1>3, StoreStutters, LatestOf DEF Cached
<1>4. CASE row' = WrittenRow /\ cu.modified
  <2>1. /\ row'[a].data = cu.data /\ row'[a].serverId = row[a].serverId
        /\ \A b \in Accounts : b # a => row'[b] = row[b]
        /\ row[a].data \in Nat /\ cu.data \in Nat /\ cacheMap[a].data \in Nat
    BY <1>1, <1>4 DEF WrittenRow, TypeInv, TypeOK, Row, Snapshot, CacheUnit, Cached
  <2>2. row[a].data <= cu.data /\ cu.data <= cacheMap[a].data
    BY <1>1, <1>2, <1>4 DEF IInv, InvOrder
  <2>3. Latest[a] = cacheMap[a].data /\ \A b \in Accounts : Latest'[b] = Latest[b]
    BY <1>1, <1>2, <2>1, LatestOf DEF Cached
  <2>4. CASE cu.data = row[a].data
    BY <2>1, <2>3, <2>4, StoreStutters
  <2>5. CASE cu.data # row[a].data
    <3>1. /\ Stored' = [Stored EXCEPT ![a] = Stored'[a]]
          /\ Stored'[a] = cu.data /\ UNCHANGED <<Latest, Owner>>
      BY <2>1, <2>3, StoreChange DEF Stored
    <3>2. cu.data \in (Stored[a] + 1)..Latest[a]
      BY <2>1, <2>2, <2>3, <2>5 DEF Stored
    <3>3. Store!Flush(a)
      BY <3>1, <3>2 DEF Store!Flush, Stored, Owner
    <3> QED BY <3>3 DEF Store!Next
  <2> QED BY <2>4, <2>5
<1> QED BY <1>2, <1>3, <1>4

(* A unit that leaves the cache is in the database.                        *)
LEMMA RefFinishRemove ==
  ASSUME TypeInv, IInv, FinishRemove
  PROVE  Store!Next \/ UNCHANGED Store!vars
<1>1. PICK a \in Accounts : a = ue.id /\ Cached(a) /\ ~cacheMap[a].modified
  BY DEF FinishRemove, MayRemove, Cached
<1>2. /\ pc = "Finish" /\ result
      /\ cacheMap' = [cacheMap EXCEPT ![a] = NoUnit]
      /\ row' = row \/ row' = UnlockRow(a, ue.serverId)
  BY <1>1 DEF FinishRemove
<1>3. row[a].data = cacheMap[a].data
  BY <1>1, <1>2 DEF IInv, InvThread, CleanIsStored, Writing
<1>4. /\ row'[a].data = row[a].data
      /\ \A b \in Accounts : b # a => /\ row'[b] = row[b]
                                      /\ cacheMap'[b] = cacheMap[b]
      /\ row'[a].serverId = row[a].serverId
            \/ /\ row[a].serverId = ue.serverId
               /\ row'[a].serverId = NoServer
      /\ ~Cached(a)'
  BY <1>2 DEF UnlockRow, Cached, TypeInv, TypeOK, Row
<1>5. \A b \in Accounts : Latest'[b] = Latest[b]
  BY <1>1, <1>3, <1>4, LatestOf DEF Cached
<1>6. CASE row'[a].serverId = row[a].serverId
  BY <1>4, <1>5, <1>6, StoreStutters
<1>7. CASE /\ row[a].serverId = ue.serverId /\ row'[a].serverId = NoServer
           /\ row'[a].serverId # row[a].serverId
  <2>1. row[a].serverId \in Servers
    BY <1>7 DEF TypeInv, TypeOK, UpdateEvent
  <2>2. Owner' = [Owner EXCEPT ![a] = NoServer] /\ UNCHANGED <<Stored, Latest>>
    BY <1>4, <1>5, <1>7, StoreChange
  <2>3. Stored[a] = Latest[a] /\ Owner[a] \in Servers
    BY <1>1, <1>3, <2>1, LatestOf DEF Stored, Owner
  <2>4. Store!Release(a)
    BY <2>2, <2>3 DEF Store!Release, Stored, Owner
  <2> QED BY <2>4 DEF Store!Next
<1> QED BY <1>4, <1>6, <1>7

(* Steps that keep the rows, the units and their contents stutter.         *)
LEMMA RefSameContents ==
  ASSUME UNCHANGED row,
         \A a \in Accounts : /\ Cached(a)' <=> Cached(a)
                             /\ Cached(a) => cacheMap'[a].data = cacheMap[a].data
  PROVE  UNCHANGED Store!vars
<1>1. \A a \in Accounts : Latest'[a] = Latest[a]
  BY LatestOf
<1> QED BY <1>1, StoreStutters

(* Time passes unnoticed by the store.                                     *)
LEMMA RefAge ==
  ASSUME TypeInv, NEW a \in Accounts, Age(a)
  PROVE  UNCHANGED Store!vars
<1>1. /\ UNCHANGED row /\ Cached(a)
      /\ cacheMap' = [cacheMap EXCEPT ![a].recent = FALSE]
  BY DEF Age
<1>2. [cacheMap[a] EXCEPT !.recent = FALSE] \in CacheUnit
  BY <1>1 DEF Cached, CacheUnit, TypeInv, TypeOK
<1>3. \A b \in Accounts :
        /\ Cached(b)' <=> Cached(b)
        /\ Cached(b) => cacheMap'[b].data = cacheMap[b].data
  BY <1>1, <1>2, UnitAssumption DEF Cached, CacheUnit, TypeInv, TypeOK
<1> QED BY <1>1, <1>3, RefSameContents

(* Edits of a unit that keep its content are unnoticed too.                *)
LEMMA RefUnit ==
  ASSUME TypeInv, IInv, ExecuteUnlock \/ PopTake \/ FinishFailed
  PROVE  UNCHANGED Store!vars
<1>1. UNCHANGED row
  BY DEF ExecuteUnlock, PopTake, FinishFailed
<1>2. CASE UNCHANGED cacheMap
  BY <1>1, <1>2, RefSameContents DEF Cached
<1>3. CASE ~UNCHANGED cacheMap
  <2>1. PICK a \in Accounts :
          /\ Cached(a)
          /\ \/ cacheMap' = MarkRemoved(a)
             \/ cacheMap' = MarkTaken(a)
             \/ cacheMap' = [cacheMap EXCEPT ![a] = Unsaved(cacheMap[a])]
    <3>1. CASE ExecuteUnlock
      BY <1>3, <3>1 DEF ExecuteUnlock, cacheVars, Cached
    <3>2. CASE PopTake
      BY <3>2 DEF PopTake, Cached
    <3>3. CASE FinishFailed
      <4>1. Cached(ue.id)
        BY <3>3 DEF FinishFailed, IInv, InvThread
      <4> QED BY <3>3, <4>1 DEF FinishFailed, Cached
    <3> QED BY <3>1, <3>2, <3>3
  <2>2. /\ Unsaved(cacheMap[a]).data = cacheMap[a].data
        /\ Unsaved(cacheMap[a]) # NoUnit
    BY <2>1, UnitTypes, UnitAssumption DEF Unsaved, Cached, CacheUnit, TypeInv, TypeOK
  <2>3. /\ cacheMap'[a] # NoUnit /\ cacheMap'[a].data = cacheMap[a].data
        /\ \A b \in Accounts : b # a => cacheMap'[b] = cacheMap[b]
    <3>1. TypeOK
      BY DEF TypeInv
    <3>2. CASE cacheMap' = MarkRemoved(a)
      BY <2>1, <3>1, <3>2, UnitEdits
    <3>3. CASE cacheMap' = MarkTaken(a)
      BY <2>1, <3>1, <3>3, UnitEdits
    <3>4. CASE cacheMap' = [cacheMap EXCEPT ![a] = Unsaved(cacheMap[a])]
      BY <2>1, <2>2, <3>4 DEF TypeInv, TypeOK
    <3> QED BY <2>1, <3>2, <3>3, <3>4
  <2>4. \A b \in Accounts :
          /\ Cached(b)' <=> Cached(b)
          /\ Cached(b) => cacheMap'[b].data = cacheMap[b].data
    BY <2>1, <2>3 DEF Cached
  <2> QED BY <1>1, <2>4, RefSameContents
<1> QED BY <1>2, <1>3

(* Caching what was read does not change the latest content.               *)
LEMMA RefLoadIntoCache ==
  ASSUME TypeInv, IInv, LoadIntoCache
  PROVE  UNCHANGED Store!vars
<1>1. PICK a \in Accounts : a = query.account /\ loaded = row[a].data
  BY DEF LoadIntoCache, IInv, InvQuery, Executing, Query
<1>2. UNCHANGED row
  BY DEF LoadIntoCache
<1>3. CASE UNCHANGED cacheMap
  BY <1>2, <1>3, RefSameContents DEF Cached
<1>4. CASE ~UNCHANGED cacheMap
  <2>1. ~Cached(a) /\ \E flag \in StoreFlags :
          cacheMap' = [cacheMap EXCEPT ![query.account] =
            [data |-> loaded, storeFlag |-> flag, serverId |-> query.serverId,
             modified |-> FALSE, removeMe |-> FALSE, recent |-> TRUE]]
    BY <1>1, <1>4 DEF LoadIntoCache
  <2>2. /\ cacheMap'[a].data = row[a].data
        /\ \A b \in Accounts : b # a => /\ cacheMap'[b] = cacheMap[b]
                                        /\ Cached(b)' <=> Cached(b)
    BY <1>1, <2>1 DEF Cached, TypeInv, TypeOK
  <2>3. \A b \in Accounts : b # a => Latest'[b] = Latest[b]
    BY <1>2, <2>2, LatestOf
  <2>4. Latest'[a] = Latest[a]
    BY <1>2, <2>1, <2>2, LatestOf
  <2> QED BY <1>2, <2>3, <2>4, StoreStutters
<1> QED BY <1>3, <1>4

(* A process that starts again knows what the database knows.              *)
LEMMA RefStartAgain ==
  ASSUME StartAgain
  PROVE  Store!Next
<1>1. Latest' = Stored /\ UNCHANGED <<Stored, Owner>>
  BY DEF StartAgain, Latest, Stored, Owner, Cached, EmptyCache
<1> QED BY <1>1 DEF Store!Next, Store!Forget, Stored, Owner

(* Every step of PersistLayer is a step of the store, or stutters.         *)
LEMMA RefNext ==
  ASSUME TypeInv, IInv, [Next]_vars
  PROVE  Store!Next \/ UNCHANGED Store!vars
<1>1. ASSUME \/ \E q \in Query : SubmitQuery(q)
             \/ BackupStart \/ MainBackup \/ ExitServer
             \/ LoopTest \/ ServiceDone \/ TakeQuery \/ ListCached \/ IgnoreCached
             \/ PopEmpty \/ PopMark \/ PopDrop \/ UNCHANGED vars
      PROVE  UNCHANGED Store!vars
  BY <1>1, UntouchedSteps, RefSameContents DEF Untouched, Cached
<1>2. ASSUME NEW a \in Accounts, NEW s \in Servers, NEW flag \in StoreFlags,
             SaveIntoCache(a, s, flag)
      PROVE  Store!Next
  BY <1>2, RefSave DEF Store!Next
<1>3. ASSUME NEW a \in Accounts, Age(a) PROVE UNCHANGED Store!vars
  BY <1>3, RefAge
<1>4. CASE Restart \/ Crash
  BY <1>4, RefStartAgain DEF Restart, Crash
<1>5. CASE GoToDatabase \/ FinishKeep
  BY <1>5, RefSameContents DEF GoToDatabase, FinishKeep, cacheVars, Cached
<1>6. CASE ExecuteUnlock \/ PopTake \/ FinishFailed
  BY <1>6, RefUnit
<1>7. CASE ListInDatabase \/ CreateInDatabase \/ SelectInDatabase
  BY <1>7, RefRequests
<1>8. CASE LoadIntoCache
  BY <1>8, RefLoadIntoCache
<1>9. CASE DeletePlayer \/ SaveToDB \/ FinishRemove
  BY <1>9, RefDelete, RefSaveToDB, RefFinishRemove
<1> QED
  BY <1>1, <1>2, <1>3, <1>4, <1>5, <1>6, <1>7, <1>8, <1>9
     DEF Next, Environment, MainMessages, PersistentThread, ExecuteQuery

(* The write-back cache with its event queue, retries and crashes keeps    *)
(* the promise of AccountStore: commits are never reordered, an account    *)
(* is given up only when its latest content is stored, and what a crash    *)
(* can lose is what was not flushed.                                       *)
THEOREM Refinement == Spec => ImplementsStore
<1>1. Init => Store!Init
  BY RefInit
<1>2. TypeInv /\ IInv /\ [Next]_vars => [Store!Next]_(Store!vars)
  BY RefNext
<1> QED BY <1>1, <1>2, Invariant, PTL DEF Spec, ImplementsStore, Store!Spec
=============================================================================
