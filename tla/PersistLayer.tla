---------------------------- MODULE PersistLayer ----------------------------
(***************************************************************************)
(* The persistence layer of the database server (DBServer/persistent/      *)
(* dpl.cpp): a write-back cache of the players' data between the login     *)
(* servers and MySQL, and the lock that gives an account to one login      *)
(* server at a time.                                                       *)
(*                                                                         *)
(* Two threads share it.  The main thread receives the messages of the     *)
(* login servers, puts saves straight into the cache and queues every      *)
(* other request; it also starts backups and the shutdown.  The persistent *)
(* thread executes the queued requests and writes changed units to MySQL.  *)
(* The cache and the update queue are guarded by one lock; an action here  *)
(* is one critical section, one database call or one unguarded access.     *)
(*                                                                         *)
(* An account has one character, so cacheMap (by character id) and         *)
(* accountMap (by account), which are filled and erased together, are one  *)
(* map here, and an event's uniqueId is the account.  The content of a     *)
(* character is its number in the order of the commits; 0 is no character. *)
(***************************************************************************)
EXTENDS Naturals, Sequences, FiniteSets, Functions

CONSTANTS Accounts, Servers,   \* accounts; login servers sharing the database
          NoServer, NoRow,     \* serverid 0; no row in table warehouse
          NoAccount, NoUnit,   \* uniqueId 0; no entry in cacheMap
          LateSaves,           \* may a save arrive from a login server that
                               \* does not hold the account, or for a deleted
                               \* character?
          MaxVersion,          \* bound: commits per account
          MaxBacklog,          \* bound: queued events and requests
          MaxFailures,         \* bound: failing database calls
          MaxCrashes           \* bound: crashes of the server process

ASSUME PersistAssumption ==
  /\ IsFiniteSet(Accounts)
  /\ NoServer \notin Servers /\ NoRow \notin Servers /\ NoServer # NoRow
  /\ NoAccount \notin Accounts
  /\ LateSaves \in BOOLEAN
  /\ MaxVersion \in Nat /\ MaxBacklog \in Nat
  /\ MaxFailures \in Nat /\ MaxCrashes \in Nat

(* SFixData::ST_LOGIN and ST_LOGOUT; ST_HANGUP is treated like ST_LOGIN.    *)
StoreFlags == {"LOGIN", "LOGOUT"}

(* A row of table warehouse (serverid) with its row of property (databuf). *)
Row == [serverId : Servers \cup {NoServer, NoRow}, data : Nat]

(* struct CacheUnit; recent: timeStamp is less than 30 minutes old.        *)
CacheUnit == [data : Nat, storeFlag : StoreFlags, serverId : Servers,
              modified : BOOLEAN, removeMe : BOOLEAN, recent : BOOLEAN]

ASSUME UnitAssumption == NoUnit \notin CacheUnit

(* struct UpdateEvent; {0, 0} marks the end of a backup.                   *)
UpdateEvent == [id : Accounts \cup {NoAccount}, serverId : Servers \cup {NoServer}]
BackupMark == [id |-> NoAccount, serverId |-> NoServer]

(* The queries; "unlock" is a list request whose client id is 0.           *)
QueryKinds == {"list", "unlock", "create", "select", "delete"}
Query == [kind : QueryKinds, account : Accounts, serverId : Servers]
NoQuery == [kind |-> "none"]

(* What a query answers to the login server that sent it.                  *)
Results == {"success", "lockedSelf", "lockedOther", "fail"}
Reply == [query : Query, result : Results, data : Nat]
NoReply == [result |-> "none"]

(* The persistent thread's copy of a unit (cu and basedata).               *)
Snapshot == [data : Nat, modified : BOOLEAN, removeMe : BOOLEAN]
NoSnapshot == [data |-> 0, modified |-> FALSE, removeMe |-> FALSE]

VARIABLES
  row,          \* the database
  cacheMap,     \* account -> CacheUnit or NoUnit
  updateQueue,  \* std::queue of update events
  queryQueue,   \* mtUniqueQueue of queries, at most one per account
  quitEvent,    \* the shutdown has been asked for
  atBackup,     \* a backup is in progress, as the persistent thread sees it
  mainPc,       \* where the main thread is
  pc,           \* where the persistent thread is
  query,        \* the query it executes
  ue, cu,       \* the event it handles and its copy of the unit
  result,       \* did the save succeed?
  loaded,       \* the content GetPlayerData read, before it is cached
  reply,        \* the answer the last step sent, NoReply if it sent none
  clock,        \* clock[a]: contents committed for a so far
  failures,     \* failing database calls so far
  crashes       \* crashes so far

cacheVars == <<cacheMap, updateQueue>>
jobVars   == <<ue, cu, result>>
queryVars == <<queryQueue, query, loaded>>
mainVars  == <<mainPc, atBackup, quitEvent>>
vars == <<row, cacheVars, queryVars, mainVars, pc, jobVars, reply, clock,
          failures, crashes>>

ThreadStates == {"Loop", "Service", "Execute", "Database", "Load", "Pop",
                 "Retry", "Save", "Finish", "End"}

TypeOK ==
  /\ row \in [Accounts -> Row]
  /\ cacheMap \in [Accounts -> CacheUnit \cup {NoUnit}]
  /\ updateQueue \in Seq(UpdateEvent)
  /\ queryQueue \in Seq(Query)
  /\ quitEvent \in BOOLEAN /\ atBackup \in BOOLEAN
  /\ mainPc \in {"Idle", "SaveAll", "Mark", "Wait", "Quit"}
  /\ pc \in ThreadStates
  /\ query \in Query \cup {NoQuery}
  /\ ue \in UpdateEvent /\ cu \in Snapshot /\ result \in BOOLEAN
  /\ loaded \in Nat
  /\ reply \in Reply \cup {NoReply}
  /\ clock \in [Accounts -> Nat]
  /\ failures \in 0..MaxFailures /\ crashes \in 0..MaxCrashes

(* What a fresh process starts with, whatever the database holds.          *)
EmptyCache == [a \in Accounts |-> NoUnit]

Init ==
  /\ row \in [Accounts -> {[serverId |-> NoRow, data |-> 0],
                           [serverId |-> NoServer, data |-> 1]}]
  /\ clock = [a \in Accounts |-> row[a].data]
  /\ failures = 0 /\ crashes = 0
  /\ cacheMap = EmptyCache /\ updateQueue = <<>> /\ queryQueue = <<>>
  /\ quitEvent = FALSE /\ atBackup = FALSE /\ mainPc = "Idle"
  /\ pc = "Loop" /\ query = NoQuery /\ loaded = 0
  /\ ue = BackupMark /\ cu = NoSnapshot /\ result = TRUE
  /\ reply = NoReply

Cached(a) == a \in Accounts /\ cacheMap[a] # NoUnit

(* The persistent thread is at the pop of the update queue; it keeps the   *)
(* lock while it retries.                                                  *)
Popping == pc \in {"Pop", "Retry"}
LockFree == pc # "Retry"

DbFails == failures < MaxFailures /\ failures' = failures + 1
DbWorks == UNCHANGED failures

Backlog == Len(updateQueue) + Len(queryQueue) + (IF query = NoQuery THEN 0 ELSE 1)

-----------------------------------------------------------------------------
(* The main thread: messages of the login servers.                         *)

(* mtUniqueQueue::mtsafe_push: a query whose account is still waiting      *)
(* takes the place of the waiting one, which is never executed.            *)
PushQuery(q) ==
  queryQueue' =
    IF \E i \in DOMAIN queryQueue : queryQueue[i].account = q.account
    THEN [i \in DOMAIN queryQueue |->
            IF queryQueue[i].account = q.account THEN q ELSE queryQueue[i]]
    ELSE Append(queryQueue, q)

SubmitQuery(q) ==
  /\ mainPc = "Idle" /\ Backlog < MaxBacklog
  /\ PushQuery(q)
  /\ reply' = NoReply
  /\ UNCHANGED <<row, cacheVars, query, loaded, mainVars, pc, jobVars, clock,
                 failures, crashes>>

(* Variant: a unit created by a save is not given its server.              *)
SavedUnitNoServer(a, s, flag, v) ==
  [data |-> v, storeFlag |-> flag,
   serverId |-> IF Cached(a) THEN cacheMap[a].serverId ELSE NoServer,
   modified |-> TRUE, removeMe |-> (flag = "LOGOUT"),
   recent |-> IF Cached(a) THEN cacheMap[a].recent ELSE TRUE]

(* The unit SaveIntoCache leaves: a unit that is missing, because the      *)
(* server was restarted, is created for the server that sends the save.    *)
SavedUnit(a, s, flag, v) ==
  [data |-> v, storeFlag |-> flag,
   serverId |-> IF Cached(a) THEN cacheMap[a].serverId ELSE s,
   modified |-> TRUE, removeMe |-> (flag = "LOGOUT"),
   recent |-> IF Cached(a) THEN cacheMap[a].recent ELSE TRUE]

SaveIntoCache(a, s, flag) ==
  /\ mainPc = "Idle" /\ LockFree /\ Backlog < MaxBacklog
  /\ clock[a] > 0 /\ clock[a] < MaxVersion
  /\ LateSaves \/ (row[a].serverId = s /\ row[a].data # 0)
  /\ clock' = [clock EXCEPT ![a] = @ + 1]
  /\ cacheMap' = [cacheMap EXCEPT ![a] = SavedUnit(a, s, flag, clock[a] + 1)]
  /\ updateQueue' = Append(updateQueue, [id |-> a, serverId |-> s])
  /\ reply' = NoReply
  /\ UNCHANGED <<row, queryVars, mainVars, pc, jobVars, failures, crashes>>

(* Half an hour passes since the unit was loaded or last written.          *)
Age(a) ==
  /\ Cached(a) /\ cacheMap[a].recent
  /\ cacheMap' = [cacheMap EXCEPT ![a].recent = FALSE]
  /\ reply' = NoReply
  /\ UNCHANGED <<row, updateQueue, queryVars, mainVars, pc, jobVars, clock,
                 failures, crashes>>

-----------------------------------------------------------------------------
(* The main thread: backup, shutdown, restart.                             *)

DirtyAccounts == {a \in Accounts : Cached(a) /\ cacheMap[a].modified}

(* _SaveAll: one event per changed unit, in the order of the map.          *)
SaveAll ==
  /\ LockFree
  /\ \E order \in Bijection(1..Cardinality(DirtyAccounts), DirtyAccounts) :
       updateQueue' = updateQueue \o
         [i \in 1..Cardinality(DirtyAccounts) |->
            [id |-> order[i], serverId |-> cacheMap[order[i]].serverId]]

BackupStart ==
  /\ mainPc = "Idle"
  /\ atBackup' = TRUE /\ mainPc' = "SaveAll"
  /\ reply' = NoReply
  /\ UNCHANGED <<row, cacheVars, queryVars, quitEvent, pc, jobVars, clock,
                 failures, crashes>>

BackupSaveAll ==
  /\ mainPc = "SaveAll" /\ SaveAll
  /\ mainPc' = "Mark"
  /\ reply' = NoReply
  /\ UNCHANGED <<row, cacheMap, queryVars, atBackup, quitEvent, pc, jobVars,
                 clock, failures, crashes>>

(* The mark is pushed without the lock.  When the persistent thread is     *)
(* popping at that moment the two updates of the queue's size race: if the *)
(* push is lost the mark is hidden, if the pop is lost the memory behind   *)
(* the mark counts as an event: any event that was there before.  (An old  *)
(* mark there is popped with the new one, in one critical section.)        *)
PushMark ==
  \/ updateQueue' = Append(updateQueue, BackupMark)
  \/ Popping /\ updateQueue # <<>> /\ UNCHANGED updateQueue
  \/ /\ Popping /\ updateQueue # <<>>
     /\ \E a \in Accounts, s \in Servers :
          updateQueue' = updateQueue \o <<BackupMark, [id |-> a, serverId |-> s]>>

BackupPushMark ==
  /\ mainPc = "Mark" /\ PushMark
  /\ mainPc' = "Wait"
  /\ reply' = NoReply
  /\ UNCHANGED <<row, cacheMap, queryVars, atBackup, quitEvent, pc, jobVars,
                 clock, failures, crashes>>

(* LoopServer handles messages again once the persistent thread cleared    *)
(* the flag.                                                               *)
BackupEnd ==
  /\ mainPc = "Wait" /\ ~atBackup
  /\ mainPc' = "Idle"
  /\ reply' = NoReply
  /\ UNCHANGED <<row, cacheVars, queryVars, atBackup, quitEvent, pc, jobVars,
                 clock, failures, crashes>>

ExitServer ==
  /\ mainPc = "Idle" /\ SaveAll
  /\ quitEvent' = TRUE /\ mainPc' = "Quit"
  /\ reply' = NoReply
  /\ UNCHANGED <<row, cacheMap, queryVars, atBackup, pc, jobVars, clock,
                 failures, crashes>>

(* The process ends and is started again: only the database is left.       *)
StartAgain ==
  /\ cacheMap' = EmptyCache /\ updateQueue' = <<>> /\ queryQueue' = <<>>
  /\ quitEvent' = FALSE /\ atBackup' = FALSE /\ mainPc' = "Idle"
  /\ pc' = "Loop" /\ query' = NoQuery /\ loaded' = 0
  /\ ue' = BackupMark /\ cu' = NoSnapshot /\ result' = TRUE
  /\ reply' = NoReply
  /\ UNCHANGED <<row, clock, failures>>

Restart == pc = "End" /\ StartAgain /\ UNCHANGED crashes

Crash == crashes < MaxCrashes /\ crashes' = crashes + 1 /\ StartAgain

-----------------------------------------------------------------------------
(* The persistent thread: the queries.                                     *)

LoopTest ==
  /\ pc = "Loop"
  /\ pc' = CASE ~quitEvent                     -> "Service"
             [] quitEvent /\ updateQueue # <<>> -> "Pop"
             [] OTHER                          -> "End"
  /\ reply' = NoReply
  /\ UNCHANGED <<row, cacheVars, queryVars, mainVars, jobVars, clock, failures,
                 crashes>>

ServiceDone ==
  /\ pc = "Service" /\ queryQueue = <<>>
  /\ pc' = "Pop"
  /\ reply' = NoReply
  /\ UNCHANGED <<row, cacheVars, queryVars, mainVars, jobVars, clock, failures,
                 crashes>>

(* LoopService pops before it asks KeepAlive: without a connection the     *)
(* popped query is dropped.                                                *)
TakeQuery ==
  /\ pc = "Service" /\ queryQueue # <<>>
  /\ queryQueue' = Tail(queryQueue)
  /\ \/ DbWorks /\ query' = Head(queryQueue) /\ pc' = "Execute"
     \/ DbFails /\ query' = NoQuery /\ pc' = "Pop"
  /\ reply' = NoReply
  /\ UNCHANGED <<row, cacheVars, loaded, mainVars, jobVars, clock, crashes>>

QueryDone == pc' = "Service" /\ query' = NoQuery /\ loaded' = 0
Answer(res, v) == reply' = [query |-> query, result |-> res, data |-> v]

(* Query4QueryPlayerList with RetDNID = 0: the server that has the unit    *)
(* gives it up.                                                            *)
MarkRemovedNoFlag(a) == [cacheMap EXCEPT ![a].removeMe = TRUE]  \* variant: flag kept

MarkRemoved(a) ==
  [cacheMap EXCEPT ![a].removeMe = TRUE, ![a].storeFlag = "LOGOUT"]

ExecuteUnlock ==
  /\ pc = "Execute" /\ query.kind = "unlock"
  /\ LET a == query.account IN
       IF Cached(a) /\ cacheMap[a].serverId = query.serverId
       THEN /\ cacheMap' = MarkRemoved(a)
            /\ updateQueue' = Append(updateQueue,
                                     [id |-> a, serverId |-> query.serverId])
       ELSE UNCHANGED cacheVars
  /\ QueryDone /\ reply' = NoReply
  /\ UNCHANGED <<row, queryQueue, mainVars, jobVars, clock, failures, crashes>>

(* A list request for a cached account says who has it.                    *)
ListCached ==
  /\ pc = "Execute" /\ query.kind = "list" /\ Cached(query.account)
  /\ Answer(IF cacheMap[query.account].serverId = query.serverId
            THEN "lockedSelf" ELSE "lockedOther", 0)
  /\ QueryDone
  /\ UNCHANGED <<row, cacheVars, queryQueue, mainVars, jobVars, clock,
                 failures, crashes>>

(* Selecting or creating in a cached account returns without an answer.    *)
IgnoreCached ==
  /\ pc = "Execute" /\ query.kind \in {"create", "select"} /\ Cached(query.account)
  /\ QueryDone /\ reply' = NoReply
  /\ UNCHANGED <<row, cacheVars, queryQueue, mainVars, jobVars, clock,
                 failures, crashes>>

(* Otherwise the lock is left and the database is asked.                   *)
GoToDatabase ==
  /\ pc = "Execute" /\ query.kind \in {"list", "create", "select"}
  /\ ~Cached(query.account)
  /\ pc' = "Database"
  /\ reply' = NoReply
  /\ UNCHANGED <<row, cacheVars, queryVars, mainVars, jobVars, clock, failures,
                 crashes>>

LockableAlways(a, s) == row[a].serverId # NoRow     \* variant: steals a lock
LockRowForgotten(a, s) == row                       \* variant: no UPDATE
FreeNameAlways(a) == TRUE                           \* variant: overwrites

(* UpdateAccountLock(TRUE) when no other server has the account.           *)
Lockable(a, s) == row[a].serverId \in {NoServer, s}
LockRow(a, s) == [row EXCEPT ![a].serverId = s]

(* The name of the account's character is not taken yet.                   *)
FreeName(a) == clock[a] = 0

(* INSERT_WAREHOUSE and CreatePlayerData; v = 0 when the character's row   *)
(* was inserted but not its data.                                          *)
CreateRow(a, s, v) ==
  /\ row' = [row EXCEPT ![a] = [serverId |-> s, data |-> v]]
  /\ clock' = [clock EXCEPT ![a] = 1]

(* GetPlayerCharList: locks the row, creates it for a new account.  A call *)
(* that fails on the way leaves what was done so far: the lock, a row      *)
(* without a character, or a character nobody was told of.                 *)
ListInDatabase ==
  /\ pc = "Database" /\ query.kind = "list"
  /\ LET a == query.account  s == query.serverId IN
       \/ /\ row[a].serverId \notin {NoServer, NoRow, s} /\ DbWorks
          /\ Answer("lockedOther", 0)
          /\ UNCHANGED <<row, clock>>
       \/ /\ Lockable(a, s) /\ DbWorks
          /\ row' = LockRow(a, s) /\ Answer("success", 0)
          /\ UNCHANGED clock
       \/ /\ row[a].serverId = NoRow /\ DbWorks
          /\ CreateRow(a, s, 1) /\ Answer("success", 0)
       \/ /\ DbFails
          /\ \/ UNCHANGED <<row, clock>>
             \/ Lockable(a, s) /\ row' = LockRow(a, s) /\ UNCHANGED clock
             \/ /\ row[a].serverId = NoRow
                /\ row' = LockRow(a, s) /\ UNCHANGED clock
             \/ row[a].serverId = NoRow /\ \E v \in {0, 1} : CreateRow(a, s, v)
          /\ Answer("fail", 0)
  /\ QueryDone
  /\ UNCHANGED <<cacheVars, queryQueue, mainVars, jobVars, crashes>>

(* CreatePlayerData: only under the sender's lock and for a free name.     *)
CreateInDatabase ==
  /\ pc = "Database" /\ query.kind = "create"
  /\ LET a == query.account
         allowed == row[a].serverId = query.serverId /\ FreeName(a) IN
       \/ /\ allowed /\ DbWorks
          /\ CreateRow(a, query.serverId, 1) /\ Answer("success", 0)
       \/ /\ ~allowed /\ DbWorks
          /\ Answer("fail", 0) /\ UNCHANGED <<row, clock>>
       \/ /\ DbFails
          /\ \/ UNCHANGED <<row, clock>>
             \/ allowed /\ \E v \in {0, 1} : CreateRow(a, query.serverId, v)
          /\ Answer("fail", 0)
  /\ QueryDone
  /\ UNCHANGED <<cacheVars, queryQueue, mainVars, jobVars, crashes>>

(* GetPlayerData: locks the row again, then reads the character.           *)
SelectInDatabase ==
  /\ pc = "Database" /\ query.kind = "select"
  /\ LET a == query.account  s == query.serverId IN
       \/ /\ Lockable(a, s) /\ row[a].data # 0 /\ DbWorks
          /\ row' = LockRow(a, s)
          /\ loaded' = row[a].data /\ pc' = "Load"
          /\ reply' = NoReply /\ UNCHANGED query
       \/ /\ Lockable(a, s) /\ row[a].data = 0 /\ DbWorks
          /\ row' = LockRow(a, s)
          /\ Answer("fail", 0) /\ QueryDone
       \/ /\ ~Lockable(a, s) /\ DbWorks
          /\ Answer("fail", 0) /\ QueryDone /\ UNCHANGED row
       \/ /\ DbFails
          /\ UNCHANGED row \/ (Lockable(a, s) /\ row' = LockRow(a, s))
          /\ Answer("fail", 0) /\ QueryDone
  /\ UNCHANGED <<cacheVars, queryQueue, mainVars, jobVars, clock, crashes>>

(* LoadIntoCache after the read: fails when a save created the unit        *)
(* meanwhile.  The flag is the one that was stored with the data.          *)
LoadIntoCache ==
  /\ pc = "Load"
  /\ LET a == query.account IN
       \/ /\ ~Cached(a)
          /\ \E flag \in StoreFlags :
               cacheMap' = [cacheMap EXCEPT ![a] =
                 [data |-> loaded, storeFlag |-> flag, serverId |-> query.serverId,
                  modified |-> FALSE, removeMe |-> FALSE, recent |-> TRUE]]
          /\ Answer("success", loaded)
       \/ /\ Cached(a) /\ Answer("fail", 0) /\ UNCHANGED cacheMap
  /\ QueryDone
  /\ UNCHANGED <<row, updateQueue, queryQueue, mainVars, jobVars, clock,
                 failures, crashes>>

(* Query4DeletePlayer: checks the cache, then checks again and deletes     *)
(* under the lock; a unit that appears in between ends it without answer.  *)
DeleteRow(a) == [row EXCEPT ![a].data = 0]

DeletePlayer ==
  /\ pc = "Execute" /\ query.kind = "delete"
  /\ LET a == query.account
         there == row[a].serverId = query.serverId /\ row[a].data # 0 IN
       \/ /\ Cached(a) /\ DbWorks /\ UNCHANGED row
          /\ Answer("fail", 0) \/ reply' = NoReply
       \/ /\ ~Cached(a) /\ there /\ DbWorks
          /\ row' = DeleteRow(a) /\ Answer("success", 0)
       \/ /\ ~Cached(a) /\ ~there /\ DbWorks
          /\ Answer("fail", 0) /\ UNCHANGED row
       \/ /\ ~Cached(a) /\ DbFails
          /\ UNCHANGED row \/ (there /\ row' = DeleteRow(a))
          /\ Answer("fail", 0)
  /\ QueryDone
  /\ UNCHANGED <<cacheVars, queryQueue, mainVars, jobVars, clock, crashes>>

-----------------------------------------------------------------------------
(* The persistent thread: the update events.                               *)

PopEmpty ==
  /\ Popping /\ updateQueue = <<>>
  /\ pc' = "Loop"
  /\ reply' = NoReply
  /\ UNCHANGED <<row, cacheVars, queryVars, mainVars, jobVars, clock, failures,
                 crashes>>

(* The mark of a backup: Query::Backup returns at once, the flag is        *)
(* cleared.                                                                *)
PopMark ==
  /\ Popping /\ updateQueue # <<>>
  /\ atBackup /\ Head(updateQueue) = BackupMark
  /\ updateQueue' = Tail(updateQueue)
  /\ atBackup' = FALSE /\ pc' = "Retry"
  /\ reply' = NoReply
  /\ UNCHANGED <<row, cacheMap, queryVars, mainPc, quitEvent, jobVars, clock,
                 failures, crashes>>

(* Variants: the throttle also holds back a logout, a backup, a shutdown.  *)
ThrottledLogout(u) == ~quitEvent /\ ~atBackup /\ (~u.modified \/ u.recent)
ThrottledBackup(u) == ~u.removeMe /\ ~quitEvent /\ (~u.modified \/ u.recent)
ThrottledQuit(u) == ~u.removeMe /\ ~atBackup /\ (~u.modified \/ u.recent)

(* An event is dropped when its unit is gone, and when the unit neither    *)
(* leaves nor was changed and last written more than 30 minutes ago.       *)
Throttled(u) == /\ ~u.removeMe /\ ~quitEvent /\ ~atBackup
                /\ ~u.modified \/ u.recent

PopDrop ==
  /\ Popping /\ updateQueue # <<>>
  /\ ~(atBackup /\ Head(updateQueue) = BackupMark)
  /\ LET a == Head(updateQueue).id IN Cached(a) => Throttled(cacheMap[a])
  /\ updateQueue' = Tail(updateQueue)
  /\ pc' = "Retry"
  /\ reply' = NoReply
  /\ UNCHANGED <<row, cacheMap, queryVars, mainVars, jobVars, clock, failures,
                 crashes>>

(* Otherwise the unit is copied; from here on it counts as written.        *)
MarkTaken(a) ==
  [cacheMap EXCEPT ![a].modified = FALSE,
                   ![a].recent = IF cacheMap[a].modified THEN TRUE ELSE @]

PopTake ==
  /\ Popping /\ updateQueue # <<>>
  /\ LET a == Head(updateQueue).id IN
       /\ Cached(a) /\ ~Throttled(cacheMap[a])
       /\ cu' = [data |-> cacheMap[a].data, modified |-> cacheMap[a].modified,
                 removeMe |-> cacheMap[a].removeMe]
       /\ cacheMap' = MarkTaken(a)
  /\ ue' = Head(updateQueue)
  /\ updateQueue' = Tail(updateQueue)
  /\ pc' = "Save"
  /\ reply' = NoReply
  /\ UNCHANGED <<row, queryVars, mainVars, result, clock, failures, crashes>>

(* UPDATE_PROPERTY_ONLYBUF: one row, under the lock of the event's server. *)
Writable == row[ue.id].serverId = ue.serverId /\ row[ue.id].data # 0
WrittenRow == [row EXCEPT ![ue.id].data = cu.data]

(* The save happens outside the lock.  A call that fails may have been     *)
(* carried out by the database all the same.                               *)
SaveToDB ==
  /\ pc = "Save"
  /\ \/ ~cu.modified /\ DbWorks /\ result' = TRUE /\ UNCHANGED row
     \/ cu.modified /\ Writable /\ DbWorks /\ result' = TRUE /\ row' = WrittenRow
     \/ cu.modified /\ ~Writable /\ DbWorks /\ result' = FALSE /\ UNCHANGED row
     \/ /\ DbFails /\ result' = FALSE
        /\ UNCHANGED row \/ (cu.modified /\ Writable /\ row' = WrittenRow)
  /\ pc' = "Finish"
  /\ reply' = NoReply
  /\ UNCHANGED <<cacheVars, queryVars, mainVars, ue, cu, clock, crashes>>

JobDone == pc' = "Loop" /\ ue' = BackupMark /\ cu' = NoSnapshot /\ result' = TRUE

(* After a save the unit is looked at again: it leaves the cache only if   *)
(* it should still leave and was not changed meanwhile.                    *)
MayRemoveChanged(u) == u.removeMe /\ u.storeFlag = "LOGOUT"  \* variant: no re-check

MayRemove(u) == u.removeMe /\ ~u.modified /\ u.storeFlag = "LOGOUT"
UnlockRow(a, s) ==
  [row EXCEPT ![a].serverId = IF @ = s THEN NoServer ELSE @]

FinishRemove ==
  /\ pc = "Finish" /\ result /\ cu.removeMe
  /\ Cached(ue.id) /\ MayRemove(cacheMap[ue.id])
  /\ \/ DbWorks /\ row' = UnlockRow(ue.id, ue.serverId)
     \/ DbFails /\ UNCHANGED row
  /\ cacheMap' = [cacheMap EXCEPT ![ue.id] = NoUnit]
  /\ JobDone /\ reply' = NoReply
  /\ UNCHANGED <<updateQueue, queryVars, mainVars, clock, crashes>>

FinishKeep ==
  /\ pc = "Finish" /\ result
  /\ ~(cu.removeMe /\ Cached(ue.id) /\ MayRemove(cacheMap[ue.id]))
  /\ JobDone /\ reply' = NoReply
  /\ UNCHANGED <<row, cacheVars, queryVars, mainVars, clock, failures, crashes>>

(* A failed save marks the unit changed again; nothing is queued for it.   *)
UnsavedForgotten(u) == u                             \* variant: stays clean
Unsaved(u) == [u EXCEPT !.modified = TRUE]

FinishFailed ==
  /\ pc = "Finish" /\ ~result
  /\ cacheMap' = [cacheMap EXCEPT
       ![ue.id] = IF Cached(ue.id) THEN Unsaved(@) ELSE @]
  /\ JobDone /\ reply' = NoReply
  /\ UNCHANGED <<row, updateQueue, queryVars, mainVars, clock, failures, crashes>>

-----------------------------------------------------------------------------
MainMessages == \/ \E q \in Query : SubmitQuery(q)
                \/ \E a \in Accounts, s \in Servers, flag \in StoreFlags :
                     SaveIntoCache(a, s, flag)

MainBackup == BackupSaveAll \/ BackupPushMark \/ BackupEnd

ExecuteQuery == \/ ExecuteUnlock \/ ListCached \/ IgnoreCached \/ GoToDatabase
                \/ ListInDatabase \/ CreateInDatabase \/ SelectInDatabase
                \/ LoadIntoCache \/ DeletePlayer

PersistentThread == \/ LoopTest \/ ServiceDone \/ TakeQuery \/ ExecuteQuery
                    \/ PopEmpty \/ PopMark \/ PopDrop \/ PopTake \/ SaveToDB
                    \/ FinishRemove \/ FinishKeep \/ FinishFailed

Environment == \/ MainMessages \/ BackupStart \/ ExitServer \/ Restart \/ Crash
               \/ \E a \in Accounts : Age(a)

Next == Environment \/ MainBackup \/ PersistentThread

Spec == Init /\ [][Next]_vars

(* Both threads loop for ever; nothing else is bound to happen.            *)
FairSpec == Spec /\ WF_vars(PersistentThread) /\ WF_vars(MainBackup)

-----------------------------------------------------------------------------
(* Properties.                                                             *)

(* The persistent thread holds a changed copy of a's unit.                 *)
InHand(a) == pc \in {"Save", "Finish"} /\ ue.id = a
Writing(a) == InHand(a) /\ cu.modified

(* An event for a waits in the queue.                                      *)
EventWaits(a) == \E i \in DOMAIN updateQueue : updateQueue[i].id = a

(* A unit that is not marked changed, and is not being written, is in the  *)
(* database: whatever is dropped, retried or failed, `modified` never lies *)
(* about a committed save (dpl.cpp: PersistentThread clears it before the  *)
(* save and sets it again after a failed one).                             *)
CleanIsStored ==
  \A a \in Accounts : Cached(a) /\ ~cacheMap[a].modified /\ ~Writing(a)
                        => row[a].data = cacheMap[a].data

(* A login server that was told it may play an account holds the lock of   *)
(* the account when it is told, and a character that was read is the one   *)
(* in the database (GetPlayerCharList, GetPlayerData, LoadIntoCache).      *)
GrantHoldsLock ==
  reply # NoReply /\ reply.result = "success" =>
    LET a == reply.query.account IN
      /\ row[a].serverId = reply.query.serverId
      /\ reply.query.kind = "select" => /\ reply.data = row[a].data
                                        /\ Cached(a)

(* While an account is cached its row is locked by the server it is cached *)
(* for, so no other server can be given it: through restarts, failed       *)
(* unlocks and requests that run between a cache check and a database call.*)
LockHeld ==
  \A a \in Accounts : Cached(a) => row[a].serverId = cacheMap[a].serverId

(* The content in the database never goes back to an older one, except     *)
(* when the character is deleted.                                          *)
NeverOlder ==
  [][\A a \in Accounts : \/ row'[a].data >= row[a].data
                         \/ DeletePlayer /\ row'[a].data = 0]_vars

(* A logout that lost its last event: the unit will not leave the cache    *)
(* until somebody touches the account again.                               *)
Stranded(a) == /\ Cached(a) /\ cacheMap[a].removeMe
               /\ ~EventWaits(a) /\ ~(InHand(a) /\ result /\ cu.removeMe)

(* Only a failed save strands a logout: no order of saves, requests,       *)
(* backups and pops does.                                                  *)
OnlyFailureStrands ==
  [][\A a \in Accounts : Stranded(a)' => Stranded(a) \/ (InHand(a) /\ ~result')]_vars

(* When a backup ends every unit is in the database, unless a save failed. *)
BackupFlushes ==
  [][PopMark /\ failures = 0 => DirtyAccounts = {}]_vars

(* The shutdown has written every unit, unless a save failed (the check of *)
(* PersistentThread before it frees the cache).                            *)
ShutdownFlushes == pc = "End" /\ failures = 0 => DirtyAccounts = {}

(* Requests stop coming for good.                                          *)
QueriesCease == <>[](queryQueue = <<>>)

(* A logout is completed, unless a database call failed: the unit leaves   *)
(* the cache, with a crash at the latest, or is taken over by a later save *)
(* of the same player.                                                     *)
LoggingOut(a) == Cached(a) /\ cacheMap[a].removeMe
LogoutCompletes ==
  QueriesCease => \A a \in Accounts : LoggingOut(a) ~> ~LoggingOut(a) \/ failures > 0

-----------------------------------------------------------------------------
(* The promise of AccountStore: a commit is remembered in the cache.       *)
Latest == [a \in Accounts |-> IF Cached(a) THEN cacheMap[a].data ELSE row[a].data]
Store == INSTANCE AccountStore WITH
           stored <- [a \in Accounts |-> row[a].data],
           latest <- Latest,
           owner  <- [a \in Accounts |-> row[a].serverId]
ImplementsStore == Store!Spec

-----------------------------------------------------------------------------
(* What comments and assertions of dpl.cpp say, and the code does not do.  *)

(* dpl.cpp:106: "every object must have one or more update events".  Read  *)
(* for the objects that have something to update.                          *)
EveryObjectHasEvent == \A a \in DirtyAccounts : EventWaits(a) \/ InHand(a)

(* dpl.cpp:320: assert( !it->second.modified ) when the thread ends.       *)
NothingUnsavedAtEnd == pc = "End" => DirtyAccounts = {}

(* DMainApp.cpp:309: when the backup is completed, messages are handled    *)
(* again.                                                                  *)
BackupCompletes == mainPc \in {"SaveAll", "Mark", "Wait"} ~> mainPc = "Idle"

=============================================================================
