# Verification of the darkserver server cluster

TLA+ models of the servers under `src/ServerProject`, checked with TLC and, where a result should
hold for every number of accounts and servers, proved with TLAPS. Modelled are

* the **persistence layer of the database server**: the write-back cache of players' data, the
  lock that gives an account to one login server, backup, shutdown and restart;
* the **life of a player's session**: from the login over the database server and the zone server
  to the logout and the save, with lost links and restarts of each server;
* the **login queue** of the login server, its **registry of zone servers**, and the **sectioned
  messages** all servers use for what does not fit into a packet.

The sources are GBK encoded; line numbers below and in `PROJECT.json` are those of the files.

## 1. The system

```
 client --- LoginServer --- zoneserver(s)          (game simulation)
               |    \------ account / GM / CenterServer
               |
           DBServerEX  main thread ---- cacheMap + updateQueue + queryQueue ---- persistent thread --- MySQL
```

A client connects to a login server, which checks the account, asks the database server for the
character list (this *locks* the account for the login server), selects a character (this *loads*
it into the database server's cache), and places the player in a zone server. While the player is
in the game the zone server sends saves through the login server into the cache. A logout is a save
with the flag `ST_LOGOUT`; when it has been written, the account is unlocked and leaves the cache.

### Inventory

| Component | State | Operations | What makes it correct |
|---|---|---|---|
| Persistence layer (`DBServerEX/DBServer/persistent/dpl.cpp`, `dpl.h`) | `cacheMap`, `accountMap`, `updateQueue`, `queryQueue`, `quitEvent`, `atBackup` | `SaveIntoCache`, `LoadIntoCache`, queries list/unlock/create/select/delete, `PersistentThread`, `Backup`, `_SaveAll` | what was committed is written or still marked changed; never overwritten by older content; unlocked only when written; backup and shutdown write everything; logouts complete |
| Account rows (`NetDBModuleEx.cpp`, `SQLTextDefine.h`, `MysqlDBProcess.cpp`) | `warehouse.serverid`, `property.databuf` | `GetPlayerCharList`, `CreatePlayerData`, `GetPlayerData`, `SavePlayerData`, `DeletePlayerData`, `UpdateAccountLock`, `KeepAlive` | at most one login server holds an account; only the holder writes |
| DB server main loop (`DMainApp.cpp`) | `atBackup` states -1/1/0, `quitEvent` | `Entry`, `LoopServer`, `Backup`, `ExitServer` | messages are handled again after a backup; exit only after everything is written |
| Unique queue (`PUB/Thread.h`) | queue and map of waiting keys | `mtsafe_push`, `mtsafe_get_and_pop` | one waiting query per account, the latest |
| Item checker (`dpl.cpp`, `ItemUniqueChecker`) | `uniqueMap` | all commented out; `SaveItemRelation` only copies the data | - |
| DB procedures (`Procedure.cpp`, `ThreadWrapper.cpp`) | none between calls | mail, factions, scripts, point logs | every request answered once |
| Login sessions (`LoginServer/PlayerManager.cpp`, `Globals.cpp`, `NetDBModule.cpp`) | `tempLinkContext`, `playerCache` | login, list, create, select, rebind, assign, refresh, logout, timeouts | one session per account; a session that ends has saved; saves only from the holder |
| Login queue (`NetAccountCheckModule.cpp`) | `loginQueueList`, `g_dConcurrencyPlayerNum`, `playerloginlist` | admit, queue, tick, complete | limit kept; counter not lost; queue drains |
| Server registry (`ServerManager.cpp`) | zone servers, their keys and loads | register, lose, place players | players are placed on live servers |
| Sectioned messages (`NETWORKMODULE/SectionMsgs.h`) | `m_recvDataMap`, `m_sendCount` | divide, receive, pop | a message is delivered whole and unmixed |
| Center server | registry, relayed requests | relay | - |
| Zone server, game objects | the game | saves, region changes, trade | saves carry the newest content |
| Network engines and modules | sockets, link queues | send, receive, close | ordered delivery per link |
| Utilities, client UI, vendored code | - | - | not modelled |

Interactions: messages on links (client-login, login-db, login-zone, client-zone), shared state
under one lock between the two threads of the database server, and one unguarded access (section
5). Inside the login server the components call each other: the queue admits a client
(`PlayerLogin`), the session manager keeps it, `PutIntoRegion` of the registry says where it plays.

Hard behaviours: a save that races with the write of the previous one; the same account in a cache
check and a database call that follows it; logouts, unlock requests, list requests and late saves
in any order; failing database calls that may have taken effect; a database server that restarts
alone while players are in the game; a throttle that drops events; backups and shutdowns in the
middle of all that; a client that is at two places while its links end one after the other;
answers that come twice, or after what they answer is gone; a reconnected server whose old link
has not ended yet; an identifier that comes round. `PROJECT.json` lists each one under `hazards` at its line.

## 2. Modules

| Module | What it is |
|---|---|
| `AccountStore` | The abstract promise: per account a durable content, the latest committed content, an owner. |
| `PersistLayer` | The persistence layer as it is coded: main thread, persistent thread, database. Properties and the refinement mapping. |
| `PersistProofs` | Theorems about `PersistLayer` and their proofs: content, answers, the refinement. |
| `PersistFlushProofs` | The lock of a cached account, stranded logouts, backup and shutdown. |
| `LoginSession` | A player's session over login servers, zone servers and the database server they share. |
| `SessionProofs` | Who holds an account: the row, the unit and the saves of a session. |
| `SessionPlayProofs` | Where players are: characters, one player per account. |
| `SessionDataProofs` | Where the newest content of a player is. |
| `LoginQueue` | Admission of clients: the queue, the 20 second tick, the counter of logins in progress. |
| `QueueProofs` | Theorems about `LoginQueue` and their proofs. |
| `ZoneRegistry` | Registration, loss and reconnection of zone servers, the refresh query, faction regions. |
| `ZoneProofs` | Theorems about `ZoneRegistry` and their proofs. |
| `Section` | Division and reassembly of sectioned messages. |
| `SectionProofs` | Theorems about `Section` and their proofs. |
| `MCPersist`, `MCSession`, `MCQueue`, `MCZone`, `MCSection` | Model values, layouts and symmetry sets for TLC. |

The modules meet at their assumptions. `PersistLayer` asks whether saves come from the holder of an
account (`LateSaves`); `LoginSession` answers (`SavesAreOwned`, proved for every instance as
`SavesComeFromOwners`). `LoginSession` takes the database
server in the form `PersistLayer` shows it to have (a row, a unit, a waiting query per account, one
step per query and per write), lets every client in (`LoginQueue`) and lets `PutIntoRegion` fail
(`ZoneRegistry` says when a zone server is found again). All of them take links that deliver
messages whole and in order (`Section`).

### How `PersistLayer` corresponds to the code

State: `row[a]` is the row of `warehouse` (`serverId`) joined with the row of `property` (`data`);
`cacheMap`, `updateQueue`, `queryQueue`, `quitEvent`, `atBackup` are the variables of that name;
`mainPc` says where the main thread is in `Backup` / `ExitServer` / `LoopServer`; `pc`, `query`,
`ue`, `cu`, `result`, `loaded` are the program counter and local variables of the persistent
thread (`cu` with `basedata`, which is copied in the same critical section); `reply` is the answer
sent by the last step. `clock`, `failures`, `crashes` only count.

| Code | Actions |
|---|---|
| `SaveIntoCache`, `LoadIntoCache(fromGame)`, `SaveItemRelation` | `SaveIntoCache` |
| `GetChList`, `NewPlayer`, `GetPlayerData`, `DeletePlayer` and `mtsafe_push` | `SubmitQuery` |
| `_g::_p::Backup`, `_SaveAll`, `LoopServer` | `BackupStart`, `BackupSaveAll`, `BackupPushMark`, `BackupEnd` |
| `ExitServer`, `Shutdown` | `ExitServer` |
| `LoopService` | `LoopTest`, `TakeQuery`, `ServiceDone` |
| `Query4QueryPlayerList::Execute` | `ExecuteUnlock` (client id 0), `ListCached`, `GoToDatabase`, `ListInDatabase` |
| `Query4NewPlayer::Execute`, `Query4SelectPlayer::Execute` | `IgnoreCached`, `GoToDatabase`, `CreateInDatabase`, `SelectInDatabase`, `LoadIntoCache` |
| `Query4DeletePlayer::Execute` | `DeletePlayer` |
| `PersistentThread`, pop section | `PopEmpty`, `PopMark`, `PopDrop`, `PopTake` |
| `PersistentThread`, save and finish | `SaveToDB`, `FinishRemove`, `FinishKeep`, `FinishFailed` |
| end of the thread, process death | `Restart`, `Crash` |

One action is one critical section of the cache lock, one database call, or one unguarded access.
The pop section keeps the lock while it retries (`pc = "Retry"`, `LockFree` is false), so the main
thread cannot save between two retries but can push the backup mark, which takes no lock.

### Abstractions

* **Content** is the number of its commit for the account; 0 is "no character". Properties only
  compare contents for age and equality. A second character of the account after a deletion has a
  new id in the code, i.e. it is another account of the model: `FreeName(a)` is `clock[a] = 0`.
* **One character per account**: `cacheMap` and `accountMap` are filled and erased together and
  are one map. `ST_HANGUP` behaves like `ST_LOGIN` in `dpl.cpp` and is left out.
* **Name and index conflicts** are refused by the keys of table `property`; the `not exists`
  condition of the statement itself is commented out (`SQLTextDefine.h:9`).
* **A database call** succeeds, or fails (`DbFails`) before or after it took effect. `KeepAlive`
  failing is the case "before". A frozen account (`NetDBModuleEx.cpp:105-124`), where the row is
  locked and the request then refused, is a failing list request. `AffectedRows() = 0` for an
  identical write within one second is a failing save.
* **Time** is one bit per unit: `recent` means younger than the 30 minutes of the throttle;
  `Age` lets it pass at any moment.
* **The unguarded push** of the mark races with `pop` on the size of a `std::queue`: the outcomes
  are the mark in place, the mark lost, or the pop lost, in which case the element behind the mark
  is stale memory: any event that was in the queue before.
* **An unlock that has no effect** (the call fails, its result is ignored at `dpl.cpp:279`) is the
  `DbFails` branch of `FinishRemove`.
* **LateSaves**: if TRUE, a save may come from a login server that does not hold the account, or
  for a character that was deleted; if FALSE, only from the holder. That login servers send saves
  only for accounts they hold is the theorem `SavesComeFromOwners` of `LoginSession`. The safety run
  and `PersistProofs` nevertheless allow late saves; `LockIsHeld`, `BackupsFlush` and
  `ShutdownsFlush` are about the case without them, since they are false with them (section 3).

Not modelled: `DoubleSaveIntoCache` (its sender in `ExchangeGoods.cpp:950` is commented out),
configuration and rank-list queries (they use neither cache nor lock), guest accounts (refused
before the cache), the workers of `msgQueue`/`rpcQueue`, statistics and logs.

### How `LoginSession` corresponds to the code

State: `phase`, `login` and `tempLinkContext` are a client's link and its context in
`PlayerManager` ("unbind" is a context whose `doUnbind` is set); `playerCache[s]` is the map of that
name of login server `s`; `toDb`, `fromDb`, `toLogin`, `toZone` are the links; `row`, `unit`,
`waiting` are the database server; `visit[l]` is the connection of client `l` to a zone server and
the player it is bound to there; `object[z]` are the players of a zone server. `clock`, `lost` and
`restarted` only record what happened, for the properties.

| Code | Actions |
|---|---|
| `PlayerLogin`, `RebindAccount`, `QueryPlayerList` | `PlayerLogin` |
| `CPlayerManager::Entry` without data | `Break`, `Closed` |
| `RecvGetCharacterListMsg`, `SelectCharacter` | `RecvGetCharacterList`, `Reselect` |
| `RecvGetCharacterMsg`, `AssignPlayer`, `GetGuid` | `RecvGetCharacter` |
| database server: `Entry`, list/unlock/select queries, `PersistentThread` | `DbReceive`, `DbExecute`, `DbRemove` |
| `QuestCheckRebind`, end of the client's link at the zone server | `QuestCheckRebind`, `Leave` |
| `DoCheckRebind`, `SendPlayerData`, `UpdatePlayerData` at the login server | the actions of these names |
| `RecvCheckRebind`, `CreateNewPlayer`, `SetPlayerData`, `CNewPlayer::Logout` at the zone server | `RecvCheckRebind`, `SetPlayerData`, `Logout` |
| `CNetDBModule::Entry` without data, `Connect` | `BreakDb`, `ReconnectDb` |
| `CPlayerManager::Destroy`, `SaveAllPlayer` | `Destroy` |
| process or link failures | `CrashDb`, `CrashLogin`, `CrashZone`, `BreakZone` |

Abstractions: every account has its row and one character, which the client selects as soon as it
has its list; the database server loses nothing but in a crash, and its calls do not fail (they do
in `PersistLayer`). The content of a player is the number of its logout. `SavePlayerData` refuses
malformed data; data is well-formed here. The script that logs a player out at the zone server
does so at any moment. A zone server that is not registered when it is needed counts as a fault.

What the model shows about the code, without contradicting anything it promises: a check that the
login server answered before a logout and that is taken after it makes a player object whose data
never comes; the script `Logout` cannot find it (it looks players up by the name that is set with
the data), so later logins of the account are refused at this zone server until the process ends
(`GameWorld.cpp:1951-1967`). The end of a client's link never reaches its handler at the zone
server (`DMainApp.cpp:970`): a player leaves only by its script. `UpdatePlayerData` does not
compare global ids (`PlayerManager.cpp:1386`, commented out); that is harmless as long as an
account plays at one place (`OnePlayer`). When a login server is started again its global ids
start again too, and the players of its zone servers stay: `OnePlayer` and `OwnCharacter` are
promised only for login servers that were not.

### How `LoginQueue` corresponds to the code

`loginQueueList`, `playerCache`, `tempLinkContext`, `playerloginlist` are the variables of these
names, `concurrency` is `g_dConcurrencyPlayerNum`. `Wait` and `PlayerLogin` are the two ends of
`RecvCheckAccountMsg`; `Tick` is `Execution`: its loop is described by the entries it takes
(`Popped`: as many valid ones as there are `FreePlaces`, and the invalid ones before the last of
them) and by which of them register a context (`Registers`), its `UpdateQueuePlayer` by which of the
others stay (`Left`, `Dropped`) and by the queue these make in their order (`StillWaiting`), its
`PopLoginPlayer` by `Minus`. `SendPlayerData`, `SetPlayerData`,
`LoginComplete` are the way of the counter up and down. Whether a zone server's object is found as
`IID_PLAYER` is the constant `Kinds`. `AssignPlayer`, `Leave`, `LosePlayer` summarise what
`LoginSession` models.

### How `ZoneRegistry` corresponds to the code

`gameServers` is the map of that name, from a link to `SServer`; `toLogin` and `toZone` are the
messages on a link, whose end is a message of its own (the `NULL` data of `Entry`). `Connect` is
`CNetLoginServerModule::Entry` and its login message; `HandleLogin` is `OnServerLogin`,
`HandleClose` the erase at the end of a link, `QueryRefreshGameServer`, `Answer`
(`RecvRefreshMsg`, `FillRegionInfoMsg`) and `HandleRefresh` (`RefreshRegionServer`) the query that
goes round every 20 seconds; `CreateRegion` and `HandleRegionEx` announce a faction's region.
`overtaken` records the zone servers whose login was handled while something of an older link was
still to be handled: finding 5 shows what happens then, the other properties what does not happen
otherwise.

### How `Section` corresponds to the code

`sendCount` and `recvDataMap` are the variables of `SectionMessageManager`; `Send` is
`sendMessageWithSection` with `devideMessage`, `Receive` is `recvMessageWithSection` as `Entry`
uses it, with `popMessage`. The content of a section is the message it is a part of, so a buffer
shows whose sections it was filled with. `MaxId` stands for 255.

## 3. What is checked

Bounds of the runs of `MCPersist`: `MaxVersion` commits per account, `MaxBacklog` requests and
events at once (a guard on what the environment sends, not on what the thread or a backup queues),
`MaxFailures` failing calls, `MaxCrashes` crashes.

| Run | Accounts/servers | Bounds V/B/F/C | Properties | Shows |
|---|---|---|---|---|
| `persist_safety` | 1 / 2, late saves | 3/2/1/1 | `TypeOK`, `CleanIsStored`, `GrantHoldsLock`, `NeverOlder`, `OnlyFailureStrands`, `ImplementsStore` | nothing committed is lost track of, reordered or given away |
| `persist_owner` | 1 / 2 | 3/2/1/1 | `LockHeld`, `LogoutCompletes` | a cached account is locked for the server it is cached for; a logout completes once requests cease, unless a call failed |
| `persist_flush` | 2 / 1 | 2/2/1/0 | `BackupFlushes`, `ShutdownFlushes` | the end of a backup or shutdown finds nothing unsaved, unless a save failed |
| `persist_events` | 1 / 1 | 2/2/0/0 | `EveryObjectHasEvent` (violated) | finding 1 |
| `persist_shutdown` | 1 / 1 | 2/2/1/0 | `NothingUnsavedAtEnd` (violated) | finding 2 |
| `persist_backup` | 1 / 1 | 2/2/0/0 | `BackupCompletes` (violated) | finding 3 |

The other runs:

| Run | Instance | Properties | Shows |
|---|---|---|---|
| `session` | 2 accounts, 2 login servers, 3 zone servers (2 of them at one login server), 3 links, 2 contents, 2 faults, effort 4 | `TypeOK`, `SessionHoldsRow`, `SavesAreOwned`, `BeginsWithLast`, `OnePlayer`, `OwnCharacter` | a session owns its row, saves come from the owner, a player goes on with its last content, at one zone server, as its own character |
| `queue` | 2 accounts, 4 links, 2 places, counter up to 2 | `TypeOK`, `WaitersQueued`, `OneLogin`, `QueueMoves` | nobody is lost from the queue, no account logs in twice, the queue moves while the counter is under the limit |
| `queue_report` | 1 account, 1 link, objects as zone servers create them | `EntryLeavesList` (violated) | finding 4 |
| `registry` | 2 zone servers, one with a faction, 3 links, 1 restart of the login server | `TypeOK`, `OneEntryPerServer`, `EntryIsCurrent`, `AnswersTaken`, `FactionKnown`, `RegisteredAgain` | one entry per server, entries follow links, no answer is refused, a connected server can be reached |
| `registry_late` | 1 zone server, 2 links | `UnregisteredAtItsEnd` (violated) | finding 5 |
| `section` | 2 senders of different kinds, 2 identifiers each, 3 messages of up to 2 sections, 1 lost link or restart | `TypeOK`, `OnlyReuseMixes`, `WholeMessages`, `NothingLeft`, `Arrives` | messages arrive whole, in order, though identifiers come round; sections are mixed only after a loss or between senders of one kind |

`session`, `queue`, `registry` and `section` do not check for deadlock: clients may stop coming, all
links of the bound may be used up, all messages sent. Nothing in these protocols waits for another
party in a circle; what must go on is stated by `QueueMoves`, `RegisteredAgain` and `Arrives`. The
runs of `MCPersist` do check for deadlock.

The flush and owner runs exclude late saves, on which their properties depend: a late save that is
being written when the shutdown begins fails without a failing database call, and is then not
queued again; a late save for an account that is not cached creates a unit for a server that does
not hold it.

Why the bounds are enough: the hazards relate at most an old copy being written, the content in
the cache and a later save, i.e. three versions; two servers are needed to disagree about an
account; a backlog of two lets a second request or event wait while one is executed, and a third
is used where it was cheap. Accounts do not interact except through the order of the queue, so one
account is enough for the properties of an account; the flush run has two, because "everything is
written" is about all of them. One failure and one crash at any point expose each recovery path;
repeated failures repeat it. The proofs remove the bounds for the results they cover.

In `session` an account can come back over a second link, or another login server, while the first
link, its queries and its player are still on their way, and a third link can belong to another
account that gets the same global id or zone server. `MaxEffort` bounds clients, accounts and
faults together: with two accounts on two links there are no faults, with one account on two links
there is one, and so on; each kind of step meets each kind of fault in some such combination. In
`queue` two links per account and a limit of two let one tick admit several entries of one
account, an entry after the one that fills the last place, and one whose link is gone. In
`registry` three links let one zone server come back twice, or two servers once each over a
restart of the login server. In `section` the counter comes round after two messages and every
sender sends three in a life.

Each property was confronted with a plausible error in the code (`PROJECT.json`, `mutants`): the
variants are the operators marked "variant" in `PersistLayer`.

`OnlyFailureStrands` and `LogoutCompletes` belong together: the first says that no order of saves,
requests, backups and pops leaves a logout without an event, only a failed save does; the second
that a logout with its event is done.

### Fairness

In `PersistLayer`, `FairSpec` assumes weak fairness of the persistent thread and of the main thread's steps inside a
backup: both are loops that sleep at most 10 ms and wait only for the lock, which every holder
gives back. Nothing is assumed of the environment: messages, `Age`, backups, exit and crashes may
never come. Queries are served before events without limit (`dpl.cpp:459`), hence the hypothesis
`QueriesCease`; without it `LogoutCompletes` does not hold.

`LoginQueue` assumes that the tick comes (it is driven by the main loop's timer) and that zone
server and login server handle what they were sent; not that clients, databases or zone servers do
anything. `QueueMoves` has the hypothesis that the counter stays under the limit: finding 4 is that
it need not. `ZoneRegistry` assumes that zone servers do not give up connecting
(`NetLoginServerModule.cpp:82`), that the loops handle what arrived, and the 20 second timer;
`RegisteredAgain` speaks of a server that stays connected. `Section` assumes only the receiving
loop. `LoginSession` states no liveness: a session whose zone server fails stays until its client
comes back (`PlayerManager.cpp:1261`), and nothing obliges the client.

## 4. What is proved

Every theorem holds for all values of the constants that satisfy the named assumptions: any number
of accounts, servers, zone servers, links and senders (accounts finite where they are counted), any
bounds. The assumptions only say that null values are not proper values, that bounds are natural
numbers and that every zone server has a login server; TLC evaluates them on every run. Theorems
with a further hypothesis show it below.

### `PersistLayer`

`PersistProofs` proves, for all finite sets of accounts, all servers and all bounds, with and
without late saves, from the assumptions `PersistAssumption` and `UnitAssumption` (the special
values are not accounts, servers or units):

| Theorem | Statement |
|---|---|
| `TypeCorrect` | `Spec => []TypeOK` |
| `Invariant` | `Spec => [](TypeInv /\ IInv)` |
| `CleanUnitsAreStored` | `Spec => []CleanIsStored` |
| `GrantsHoldTheLock` | `Spec => []GrantHoldsLock` |
| `DatabaseNeverOlder` | `Spec => NeverOlder` |
| `Refinement` | `Spec => ImplementsStore` |

The argument. `TypeOK` is not inductive alone, since an answer repeats the executed query:
`TypeInv` adds that the thread has a query while it executes one. `CleanIsStored` is not inductive
either, because a step may finish a write whose copy is not the unit's content. `IInv` adds

* `InvThread`: the unit being saved stays cached, and unless it was saved again the copy (while it
  is being written) or the row (after a successful write) is its content. Only the persistent
  thread erases units and changes rows, and it copies a unit and clears `modified` in one critical
  section;
* `InvQuery`: a unit that appears between a cache check and the database call is marked changed
  (it comes from a save), and the content read by a select is still the row's until it is cached;
* `InvOrder`: row <= copy <= unit <= clock for every account, which gives `NeverOlder` and the
  `Commit` and `Flush` steps of the refinement.

There is one lemma per action that touches rows, units or the thread's copy, and `UntouchedKeeps`
for the others. The refinement maps `stored` to the row, `latest` to the unit or, without one, the
row, and `owner` to the lock; each step is a `Commit`, `Flush`, `Acquire`, `Create`, `Release`,
`Delete` or `Forget`, or leaves all three unchanged.

`PersistFlushProofs` adds

| Theorem | Statement |
|---|---|
| `LockIsHeld` | `ASSUME ~LateSaves PROVE Spec => []LockHeld` |
| `LogoutsAreNotStranded` | `Spec => OnlyFailureStrands` |
| `BackupsFlush` | `ASSUME ~LateSaves PROVE Spec => BackupFlushes` |
| `ShutdownsFlush` | `ASSUME ~LateSaves PROVE Spec => []ShutdownFlushes` |

The argument. The lock is inductive with `OwnerInv`: a cached account has a character, so no
creation gives it to another server. A logout is stranded by nothing but a failed save because of
`LogoutInv`: a unit that was saved again while it is being written has an event in the queue. For
backup and shutdown the difficulty is that the event the thread takes need not be for the server
the account is cached for, in which case its save fails although no call does. `EventInv` says of
every unit to be written that its *own* event waits behind all such events (`Overruled`), and in
front of the mark while everything is flushed (`Follows`); `FailInv` that without a failing call
only such a save fails; `MarkInv` that the mark is in the queue only while the main thread waits
for it, so that the unlocked push, whatever it loses, loses nothing of `EventInv`.

### `ZoneRegistry`

`ZoneProofs` proves, for any zone servers, links, restarts and lengths of the queues, from the
assumptions `ZoneAssumption` and `NoServerAssumption` (the special values are not zone servers or
entries):

| Theorem | Statement |
|---|---|
| `TypeCorrect` | `Spec => []TypeOK` |
| `RegisteredOnce` | `Spec => []OneEntryPerServer` |
| `EntriesAreCurrent` | `Spec => []EntryIsCurrent` |
| `AnswersAreTaken` | `Spec => []AnswersTaken` |
| `FactionsAreKnown` | `Spec => []FactionKnown` |

The argument. `TypeOK` needs `Owned`: a link without an owner carries nothing. `OneEntryPerServer`
is inductive with it: `OnServerLogin` looks for the server before it adds an entry, and no other
step adds one or changes its server. `EntryIsCurrent` needs `LinksInv`, for every link:

* `Fresh`, `Newest`: links not used yet are empty; a zone server has one link that is up at most,
  the last it opened, so older links get no new messages and are asked nothing;
* `Ordered`: a login is the first message of its link and comes before its entry; the end is the
  last one, and is there as soon as the link is down and not empty;
* `Belongs`: an entry is that of its link's owner, and goes with the end of the link;
* `Current`: unless the owner was overtaken, an entry is bound to its own link, nothing is left of
  the older ones, and a link that is up has its entry or its login still to be handled.

The step that matters is a login that finds an entry (`LoginEffect`): the entry is either of an
older link, something of which is then still to be handled, so that this login overtakes it; or of
a younger link, and then that one's login had overtaken this. `AnswersTaken` needs `QueriesInv`:
every query on its way to a zone server, and every answer on its way back, is for the entry of
that link as it is now. A query is sent to an entry bound to its link (`Current`), and an entry
goes only when nothing else is left on its link (`Ordered`, `Newest`). `FactionKnown` needs
`RegionInv`: the announcement of a faction's region is sent once, on the link the faction is known
by, and is either still on that link or in its entry.

### `LoginSession`

`SessionProofs`, `SessionPlayProofs` and `SessionDataProofs`, from `SessionAssumption` and
`NullAssumption`:

| Theorem | Statement |
|---|---|
| `TypeCorrect` | `Spec => []TypeOK` |
| `SessionsHoldTheirRows` | `Spec => []SessionHoldsRow` |
| `SavesComeFromOwners` | `Spec => []SavesAreOwned` |
| `OneSession` | no account is in the game at two login servers |
| `ClientsHaveTheirCharacter` | `Spec => []OwnCharacter` |
| `OnePlayerPerAccount` | `Spec => []OnePlayer` |
| `PlayersBeginWithLast` | `Spec => []BeginsWithLast` |

The argument. `TypeOK` is inductive with `LinksInv` and `VisitInv` (a message about a client that
is still there speaks of its account, zone server and global id). A login server holds an account
as long as nothing of it waits that gives the account away: an unlock, or the save of a logout.
`ContextInv` says that an account has one context, and none while it is in the game; `Clean` that
neither an unlock nor a save of the account is on its way from this server, which is true of an
account in the game (`GameInv`), of one whose list was answered (`ListInv`) and of one that selects
(`SelectInv`), because the link to the database server is in order and one query per account waits;
`Keeps` that the row is this server's and the unit is not leaving. A save on its way is the last
thing that can give the account away (`SaveInv`).

A login server that was not started again gives every global id once, hence an id stands for one
account and one zone server wherever it is written: in a session, a client, a message, a player
(`PassInv`). This is `OwnCharacter`. A zone server asks once for the data of a player, and until the
data comes its player waits, or was lost in a crash and nobody is on the way who could make it
again (`LoadInv`). So whoever plays, is about to, or has just stopped has a session that names this
zone server, and the three exclude each other (`PlayInv`), which with `OneSession` is `OnePlayer`.

`BeginsWithLast` needs to know where the newest content of an account is, while no login server was
started again and no fault dropped it (`NewestOf`): every message that carries content of the account
carries the newest (`MessagesLast`); a session has it, or a logout with it is on its way to the
session (`CacheLast`); without a session it is in a save on its way, or at the database server
(`StoredLast`); and contents get no older from the row over the unit to the session (`Bounded`).
Three steps read content, and each needs the invariants before. A select is executed when nobody
plays the account and no save of it is on its way, since its client's server holds no such save
(`Clean`) and another server's would hold the row (`Keeps`, `SaveInv`). A session's data is sent when
no logout is on its way to it, since nobody has both (`PlayInv`). A logout is of the one account that
plays, so nothing older is left anywhere. For a fault it is enough that the newest content is
somewhere afterwards, or is noted in `lost`: wherever it is, the invariants of the next state say
that it is where it belongs (`SomewhereIsNewest`).

### `LoginQueue`

`QueueProofs`, from `QueueAssumption`: `TypeCorrect` (`Spec => []TypeOK`), `WaitersAreQueued`
(`Spec => []WaitersQueued`) and `OneLoginAtATime` (`Spec => []OneLogin`). `EntryInv` says that no link
has two entries and that a valid entry belongs to a client that waits for the entry's account. The
step that matters is the tick, which takes a set of entries and renumbers the others: `Numbering`
proves that numbering a finite set in its order reaches every member once, `Staying` that the new
queue holds the entries that stay and no others.

### `Section`

`SectionProofs`, from `SectionAssumption`: `TypeCorrect` (`Spec => []TypeOK`), `MessagesAreWhole`
(`Spec => []WholeMessages`), `NothingIsLeft` (`Spec => []NothingLeft`) and `OnlyReuseMixesMessages`
(`Spec => []OnlyReuseMixes`). Two arguments. `CountInv`, `IdInv` and `PresentInv`: a message under way
has the number its identifier stands for modulo `MaxId`, and is known by its sender, life and
number; so two messages of one sender in one buffer are a round of the counter apart. `LinkInv`,
`PipeInv`: while nothing is lost the sections on a link are those of the next messages in sequence,
the map holds exactly the part of the first one that has arrived, and nothing when the link is empty
(`StreamInv`).

### Only model-checked

`LogoutCompletes`, `QueueMoves`, `RegisteredAgain` and `Arrives`, since liveness under fairness is
beyond TLAPS. Every invariant and action property that a passing run checks is proved.

## 5. Findings

1. **The premise of the persistent thread does not hold** (`dpl.cpp:106`, run `persist_events`).
   "Every object must have one or more update events": the throttle at `dpl.cpp:168` drops the
   event of a changed unit and queues nothing. The unit is then written only after another save, a
   backup or the shutdown; a crash loses up to everything since its last write.
2. **A failed save during the shutdown is lost** (`dpl.cpp:320`, run `persist_shutdown`). The unit
   is marked changed again at `dpl.cpp:309`, but the queue is empty, the loop ends, and the
   assertion that nothing is changed fails (in a release build the content is freed silently).
3. **A backup may never end** (`dpl.cpp:909`, `DMainApp.cpp:309`, run `persist_backup`). The mark is
   pushed without the lock; if the push is lost to a concurrent pop, `atBackup` stays set and the
   main loop never handles a message again.

4. **A completed login is never reported** (zone server's `NetLoginServerModule.cpp:527`, run
   `queue_report`). The report is sent only if the player's object casts to `IID_PLAYER`; zone
   servers create `IID_NEWPLAYER` objects (`GameWorld.cpp:2024`). The entry therefore stays in
   `playerloginlist`, of which `NetAccountCheckModule.cpp:17` says that it is deleted when the entry
   into the region server is complete, and the counter is not taken back: after `max_player_limit`
   logins new clients are queued and the tick lets nobody in.
5. **The end of an old link unregisters a connected zone server** (`ServerManager.cpp:868`, run
   `registry_late`). If the login by the new link is handled first, the entry is bound to the new
   link ("set the new server connection", line 867) but keeps the key of the old one; the end of
   the old link then erases it (line 373), and the zone server has no reason to log in again.

Behaviour worth knowing that is part of the model and contradicts no stated claim: a failed logout
save leaves the account cached and locked until somebody touches it; list requests leave an
account locked that is never selected; a select or create for a cached account is not answered; a
query popped while the connection is down is dropped; the region of a faction is not announced
again after a reconnection (`FactionKnown` says exactly when it is known); sections of a message
that was cut off, by a lost link or by the sections of another sender of the same kind, stay in the
map of the receiver, and meet those of a later message with the same identifier; sections of two
senders of one kind meet directly (`OnlyReuseMixes` excludes these cases and no other; that the
second sender can cut a message off without any loss came out of the proof, and an instance with two
senders of one kind shows it). Section 2 has what was seen in `LoginSession`.

## 6. Not modelled, and what is left to do

Not modelled: the item checker (all of it is commented out), the DB procedures (stateless calls on
other tables), the center server (it relays), the game objects (single-threaded rules of the game;
trade is the one with a protocol of its own), the network engines and modules (taken for what they
promise: ordered delivery on a link until it is lost), utilities, the client and vendored code.
The vendored and third-party code, the client and the rules of the game are most of the
repository's lines; the protocols modelled here are where its servers depend on each other.

Left out of modelled parts: `DoubleSaveIntoCache`, configuration and rank-list queries, several
characters per account (`PersistLayer`); creation and deletion of characters, GM requests, backups
without a logout, region changes (`ResolutionRegion`) and anti-addiction times (`LoginSession`); the
account server behind the queue (`LoginQueue`); player counters and broadcasts (`ZoneRegistry`); the
bytes of a section and what a copy past the end of a buffer overwrites (`Section`).

Models planned: creation and deletion of characters in `LoginSession`, with `PersistLayer`'s failing
calls; region changes between the zone servers of one login server; `DoubleSaveIntoCache` and two
characters per account.
