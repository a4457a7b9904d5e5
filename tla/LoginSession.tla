---------------------------- MODULE LoginSession ----------------------------
(***************************************************************************)
(* The life of a player's session: the login servers (PlayerManager.cpp,   *)
(* NetDBModule.cpp), between the database server they share and the zone   *)
(* servers each has of its own.                                            *)
(*                                                                         *)
(* A client logs in over a link, the login server fetches its character    *)
(* and sends it to a zone server, which asks for the session and its data  *)
(* by account and global id, and sends the content back when it leaves.    *)
(*                                                                         *)
(* The database server is taken as PersistLayer shows it, without failing  *)
(* calls and with one step for a query and one for a write: a row per      *)
(* account, a cached unit, one waiting query per account.  Every account   *)
(* has its row and its character.  Contents are numbered in the order the  *)
(* zone servers sent them.  The queue before the login is LoginQueue, the  *)
(* registry of zone servers ZoneRegistry; here PutIntoRegion may fail.     *)
(***************************************************************************)
EXTENDS Naturals, Sequences, FiniteSets, SequencesExt

CONSTANTS Accounts, Servers, Zones, Links,
          ServerOf,     \* ServerOf[z]: the login server of zone server z
          NoServer, NoZone, NoPlayer, NoUnit, NoQuery, NoLogin, NoVisit,
          MaxClock,     \* bound: contents sent by zone servers
          MaxFlight,    \* bound: requests in flight when a client asks again
          MaxFaults,    \* bound: lost links, crashes, restarts, unregistered zones
          MaxEffort     \* bound: links and accounts that logged in, and faults

ASSUME SessionAssumption ==
  /\ IsFiniteSet(Accounts)
  /\ ServerOf \in [Zones -> Servers]
  /\ NoServer \notin Servers /\ NoZone \notin Zones
  /\ MaxClock \in Nat /\ MaxFlight \in Nat /\ MaxFaults \in Nat /\ MaxEffort \in Nat

(* SPlayer: the global id, fixData, dwRegionServerKey.                     *)
SPlayer == [gid : Nat, data : Nat, key : Zones]

(* A link's login, a row of the database and a cached unit.                *)
Login == [server : Servers, account : Accounts]
Row == [serverId : Servers \cup {NoServer}, data : Nat]
Unit == [serverId : Servers, data : Nat, removeMe : BOOLEAN]

(* What a login server sends to the database server: the three requests    *)
(* (an unlock is a list request without a client) and SQSaveCharacterMsg,  *)
(* with ST_LOGOUT like every save this build sends.                        *)
Query == [kind : {"list", "select"}, account : Accounts, serverId : Servers, link : Links]
           \cup [kind : {"unlock"}, account : Accounts, serverId : Servers]
Save == [kind : {"save"}, account : Accounts, serverId : Servers, data : Nat]
Answer == [kind : {"list", "select"}, link : Links, data : Nat,
           result : {"success", "lockedSelf", "lockedOther", "fail"}]

(* Between zone servers and login servers; link stands for the client's    *)
(* connection to the zone server.                                          *)
ToLogin == [kind : {"check", "get"}, account : Accounts, gid : Nat, link : Links]
             \cup [kind : {"logout"}, account : Accounts, gid : Nat, data : Nat]
ToZone == [kind : {"rebound", "refused", "data"}, account : Accounts, gid : Nat,
           data : Nat, link : Links]

(* A player at a zone server, and a client's connection there.             *)
Object == [gid : Nat, data : Nat, init : BOOLEAN]
Visit == [zone : Zones, account : Accounts, gid : Nat,
          step : {"told", "asked", "there"}, player : Accounts]

ASSUME NullAssumption ==
  /\ NoPlayer \notin SPlayer /\ NoPlayer \notin Object
  /\ NoUnit \notin Unit /\ NoQuery \notin Query
  /\ NoLogin \notin Login /\ NoVisit \notin Visit

VARIABLES
  phase,            \* a link: new, open, cut (its end not noticed yet), closed
  login,            \* login[l]: the server and the account of a link
  tempLinkContext,  \* none, asked, unbind (asked, and doUnbind is set)
  playerCache,      \* playerCache[s][a]: SPlayer or NoPlayer
  nextGid,          \* nextGid[s]: s_CurGlobalID[0]
  toDb, fromDb,     \* messages between login server s and the database server
  dbUp,             \* dbUp[s]: the link is up
  row, unit, waiting, \* the account's row, its cached unit, its waiting query
  visit,            \* visit[l]: where the client was sent, and what it is there
  toLogin, toZone,  \* messages between zone server z and its login server
  object,           \* object[z][a]: the player at a zone server, or NoPlayer
  clock,            \* clock[a]: the last content a zone server sent for a
  lost,             \* accounts of which a fault dropped a content
  restarted,        \* login servers that were started again
  faults

clientVars == <<phase, login, tempLinkContext>>
dbVars == <<row, unit, waiting>>
zoneVars == <<visit, toLogin, toZone, object>>
ghostVars == <<clock, lost, restarted>>
vars == <<clientVars, playerCache, nextGid, toDb, fromDb, dbUp, dbVars, zoneVars,
          ghostVars, faults>>

TypeOK ==
  /\ phase \in [Links -> {"new", "open", "cut", "closed"}]
  /\ login \in [Links -> Login \cup {NoLogin}]
  /\ tempLinkContext \in [Links -> {"none", "asked", "unbind"}]
  /\ playerCache \in [Servers -> [Accounts -> SPlayer \cup {NoPlayer}]]
  /\ nextGid \in [Servers -> Nat]
  /\ toDb \in [Servers -> Seq(Query \cup Save)]
  /\ fromDb \in [Servers -> Seq(Answer)]
  /\ dbUp \in [Servers -> BOOLEAN]
  /\ row \in [Accounts -> Row]
  /\ unit \in [Accounts -> Unit \cup {NoUnit}]
  /\ waiting \in [Accounts -> Query \cup {NoQuery}]
  /\ visit \in [Links -> Visit \cup {NoVisit}]
  /\ toLogin \in [Zones -> Seq(ToLogin)] /\ toZone \in [Zones -> Seq(ToZone)]
  /\ object \in [Zones -> [Accounts -> Object \cup {NoPlayer}]]
  /\ clock \in [Accounts -> Nat] /\ lost \subseteq Accounts
  /\ restarted \subseteq Servers /\ faults \in 0..MaxFaults

Init ==
  /\ phase = [l \in Links |-> "new"]
  /\ login = [l \in Links |-> NoLogin]
  /\ tempLinkContext = [l \in Links |-> "none"]
  /\ playerCache = [s \in Servers |-> [a \in Accounts |-> NoPlayer]]
  /\ nextGid = [s \in Servers |-> 1]
  /\ toDb = [s \in Servers |-> <<>>] /\ fromDb = [s \in Servers |-> <<>>]
  /\ dbUp = [s \in Servers |-> TRUE]
  /\ row = [a \in Accounts |-> [serverId |-> NoServer, data |-> 0]]
  /\ unit = [a \in Accounts |-> NoUnit]
  /\ waiting = [a \in Accounts |-> NoQuery]
  /\ visit = [l \in Links |-> NoVisit]
  /\ toLogin = [z \in Zones |-> <<>>] /\ toZone = [z \in Zones |-> <<>>]
  /\ object = [z \in Zones |-> [a \in Accounts |-> NoPlayer]]
  /\ clock = [a \in Accounts |-> 0] /\ lost = {} /\ restarted = {} /\ faults = 0

Server(l) == login[l].server
Account(l) == login[l].account
InGame(s, a) == playerCache[s][a] # NoPlayer

-----------------------------------------------------------------------------
(* Sending to the database server: FALSE, and nothing is sent, without a   *)
(* connection.                                                             *)
SentToDb(s, m) == IF dbUp[s] THEN [toDb EXCEPT ![s] = Append(@, m)] ELSE toDb

QueryPlayerList(l) ==
  SentToDb(Server(l), [kind |-> "list", account |-> Account(l),
                       serverId |-> Server(l), link |-> l])
Unlock(l) ==
  SentToDb(Server(l), [kind |-> "unlock", account |-> Account(l), serverId |-> Server(l)])
SelectCharacter(l) ==
  SentToDb(Server(l), [kind |-> "select", account |-> Account(l),
                       serverId |-> Server(l), link |-> l])

(* The bound on logins and faults together: the more clients and accounts, *)
(* the fewer faults.                                                       *)
LoggedIn == {l \in Links : login[l] # NoLogin}
Effort(L, A, n) ==
  Cardinality(LoggedIn \cup L) + Cardinality({Account(l) : l \in LoggedIn} \cup A)
    + faults + n

OneFault == /\ faults < MaxFaults /\ Effort({}, {}, 1) <= MaxEffort
            /\ faults' = faults + 1

(* A zone server that is not registered now: one of the faults.            *)
Found(ok) == IF ok THEN UNCHANGED faults ELSE OneFault

(* PutIntoRegion: the zone servers a player with this key may be sent to;  *)
(* NoZone is the key 0 of a player without one, and a failure.             *)
PutIntoAnyRegion(s, key) ==                     \* deviation: key not looked at
  {z \in Zones : ServerOf[z] = s} \cup {NoZone}
PutIntoRegion(s, key) ==
  {z \in Zones : ServerOf[z] = s /\ key \in {z, NoZone}} \cup {NoZone}

Sent(l, z, a, gid) ==
  visit' = IF z = NoZone THEN visit
           ELSE [visit EXCEPT ![l] = [zone |-> z, account |-> a, gid |-> gid,
                                      step |-> "told", player |-> a]]

(* RebindAccount: another link of the account is looking for its           *)
(* character already.                                                      *)
NeverInUse(s, a) == FALSE                       \* deviation: contexts not searched
InUse(s, a) ==
  \E m \in Links : tempLinkContext[m] # "none" /\ Server(m) = s /\ Account(m) = a

(* PlayerLogin: a client whose account was checked.                        *)
PlayerLogin(l, s, a) ==
  /\ phase[l] = "new" /\ Effort({l}, {a}, 0) <= MaxEffort
  /\ login' = [login EXCEPT ![l] = [server |-> s, account |-> a]]
  /\ \/ /\ InUse(s, a)
        /\ phase' = [phase EXCEPT ![l] = "closed"]
        /\ UNCHANGED <<tempLinkContext, toDb, visit, faults>>
     \/ /\ ~InUse(s, a) /\ InGame(s, a)
        /\ phase' = [phase EXCEPT ![l] = "closed"]
        /\ LET p == playerCache[s][a]
           IN \E z \in PutIntoRegion(s, p.key) :
                Sent(l, z, a, p.gid) /\ Found(z # NoZone)
        /\ UNCHANGED <<tempLinkContext, toDb>>
     \/ /\ ~InUse(s, a) /\ ~InGame(s, a)
        /\ tempLinkContext' = [tempLinkContext EXCEPT ![l] = "asked"]
        /\ phase' = [phase EXCEPT ![l] = IF dbUp[s] THEN "open" ELSE "cut"]
        /\ toDb' = SentToDb(s, [kind |-> "list", account |-> a, serverId |-> s,
                                link |-> l])
        /\ UNCHANGED <<visit, faults>>
  /\ UNCHANGED <<playerCache, nextGid, fromDb, dbUp, dbVars, toLogin, toZone, object,
                 ghostVars>>

(* The client closes its link, or its time is over.                        *)
Break(l) ==
  /\ phase[l] = "open"
  /\ phase' = [phase EXCEPT ![l] = "cut"]
  /\ UNCHANGED <<login, tempLinkContext, playerCache, nextGid, toDb, fromDb, dbUp,
                 dbVars, zoneVars, ghostVars, faults>>

(* Entry without data: the end of the link is noticed.                     *)
Unlocks(l) == tempLinkContext[l] = "unbind"

Closed(l) ==
  /\ phase[l] = "cut"
  /\ toDb' = IF Unlocks(l) THEN Unlock(l) ELSE toDb
  /\ tempLinkContext' = [tempLinkContext EXCEPT ![l] = "none"]
  /\ phase' = [phase EXCEPT ![l] = "closed"]
  /\ UNCHANGED <<login, playerCache, nextGid, fromDb, dbUp, dbVars, zoneVars,
                 ghostVars, faults>>

(* A client that was given its list may ask for its character again.       *)
Reselect(l) ==
  /\ phase[l] = "open" /\ tempLinkContext[l] = "unbind"
  /\ dbUp[Server(l)] /\ Len(toDb[Server(l)]) < MaxFlight
  /\ toDb' = SelectCharacter(l)
  /\ UNCHANGED <<clientVars, playerCache, nextGid, fromDb, dbUp, dbVars, zoneVars,
                 ghostVars, faults>>

(* RecvGetCharacterListMsg; on success the first character is selected.    *)
RecvGetCharacterList(s) ==
  /\ fromDb[s] # <<>> /\ Head(fromDb[s]).kind = "list"
  /\ LET ans == Head(fromDb[s])  l == ans.link
     IN \/ /\ phase[l] # "open"
           /\ UNCHANGED <<phase, tempLinkContext, toDb>>
        \/ /\ phase[l] = "open" /\ ans.result = "success"
           /\ tempLinkContext' = [tempLinkContext EXCEPT ![l] = "unbind"]
           /\ toDb' = SelectCharacter(l)
           /\ UNCHANGED phase
        \/ /\ phase[l] = "open" /\ ans.result # "success"
           /\ toDb' = IF ans.result = "lockedSelf" THEN Unlock(l) ELSE toDb
           /\ phase' = [phase EXCEPT ![l] = "cut"]
           /\ UNCHANGED tempLinkContext
  /\ fromDb' = [fromDb EXCEPT ![s] = Tail(@)]
  /\ UNCHANGED <<login, playerCache, nextGid, dbUp, dbVars, zoneVars, ghostVars,
                 faults>>

(* RecvGetCharacterMsg and AssignPlayer: a global id is used up in any     *)
(* case; without a region the client stays where it is.                    *)
SameGid(g) == g                                 \* deviation: not counted up
NextGid(g) == g + 1

Assignable(l) == phase[l] = "open" /\ tempLinkContext[l] # "none"
                   /\ ~InGame(Server(l), Account(l))

PlacedAlways(z) == TRUE                         \* deviation: result not looked at
Placed(z) == z # NoZone

RecvGetCharacter(s) ==
  /\ fromDb[s] # <<>> /\ Head(fromDb[s]).kind = "select"
  /\ LET ans == Head(fromDb[s])  l == ans.link
     IN \/ /\ ~(Assignable(l) /\ ans.result = "success")
           /\ UNCHANGED <<phase, tempLinkContext, playerCache, nextGid, visit, faults>>
        \/ /\ Assignable(l) /\ ans.result = "success"
           /\ nextGid' = [nextGid EXCEPT ![s] = NextGid(@)]
           /\ \E z \in PutIntoRegion(s, NoZone) :
                /\ Sent(l, z, Account(l), nextGid[s]) /\ Found(z # NoZone)
                /\ IF ~Placed(z) THEN UNCHANGED <<phase, tempLinkContext, playerCache>>
                   ELSE /\ playerCache' = [playerCache EXCEPT ![s][Account(l)] =
                             [gid |-> nextGid[s], data |-> ans.data, key |-> z]]
                        /\ tempLinkContext' = [tempLinkContext EXCEPT ![l] = "none"]
                        /\ phase' = [phase EXCEPT ![l] = "closed"]
  /\ fromDb' = [fromDb EXCEPT ![s] = Tail(@)]
  /\ UNCHANGED <<login, toDb, dbUp, dbVars, toLogin, toZone, object, ghostVars>>

-----------------------------------------------------------------------------
(* The database server.                                                    *)
Cached(a) == unit[a] # NoUnit

(* The main thread: a save goes into the cache at once, a query waits and  *)
(* replaces the one that waited for the same account.                      *)
SaveIntoCache(m) ==
  [unit EXCEPT ![m.account] =
     [serverId |-> IF Cached(m.account) THEN @.serverId ELSE m.serverId,
      data |-> m.data, removeMe |-> TRUE]]

DbReceive(s) ==
  /\ toDb[s] # <<>>
  /\ LET m == Head(toDb[s])
     IN IF m.kind = "save"
        THEN unit' = SaveIntoCache(m) /\ UNCHANGED waiting
        ELSE waiting' = [waiting EXCEPT ![m.account] = m] /\ UNCHANGED unit
  /\ toDb' = [toDb EXCEPT ![s] = Tail(@)]
  /\ UNCHANGED <<clientVars, playerCache, nextGid, fromDb, dbUp, row, zoneVars,
                 ghostVars, faults>>

(* An answer does not arrive without a connection.  The answer to a select *)
(* is sent twice.                                                          *)
Answers(q, result, data) ==
  LET ans == [kind |-> q.kind, link |-> q.link, result |-> result, data |-> data]
      all == IF q.kind = "select" THEN <<ans, ans>> ELSE <<ans>>
  IN fromDb' = IF dbUp[q.serverId] THEN [fromDb EXCEPT ![q.serverId] = @ \o all]
               ELSE fromDb

Lockable(a, s) == row[a].serverId \in {NoServer, s}
LockRow(a, s) == [row EXCEPT ![a].serverId = s]

OfAnyServer(q) == TRUE                          \* deviation: serverId not compared
OfItsServer(q) == unit[q.account].serverId = q.serverId

DbUnlock(q) ==
  /\ q.kind = "unlock"
  /\ unit' = IF Cached(q.account) /\ OfItsServer(q)
             THEN [unit EXCEPT ![q.account].removeMe = TRUE] ELSE unit
  /\ UNCHANGED <<row, fromDb>>

DbList(q) ==
  LET a == q.account  s == q.serverId
  IN /\ q.kind = "list"
     /\ \/ /\ Cached(a) /\ UNCHANGED row
           /\ Answers(q, IF OfItsServer(q) THEN "lockedSelf" ELSE "lockedOther", 0)
        \/ /\ ~Cached(a) /\ Lockable(a, s)
           /\ row' = LockRow(a, s) /\ Answers(q, "success", 0)
        \/ /\ ~Cached(a) /\ ~Lockable(a, s)
           /\ UNCHANGED row /\ Answers(q, "lockedOther", 0)
     /\ UNCHANGED unit

DbSelect(q) ==
  LET a == q.account  s == q.serverId
  IN /\ q.kind = "select"
     /\ \/ /\ Cached(a) /\ UNCHANGED <<row, unit, fromDb>>
        \/ /\ ~Cached(a) /\ Lockable(a, s)
           /\ row' = LockRow(a, s)
           /\ unit' = [unit EXCEPT ![a] = [serverId |-> s, data |-> row[a].data,
                                           removeMe |-> FALSE]]
           /\ Answers(q, "success", row[a].data)
        \/ /\ ~Cached(a) /\ ~Lockable(a, s)
           /\ UNCHANGED <<row, unit>> /\ Answers(q, "fail", 0)

DbExecute(a) ==
  /\ waiting[a] # NoQuery
  /\ DbUnlock(waiting[a]) \/ DbList(waiting[a]) \/ DbSelect(waiting[a])
  /\ waiting' = [waiting EXCEPT ![a] = NoQuery]
  /\ UNCHANGED <<clientVars, playerCache, nextGid, toDb, dbUp, zoneVars, ghostVars,
                 faults>>

(* A unit that leaves: written, its row unlocked.                          *)
DbRemove(a) ==
  /\ Cached(a) /\ unit[a].removeMe
  /\ row' = [row EXCEPT ![a] = [serverId |-> NoServer, data |-> unit[a].data]]
  /\ unit' = [unit EXCEPT ![a] = NoUnit]
  /\ UNCHANGED <<clientVars, playerCache, nextGid, toDb, fromDb, dbUp, waiting, zoneVars,
                 ghostVars, faults>>

-----------------------------------------------------------------------------
(* The way into a zone server.                                             *)
ToLoginServer(z, m) == toLogin' = [toLogin EXCEPT ![z] = Append(@, m)]
Reply(z, m, kind, data) ==
  toZone' = [toZone EXCEPT ![z] = Append(@,
    [kind |-> kind, account |-> m.account, gid |-> m.gid, data |-> data, link |-> m.link])]

(* The client connects to the zone server it was sent to: QuestCheckRebind.*)
QuestCheckRebind(l) ==
  /\ visit[l] # NoVisit /\ visit[l].step = "told"
  /\ visit' = [visit EXCEPT ![l].step = "asked"]
  /\ ToLoginServer(visit[l].zone, [kind |-> "check", account |-> visit[l].account,
                                   gid |-> visit[l].gid, link |-> l])
  /\ UNCHANGED <<clientVars, playerCache, nextGid, toDb, fromDb, dbUp, dbVars, toZone,
                 object, ghostVars, faults>>

(* A client leaves: its player stays (the end of a link is not handled).   *)
Leave(l) ==
  /\ visit[l] # NoVisit
  /\ visit' = [visit EXCEPT ![l] = NoVisit]
  /\ UNCHANGED <<clientVars, playerCache, nextGid, toDb, fromDb, dbUp, dbVars, toLogin,
                 toZone, object, ghostVars, faults>>

FromZone(z, kind) == toLogin[z] # <<>> /\ Head(toLogin[z]).kind = kind
Taken(z) == toLogin' = [toLogin EXCEPT ![z] = Tail(@)]

(* The session the message of a zone server is about, by account and gid.  *)
SameSession(s, m) == InGame(s, m.account) /\ playerCache[s][m.account].gid = m.gid

(* DoCheckRebind; the zone server the player was sent to may not be        *)
(* registered.                                                             *)
DoCheckRebind(z) ==
  /\ FromZone(z, "check")
  /\ LET m == Head(toLogin[z])
         session == SameSession(ServerOf[z], m)
     IN \E result \in {"rebound", "refused"} :
          /\ result = "rebound" => session
          /\ Reply(z, m, result, 0) /\ Found(session => result = "rebound")
  /\ Taken(z)
  /\ UNCHANGED <<clientVars, playerCache, nextGid, toDb, fromDb, dbUp, dbVars, visit,
                 object, ghostVars>>

(* SendPlayerData: without the session nothing is answered.                *)
SendPlayerData(z) ==
  /\ FromZone(z, "get")
  /\ LET m == Head(toLogin[z])  s == ServerOf[z]
     IN IF SameSession(s, m) THEN Reply(z, m, "data", playerCache[s][m.account].data)
        ELSE UNCHANGED toZone
  /\ Taken(z)
  /\ UNCHANGED <<clientVars, playerCache, nextGid, toDb, fromDb, dbUp, dbVars, visit,
                 object, ghostVars, faults>>

(* UpdatePlayerData, SAVE_AND_LOGOUT: the session is found by its account. *)
(* It ends when the content could be sent, and keeps it otherwise.         *)
KeptForgets(p, data) == p                       \* deviation: no backup of the data
Kept(p, data) == [p EXCEPT !.data = data]

UpdatePlayerData(z) ==
  /\ FromZone(z, "logout")
  /\ LET m == Head(toLogin[z])  s == ServerOf[z]  a == m.account
     IN /\ playerCache' =
             [playerCache EXCEPT ![s][a] = IF dbUp[s] \/ ~InGame(s, a) THEN NoPlayer
                                           ELSE Kept(@, m.data)]
        /\ toDb' = IF InGame(s, a)
                   THEN SentToDb(s, [kind |-> "save", account |-> a, serverId |-> s,
                                     data |-> m.data])
                   ELSE toDb
  /\ Taken(z)
  /\ UNCHANGED <<clientVars, nextGid, fromDb, dbUp, dbVars, visit, toZone, object,
                 ghostVars, faults>>

-----------------------------------------------------------------------------
(* The zone server.                                                        *)
FromLogin(z, kinds) == toZone[z] # <<>> /\ Head(toZone[z]).kind \in kinds
Cut(l) == visit' = [visit EXCEPT ![l] = NoVisit]

(* CreateNewPlayer looks for a player with the global id, then for one of  *)
(* the account, which a script then logs out if it will.                   *)
WithGid(z, gid) == {b \in Accounts : object[z][b] # NoPlayer /\ object[z][b].gid = gid}
OnAccount(z, a) == IF object[z][a] # NoPlayer THEN {a} ELSE {}

(* The client is bound to a player that is here; whoever was bound to it   *)
(* before is cut.                                                          *)
BindPlayer(l, z, b) ==
  visit' = [k \in Links |->
    IF k = l THEN [visit[l] EXCEPT !.step = "there", !.player = b]
    ELSE IF visit[k] # NoVisit /\ visit[k].step = "there" /\ visit[k].zone = z
              /\ visit[k].player = b THEN NoVisit ELSE visit[k]]

RecvCheckRebind(z) ==
  /\ FromLogin(z, {"rebound", "refused"})
  /\ LET m == Head(toZone[z])  l == m.link  a == m.account
     IN \/ /\ m.kind = "refused" \/ visit[l] = NoVisit
           /\ Cut(l) /\ UNCHANGED <<object, toLogin>>
        \/ /\ m.kind = "rebound" /\ visit[l] # NoVisit /\ WithGid(z, m.gid) # {}
           /\ \E b \in WithGid(z, m.gid) : BindPlayer(l, z, b)
           /\ UNCHANGED <<object, toLogin>>
        \/ /\ m.kind = "rebound" /\ visit[l] # NoVisit
           /\ WithGid(z, m.gid) = {} /\ OnAccount(z, a) # {}
           /\ Cut(l) /\ UNCHANGED <<object, toLogin>>
        \/ /\ m.kind = "rebound" /\ visit[l] # NoVisit
           /\ WithGid(z, m.gid) = {} /\ OnAccount(z, a) = {}
           /\ object' = [object EXCEPT ![z][a] = [gid |-> m.gid, data |-> 0, init |-> FALSE]]
           /\ BindPlayer(l, z, a)
           /\ ToLoginServer(z, [kind |-> "get", account |-> a, gid |-> m.gid, link |-> l])
  /\ toZone' = [toZone EXCEPT ![z] = Tail(@)]
  /\ UNCHANGED <<clientVars, playerCache, nextGid, toDb, fromDb, dbUp, dbVars,
                 ghostVars, faults>>

(* SetPlayerData: for the player the client is bound to, or the one with   *)
(* the global id, unless a player with this name is here already.          *)
SetPlayerData(z) ==
  /\ FromLogin(z, {"data"})
  /\ LET m == Head(toZone[z])  l == m.link
         here == IF visit[l] # NoVisit /\ visit[l].step = "there" /\ visit[l].zone = z
                 THEN {visit[l].player} ELSE WithGid(z, m.gid)
         twice == object[z][m.account] # NoPlayer /\ object[z][m.account].init
     IN IF here = {} \/ twice THEN Cut(l) /\ UNCHANGED object
        ELSE /\ \E b \in here :
                  object' = [object EXCEPT ![z][b].data = m.data, ![z][b].init = TRUE]
             /\ UNCHANGED visit
  /\ toZone' = [toZone EXCEPT ![z] = Tail(@)]
  /\ UNCHANGED <<clientVars, playerCache, nextGid, toDb, fromDb, dbUp, dbVars, toLogin,
                 ghostVars, faults>>

(* CNewPlayer::Logout, called by a script, with what the player has become.*)
Logout(z, a) ==
  /\ object[z][a] # NoPlayer /\ object[z][a].init /\ clock[a] < MaxClock
  /\ clock' = [clock EXCEPT ![a] = @ + 1]
  /\ ToLoginServer(z, [kind |-> "logout", account |-> a, gid |-> object[z][a].gid,
                       data |-> clock'[a]])
  /\ object' = [object EXCEPT ![z][a] = NoPlayer]
  /\ visit' = [l \in Links |->
       IF visit[l] # NoVisit /\ visit[l].zone = z /\ visit[l].step = "there"
            /\ visit[l].player = a THEN NoVisit ELSE visit[l]]
  /\ UNCHANGED <<clientVars, playerCache, nextGid, toDb, fromDb, dbUp, dbVars, toZone,
                 lost, restarted, faults>>

-----------------------------------------------------------------------------
(* Faults.  The last messages of a broken link are lost.                   *)
FirstOf(q) == {SubSeq(q, 1, k) : k \in 0..Len(q)}

(* The newest content of an account, wherever it is.                       *)
Somewhere(a) ==
  \/ row[a].data = clock[a]
  \/ Cached(a) /\ unit[a].data = clock[a]
  \/ \E s \in Servers :
       \/ InGame(s, a) /\ playerCache[s][a].data = clock[a]
       \/ \E i \in DOMAIN toDb[s] : /\ toDb[s][i].kind = "save" /\ toDb[s][i].account = a
                                    /\ toDb[s][i].data = clock[a]
  \/ \E z \in Zones : \E i \in DOMAIN toLogin[z] :
       /\ toLogin[z][i].kind = "logout" /\ toLogin[z][i].account = a
       /\ toLogin[z][i].data = clock[a]

Fault ==
  /\ OneFault /\ UNCHANGED clock
  /\ lost' = lost \cup {a \in Accounts : Somewhere(a) /\ ~Somewhere(a)'}

BreakDb(s) ==
  /\ dbUp[s]
  /\ dbUp' = [dbUp EXCEPT ![s] = FALSE]
  /\ \E q \in FirstOf(toDb[s]) : toDb' = [toDb EXCEPT ![s] = q]
  /\ fromDb' = [fromDb EXCEPT ![s] = <<>>]
  /\ UNCHANGED <<clientVars, playerCache, nextGid, dbVars, zoneVars, restarted>>
  /\ Fault

(* The login server tries to connect every 20 seconds: by then what it     *)
(* sent before has been handled.                                           *)
ReconnectDb(s) ==
  /\ ~dbUp[s] /\ toDb[s] = <<>>
  /\ \A a \in Accounts : waiting[a] # NoQuery => waiting[a].serverId # s
  /\ dbUp' = [dbUp EXCEPT ![s] = TRUE]
  /\ UNCHANGED <<clientVars, playerCache, nextGid, toDb, fromDb, dbVars, zoneVars,
                 ghostVars, faults>>

CrashDb ==
  /\ dbUp' = [s \in Servers |-> FALSE]
  /\ toDb' = [s \in Servers |-> <<>>] /\ fromDb' = [s \in Servers |-> <<>>]
  /\ unit' = [a \in Accounts |-> NoUnit] /\ waiting' = [a \in Accounts |-> NoQuery]
  /\ UNCHANGED <<clientVars, playerCache, nextGid, row, zoneVars, restarted>>
  /\ Fault

(* A zone server's link to its login server breaks and comes up again.     *)
LinkLost(z) ==
  /\ \E q \in FirstOf(toLogin[z]) : toLogin' = [toLogin EXCEPT ![z] = q]
  /\ toZone' = [toZone EXCEPT ![z] = <<>>]

BreakZone(z) ==
  /\ LinkLost(z)
  /\ UNCHANGED <<clientVars, playerCache, nextGid, toDb, fromDb, dbUp, dbVars, visit,
                 object, restarted>>
  /\ Fault

CrashZone(z) ==
  /\ LinkLost(z)
  /\ object' = [object EXCEPT ![z] = [a \in Accounts |-> NoPlayer]]
  /\ visit' = [l \in Links |-> IF visit[l] # NoVisit /\ visit[l].zone = z THEN NoVisit
                                ELSE visit[l]]
  /\ UNCHANGED <<clientVars, playerCache, nextGid, toDb, fromDb, dbUp, dbVars,
                 restarted>>
  /\ Fault

(* A login server ends and is started again; q is what the database server *)
(* still gets from it.  The zone servers go on.                            *)
StartAgain(s, q) ==
  LET its(z) == ServerOf[z] = s
      on(l)  == login[l] # NoLogin /\ Server(l) = s
  IN /\ phase' = [l \in Links |-> IF on(l) THEN "closed" ELSE phase[l]]
     /\ tempLinkContext' = [l \in Links |-> IF on(l) THEN "none" ELSE tempLinkContext[l]]
     /\ playerCache' = [playerCache EXCEPT ![s] = [a \in Accounts |-> NoPlayer]]
     /\ nextGid' = [nextGid EXCEPT ![s] = 1]
     /\ toDb' = [toDb EXCEPT ![s] = q] /\ fromDb' = [fromDb EXCEPT ![s] = <<>>]
     /\ dbUp' = [dbUp EXCEPT ![s] = FALSE]
     /\ toLogin' = [z \in Zones |-> IF its(z) THEN <<>> ELSE toLogin[z]]
     /\ toZone' = [z \in Zones |-> IF its(z) THEN <<>> ELSE toZone[z]]
     /\ restarted' = restarted \cup {s}
     /\ UNCHANGED <<login, dbVars, visit, object>>

CrashLogin(s) ==
  /\ \E q \in FirstOf(toDb[s]) : StartAgain(s, q)
  /\ Fault

(* Destroy: SaveAllPlayer, then three seconds for the saves to be sent.    *)
SaveAllPlayer(s) ==
  {[kind |-> "save", account |-> a, serverId |-> s, data |-> playerCache[s][a].data] :
     a \in {b \in Accounts : InGame(s, b)}}

Destroy(s) ==
  /\ dbUp[s]
  /\ \E q \in SetToSeqs(SaveAllPlayer(s)) : StartAgain(s, toDb[s] \o q)
  /\ Fault

Faults == \/ CrashDb
          \/ \E s \in Servers : BreakDb(s) \/ CrashLogin(s) \/ Destroy(s)
          \/ \E z \in Zones : BreakZone(z) \/ CrashZone(z)

Next ==
  \/ \E l \in Links : \/ \E s \in Servers, a \in Accounts : PlayerLogin(l, s, a)
                      \/ Break(l) \/ Closed(l) \/ Reselect(l) \/ QuestCheckRebind(l)
                      \/ Leave(l)
  \/ \E s \in Servers : \/ RecvGetCharacterList(s) \/ RecvGetCharacter(s)
                        \/ DbReceive(s) \/ ReconnectDb(s)
  \/ \E a \in Accounts : DbExecute(a) \/ DbRemove(a)
  \/ \E z \in Zones : \/ DoCheckRebind(z) \/ SendPlayerData(z) \/ UpdatePlayerData(z)
                      \/ RecvCheckRebind(z) \/ SetPlayerData(z)
                      \/ \E a \in Accounts : Logout(z, a)
  \/ Faults

Spec == Init /\ [][Next]_vars

-----------------------------------------------------------------------------
(* An account in the cache of a login server is locked for that server in  *)
(* the database; so no account is in the game over two login servers.      *)
(* Requests of several links and servers replace each other in the query   *)
(* queue (Thread.h:372), answers come twice (dpl.cpp:590) and late, an     *)
(* unlock goes out for every link that ends while it selects               *)
(* (PlayerManager.cpp:219): none of them may give the row away.            *)
SessionHoldsRow ==
  \A s \in Servers, a \in Accounts : InGame(s, a) => row[a].serverId = s

(* A save reaches the database server while its sender still holds the     *)
(* account: what PersistLayer assumes where LateSaves is FALSE, since      *)
(* SaveIntoCache compares no server (dpl.cpp:795).                         *)
SavesAreOwned ==
  \A s \in Servers : \A i \in DOMAIN toDb[s] :
    toDb[s][i].kind = "save" => row[toDb[s][i].account].serverId = s

(* A player that enters a zone server goes on with what it was when it     *)
(* left the last one, by way of the cache of a login server that could not *)
(* send it on (UpdatePlayerData, 1436) or of the database server; unless   *)
(* the last copy was dropped by a fault, or a login server that was        *)
(* started again has forgotten who plays.                                  *)
BeginsWithLast ==
  \A z \in Zones : \A i \in DOMAIN toZone[z] :
    LET m == toZone[z][i]
    IN m.kind = "data" /\ restarted = {} /\ m.account \notin lost =>
         m.data = clock[m.account]

Plays(z, a) == object[z][a] # NoPlayer /\ object[z][a].init

(* No account plays at two zone servers, though a check that was answered  *)
(* before a logout may be taken after it, and leaves a player object       *)
(* without data behind; while the login servers stay up.                   *)
OnePlayer ==
  \A y, z \in Zones, a \in Accounts :
    {ServerOf[y], ServerOf[z]} \cap restarted = {}
      /\ Plays(y, a) /\ Plays(z, a) => y = z

(* A client is bound to the player of its own account: the zone server     *)
(* looks for the global id first, whoever has it (CreateNewPlayer), and    *)
(* the player it finds may have been left behind by another client; while  *)
(* its login server stays up, which counts from the start again.           *)
OwnCharacter ==
  \A l \in Links :
    visit[l] # NoVisit /\ visit[l].step = "there" /\ ServerOf[visit[l].zone] \notin restarted
      => visit[l].player = visit[l].account
=============================================================================
