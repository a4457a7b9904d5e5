------------------------- MODULE SessionPlayProofs -------------------------
(***************************************************************************)
(* Where players are in LoginSession: for any accounts, servers, zone      *)
(* servers, clients and faults a client is bound to the character of its   *)
(* account, and an account plays at one zone server at most.               *)
(*                                                                         *)
(* A login server that was not started again gives every global id once,   *)
(* so an id stands for an account and a zone server wherever it is found   *)
(* (`PassInv`).  A zone server asks for the data of a player once, and the *)
(* login server answers only while the session is there (`LoadInv`); so an *)
(* account that plays, whose data or whose logout is on its way is in      *)
(* exactly one of these states, and at the zone server its session names   *)
(* (`PlayInv`).                                                            *)
(***************************************************************************)
EXTENDS SessionProofs

-----------------------------------------------------------------------------
(* What lets a client into zone server z as account a: the global id g of  *)
(* a session, wherever it is written.                                      *)
Pass(s, a, g, z) ==
  \/ InGame(s, a) /\ playerCache[s][a].gid = g /\ playerCache[s][a].key = z
  \/ /\ ServerOf[z] = s
     /\ \/ \E l \in Links : /\ visit[l] # NoVisit /\ visit[l].zone = z
                            /\ visit[l].account = a /\ visit[l].gid = g
        \/ \E i \in DOMAIN toLogin[z] : toLogin[z][i].account = a /\ toLogin[z][i].gid = g
        \/ \E i \in DOMAIN toZone[z] : toZone[z][i].account = a /\ toZone[z][i].gid = g
        \/ object[z][a] # NoPlayer /\ object[z][a].gid = g

(* A login server that was not started again gave each global id once.     *)
PassInv ==
  \A s \in Servers \ restarted :
    /\ \A a \in Accounts, g \in Nat, z \in Zones :
         Pass(s, a, g, z) => g < nextGid[s] /\ ServerOf[z] = s
    /\ \A a, b \in Accounts, g \in Nat, y, z \in Zones :
         Pass(s, a, g, y) /\ Pass(s, b, g, z) => a = b /\ y = z

Up(z) == ServerOf[z] \notin restarted

(* A player's data is asked for once, and until it comes the player waits. *)
(* If it was lost in a crash of its zone server, no client that could make *)
(* it again is heard of before the data.                                   *)
Loading(z, m) ==
  /\ object[z][m.account] # NoPlayer
  /\ object[z][m.account].gid = m.gid /\ ~object[z][m.account].init

Gone(m, kind, a) == m.kind = kind /\ m.account = a => visit[m.link] = NoVisit

GetsLoad(z) ==
  \A i \in DOMAIN toLogin[z] : LET m == toLogin[z][i] IN
    m.kind = "get" =>
      \/ Loading(z, m)
      \/ /\ object[z][m.account] = NoPlayer
         /\ \A j \in DOMAIN toLogin[z] : j < i => Gone(toLogin[z][j], "check", m.account)
         /\ \A j \in DOMAIN toZone[z] : Gone(toZone[z][j], "rebound", m.account)

DataLoad(z) ==
  \A i \in DOMAIN toZone[z] : LET m == toZone[z][i] IN
    m.kind = "data" =>
      \/ Loading(z, m)
      \/ /\ object[z][m.account] = NoPlayer
         /\ \A j \in DOMAIN toZone[z] : j < i => Gone(toZone[z][j], "rebound", m.account)

GetsFirst(z) ==
  \A i, j \in DOMAIN toLogin[z] :
    toLogin[z][i].kind = "get" /\ toLogin[z][j].account = toLogin[z][i].account =>
      /\ toLogin[z][j].kind = "get" => i = j
      /\ toLogin[z][j].kind = "logout" => j < i

DataOnce(z) ==
  /\ \A i, j \in DOMAIN toZone[z] :
       toZone[z][i].kind = "data" /\ toZone[z][j].kind = "data"
         /\ toZone[z][j].account = toZone[z][i].account => i = j
  /\ \A i \in DOMAIN toLogin[z], j \in DOMAIN toZone[z] :
       toLogin[z][i].kind = "get" /\ toZone[z][j].kind = "data" =>
         toLogin[z][i].account # toZone[z][j].account

LoadAt(z) == GetsLoad(z) /\ DataLoad(z) /\ GetsFirst(z) /\ DataOnce(z)
LoadInv == \A z \in Zones : Up(z) => LoadAt(z)

(* What was there, and what a step adds for somebody who was there.        *)
LEMMA PassesStay ==
  ASSUME TypeInv, TypeInv',
         \A s \in Servers, a \in Accounts : InGame(s, a)' =>
           /\ InGame(s, a) /\ playerCache'[s][a].gid = playerCache[s][a].gid
           /\ playerCache'[s][a].key = playerCache[s][a].key,
         \A l \in Links : visit'[l] # NoVisit =>
           \/ /\ visit[l] # NoVisit /\ visit'[l].zone = visit[l].zone
              /\ visit'[l].account = visit[l].account /\ visit'[l].gid = visit[l].gid
           \/ Pass(ServerOf[visit'[l].zone], visit'[l].account, visit'[l].gid,
                   visit'[l].zone),
         \A y \in Zones : \A i \in DOMAIN toLogin'[y] :
           \/ \E j \in DOMAIN toLogin[y] : toLogin'[y][i] = toLogin[y][j]
           \/ Pass(ServerOf[y], toLogin'[y][i].account, toLogin'[y][i].gid, y),
         \A y \in Zones : \A i \in DOMAIN toZone'[y] :
           \/ \E j \in DOMAIN toZone[y] : toZone'[y][i] = toZone[y][j]
           \/ Pass(ServerOf[y], toZone'[y][i].account, toZone'[y][i].gid, y),
         \A y \in Zones, b \in Accounts : object'[y][b] # NoPlayer =>
           \/ object[y][b] # NoPlayer /\ object'[y][b].gid = object[y][b].gid
           \/ Pass(ServerOf[y], b, object'[y][b].gid, y)
  PROVE  \A s \in Servers, a \in Accounts, g \in Nat, z \in Zones :
           Pass(s, a, g, z)' => Pass(s, a, g, z)
<1>1. SUFFICES ASSUME NEW s \in Servers, NEW a \in Accounts, NEW g \in Nat, NEW z \in Zones,
                      Pass(s, a, g, z)'
               PROVE  Pass(s, a, g, z)
  OBVIOUS
<1>2. CASE /\ InGame(s, a)' /\ playerCache'[s][a].gid = g /\ playerCache'[s][a].key = z
  BY <1>2 DEF Pass
<1>3. CASE /\ ServerOf[z] = s
           /\ \E l \in Links : /\ visit'[l] # NoVisit /\ visit'[l].zone = z
                               /\ visit'[l].account = a /\ visit'[l].gid = g
  <2>1. PICK l \in Links : /\ visit'[l] # NoVisit /\ visit'[l].zone = z
                           /\ visit'[l].account = a /\ visit'[l].gid = g
    BY <1>3
  <2>2. CASE /\ visit[l] # NoVisit /\ visit'[l].zone = visit[l].zone
             /\ visit'[l].account = visit[l].account /\ visit'[l].gid = visit[l].gid
    BY <1>3, <2>1, <2>2 DEF Pass
  <2>3. CASE Pass(ServerOf[visit'[l].zone], visit'[l].account, visit'[l].gid, visit'[l].zone)
    BY <1>3, <2>1, <2>3
  <2> QED  BY <2>1, <2>2, <2>3
<1>4. CASE /\ ServerOf[z] = s
           /\ \E i \in DOMAIN toLogin'[z] :
                toLogin'[z][i].account = a /\ toLogin'[z][i].gid = g
  <2>1. PICK i \in DOMAIN toLogin'[z] : toLogin'[z][i].account = a /\ toLogin'[z][i].gid = g
    BY <1>4
  <2>2. CASE \E j \in DOMAIN toLogin[z] : toLogin'[z][i] = toLogin[z][j]
    BY <1>4, <2>1, <2>2 DEF Pass
  <2> QED  BY <1>4, <2>1, <2>2
<1>5. CASE /\ ServerOf[z] = s
           /\ \E i \in DOMAIN toZone'[z] :
                toZone'[z][i].account = a /\ toZone'[z][i].gid = g
  <2>1. PICK i \in DOMAIN toZone'[z] : toZone'[z][i].account = a /\ toZone'[z][i].gid = g
    BY <1>5
  <2>2. CASE \E j \in DOMAIN toZone[z] : toZone'[z][i] = toZone[z][j]
    BY <1>5, <2>1, <2>2 DEF Pass
  <2> QED  BY <1>5, <2>1, <2>2
<1>6. CASE ServerOf[z] = s /\ object'[z][a] # NoPlayer /\ object'[z][a].gid = g
  <2>1. CASE object[z][a] # NoPlayer /\ object'[z][a].gid = object[z][a].gid
    BY <1>6, <2>1 DEF Pass
  <2> QED  BY <1>6, <2>1
<1> QED  BY <1>1, <1>2, <1>3, <1>4, <1>5, <1>6 DEF Pass

LEMMA PassKept ==
  ASSUME TypeInv, TypeInv', PassInv, restarted \subseteq restarted',
         \A s \in Servers \ restarted' : nextGid'[s] >= nextGid[s],
         \A s \in Servers \ restarted', a \in Accounts, g \in Nat, z \in Zones :
           Pass(s, a, g, z)' => Pass(s, a, g, z)
  PROVE  PassInv'
<1>1. \A s \in Servers : nextGid[s] \in Nat /\ nextGid'[s] \in Nat
  BY DEF TypeInv, TypeOK
<1>2. ASSUME NEW s \in Servers \ restarted', NEW a \in Accounts, NEW g \in Nat,
             NEW z \in Zones, Pass(s, a, g, z)'
      PROVE  g < nextGid'[s] /\ ServerOf[z] = s
  <2>1. s \in Servers \ restarted /\ Pass(s, a, g, z)
    BY <1>2
  <2>2. g < nextGid[s] /\ ServerOf[z] = s
    BY <2>1 DEF PassInv
  <2> QED  BY <1>1, <2>2
<1>3. ASSUME NEW s \in Servers \ restarted', NEW a \in Accounts, NEW b \in Accounts,
             NEW g \in Nat, NEW y \in Zones, NEW z \in Zones,
             Pass(s, a, g, y)', Pass(s, b, g, z)'
      PROVE  a = b /\ y = z
  <2>1. s \in Servers \ restarted /\ Pass(s, a, g, y) /\ Pass(s, b, g, z)
    BY <1>3
  <2> QED  BY <2>1 DEF PassInv
<1> QED  BY <1>2, <1>3 DEF PassInv

LEMMA InitPass == Init => PassInv
<1>1. SUFFICES ASSUME Init PROVE PassInv
  OBVIOUS
<1>2. \A s \in Servers, a \in Accounts, g \in Nat, z \in Zones : ~Pass(s, a, g, z)
  BY <1>1 DEF Init, Pass, InGame
<1> QED  BY <1>2 DEF PassInv

-----------------------------------------------------------------------------
(* What the steps of and around a zone server do.                          *)
LEMMA AppendIs ==
  ASSUME NEW S, NEW q \in Seq(S), NEW e \in S
  PROVE  /\ DOMAIN q = 1..Len(q) /\ Len(q) \in Nat
         /\ DOMAIN Append(q, e) = 1..(Len(q) + 1)
         /\ \A i \in 1..Len(q) : Append(q, e)[i] = q[i]
         /\ Append(q, e)[Len(q) + 1] = e
OBVIOUS

LEMMA TailIs ==
  ASSUME NEW S, NEW q \in Seq(S), q # <<>>
  PROVE  /\ Len(q) \in Nat \ {0} /\ DOMAIN q = 1..Len(q)
         /\ DOMAIN Tail(q) = 1..(Len(q) - 1)
         /\ \A i \in 1..(Len(q) - 1) : Tail(q)[i] = q[i + 1]
         /\ Head(q) = q[1] /\ Head(q) \in S
OBVIOUS

(* What the steps of a zone server, and those about it, leave alone.       *)
outside == <<clientVars, nextGid, fromDb, dbUp, dbVars, lost, restarted>>

(* Zone server y is not concerned.                                         *)
Apart(y) == UNCHANGED <<toLogin[y], toZone[y], object[y]>>

(* Who was sent away does not come back by the same link.                  *)
NoReturn == \A k \in Links : phase[k] = "closed" /\ visit[k] = NoVisit => visit'[k] = NoVisit

(* The client connects to the zone server it was sent to.                  *)
Connected(l, z, m) ==
  /\ visit[l] # NoVisit /\ z = visit[l].zone /\ visit[l].step = "told"
  /\ m = [kind |-> "check", account |-> visit[l].account, gid |-> visit[l].gid,
          link |-> l]
  /\ toLogin'[z] = Append(toLogin[z], m)
  /\ visit' = [visit EXCEPT ![l].step = "asked"]
  /\ UNCHANGED <<outside, playerCache, toZone, object, toDb, clock>>
  /\ \A y \in Zones \ {z} : Apart(y)

LEMMA ConnectDoes ==
  ASSUME TypeInv, NEW l \in Links, QuestCheckRebind(l)
  PROVE  \E z \in Zones, m \in ToLogin : Connected(l, z, m)
<1> DEFINE z == visit[l].zone
           m == [kind |-> "check", account |-> visit[l].account, gid |-> visit[l].gid,
                 link |-> l]
<1>1. visit[l] \in Visit
  BY DEF QuestCheckRebind, TypeInv, TypeOK
<1>2. z \in Zones /\ m \in ToLogin
  BY <1>1 DEF Visit, ToLogin
<1>3. /\ visit[l] # NoVisit /\ visit[l].step = "told"
      /\ toLogin' = [toLogin EXCEPT ![z] = Append(@, m)]
      /\ visit' = [visit EXCEPT ![l].step = "asked"]
      /\ UNCHANGED <<outside, playerCache, toZone, object, toDb, clock>>
  BY DEF QuestCheckRebind, ToLoginServer, ghostVars, outside
<1>4. toLogin \in [Zones -> Seq(ToLogin)]
  BY DEF TypeInv, TypeOK
<1>5. /\ toLogin'[z] = Append(toLogin[z], m)
      /\ \A y \in Zones \ {z} : Apart(y)
  BY <1>2, <1>3, <1>4 DEF Apart
<1> QED  BY <1>2, <1>3, <1>5 DEF Connected

LEMMA TakenDoes ==
  ASSUME TypeInv, NEW z \in Zones, Taken(z)
  PROVE  /\ toLogin'[z] = Tail(toLogin[z])
         /\ \A y \in Zones \ {z} : toLogin'[y] = toLogin[y]
<1>1. toLogin \in [Zones -> Seq(ToLogin)] /\ toLogin' = [toLogin EXCEPT ![z] = Tail(@)]
  BY DEF TypeInv, TypeOK, Taken
<1> QED  BY <1>1

LEMMA ReplyDoes ==
  ASSUME TypeInv, NEW z \in Zones, NEW m \in ToLogin, m.kind # "logout",
         NEW k \in {"rebound", "refused", "data"}, NEW d \in Nat, Reply(z, m, k, d)
  PROVE  \E r \in ToZone :
           /\ r.kind = k /\ r.account = m.account /\ r.gid = m.gid /\ r.data = d
           /\ r.link = m.link
           /\ toZone'[z] = Append(toZone[z], r)
           /\ \A y \in Zones \ {z} : toZone'[y] = toZone[y]
<1> DEFINE r == [kind |-> k, account |-> m.account, gid |-> m.gid, data |-> d,
                 link |-> m.link]
<1>1. r \in ToZone
  BY ToLoginFields DEF ToZone
<1>2. toZone \in [Zones -> Seq(ToZone)] /\ toZone' = [toZone EXCEPT ![z] = Append(@, r)]
  BY DEF Reply, TypeInv, TypeOK
<1>3. /\ toZone'[z] = Append(toZone[z], r)
      /\ \A y \in Zones \ {z} : toZone'[y] = toZone[y]
  BY <1>2
<1>4. /\ r.kind = k /\ r.account = m.account /\ r.gid = m.gid /\ r.data = d
      /\ r.link = m.link
  OBVIOUS
<1> QED  BY <1>1, <1>3, <1>4

(* A session is looked up, and the zone server is told.                    *)
Checked(z, m, r) ==
  /\ toLogin[z] # <<>> /\ m = Head(toLogin[z]) /\ m.kind = "check"
  /\ toLogin'[z] = Tail(toLogin[z]) /\ toZone'[z] = Append(toZone[z], r)
  /\ r.kind \in {"rebound", "refused"} /\ r.account = m.account /\ r.gid = m.gid
  /\ r.link = m.link
  /\ UNCHANGED <<outside, playerCache, visit, object, toDb, clock>>
  /\ \A y \in Zones \ {z} : Apart(y)

LEMMA CheckDoes ==
  ASSUME TypeInv, NEW z \in Zones, DoCheckRebind(z)
  PROVE  \E m \in ToLogin, r \in ToZone : Checked(z, m, r)
<1> DEFINE m == Head(toLogin[z])
<1>1. /\ toLogin[z] # <<>> /\ m.kind = "check" /\ Taken(z)
      /\ UNCHANGED <<outside, playerCache, visit, object, toDb, clock>>
  BY DEF DoCheckRebind, FromZone, ghostVars, outside
<1>2. m \in ToLogin
  BY <1>1, TakeFromZone
<1>3. PICK k \in {"rebound", "refused"} : Reply(z, m, k, 0)
  BY DEF DoCheckRebind
<1> HIDE DEF m
<1>4. k \in {"rebound", "refused", "data"} /\ m.kind # "logout" /\ 0 \in Nat
  BY <1>1
<1>5. PICK r \in ToZone :
        /\ r.kind = k /\ r.account = m.account /\ r.gid = m.gid /\ r.data = 0
        /\ r.link = m.link
        /\ toZone'[z] = Append(toZone[z], r)
        /\ \A y \in Zones \ {z} : toZone'[y] = toZone[y]
  BY <1>2, <1>3, <1>4, ReplyDoes
<1>6. /\ toLogin'[z] = Tail(toLogin[z])
      /\ \A y \in Zones \ {z} : toLogin'[y] = toLogin[y]
  BY <1>1, TakenDoes
<1>7. \A y \in Zones \ {z} : Apart(y)
  BY <1>1, <1>5, <1>6 DEF Apart
<1> QED  BY <1>1, <1>2, <1>5, <1>6, <1>7 DEF m, Checked

(* A session's data is sent, or nothing.                                   *)
DataSent(z, m) ==
  /\ toLogin[z] # <<>> /\ m = Head(toLogin[z]) /\ m.kind = "get"
  /\ toLogin'[z] = Tail(toLogin[z])
  /\ \/ toZone'[z] = toZone[z]
     \/ /\ SameSession(ServerOf[z], m)
        /\ \E r \in ToZone :
             /\ toZone'[z] = Append(toZone[z], r)
             /\ r.kind = "data" /\ r.account = m.account /\ r.gid = m.gid
             /\ r.link = m.link
             /\ r.data = playerCache[ServerOf[z]][m.account].data
  /\ UNCHANGED <<outside, playerCache, visit, object, toDb, clock>>
  /\ \A y \in Zones \ {z} : Apart(y)

LEMMA SendDataDoes ==
  ASSUME TypeInv, NEW z \in Zones, SendPlayerData(z)
  PROVE  \E m \in ToLogin : DataSent(z, m)
<1> DEFINE m == Head(toLogin[z])
           s == ServerOf[z]
<1>1. /\ toLogin[z] # <<>> /\ m.kind = "get" /\ Taken(z)
      /\ UNCHANGED <<outside, playerCache, visit, object, toDb, clock>>
  BY DEF SendPlayerData, FromZone, ghostVars, outside
<1>2. m \in ToLogin /\ s \in Servers
  BY <1>1, TakeFromZone, SessionAssumption
<1>3. IF SameSession(s, m) THEN Reply(z, m, "data", playerCache[s][m.account].data)
      ELSE UNCHANGED toZone
  BY DEF SendPlayerData
<1> HIDE DEF m, s
<1>6. /\ toLogin'[z] = Tail(toLogin[z])
      /\ \A y \in Zones \ {z} : toLogin'[y] = toLogin[y]
  BY <1>1, TakenDoes
<1>7. CASE ~SameSession(s, m)
  BY <1>1, <1>2, <1>3, <1>6, <1>7 DEF Apart, m, DataSent
<1>8. CASE SameSession(s, m)
  <2>1. m.account \in Accounts
    BY <1>2, ToLoginFields
  <2>2. playerCache[s][m.account] \in SPlayer
    BY <1>2, <1>8, <2>1 DEF SameSession, InGame, TypeInv, TypeOK
  <2>3. playerCache[s][m.account].data \in Nat
    BY <2>2 DEF SPlayer
  <2>4. PICK r \in ToZone :
          /\ r.kind = "data" /\ r.account = m.account /\ r.gid = m.gid
          /\ r.data = playerCache[s][m.account].data
          /\ r.link = m.link
          /\ toZone'[z] = Append(toZone[z], r)
          /\ \A y \in Zones \ {z} : toZone'[y] = toZone[y]
    BY <1>1, <1>2, <1>3, <1>8, <2>3, ReplyDoes
  <2>5. \A y \in Zones \ {z} : Apart(y)
    BY <1>1, <1>6, <2>4 DEF Apart
  <2> QED  BY <1>1, <1>2, <1>6, <1>8, <2>4, <2>5 DEF m, s, DataSent
<1> QED  BY <1>7, <1>8

(* A logout arrives at the login server.                                   *)
Updated(z, m, s) ==
  /\ s = ServerOf[z]
  /\ toLogin[z] # <<>> /\ m = Head(toLogin[z]) /\ m.kind = "logout"
  /\ toLogin'[z] = Tail(toLogin[z])
  /\ \/ dbUp[s] /\ playerCache'[s][m.account] = NoPlayer
     \/ ~InGame(s, m.account) /\ playerCache'[s][m.account] = NoPlayer
     \/ /\ ~dbUp[s] /\ InGame(s, m.account)
        /\ playerCache'[s][m.account] \in SPlayer
        /\ playerCache'[s][m.account].gid = playerCache[s][m.account].gid
        /\ playerCache'[s][m.account].key = playerCache[s][m.account].key
        /\ playerCache'[s][m.account].data = m.data
  /\ \A t \in Servers, b \in Accounts :
       t # s \/ b # m.account => playerCache'[t][b] = playerCache[t][b]
  /\ toDb' = IF InGame(s, m.account)
             THEN SentToDb(s, [kind |-> "save", account |-> m.account,
                               serverId |-> s, data |-> m.data])
             ELSE toDb
  /\ UNCHANGED <<outside, visit, toZone, object, clock>>
  /\ \A y \in Zones \ {z} : Apart(y)

LEMMA UpdateDoes ==
  ASSUME TypeInv, NEW z \in Zones, UpdatePlayerData(z)
  PROVE  \E m \in ToLogin, s \in Servers : Updated(z, m, s)
<1> DEFINE m == Head(toLogin[z])
           s == ServerOf[z]
<1>1. /\ toLogin[z] # <<>> /\ m.kind = "logout" /\ Taken(z)
      /\ UNCHANGED <<outside, visit, toZone, object, clock>>
  BY DEF UpdatePlayerData, FromZone, ghostVars, outside
<1>2. m \in ToLogin /\ s \in Servers
  BY <1>1, TakeFromZone, SessionAssumption
<1>3. /\ playerCache' = [playerCache EXCEPT ![s][m.account] =
                           IF dbUp[s] \/ ~InGame(s, m.account) THEN NoPlayer
                           ELSE Kept(@, m.data)]
      /\ toDb' = IF InGame(s, m.account)
                 THEN SentToDb(s, [kind |-> "save", account |-> m.account,
                                   serverId |-> s, data |-> m.data])
                 ELSE toDb
  BY DEF UpdatePlayerData
<1> HIDE DEF m, s
<1>4. /\ toLogin'[z] = Tail(toLogin[z])
      /\ \A y \in Zones \ {z} : toLogin'[y] = toLogin[y]
  BY <1>1, TakenDoes
<1>5. m.account \in Accounts /\ m.data \in Nat
  BY <1>1, <1>2, ToLoginFields
<1>6. playerCache \in [Servers -> [Accounts -> SPlayer \cup {NoPlayer}]]
  BY DEF TypeInv, TypeOK
<1>7. \A t \in Servers, b \in Accounts :
        t # s \/ b # m.account => playerCache'[t][b] = playerCache[t][b]
  BY <1>2, <1>3, <1>5, <1>6
<1>8. playerCache'[s][m.account] =
        IF dbUp[s] \/ ~InGame(s, m.account) THEN NoPlayer
        ELSE Kept(playerCache[s][m.account], m.data)
  BY <1>2, <1>3, <1>5, <1>6
<1>9. InGame(s, m.account) => playerCache[s][m.account] \in SPlayer
  BY <1>2, <1>5, <1>6 DEF InGame
<1>10. InGame(s, m.account) =>
         LET p == Kept(playerCache[s][m.account], m.data)
         IN /\ p \in SPlayer /\ p.gid = playerCache[s][m.account].gid
            /\ p.key = playerCache[s][m.account].key /\ p.data = m.data
  BY <1>5, <1>9 DEF Kept, SPlayer
<1>11. \A y \in Zones \ {z} : Apart(y)
  BY <1>1, <1>4 DEF Apart
<1>12. \/ dbUp[s] /\ playerCache'[s][m.account] = NoPlayer
       \/ ~InGame(s, m.account) /\ playerCache'[s][m.account] = NoPlayer
       \/ /\ ~dbUp[s] /\ InGame(s, m.account)
          /\ playerCache'[s][m.account] \in SPlayer
          /\ playerCache'[s][m.account].gid = playerCache[s][m.account].gid
          /\ playerCache'[s][m.account].key = playerCache[s][m.account].key
          /\ playerCache'[s][m.account].data = m.data
  BY <1>8, <1>10
<1>13. s = ServerOf[z] /\ m = Head(toLogin[z])
  BY DEF m, s
<1> QED  BY <1>1, <1>2, <1>3, <1>4, <1>7, <1>11, <1>12, <1>13 DEF Updated

(* Visits go on where they are, or end.                                    *)
Stays(k) ==
  visit'[k] # NoVisit =>
    /\ visit[k] # NoVisit /\ visit'[k].zone = visit[k].zone
    /\ visit'[k].account = visit[k].account /\ visit'[k].gid = visit[k].gid

(* The zone server hears of the session: the client is cut, bound to a     *)
(* player, or gets a new one.                                              *)
Answered(z, m) ==
  /\ toZone[z] # <<>> /\ m = Head(toZone[z]) /\ Agrees(z, m)
  /\ m.kind \in {"rebound", "refused"}
  /\ toZone'[z] = Tail(toZone[z])
  /\ \/ /\ visit' = [visit EXCEPT ![m.link] = NoVisit]
        /\ UNCHANGED <<object, toLogin>>
     \/ /\ m.kind = "rebound" /\ visit[m.link] # NoVisit
        /\ \E b \in WithGid(z, m.gid) : BindPlayer(m.link, z, b)
        /\ UNCHANGED <<object, toLogin>>
     \/ /\ m.kind = "rebound" /\ visit[m.link] # NoVisit
        /\ object[z][m.account] = NoPlayer
        /\ BindPlayer(m.link, z, m.account)
        /\ object'[z][m.account] \in Object
        /\ object'[z][m.account].gid = m.gid /\ ~object'[z][m.account].init
        /\ \A b \in Accounts \ {m.account} : object'[z][b] = object[z][b]
        /\ \E g \in ToLogin : /\ toLogin'[z] = Append(toLogin[z], g)
                              /\ g.kind = "get" /\ g.account = m.account
                              /\ g.gid = m.gid /\ g.link = m.link
  /\ UNCHANGED <<outside, playerCache, toDb, clock>>
  /\ \A k \in Links : Stays(k)
  /\ \A y \in Zones \ {z} : Apart(y)

LEMMA AnsweredDoes ==
  ASSUME TypeInv, NEW z \in Zones, RecvCheckRebind(z)
  PROVE  \E m \in ToZone : Answered(z, m)
<1> DEFINE m == Head(toZone[z])
<1>1. /\ toZone[z] # <<>> /\ toZone' = [toZone EXCEPT ![z] = Tail(@)]
      /\ m.kind \in {"rebound", "refused"}
      /\ UNCHANGED <<outside, playerCache, toDb, clock>>
  BY DEF RecvCheckRebind, FromLogin, ghostVars, outside
<1>2. m \in ToZone /\ Agrees(z, m)
  BY <1>1, TakeFromLogin
<1>3. m.link \in Links /\ m.account \in Accounts /\ m.gid \in Nat
  BY <1>2, ToZoneFields
<1>4. toZone \in [Zones -> Seq(ToZone)] /\ toLogin \in [Zones -> Seq(ToLogin)]
  BY DEF TypeInv, TypeOK
<1>5. /\ toZone'[z] = Tail(toZone[z])
      /\ \A y \in Zones \ {z} : toZone'[y] = toZone[y]
  BY <1>1, <1>4
<1>6. \/ Cut(m.link) /\ UNCHANGED <<object, toLogin>>
      \/ /\ m.kind = "rebound" /\ visit[m.link] # NoVisit
         /\ \E b \in WithGid(z, m.gid) : BindPlayer(m.link, z, b)
         /\ UNCHANGED <<object, toLogin>>
      \/ /\ m.kind = "rebound" /\ visit[m.link] # NoVisit
         /\ OnAccount(z, m.account) = {}
         /\ object' = [object EXCEPT ![z][m.account] =
                         [gid |-> m.gid, data |-> 0, init |-> FALSE]]
         /\ BindPlayer(m.link, z, m.account)
         /\ ToLoginServer(z, [kind |-> "get", account |-> m.account, gid |-> m.gid,
                              link |-> m.link])
  BY DEF RecvCheckRebind
<1> HIDE DEF m
<1>7. CASE Cut(m.link) /\ UNCHANGED <<object, toLogin>>
  <2>1. visit' = [visit EXCEPT ![m.link] = NoVisit]
    BY <1>7 DEF Cut
  <2>2. \A k \in Links : Stays(k)
    BY <1>3, <2>1 DEF Stays, TypeInv, TypeOK
  <2>3. \A y \in Zones \ {z} : Apart(y)
    BY <1>5, <1>7 DEF Apart
  <2> QED  BY <1>1, <1>2, <1>5, <1>7, <2>1, <2>2, <2>3 DEF m, Answered
<1>8. ASSUME visit[m.link] # NoVisit, \E b \in Accounts : BindPlayer(m.link, z, b)
      PROVE  \A k \in Links : Stays(k)
  <2>1. visit[m.link].zone = z
    BY <1>2, <1>8 DEF Agrees
  <2> QED  BY <1>3, <1>8, <2>1, BindTypes DEF Stays
<1>9. CASE /\ m.kind = "rebound" /\ visit[m.link] # NoVisit
           /\ \E b \in WithGid(z, m.gid) : BindPlayer(m.link, z, b)
           /\ UNCHANGED <<object, toLogin>>
  <2>1. \A k \in Links : Stays(k)
    BY <1>8, <1>9 DEF WithGid
  <2>2. \A y \in Zones \ {z} : Apart(y)
    BY <1>5, <1>9 DEF Apart
  <2> QED  BY <1>1, <1>2, <1>5, <1>9, <2>1, <2>2 DEF m, Answered
<1>10. CASE /\ m.kind = "rebound" /\ visit[m.link] # NoVisit
            /\ OnAccount(z, m.account) = {}
            /\ object' = [object EXCEPT ![z][m.account] =
                            [gid |-> m.gid, data |-> 0, init |-> FALSE]]
            /\ BindPlayer(m.link, z, m.account)
            /\ ToLoginServer(z, [kind |-> "get", account |-> m.account, gid |-> m.gid,
                                 link |-> m.link])
  <2>1. \A k \in Links : Stays(k)
    BY <1>3, <1>8, <1>10
  <2> DEFINE g == [kind |-> "get", account |-> m.account, gid |-> m.gid, link |-> m.link]
             new == [gid |-> m.gid, data |-> 0, init |-> FALSE]
  <2>2. /\ g \in ToLogin /\ g.kind = "get" /\ g.account = m.account
        /\ g.gid = m.gid /\ g.link = m.link
    BY <1>3 DEF ToLogin
  <2>3. new \in Object /\ new.gid = m.gid /\ ~new.init
    BY <1>3 DEF Object
  <2> HIDE DEF g, new
  <2>4. /\ toLogin'[z] = Append(toLogin[z], g)
        /\ \A y \in Zones \ {z} : toLogin'[y] = toLogin[y]
    BY <1>4, <1>10 DEF ToLoginServer, g
  <2>5. /\ object'[z][m.account] = new
        /\ \A b \in Accounts \ {m.account} : object'[z][b] = object[z][b]
        /\ \A y \in Zones \ {z} : object'[y] = object[y]
    BY <1>3, <1>10 DEF new, TypeInv, TypeOK
  <2>6. object[z][m.account] = NoPlayer
    BY <1>10 DEF OnAccount
  <2>7. \A y \in Zones \ {z} : Apart(y)
    BY <1>5, <2>4, <2>5 DEF Apart
  <2>8. /\ object'[z][m.account] \in Object
        /\ object'[z][m.account].gid = m.gid /\ ~object'[z][m.account].init
    BY <2>3, <2>5
  <2>9. \E h \in ToLogin : /\ toLogin'[z] = Append(toLogin[z], h)
                           /\ h.kind = "get" /\ h.account = m.account
                           /\ h.gid = m.gid /\ h.link = m.link
    BY <2>2, <2>4
  <2>10. m = Head(toZone[z])
    BY DEF m
  <2> QED  BY <1>1, <1>2, <1>5, <1>10, <2>1, <2>5, <2>6, <2>7, <2>8, <2>9, <2>10 DEF Answered
<1> QED  BY <1>6, <1>7, <1>9, <1>10

(* The zone server gets the data: the client is cut, or a player begins.   *)
DataTaken(z, m) ==
  /\ toZone[z] # <<>> /\ m = Head(toZone[z]) /\ Agrees(z, m)
  /\ m.kind = "data"
  /\ toZone'[z] = Tail(toZone[z])
  /\ \/ visit' = [visit EXCEPT ![m.link] = NoVisit] /\ UNCHANGED object
     \/ /\ UNCHANGED visit
        /\ \E b \in Accounts :
             /\ IF Bound(m.link) THEN b = visit[m.link].player
                ELSE b \in WithGid(z, m.gid)
             /\ object[z][b] # NoPlayer /\ object'[z][b] \in Object
             /\ object'[z][b].gid = object[z][b].gid /\ object'[z][b].init
             /\ \A c \in Accounts \ {b} : object'[z][c] = object[z][c]
  /\ UNCHANGED <<outside, playerCache, toLogin, toDb, clock>>
  /\ \A k \in Links : Stays(k)
  /\ \A y \in Zones \ {z} : Apart(y)

LEMMA DataDoes ==
  ASSUME TypeInv, NEW z \in Zones, SetPlayerData(z)
  PROVE  \E m \in ToZone : DataTaken(z, m)
<1> DEFINE m == Head(toZone[z])
           here == IF visit[m.link] # NoVisit /\ visit[m.link].step = "there"
                        /\ visit[m.link].zone = z
                   THEN {visit[m.link].player} ELSE WithGid(z, m.gid)
<1>1. /\ toZone[z] # <<>> /\ toZone' = [toZone EXCEPT ![z] = Tail(@)]
      /\ m.kind = "data"
      /\ UNCHANGED <<outside, playerCache, toLogin, toDb, clock>>
  BY DEF SetPlayerData, FromLogin, ghostVars, outside
<1>2. m \in ToZone /\ Agrees(z, m)
  BY <1>1, TakeFromLogin
<1>3. m.link \in Links /\ m.account \in Accounts /\ m.gid \in Nat /\ m.data \in Nat
  BY <1>2, ToZoneFields
<1>4. toZone \in [Zones -> Seq(ToZone)]
  BY DEF TypeInv, TypeOK
<1>5. /\ toZone'[z] = Tail(toZone[z])
      /\ \A y \in Zones \ {z} : toZone'[y] = toZone[y]
  BY <1>1, <1>4
<1>6. \/ Cut(m.link) /\ UNCHANGED object
      \/ /\ \E b \in here :
              object' = [object EXCEPT ![z][b].data = m.data, ![z][b].init = TRUE]
         /\ UNCHANGED visit
  BY DEF SetPlayerData
<1>7. here = IF Bound(m.link) THEN {visit[m.link].player} ELSE WithGid(z, m.gid)
  BY <1>2 DEF Bound, Agrees
<1>8. \A b \in here : b \in Accounts /\ object[z][b] \in Object
  BY <1>2, <1>3, <1>7 DEF TypeInv, TypeOK, VisitInv, Bound, Visit, WithGid, Agrees
<1> HIDE DEF m, here
<1>9. CASE Cut(m.link) /\ UNCHANGED object
  <2>1. visit' = [visit EXCEPT ![m.link] = NoVisit]
    BY <1>9 DEF Cut
  <2>2. \A k \in Links : Stays(k)
    BY <1>3, <2>1 DEF Stays, TypeInv, TypeOK
  <2>3. \A y \in Zones \ {z} : Apart(y)
    BY <1>1, <1>5, <1>9 DEF Apart
  <2> QED  BY <1>1, <1>2, <1>5, <1>9, <2>1, <2>2, <2>3 DEF m, DataTaken
<1>10. CASE /\ \E b \in here :
                 object' = [object EXCEPT ![z][b].data = m.data, ![z][b].init = TRUE]
            /\ UNCHANGED visit
  <2>1. PICK b \in here :
          object' = [object EXCEPT ![z][b].data = m.data, ![z][b].init = TRUE]
    BY <1>10
  <2> DEFINE new == [object[z][b] EXCEPT !.data = m.data, !.init = TRUE]
  <2>2. b \in Accounts /\ object[z][b] \in Object
    BY <1>8, <2>1
  <2>3. new \in Object /\ new.gid = object[z][b].gid /\ new.init
    BY <1>3, <2>2 DEF Object
  <2>4. object \in [Zones -> [Accounts -> Object \cup {NoPlayer}]]
    BY DEF TypeInv, TypeOK
  <2>5. object' = [object EXCEPT ![z][b] = new]
    BY <2>1, <2>2, <2>4
  <2> HIDE DEF new
  <2>6. /\ object'[z][b] = new
        /\ \A c \in Accounts \ {b} : object'[z][c] = object[z][c]
        /\ \A y \in Zones \ {z} : object'[y] = object[y]
    BY <2>2, <2>4, <2>5
  <2>7. \A k \in Links : Stays(k)
    BY <1>10 DEF Stays
  <2>8. \A y \in Zones \ {z} : Apart(y)
    BY <1>1, <1>5, <2>6 DEF Apart
  <2>9. IF Bound(m.link) THEN b = visit[m.link].player ELSE b \in WithGid(z, m.gid)
    BY <1>7, <2>1
  <2>10. object[z][b] # NoPlayer
    BY <2>2, NullAssumption
  <2>11. m = Head(toZone[z])
    BY DEF m
  <2> QED  BY <1>1, <1>2, <1>5, <1>10, <2>2, <2>3, <2>6, <2>7, <2>8, <2>9, <2>10, <2>11
         DEF DataTaken
<1> QED  BY <1>6, <1>9, <1>10

(* A player leaves the zone server.                                        *)
LoggedOut(z, a, m) ==
  /\ Plays(z, a)
  /\ m.kind = "logout" /\ m.account = a /\ m.gid = object[z][a].gid
  /\ m.data = clock[a] + 1
  /\ toLogin'[z] = Append(toLogin[z], m)
  /\ object'[z][a] = NoPlayer
  /\ \A b \in Accounts \ {a} : object'[z][b] = object[z][b]
  /\ clock'[a] = clock[a] + 1
  /\ \A b \in Accounts \ {a} : clock'[b] = clock[b]
  /\ UNCHANGED <<outside, playerCache, toZone, toDb>>
  /\ \A k \in Links : Stays(k) /\ (visit'[k] # NoVisit => visit'[k] = visit[k])
  /\ \A y \in Zones \ {z} : Apart(y)

LEMMA LogoutDoes ==
  ASSUME TypeInv, NEW z \in Zones, NEW a \in Accounts, Logout(z, a)
  PROVE  \E m \in ToLogin : LoggedOut(z, a, m)
<1> DEFINE m == [kind |-> "logout", account |-> a, gid |-> object[z][a].gid,
                 data |-> clock'[a]]
<1>1. /\ object[z][a] # NoPlayer /\ object[z][a].init
      /\ clock' = [clock EXCEPT ![a] = @ + 1] /\ ToLoginServer(z, m)
      /\ object' = [object EXCEPT ![z][a] = NoPlayer]
      /\ visit' = [l \in Links |->
           IF visit[l] # NoVisit /\ visit[l].zone = z /\ visit[l].step = "there"
                /\ visit[l].player = a THEN NoVisit ELSE visit[l]]
      /\ UNCHANGED <<outside, playerCache, toZone, toDb>>
  BY DEF Logout, outside
<1>2. /\ clock'[a] = clock[a] + 1 /\ clock'[a] \in Nat
      /\ \A b \in Accounts \ {a} : clock'[b] = clock[b]
  BY <1>1 DEF TypeInv, TypeOK
<1>3. object[z][a] \in Object
  BY <1>1 DEF TypeInv, TypeOK
<1>4. /\ m \in ToLogin /\ m.kind = "logout" /\ m.account = a
      /\ m.gid = object[z][a].gid /\ m.data = clock[a] + 1
  BY <1>2, <1>3 DEF ToLogin, Object
<1> HIDE DEF m
<1>5. toLogin \in [Zones -> Seq(ToLogin)]
  BY DEF TypeInv, TypeOK
<1>6. /\ toLogin'[z] = Append(toLogin[z], m)
      /\ \A y \in Zones \ {z} : toLogin'[y] = toLogin[y]
  BY <1>1, <1>5 DEF ToLoginServer
<1>7. /\ object'[z][a] = NoPlayer
      /\ \A b \in Accounts \ {a} : object'[z][b] = object[z][b]
      /\ \A y \in Zones \ {z} : object'[y] = object[y]
  BY <1>1 DEF TypeInv, TypeOK
<1>8. \A k \in Links : Stays(k) /\ (visit'[k] # NoVisit => visit'[k] = visit[k])
  BY <1>1 DEF Stays
<1>9. \A y \in Zones \ {z} : Apart(y)
  BY <1>1, <1>6, <1>7 DEF Apart
<1>10. Plays(z, a)
  BY <1>1 DEF Plays
<1> QED  BY <1>1, <1>2, <1>4, <1>6, <1>7, <1>8, <1>9, <1>10 DEF LoggedOut

(* The link of a zone server was lost, and the last messages with it.      *)
LinkGone(z, q) ==
  /\ \A i \in DOMAIN q : i \in DOMAIN toLogin[z] /\ q[i] = toLogin[z][i]
  /\ toLogin'[z] = q /\ toZone'[z] = <<>>
  /\ \A y \in Zones \ {z} : toLogin'[y] = toLogin[y] /\ toZone'[y] = toZone[y]

LEMMA LinkLostDoes ==
  ASSUME TypeInv, NEW z \in Zones, LinkLost(z)
  PROVE  \E q \in Seq(ToLogin) : LinkGone(z, q)
<1>1. PICK q \in FirstOf(toLogin[z]) : toLogin' = [toLogin EXCEPT ![z] = q]
  BY DEF LinkLost
<1>2. toLogin \in [Zones -> Seq(ToLogin)] /\ toZone \in [Zones -> Seq(ToZone)]
  BY DEF TypeInv, TypeOK
<1>3. q \in Seq(ToLogin) /\ \A i \in DOMAIN q : i \in DOMAIN toLogin[z] /\ q[i] = toLogin[z][i]
  BY <1>1, <1>2, FirstOnes
<1>4. toZone' = [toZone EXCEPT ![z] = <<>>]
  BY DEF LinkLost
<1> QED  BY <1>1, <1>2, <1>3, <1>4 DEF LinkGone

-----------------------------------------------------------------------------
(* Passes, action by action.                                               *)
LEMMA PassUntouched ==
  ASSUME TypeInv, TypeInv', PassInv, UNCHANGED <<playerCache, nextGid, zoneVars, restarted>>
  PROVE  PassInv'
<1>1. UNCHANGED <<playerCache, nextGid, visit, toLogin, toZone, object, restarted>>
  BY DEF zoneVars
<1>2. \A s \in Servers, a \in Accounts, g \in Nat, z \in Zones :
        Pass(s, a, g, z)' => Pass(s, a, g, z)
  BY <1>1 DEF Pass, InGame
<1>3. \A s \in Servers : nextGid[s] \in Nat /\ nextGid'[s] >= nextGid[s]
  BY <1>1 DEF TypeInv, TypeOK
<1> QED  BY <1>1, <1>2, <1>3, PassKept

(* Steps that leave visits where they are, and write passes only for those *)
(* who have one.                                                           *)
LEMMA PassAtZone ==
  ASSUME TypeInv, TypeInv', PassInv, NEW z \in Zones, UNCHANGED <<nextGid, restarted>>,
         \A s \in Servers, a \in Accounts : InGame(s, a)' =>
           /\ InGame(s, a) /\ playerCache'[s][a].gid = playerCache[s][a].gid
           /\ playerCache'[s][a].key = playerCache[s][a].key,
         \A k \in Links : Stays(k),
         \A i \in DOMAIN toLogin'[z] :
           \/ \E j \in DOMAIN toLogin[z] : toLogin'[z][i] = toLogin[z][j]
           \/ Pass(ServerOf[z], toLogin'[z][i].account, toLogin'[z][i].gid, z),
         \A i \in DOMAIN toZone'[z] :
           \/ \E j \in DOMAIN toZone[z] : toZone'[z][i] = toZone[z][j]
           \/ Pass(ServerOf[z], toZone'[z][i].account, toZone'[z][i].gid, z),
         \A b \in Accounts : object'[z][b] # NoPlayer =>
           \/ object[z][b] # NoPlayer /\ object'[z][b].gid = object[z][b].gid
           \/ Pass(ServerOf[z], b, object'[z][b].gid, z),
         \A y \in Zones \ {z} : Apart(y)
  PROVE  PassInv'
<1>1. \A y \in Zones : \A i \in DOMAIN toLogin'[y] :
        \/ \E j \in DOMAIN toLogin[y] : toLogin'[y][i] = toLogin[y][j]
        \/ Pass(ServerOf[y], toLogin'[y][i].account, toLogin'[y][i].gid, y)
  BY DEF Apart
<1>2. \A y \in Zones : \A i \in DOMAIN toZone'[y] :
        \/ \E j \in DOMAIN toZone[y] : toZone'[y][i] = toZone[y][j]
        \/ Pass(ServerOf[y], toZone'[y][i].account, toZone'[y][i].gid, y)
  BY DEF Apart
<1>3. \A y \in Zones, b \in Accounts : object'[y][b] # NoPlayer =>
        \/ object[y][b] # NoPlayer /\ object'[y][b].gid = object[y][b].gid
        \/ Pass(ServerOf[y], b, object'[y][b].gid, y)
  BY DEF Apart
<1>4. \A k \in Links : visit'[k] # NoVisit =>
        /\ visit[k] # NoVisit /\ visit'[k].zone = visit[k].zone
        /\ visit'[k].account = visit[k].account /\ visit'[k].gid = visit[k].gid
  BY DEF Stays
<1>5. \A s \in Servers, a \in Accounts, g \in Nat, y \in Zones :
        Pass(s, a, g, y)' => Pass(s, a, g, y)
  BY <1>1, <1>2, <1>3, <1>4, PassesStay
<1>6. \A s \in Servers : nextGid[s] \in Nat /\ nextGid'[s] >= nextGid[s]
  BY DEF TypeInv, TypeOK
<1> QED  BY <1>5, <1>6, PassKept

(* A message, and a visit, are passes.                                     *)
LEMMA MessagePasses ==
  ASSUME TypeInv, NEW z \in Zones
  PROVE  /\ \A i \in DOMAIN toLogin[z] :
              Pass(ServerOf[z], toLogin[z][i].account, toLogin[z][i].gid, z)
         /\ \A i \in DOMAIN toZone[z] :
              Pass(ServerOf[z], toZone[z][i].account, toZone[z][i].gid, z)
         /\ \A l \in Links : visit[l] # NoVisit /\ visit[l].zone = z =>
              Pass(ServerOf[z], visit[l].account, visit[l].gid, z)
         /\ \A a \in Accounts : object[z][a] # NoPlayer =>
              Pass(ServerOf[z], a, object[z][a].gid, z)
BY SessionAssumption DEF Pass

LEMMA AfterTail ==
  ASSUME NEW S, NEW q \in Seq(S), q # <<>>, NEW r, r = Tail(q)
  PROVE  \A i \in DOMAIN r : \E j \in DOMAIN q : r[i] = q[j]
<1>1. \A i \in DOMAIN Tail(q) : i + 1 \in DOMAIN q /\ Tail(q)[i] = q[i + 1]
  BY HeadAndTail
<1> QED  BY <1>1

LEMMA AfterAppend ==
  ASSUME NEW S, NEW q \in Seq(S), NEW e \in S, NEW r, r = Append(q, e)
  PROVE  \A i \in DOMAIN r : (\E j \in DOMAIN q : r[i] = q[j]) \/ r[i] = e
<1>1. \A i \in DOMAIN Append(q, e) :
        \/ i \in DOMAIN q /\ Append(q, e)[i] = q[i]
        \/ i = Len(q) + 1 /\ Append(q, e)[i] = e
  BY Appended
<1> QED  BY <1>1

LEMMA ZonePasses ==
  ASSUME TypeInv, TypeInv', PassInv, NEW z \in Zones,
         \/ DoCheckRebind(z) \/ SendPlayerData(z) \/ UpdatePlayerData(z)
         \/ RecvCheckRebind(z) \/ SetPlayerData(z)
  PROVE  PassInv'
<1>1. toLogin[z] \in Seq(ToLogin) /\ toZone[z] \in Seq(ToZone)
  BY DEF TypeInv, TypeOK
<1>2. CASE DoCheckRebind(z)
  <2>1. PICK m \in ToLogin, r \in ToZone : Checked(z, m, r)
    BY <1>2, CheckDoes
  <2>2. Pass(ServerOf[z], m.account, m.gid, z)
    BY <1>1, <2>1, HeadAndTail, MessagePasses DEF Checked
  <2>3. \A i \in DOMAIN toLogin'[z] :
          \E j \in DOMAIN toLogin[z] : toLogin'[z][i] = toLogin[z][j]
    BY <1>1, <2>1, AfterTail DEF Checked
  <2>4. \A i \in DOMAIN toZone'[z] :
          \/ \E j \in DOMAIN toZone[z] : toZone'[z][i] = toZone[z][j]
          \/ Pass(ServerOf[z], toZone'[z][i].account, toZone'[z][i].gid, z)
    BY <1>1, <2>1, <2>2, AfterAppend DEF Checked
  <2> QED  BY <2>1, <2>3, <2>4, PassAtZone DEF Checked, outside, InGame, Stays
<1>3. CASE SendPlayerData(z)
  <2>1. PICK m \in ToLogin : DataSent(z, m)
    BY <1>3, SendDataDoes
  <2>2. Pass(ServerOf[z], m.account, m.gid, z)
    BY <1>1, <2>1, HeadAndTail, MessagePasses DEF DataSent
  <2>3. \A i \in DOMAIN toLogin'[z] :
          \E j \in DOMAIN toLogin[z] : toLogin'[z][i] = toLogin[z][j]
    BY <1>1, <2>1, AfterTail DEF DataSent
  <2>4. \A i \in DOMAIN toZone'[z] :
          \/ \E j \in DOMAIN toZone[z] : toZone'[z][i] = toZone[z][j]
          \/ Pass(ServerOf[z], toZone'[z][i].account, toZone'[z][i].gid, z)
    <3>1. CASE toZone'[z] = toZone[z]
      BY <3>1
    <3>2. CASE toZone'[z] # toZone[z]
      <4>1. PICK r \in ToZone :
              toZone'[z] = Append(toZone[z], r) /\ r.account = m.account /\ r.gid = m.gid
        BY <2>1, <3>2 DEF DataSent
      <4> QED  BY <1>1, <2>2, <4>1, AfterAppend
    <3> QED  BY <3>1, <3>2
  <2> QED  BY <2>1, <2>3, <2>4, PassAtZone DEF DataSent, outside, InGame, Stays
<1>4. CASE UpdatePlayerData(z)
  <2>1. PICK m \in ToLogin, s \in Servers : Updated(z, m, s)
    BY <1>4, UpdateDoes
  <2>2. \A i \in DOMAIN toLogin'[z] :
          \E j \in DOMAIN toLogin[z] : toLogin'[z][i] = toLogin[z][j]
    BY <1>1, <2>1, AfterTail DEF Updated
  <2>3. \A t \in Servers, b \in Accounts : InGame(t, b)' =>
          /\ InGame(t, b) /\ playerCache'[t][b].gid = playerCache[t][b].gid
          /\ playerCache'[t][b].key = playerCache[t][b].key
    BY <2>1 DEF Updated, InGame
  <2> QED  BY <2>1, <2>2, <2>3, PassAtZone DEF Updated, outside, Stays
<1>5. CASE RecvCheckRebind(z)
  <2>1. PICK m \in ToZone : Answered(z, m)
    BY <1>5, AnsweredDoes
  <2>2. Pass(ServerOf[z], m.account, m.gid, z)
    BY <1>1, <2>1, HeadAndTail, MessagePasses DEF Answered
  <2>3. \A i \in DOMAIN toLogin'[z] :
          \/ \E j \in DOMAIN toLogin[z] : toLogin'[z][i] = toLogin[z][j]
          \/ Pass(ServerOf[z], toLogin'[z][i].account, toLogin'[z][i].gid, z)
    <3>1. CASE toLogin' = toLogin
      BY <3>1
    <3>2. CASE toLogin' # toLogin
      <4>1. PICK g \in ToLogin : /\ toLogin'[z] = Append(toLogin[z], g)
                                 /\ g.account = m.account /\ g.gid = m.gid
        BY <2>1, <3>2 DEF Answered
      <4> QED  BY <1>1, <2>2, <4>1, AfterAppend
    <3> QED  BY <3>1, <3>2
  <2>4. \A i \in DOMAIN toZone'[z] :
          \E j \in DOMAIN toZone[z] : toZone'[z][i] = toZone[z][j]
    BY <1>1, <2>1, AfterTail DEF Answered
  <2>5. \A b \in Accounts : object'[z][b] # NoPlayer =>
          \/ object[z][b] # NoPlayer /\ object'[z][b].gid = object[z][b].gid
          \/ Pass(ServerOf[z], b, object'[z][b].gid, z)
    BY <2>1, <2>2 DEF Answered
  <2> QED  BY <2>1, <2>3, <2>4, <2>5, PassAtZone DEF Answered, outside, InGame
<1>6. CASE SetPlayerData(z)
  <2>1. PICK m \in ToZone : DataTaken(z, m)
    BY <1>6, DataDoes
  <2>2. \A i \in DOMAIN toZone'[z] :
          \E j \in DOMAIN toZone[z] : toZone'[z][i] = toZone[z][j]
    BY <1>1, <2>1, AfterTail DEF DataTaken
  <2>3. \A b \in Accounts : object'[z][b] # NoPlayer =>
          object[z][b] # NoPlayer /\ object'[z][b].gid = object[z][b].gid
    BY <2>1 DEF DataTaken
  <2> QED  BY <2>1, <2>2, <2>3, PassAtZone DEF DataTaken, outside, InGame
<1> QED  BY <1>2, <1>3, <1>4, <1>5, <1>6

(* A client that connects, a player that leaves, and faults.               *)
LEMMA VisitPasses ==
  ASSUME TypeInv, TypeInv', PassInv,
         NEW l \in Links, QuestCheckRebind(l) \/ Leave(l)
  PROVE  PassInv'
<1>1. CASE QuestCheckRebind(l)
  <2>1. PICK z \in Zones, m \in ToLogin : Connected(l, z, m)
    BY <1>1, ConnectDoes
  <2>2. toLogin[z] \in Seq(ToLogin) /\ visit[l] \in Visit
    BY <2>1 DEF Connected, TypeInv, TypeOK
  <2>3. Pass(ServerOf[z], m.account, m.gid, z)
    BY <2>1, MessagePasses DEF Connected
  <2>4. \A i \in DOMAIN toLogin'[z] :
          \/ \E j \in DOMAIN toLogin[z] : toLogin'[z][i] = toLogin[z][j]
          \/ Pass(ServerOf[z], toLogin'[z][i].account, toLogin'[z][i].gid, z)
    BY <2>1, <2>2, <2>3, AfterAppend DEF Connected
  <2>5. \A k \in Links : Stays(k)
    BY <2>1, <2>2 DEF Connected, Stays, TypeInv, TypeOK, Visit
  <2> QED  BY <2>1, <2>4, <2>5, PassAtZone DEF Connected, outside, InGame
<1>2. CASE Leave(l)
  <2>1. UNCHANGED <<playerCache, nextGid, toLogin, toZone, object, restarted>>
    BY <1>2 DEF Leave, ghostVars
  <2>2. \A k \in Links : Stays(k)
    BY <1>2 DEF Leave, Stays, TypeInv, TypeOK
  <2>3. visit[l] # NoVisit /\ visit[l] \in Visit
    BY <1>2 DEF Leave, TypeInv, TypeOK
  <2>4. visit[l].zone \in Zones
    BY <2>3 DEF Visit
  <2> QED  BY <2>1, <2>2, <2>4, PassAtZone DEF InGame, Apart
<1> QED  BY <1>1, <1>2

LEMMA LogoutPasses ==
  ASSUME TypeInv, TypeInv', PassInv, NEW z \in Zones, NEW a \in Accounts, Logout(z, a)
  PROVE  PassInv'
<1>1. PICK m \in ToLogin : LoggedOut(z, a, m)
  BY LogoutDoes
<1>2. toLogin[z] \in Seq(ToLogin)
  BY DEF TypeInv, TypeOK
<1>3. Pass(ServerOf[z], m.account, m.gid, z)
  BY <1>1, MessagePasses DEF LoggedOut, Plays
<1>4. \A i \in DOMAIN toLogin'[z] :
        \/ \E j \in DOMAIN toLogin[z] : toLogin'[z][i] = toLogin[z][j]
        \/ Pass(ServerOf[z], toLogin'[z][i].account, toLogin'[z][i].gid, z)
  BY <1>1, <1>2, <1>3, AfterAppend DEF LoggedOut
<1>5. \A b \in Accounts : object'[z][b] # NoPlayer =>
        object[z][b] # NoPlayer /\ object'[z][b].gid = object[z][b].gid
  BY <1>1 DEF LoggedOut
<1> QED  BY <1>1, <1>4, <1>5, PassAtZone DEF LoggedOut, outside, InGame

LEMMA ZoneFaultPasses ==
  ASSUME TypeInv, TypeInv', PassInv, NEW z \in Zones, BreakZone(z) \/ CrashZone(z)
  PROVE  PassInv'
<1>1. PICK q \in Seq(ToLogin) : LinkGone(z, q)
  BY LinkLostDoes DEF BreakZone, CrashZone
<1>2. \A i \in DOMAIN toLogin'[z] :
        \E j \in DOMAIN toLogin[z] : toLogin'[z][i] = toLogin[z][j]
  BY <1>1 DEF LinkGone
<1>3. toZone'[z] = <<>>
  BY <1>1 DEF LinkGone
<1>4. UNCHANGED <<playerCache, nextGid, restarted>>
  BY DEF BreakZone, CrashZone
<1>5. \A k \in Links : Stays(k)
  BY DEF BreakZone, CrashZone, Stays
<1>6. /\ \A b \in Accounts : object'[z][b] # NoPlayer => object'[z][b] = object[z][b]
      /\ \A y \in Zones \ {z} : object'[y] = object[y]
  BY DEF BreakZone, CrashZone, TypeInv, TypeOK
<1>7. \A y \in Zones \ {z} : Apart(y)
  BY <1>1, <1>6 DEF Apart, LinkGone
<1> QED  BY <1>2, <1>3, <1>4, <1>5, <1>6, <1>7, PassAtZone DEF InGame

(* Client l is sent to zone server z as account a, with the session of a.  *)
SentOn(l, a, z, gid) ==
  /\ visit[l] = NoVisit /\ phase[l] # "closed"
  /\ visit'[l] = [zone |-> z, account |-> a, gid |-> gid, step |-> "told", player |-> a]
  /\ \A k \in Links \ {l} : visit'[k] = visit[k]

LEMMA SentDoes ==
  ASSUME TypeInv, NEW l \in Links, phase[l] # "closed", NEW z \in Zones, NEW a, NEW gid,
         Sent(l, z, a, gid)
  PROVE  SentOn(l, a, z, gid)
<1>1. visit \in [Links -> Visit \cup {NoVisit}] /\ visit[l] = NoVisit
  BY DEF TypeInv, TypeOK, VisitInv
<1>2. visit' = [visit EXCEPT ![l] = [zone |-> z, account |-> a, gid |-> gid,
                                     step |-> "told", player |-> a]]
  BY SessionAssumption DEF Sent
<1> QED  BY <1>1, <1>2 DEF SentOn

LEMMA LoginDoes ==
  ASSUME TypeInv, NEW l \in Links, NEW s \in Servers, NEW a \in Accounts,
         PlayerLogin(l, s, a)
  PROVE  \/ UNCHANGED visit
         \/ \E z \in Zones : /\ ServerOf[z] = s /\ InGame(s, a) /\ playerCache[s][a].key = z
                             /\ SentOn(l, a, z, playerCache[s][a].gid)
<1>1. phase[l] = "new"
  BY DEF PlayerLogin
<1>2. CASE InGame(s, a) /\ ~InUse(s, a)
  <2> DEFINE p == playerCache[s][a]
  <2>1. PICK z \in PutIntoRegion(s, p.key) : Sent(l, z, a, p.gid)
    BY <1>2 DEF PlayerLogin
  <2>2. p \in SPlayer
    BY <1>2 DEF InGame, TypeInv, TypeOK
  <2>3. p.key \in Zones
    BY <2>2 DEF SPlayer
  <2>4. CASE z = NoZone
    BY <2>1, <2>4 DEF Sent
  <2>5. CASE z # NoZone
    <3>1. z \in Zones /\ ServerOf[z] = s /\ p.key = z
      BY <2>1, <2>3, <2>5, SessionAssumption DEF PutIntoRegion
    <3> QED  BY <1>1, <1>2, <2>1, <3>1, SentDoes
  <2> QED  BY <2>4, <2>5
<1>3. CASE ~(InGame(s, a) /\ ~InUse(s, a))
  BY <1>3 DEF PlayerLogin
<1> QED  BY <1>2, <1>3

(* An account begins a session with the character that came for link l.    *)
Assigned(s, l, a, z) ==
  LET ans == Head(fromDb[s])
  IN /\ ServerOf[z] = s /\ s = Server(l) /\ a = Account(l) /\ ~InGame(s, a)
     /\ fromDb[s] # <<>> /\ IsOpen(ans, "select") /\ ans.result = "success" /\ ans.link = l
     /\ nextGid'[s] = nextGid[s] + 1
     /\ playerCache'[s][a] = [gid |-> nextGid[s], data |-> ans.data, key |-> z]
     /\ SentOn(l, a, z, nextGid[s])
     /\ \A t \in Servers, b \in Accounts :
          t # s \/ b # a => playerCache'[t][b] = playerCache[t][b]

LEMMA CharacterDoes ==
  ASSUME TypeInv, RequestsInv, NEW s \in Servers, RecvGetCharacter(s)
  PROVE  /\ UNCHANGED <<login, toDb, dbUp, dbVars, toLogin, toZone, object, ghostVars>>
         /\ \A t \in Servers : nextGid'[t] >= nextGid[t]
         /\ fromDb[s] # <<>> /\ fromDb' = [fromDb EXCEPT ![s] = Tail(@)]
         /\ \/ UNCHANGED <<playerCache, visit>>
            \/ \E l \in Links, a \in Accounts, z \in Zones : Assigned(s, l, a, z)
<1> DEFINE ans == Head(fromDb[s])
           l == ans.link
           a == Account(l)
<1>1. /\ UNCHANGED <<login, toDb, dbUp, dbVars, toLogin, toZone, object, ghostVars>>
      /\ fromDb[s] # <<>> /\ ans.kind = "select"
      /\ fromDb' = [fromDb EXCEPT ![s] = Tail(@)]
  BY DEF RecvGetCharacter
<1>2. /\ nextGid \in [Servers -> Nat]
      /\ playerCache \in [Servers -> [Accounts -> SPlayer \cup {NoPlayer}]]
  BY DEF TypeInv, TypeOK
<1>3. fromDb[s] \in Seq(Answer)
  BY DEF TypeInv, TypeOK
<1>4. ans \in Answer /\ 1 \in DOMAIN fromDb[s] /\ ans = fromDb[s][1]
  BY <1>1, <1>3, HeadAndTail
<1>5. l \in Links /\ ans.data \in Nat
  BY <1>4 DEF Answer
<1>6. login[l] # NoLogin /\ Server(l) = s
  BY <1>4 DEF RequestsInv
<1>7. a \in Accounts
  BY <1>5, <1>6, LoginTypes
<1>8. CASE ~(Assignable(l) /\ ans.result = "success")
  <2>1. UNCHANGED <<playerCache, nextGid, visit>>
    BY <1>8 DEF RecvGetCharacter
  <2> QED  BY <1>1, <1>2, <2>1
<1>9. CASE Assignable(l) /\ ans.result = "success"
  <2>1. nextGid' = [nextGid EXCEPT ![s] = NextGid(@)]
    BY <1>9 DEF RecvGetCharacter
  <2>2. PICK z \in PutIntoRegion(s, NoZone) :
          /\ Sent(l, z, a, nextGid[s])
          /\ IF ~Placed(z) THEN UNCHANGED <<phase, tempLinkContext, playerCache>>
             ELSE playerCache' = [playerCache EXCEPT ![s][a] =
                       [gid |-> nextGid[s], data |-> ans.data, key |-> z]]
    BY <1>9 DEF RecvGetCharacter
  <2> HIDE DEF ans, l, a
  <2>3. nextGid'[s] = nextGid[s] + 1 /\ \A t \in Servers : nextGid'[t] >= nextGid[t]
    BY <1>2, <2>1 DEF NextGid
  <2>4. CASE z = NoZone
    <3>1. UNCHANGED <<playerCache, visit>>
      BY <2>2, <2>4 DEF Placed, Sent
    <3> QED  BY <1>1, <2>3, <3>1
  <2>5. CASE z # NoZone
    <3>1. z \in Zones /\ ServerOf[z] = s
      BY <2>2, <2>5 DEF PutIntoRegion
    <3> DEFINE new == [gid |-> nextGid[s], data |-> ans.data, key |-> z]
    <3>2. playerCache' = [playerCache EXCEPT ![s][a] = new]
      BY <2>2, <2>5 DEF Placed
    <3> HIDE DEF new
    <3>3. /\ playerCache'[s][a] = new
          /\ \A t \in Servers, b \in Accounts :
               t # s \/ b # a => playerCache'[t][b] = playerCache[t][b]
      BY <1>2, <1>7, <3>2
    <3>4. phase[l] = "open" /\ ~InGame(s, a)
      BY <1>6, <1>9 DEF Assignable, a
    <3>5. SentOn(l, a, z, nextGid[s])
      BY <1>5, <2>2, <3>1, <3>4, SentDoes
    <3>6. IsOpen(ans, "select") /\ ans.link = l /\ ans.result = "success"
      BY <1>1, <1>9, <3>4 DEF IsOpen, l
    <3>7. Assigned(s, l, a, z)
      BY <1>1, <1>6, <2>3, <3>1, <3>3, <3>4, <3>5, <3>6 DEF Assigned, new, ans, a
    <3> QED  BY <1>1, <1>5, <1>7, <2>3, <3>1, <3>7
  <2> QED  BY <2>4, <2>5
<1> QED  BY <1>8, <1>9

LEMMA LoginPasses ==
  ASSUME TypeInv, TypeInv', PassInv, NEW l \in Links, NEW s \in Servers, NEW a \in Accounts,
         PlayerLogin(l, s, a)
  PROVE  PassInv'
<1>1. UNCHANGED <<playerCache, nextGid, toLogin, toZone, object, restarted>>
  BY DEF PlayerLogin, ghostVars
<1>2. \A k \in Links : visit'[k] # NoVisit =>
        \/ /\ visit[k] # NoVisit /\ visit'[k].zone = visit[k].zone
           /\ visit'[k].account = visit[k].account /\ visit'[k].gid = visit[k].gid
        \/ Pass(ServerOf[visit'[k].zone], visit'[k].account, visit'[k].gid, visit'[k].zone)
  <2>1. CASE UNCHANGED visit
    BY <2>1
  <2>2. ASSUME NEW z \in Zones, ServerOf[z] = s, InGame(s, a), playerCache[s][a].key = z,
               SentOn(l, a, z, playerCache[s][a].gid), NEW k \in Links, visit'[k] # NoVisit
        PROVE  \/ visit'[k] = visit[k]
               \/ Pass(ServerOf[visit'[k].zone], visit'[k].account, visit'[k].gid,
                       visit'[k].zone)
    <3>1. Pass(s, a, playerCache[s][a].gid, z)
      BY <2>2 DEF Pass
    <3> QED  BY <2>2, <3>1 DEF SentOn
  <2> QED  BY <2>1, <2>2, LoginDoes
<1>3. \A t \in Servers, b \in Accounts, g \in Nat, y \in Zones :
        Pass(t, b, g, y)' => Pass(t, b, g, y)
  BY <1>1, <1>2, PassesStay DEF InGame
<1>4. \A t \in Servers : nextGid[t] \in Nat /\ nextGid'[t] >= nextGid[t]
  BY <1>1 DEF TypeInv, TypeOK
<1> QED  BY <1>1, <1>3, <1>4, PassKept

(* The pass of a new session is the first with its global id.              *)
LEMMA CharacterPasses ==
  ASSUME TypeInv, TypeInv', RequestsInv, PassInv, NEW s \in Servers, RecvGetCharacter(s)
  PROVE  PassInv'
<1>1. UNCHANGED <<toLogin, toZone, object, restarted>>
  BY CharacterDoes DEF ghostVars
<1>2. \A t \in Servers : nextGid'[t] >= nextGid[t] /\ nextGid[t] \in Nat /\ nextGid'[t] \in Nat
  BY CharacterDoes DEF TypeInv, TypeOK
<1>3. CASE UNCHANGED <<playerCache, visit>>
  <2>1. \A t \in Servers, b \in Accounts, g \in Nat, y \in Zones :
          Pass(t, b, g, y)' => Pass(t, b, g, y)
    BY <1>1, <1>3 DEF Pass, InGame
  <2> QED  BY <1>1, <1>2, <2>1, PassKept
<1>4. ASSUME NEW l \in Links, NEW a \in Accounts, NEW z \in Zones, Assigned(s, l, a, z)
      PROVE  PassInv'
  <2>1. \A t \in Servers, b \in Accounts, g \in Nat, y \in Zones : Pass(t, b, g, y)' =>
          \/ Pass(t, b, g, y)
          \/ t = s /\ b = a /\ y = z /\ g = nextGid[s]
    <3>1. SUFFICES ASSUME NEW t \in Servers, NEW b \in Accounts, NEW g \in Nat,
                          NEW y \in Zones, Pass(t, b, g, y)'
                   PROVE  \/ Pass(t, b, g, y)
                          \/ t = s /\ b = a /\ y = z /\ g = nextGid[s]
      OBVIOUS
    <3>2. CASE InGame(t, b)' /\ playerCache'[t][b].gid = g /\ playerCache'[t][b].key = y
      <4>1. CASE t = s /\ b = a
        BY <1>4, <3>2, <4>1 DEF Assigned
      <4>2. CASE ~(t = s /\ b = a)
        BY <1>4, <3>2, <4>2 DEF Assigned, Pass, InGame
      <4> QED  BY <4>1, <4>2
    <3>3. CASE /\ ServerOf[y] = t
               /\ \E k \in Links : /\ visit'[k] # NoVisit /\ visit'[k].zone = y
                                   /\ visit'[k].account = b /\ visit'[k].gid = g
      <4>1. PICK k \in Links : /\ visit'[k] # NoVisit /\ visit'[k].zone = y
                               /\ visit'[k].account = b /\ visit'[k].gid = g
        BY <3>3
      <4>2. CASE k = l
        BY <1>4, <3>3, <4>1, <4>2 DEF Assigned, SentOn
      <4>3. CASE k # l
        BY <1>4, <3>3, <4>1, <4>3 DEF Assigned, SentOn, Pass
      <4> QED  BY <4>2, <4>3
    <3> QED  BY <1>1, <3>1, <3>2, <3>3 DEF Pass
  <2>2. nextGid'[s] = nextGid[s] + 1 /\ ServerOf[z] = s
    BY <1>4 DEF Assigned
  <2>3. ASSUME NEW t \in Servers \ restarted', NEW b \in Accounts, NEW g \in Nat,
               NEW y \in Zones, Pass(t, b, g, y)'
        PROVE  g < nextGid'[t] /\ ServerOf[y] = t
    <3>1. CASE Pass(t, b, g, y)
      <4>1. g < nextGid[t] /\ ServerOf[y] = t
        BY <1>1, <3>1 DEF PassInv
      <4> QED  BY <1>2, <4>1
    <3> QED  BY <1>2, <2>1, <2>2, <2>3, <3>1
  <2>4. ASSUME NEW t \in Servers \ restarted', NEW b \in Accounts, NEW c \in Accounts,
               NEW g \in Nat, NEW y \in Zones, NEW x \in Zones,
               Pass(t, b, g, y)', Pass(t, c, g, x)'
        PROVE  b = c /\ y = x
    <3>1. \A d \in Accounts, w \in Zones : Pass(t, d, g, w) => g < nextGid[t]
      BY <1>1 DEF PassInv
    <3>2. CASE t = s /\ g = nextGid[s]
      <4>1. ~Pass(t, b, g, y) /\ ~Pass(t, c, g, x)
        BY <1>2, <3>1, <3>2
      <4> QED  BY <2>1, <2>4, <4>1
    <3>3. CASE ~(t = s /\ g = nextGid[s])
      BY <1>1, <2>1, <2>4, <3>3 DEF PassInv
    <3> QED  BY <3>2, <3>3
  <2> QED  BY <2>3, <2>4 DEF PassInv
<1> QED  BY <1>3, <1>4, CharacterDoes

LEMMA RestartPasses ==
  ASSUME TypeInv, TypeInv', PassInv, NEW s \in Servers, CrashLogin(s) \/ Destroy(s)
  PROVE  PassInv'
<1>1. PICK q : StartAgain(s, q)
  BY DEF CrashLogin, Destroy
<1>2. /\ playerCache' = [playerCache EXCEPT ![s] = [a \in Accounts |-> NoPlayer]]
      /\ nextGid' = [nextGid EXCEPT ![s] = 1]
      /\ toLogin' = [z \in Zones |-> IF ServerOf[z] = s THEN <<>> ELSE toLogin[z]]
      /\ toZone' = [z \in Zones |-> IF ServerOf[z] = s THEN <<>> ELSE toZone[z]]
      /\ restarted' = restarted \cup {s}
      /\ UNCHANGED <<visit, object>>
  BY <1>1 DEF StartAgain
<1>3. \A t \in Servers \ restarted' : t # s /\ nextGid'[t] >= nextGid[t]
  BY <1>2 DEF TypeInv, TypeOK
<1>4. ASSUME NEW t \in Servers \ restarted', NEW a \in Accounts, NEW g \in Nat,
             NEW z \in Zones, Pass(t, a, g, z)'
      PROVE  Pass(t, a, g, z)
  <2>1. t # s
    BY <1>3
  <2>2. playerCache'[t] = playerCache[t]
    BY <1>2, <2>1 DEF TypeInv, TypeOK
  <2>3. ServerOf[z] = t => toLogin'[z] = toLogin[z] /\ toZone'[z] = toZone[z]
    BY <1>2, <2>1
  <2> QED  BY <1>2, <1>4, <2>2, <2>3 DEF Pass, InGame
<1> QED  BY <1>2, <1>3, <1>4, PassKept

LEMMA PassNext ==
  ASSUME TypeInv, TypeInv', IInv, PassInv, [Next]_vars
  PROVE  PassInv'
<1>1. CASE UNCHANGED vars
  BY <1>1, PassUntouched DEF vars, ghostVars
<1>2. CASE Next
  <2>1. ASSUME NEW l \in Links, NEW s \in Servers, NEW a \in Accounts, PlayerLogin(l, s, a)
        PROVE  PassInv'
    BY <2>1, LoginPasses
  <2>2. ASSUME NEW l \in Links, \/ Break(l) \/ Closed(l) \/ Reselect(l)
                                \/ QuestCheckRebind(l) \/ Leave(l)
        PROVE  PassInv'
    <3>1. CASE Break(l) \/ Closed(l) \/ Reselect(l)
      BY <3>1, PassUntouched DEF Break, Closed, Reselect, ghostVars
    <3> QED  BY <2>2, <3>1, VisitPasses
  <2>3. ASSUME NEW s \in Servers, \/ RecvGetCharacterList(s) \/ RecvGetCharacter(s)
                                  \/ DbReceive(s) \/ ReconnectDb(s)
        PROVE  PassInv'
    <3>1. CASE RecvGetCharacterList(s) \/ DbReceive(s) \/ ReconnectDb(s)
      BY <3>1, PassUntouched DEF RecvGetCharacterList, DbReceive, ReconnectDb, ghostVars
    <3>2. CASE RecvGetCharacter(s)
      BY <3>2, CharacterPasses DEF IInv
    <3> QED  BY <2>3, <3>1, <3>2
  <2>4. ASSUME NEW a \in Accounts, DbExecute(a) \/ DbRemove(a)
        PROVE  PassInv'
    BY <2>4, PassUntouched DEF DbExecute, DbRemove, ghostVars
  <2>5. ASSUME NEW z \in Zones,
               \/ DoCheckRebind(z) \/ SendPlayerData(z) \/ UpdatePlayerData(z)
               \/ RecvCheckRebind(z) \/ SetPlayerData(z)
               \/ \E a \in Accounts : Logout(z, a)
        PROVE  PassInv'
    BY <2>5, ZonePasses, LogoutPasses
  <2>6. CASE Faults
    <3>1. ASSUME CrashDb \/ \E s \in Servers : BreakDb(s)
          PROVE  PassInv'
      BY <3>1, PassUntouched DEF CrashDb, BreakDb
    <3> QED  BY <2>6, <3>1, RestartPasses, ZoneFaultPasses DEF Faults
  <2> QED  BY <1>2, <2>1, <2>2, <2>3, <2>4, <2>5, <2>6 DEF Next
<1> QED  BY <1>1, <1>2

LEMMA PassesAlways == Spec => []PassInv
<1>1. Init => PassInv
  BY InitPass
<1>2. TypeInv /\ TypeInv' /\ IInv /\ PassInv /\ [Next]_vars => PassInv'
  BY PassNext
<1> QED  BY <1>1, <1>2, TypesAlways, InvAlways, PTL DEF Spec

-----------------------------------------------------------------------------
(* Clients and their characters.                                           *)
LEMMA OwnStays ==
  ASSUME OwnCharacter, restarted \subseteq restarted',
         \A k \in Links : visit'[k] # NoVisit /\ visit'[k].step = "there" =>
           visit'[k] = visit[k]
  PROVE  OwnCharacter'
BY DEF OwnCharacter

LEMMA OwnUntouched ==
  ASSUME OwnCharacter, UNCHANGED <<visit, restarted>>
  PROVE  OwnCharacter'
BY DEF OwnCharacter

(* The player with a client's global id is the one of its account.         *)
LEMMA AnsweredOwn ==
  ASSUME TypeInv, PassInv, OwnCharacter, NEW z \in Zones, RecvCheckRebind(z)
  PROVE  OwnCharacter'
<1>1. PICK m \in ToZone : Answered(z, m)
  BY AnsweredDoes
<1>2. UNCHANGED restarted
  BY <1>1 DEF Answered, outside
<1>3. m.link \in Links /\ m.account \in Accounts /\ m.gid \in Nat
  BY ToZoneFields
<1>4. CASE visit' = [visit EXCEPT ![m.link] = NoVisit]
  <2>1. \A k \in Links : visit'[k] # NoVisit => visit'[k] = visit[k]
    BY <1>4 DEF TypeInv, TypeOK
  <2> QED  BY <1>2, <2>1, OwnStays
<1>5. ASSUME NEW b \in Accounts, BindPlayer(m.link, z, b), visit[m.link] # NoVisit,
             ServerOf[z] \notin restarted => b = m.account
      PROVE  OwnCharacter'
  <2>1. /\ visit[m.link] \in Visit /\ visit[m.link].zone = z
        /\ visit[m.link].account = m.account
    BY <1>1, <1>3, <1>5 DEF Answered, Agrees, TypeInv, TypeOK
  <2>2. /\ visit'[m.link].zone = z /\ visit'[m.link].account = m.account
        /\ visit'[m.link].player = b
    BY <1>3, <1>5, <2>1 DEF BindPlayer, Visit
  <2>3. \A k \in Links \ {m.link} : visit'[k] # NoVisit => visit'[k] = visit[k]
    BY <1>5 DEF BindPlayer
  <2> QED  BY <1>2, <1>5, <2>2, <2>3 DEF OwnCharacter
<1>6. ASSUME NEW b \in WithGid(z, m.gid), ServerOf[z] \notin restarted
      PROVE  b = m.account
  <2>1. toZone[z] \in Seq(ToZone)
    BY DEF TypeInv, TypeOK
  <2>2. Pass(ServerOf[z], m.account, m.gid, z)
    BY <1>1, <2>1, HeadAndTail, MessagePasses DEF Answered
  <2>3. b \in Accounts /\ Pass(ServerOf[z], b, m.gid, z)
    BY MessagePasses DEF WithGid
  <2> QED  BY <1>3, <1>6, <2>2, <2>3, SessionAssumption DEF PassInv
<1>7. ASSUME NEW b \in WithGid(z, m.gid), BindPlayer(m.link, z, b), visit[m.link] # NoVisit
      PROVE  OwnCharacter'
  BY <1>5, <1>6, <1>7 DEF WithGid
<1>8. ASSUME BindPlayer(m.link, z, m.account), visit[m.link] # NoVisit
      PROVE  OwnCharacter'
  BY <1>3, <1>5, <1>8
<1> QED  BY <1>1, <1>4, <1>7, <1>8 DEF Answered

LEMMA OwnNext ==
  ASSUME TypeInv, TypeInv', IInv, PassInv, OwnCharacter, [Next]_vars
  PROVE  OwnCharacter'
<1>1. CASE UNCHANGED vars
  BY <1>1, OwnUntouched DEF vars, zoneVars, ghostVars
<1>2. CASE Next
  <2>1. ASSUME NEW l \in Links, NEW s \in Servers, NEW a \in Accounts, PlayerLogin(l, s, a)
        PROVE  OwnCharacter'
    <3>1. UNCHANGED restarted
      BY <2>1 DEF PlayerLogin, ghostVars
    <3>2. \A k \in Links : visit'[k] # NoVisit /\ visit'[k].step = "there" =>
            visit'[k] = visit[k]
      <4>1. ASSUME NEW z \in Zones, SentOn(l, a, z, playerCache[s][a].gid),
                   NEW k \in Links, visit'[k] # NoVisit, visit'[k].step = "there"
            PROVE  visit'[k] = visit[k]
        BY <4>1 DEF SentOn
      <4> QED  BY <2>1, <4>1, LoginDoes
    <3> QED  BY <3>1, <3>2, OwnStays
  <2>2. ASSUME NEW l \in Links, \/ Break(l) \/ Closed(l) \/ Reselect(l)
                                \/ QuestCheckRebind(l) \/ Leave(l)
        PROVE  OwnCharacter'
    <3>1. CASE Break(l) \/ Closed(l) \/ Reselect(l)
      BY <3>1, OwnUntouched DEF Break, Closed, Reselect, ghostVars, zoneVars
    <3>2. CASE QuestCheckRebind(l)
      <4>1. visit[l] \in Visit /\ visit' = [visit EXCEPT ![l].step = "asked"]
        BY <3>2 DEF QuestCheckRebind, TypeInv, TypeOK
      <4>2. /\ visit'[l].step = "asked"
            /\ \A k \in Links \ {l} : visit'[k] = visit[k]
        BY <4>1 DEF TypeInv, TypeOK, Visit
      <4> QED  BY <3>2, <4>2, OwnStays DEF QuestCheckRebind, ghostVars
    <3>3. CASE Leave(l)
      <4>1. \A k \in Links : visit'[k] # NoVisit => visit'[k] = visit[k]
        BY <3>3 DEF Leave, TypeInv, TypeOK
      <4> QED  BY <3>3, <4>1, OwnStays DEF Leave, ghostVars
    <3> QED  BY <2>2, <3>1, <3>2, <3>3
  <2>3. ASSUME NEW s \in Servers, \/ RecvGetCharacterList(s) \/ RecvGetCharacter(s)
                                  \/ DbReceive(s) \/ ReconnectDb(s)
        PROVE  OwnCharacter'
    <3>1. CASE RecvGetCharacterList(s) \/ DbReceive(s) \/ ReconnectDb(s)
      BY <3>1, OwnUntouched DEF RecvGetCharacterList, DbReceive, ReconnectDb, ghostVars,
           zoneVars
    <3>2. CASE RecvGetCharacter(s)
      <4>1. UNCHANGED restarted
        BY <3>2 DEF RecvGetCharacter, ghostVars
      <4>2. \A k \in Links : visit'[k] # NoVisit /\ visit'[k].step = "there" =>
              visit'[k] = visit[k]
        <5>1. ASSUME NEW l \in Links, NEW a \in Accounts, NEW z \in Zones,
                     Assigned(s, l, a, z),
                     NEW k \in Links, visit'[k] # NoVisit, visit'[k].step = "there"
              PROVE  visit'[k] = visit[k]
          BY <5>1 DEF Assigned, SentOn
        <5> QED  BY <3>2, <5>1, CharacterDoes DEF IInv
      <4> QED  BY <4>1, <4>2, OwnStays
    <3> QED  BY <2>3, <3>1, <3>2
  <2>4. ASSUME NEW a \in Accounts, DbExecute(a) \/ DbRemove(a)
        PROVE  OwnCharacter'
    BY <2>4, OwnUntouched DEF DbExecute, DbRemove, ghostVars, zoneVars
  <2>5. ASSUME NEW z \in Zones,
               \/ DoCheckRebind(z) \/ SendPlayerData(z) \/ UpdatePlayerData(z)
               \/ RecvCheckRebind(z) \/ SetPlayerData(z)
               \/ \E a \in Accounts : Logout(z, a)
        PROVE  OwnCharacter'
    <3>1. CASE DoCheckRebind(z) \/ SendPlayerData(z) \/ UpdatePlayerData(z)
      BY <3>1, OwnUntouched DEF DoCheckRebind, SendPlayerData, UpdatePlayerData, ghostVars
    <3>2. CASE SetPlayerData(z)
      <4>1. PICK m \in ToZone : DataTaken(z, m)
        BY <3>2, DataDoes
      <4>2. \A k \in Links : visit'[k] # NoVisit => visit'[k] = visit[k]
        BY <4>1 DEF DataTaken, TypeInv, TypeOK
      <4> QED  BY <4>1, <4>2, OwnStays DEF DataTaken, outside
    <3>3. ASSUME NEW a \in Accounts, Logout(z, a)
          PROVE  OwnCharacter'
      <4>1. PICK m \in ToLogin : LoggedOut(z, a, m)
        BY <3>3, LogoutDoes
      <4> QED  BY <4>1, OwnStays DEF LoggedOut, outside
    <3> QED  BY <2>5, <3>1, <3>2, <3>3, AnsweredOwn
  <2>6. CASE Faults
    <3>1. ASSUME CrashDb \/ \E s \in Servers : BreakDb(s)
          PROVE  OwnCharacter'
      BY <3>1, OwnUntouched DEF CrashDb, BreakDb, zoneVars
    <3>2. ASSUME NEW s \in Servers, CrashLogin(s) \/ Destroy(s)
          PROVE  OwnCharacter'
      BY <3>2, OwnStays DEF CrashLogin, Destroy, StartAgain
    <3>3. ASSUME NEW z \in Zones, BreakZone(z) \/ CrashZone(z)
          PROVE  OwnCharacter'
      BY <3>3, OwnStays DEF BreakZone, CrashZone
    <3> QED  BY <2>6, <3>1, <3>2, <3>3 DEF Faults
  <2> QED  BY <1>2, <2>1, <2>2, <2>3, <2>4, <2>5, <2>6 DEF Next
<1> QED  BY <1>1, <1>2

(* A client is bound to the character of its own account, though the zone  *)
(* server looks for the global id before it looks for the account          *)
(* (CreateNewPlayer), and players stay behind when their clients leave.    *)
THEOREM ClientsHaveTheirCharacter == Spec => []OwnCharacter
<1>1. Init => OwnCharacter
  BY DEF Init, OwnCharacter
<1>2. (TypeInv /\ TypeInv' /\ IInv /\ PassInv /\ OwnCharacter /\ [Next]_vars)
        => OwnCharacter'
  BY OwnNext
<1> QED  BY <1>1, <1>2, TypesAlways, InvAlways, PassesAlways, PTL DEF Spec

-----------------------------------------------------------------------------
(* The data of the players.                                                *)
LEMMA NobodyReturns ==
  ASSUME TypeInv, IInv, [Next]_vars
  PROVE  NoReturn
<1>1. CASE UNCHANGED visit
  BY <1>1 DEF NoReturn
<1>2. CASE \A k \in Links : Stays(k)
  BY <1>2 DEF NoReturn, Stays
<1>3. ASSUME NEW l \in Links, NEW a, NEW z, NEW g, SentOn(l, a, z, g)
      PROVE  NoReturn
  BY <1>3 DEF NoReturn, SentOn
<1>4. ASSUME NEW l \in Links, NEW s \in Servers, NEW a \in Accounts, PlayerLogin(l, s, a)
      PROVE  NoReturn
  BY <1>1, <1>3, <1>4, LoginDoes
<1>5. ASSUME NEW l \in Links, \/ Break(l) \/ Closed(l) \/ Reselect(l)
                              \/ QuestCheckRebind(l) \/ Leave(l)
      PROVE  NoReturn
  <2>1. CASE Break(l) \/ Closed(l) \/ Reselect(l)
    BY <1>1, <2>1 DEF Break, Closed, Reselect, zoneVars
  <2>2. CASE QuestCheckRebind(l) \/ Leave(l)
    BY <2>2 DEF NoReturn, QuestCheckRebind, Leave, TypeInv, TypeOK
  <2> QED  BY <1>5, <2>1, <2>2
<1>6. ASSUME NEW s \in Servers, \/ RecvGetCharacterList(s) \/ RecvGetCharacter(s)
                                \/ DbReceive(s) \/ ReconnectDb(s)
      PROVE  NoReturn
  <2>1. CASE RecvGetCharacterList(s) \/ DbReceive(s) \/ ReconnectDb(s)
    BY <1>1, <2>1 DEF RecvGetCharacterList, DbReceive, ReconnectDb, zoneVars
  <2>2. CASE RecvGetCharacter(s)
    BY <1>1, <1>3, <2>2, CharacterDoes DEF IInv, Assigned
  <2> QED  BY <1>6, <2>1, <2>2
<1>7. ASSUME NEW a \in Accounts, DbExecute(a) \/ DbRemove(a)
      PROVE  NoReturn
  BY <1>1, <1>7 DEF DbExecute, DbRemove, zoneVars
<1>8. ASSUME NEW z \in Zones, \/ DoCheckRebind(z) \/ SendPlayerData(z)
                              \/ UpdatePlayerData(z) \/ RecvCheckRebind(z)
                              \/ SetPlayerData(z) \/ \E a \in Accounts : Logout(z, a)
      PROVE  NoReturn
  <2>1. CASE DoCheckRebind(z) \/ SendPlayerData(z) \/ UpdatePlayerData(z)
    BY <1>1, <2>1 DEF DoCheckRebind, SendPlayerData, UpdatePlayerData
  <2>2. CASE RecvCheckRebind(z) \/ SetPlayerData(z)
    BY <1>2, <2>2, AnsweredDoes, DataDoes DEF Answered, DataTaken
  <2>3. CASE \E a \in Accounts : Logout(z, a)
    BY <1>2, <2>3, LogoutDoes DEF LoggedOut
  <2> QED  BY <1>8, <2>1, <2>2, <2>3
<1>9. CASE Faults
  <2>1. CASE CrashDb \/ \E s \in Servers : BreakDb(s) \/ CrashLogin(s) \/ Destroy(s)
    BY <1>1, <2>1 DEF CrashDb, BreakDb, CrashLogin, Destroy, StartAgain, zoneVars
  <2>2. ASSUME NEW z \in Zones, BreakZone(z) \/ CrashZone(z)
        PROVE  NoReturn
    BY <2>2 DEF BreakZone, CrashZone, NoReturn
  <2> QED  BY <1>9, <2>1, <2>2 DEF Faults
<1>10. CASE UNCHANGED vars
  BY <1>1, <1>10 DEF vars, zoneVars
<1> QED  BY <1>4, <1>5, <1>6, <1>7, <1>8, <1>9, <1>10 DEF Next

(* A client that is gone stays gone.                                       *)
LEMMA GoneStays ==
  ASSUME TypeInv, NoReturn, NEW z \in Zones
  PROVE  /\ \A i \in DOMAIN toLogin[z] :
              toLogin[z][i].kind = "check" /\ visit[toLogin[z][i].link] = NoVisit =>
                visit'[toLogin[z][i].link] = NoVisit
         /\ \A i \in DOMAIN toZone[z] : visit[toZone[z][i].link] = NoVisit =>
              visit'[toZone[z][i].link] = NoVisit
<1>1. /\ \A i \in DOMAIN toLogin[z] : toLogin[z][i] \in ToLogin
      /\ \A i \in DOMAIN toZone[z] : toZone[z][i] \in ToZone
  BY DEF TypeInv, TypeOK
<1>2. /\ \A i \in DOMAIN toLogin[z] : toLogin[z][i].kind = "check" =>
           toLogin[z][i].link \in Links /\ phase[toLogin[z][i].link] = "closed"
      /\ \A i \in DOMAIN toZone[z] :
           toZone[z][i].link \in Links /\ phase[toZone[z][i].link] = "closed"
  BY <1>1, ToLoginFields, ToZoneFields DEF TypeInv, VisitInv, Agrees
<1> QED  BY <1>2 DEF NoReturn

(* Messages that are taken or lost leave the others as they were.          *)
LEMMA LoadShrinks ==
  ASSUME TypeInv, NoReturn, NEW z \in Zones, LoadAt(z), NEW c \in Nat, NEW d \in Nat,
         \A i \in DOMAIN toLogin'[z] :
           i \in Nat /\ i + c \in DOMAIN toLogin[z] /\ toLogin'[z][i] = toLogin[z][i + c],
         \A i \in DOMAIN toZone'[z] :
           i \in Nat /\ i + d \in DOMAIN toZone[z] /\ toZone'[z][i] = toZone[z][i + d],
         \A i \in DOMAIN toLogin'[z] : toLogin'[z][i].kind = "get" =>
           object'[z][toLogin'[z][i].account] = object[z][toLogin'[z][i].account],
         \A i \in DOMAIN toZone'[z] : toZone'[z][i].kind = "data" =>
           object'[z][toZone'[z][i].account] = object[z][toZone'[z][i].account]
  PROVE  LoadAt(z)'
<1>1. GetsLoad(z)'
  BY GoneStays DEF LoadAt, GetsLoad, Loading, Gone
<1>2. DataLoad(z)'
  BY GoneStays DEF LoadAt, DataLoad, Loading, Gone
<1>3. \A i, j \in DOMAIN toLogin'[z] : i + c = j + c => i = j
  OBVIOUS
<1>4. \A i, j \in DOMAIN toLogin'[z] : j + c < i + c => j < i
  OBVIOUS
<1>5. \A i, j \in DOMAIN toZone'[z] : i + d = j + d => i = j
  OBVIOUS
<1>6. GetsFirst(z)'
  BY <1>3, <1>4 DEF LoadAt, GetsFirst
<1>7. DataOnce(z)'
  BY <1>5 DEF LoadAt, DataOnce
<1> QED  BY <1>1, <1>2, <1>6, <1>7 DEF LoadAt

LEMMA LoadApart ==
  ASSUME TypeInv, NoReturn, NEW z \in Zones, LoadAt(z), Apart(z)
  PROVE  LoadAt(z)'
<1>1. toLogin[z] \in Seq(ToLogin) /\ toZone[z] \in Seq(ToZone)
  BY DEF TypeInv, TypeOK
<1>2. \A i \in DOMAIN toLogin[z] : i \in Nat /\ i + 0 = i
  BY <1>1
<1>3. \A i \in DOMAIN toZone[z] : i \in Nat /\ i + 0 = i
  BY <1>1
<1> QED  BY <1>2, <1>3, LoadShrinks DEF Apart

(* A check or a logout is sent.                                            *)
LEMMA LoadAppends ==
  ASSUME TypeInv, NoReturn, NEW z \in Zones, LoadAt(z), NEW e \in ToLogin, e.kind # "get",
         toLogin'[z] = Append(toLogin[z], e), toZone'[z] = toZone[z],
         \A i \in DOMAIN toLogin[z] : toLogin[z][i].kind = "get" =>
           /\ object'[z][toLogin[z][i].account] = object[z][toLogin[z][i].account]
           /\ e.kind = "logout" => toLogin[z][i].account # e.account,
         \A i \in DOMAIN toZone[z] : toZone[z][i].kind = "data" =>
           object'[z][toZone[z][i].account] = object[z][toZone[z][i].account]
  PROVE  LoadAt(z)'
<1> DEFINE n == Len(toLogin[z]) + 1
<1>1. /\ n \in Nat /\ DOMAIN toLogin[z] = 1..(n - 1) /\ DOMAIN toLogin'[z] = 1..n
      /\ \A i \in DOMAIN toLogin[z] : toLogin'[z][i] = toLogin[z][i]
      /\ toLogin'[z][n] = e
  BY AppendIs DEF TypeInv, TypeOK
<1> HIDE DEF n
<1>2. \A i \in DOMAIN toLogin'[z] :
        \/ i = n /\ i \notin DOMAIN toLogin[z]
        \/ i # n /\ i \in DOMAIN toLogin[z] /\ i < n
  BY <1>1
<1>3. \A i \in DOMAIN toLogin'[z] : toLogin'[z][i].kind = "get" =>
        i \in DOMAIN toLogin[z] /\ ~(n < i)
  BY <1>1
<1>4. GetsLoad(z)'
  BY <1>1, <1>2, <1>3, GoneStays DEF LoadAt, GetsLoad, Loading, Gone
<1>5. DataLoad(z)'
  BY GoneStays DEF LoadAt, DataLoad, Loading, Gone
<1>6. GetsFirst(z)'
  BY <1>1, <1>2, <1>3 DEF LoadAt, GetsFirst
<1>7. DataOnce(z)'
  BY <1>1, <1>3 DEF LoadAt, DataOnce
<1> QED  BY <1>4, <1>5, <1>6, <1>7 DEF LoadAt

LEMMA LoadOthers ==
  ASSUME TypeInv, NoReturn, LoadInv, restarted \subseteq restarted',
         NEW z \in Zones, Up(z)' => LoadAt(z)', \A y \in Zones \ {z} : Apart(y)
  PROVE  LoadInv'
BY LoadApart DEF LoadInv, Up

LEMMA LoadUntouched ==
  ASSUME TypeInv, NoReturn, LoadInv, UNCHANGED <<toLogin, toZone, object, restarted>>
  PROVE  LoadInv'
BY LoadApart DEF LoadInv, Up, Apart

LEMMA CheckLoads ==
  ASSUME TypeInv, NoReturn, NEW z \in Zones, LoadAt(z),
         NEW m \in ToLogin, NEW r \in ToZone, Checked(z, m, r)
  PROVE  LoadAt(z)'
<1> DEFINE n == Len(toZone[z]) + 1
<1>1. /\ toLogin[z] \in Seq(ToLogin) /\ toZone[z] \in Seq(ToZone)
      /\ toLogin[z] # <<>> /\ toLogin'[z] = Tail(toLogin[z])
      /\ toZone'[z] = Append(toZone[z], r) /\ object' = object /\ visit' = visit
  BY DEF TypeInv, TypeOK, Checked
<1>2. /\ n \in Nat /\ DOMAIN toZone[z] = 1..(n - 1) /\ DOMAIN toZone'[z] = 1..n
      /\ \A i \in DOMAIN toZone[z] : toZone'[z][i] = toZone[z][i]
      /\ toZone'[z][n] = r
  BY <1>1, AppendIs
<1>3. /\ 1 \in DOMAIN toLogin[z] /\ m = toLogin[z][1]
      /\ \A i \in DOMAIN toLogin'[z] : /\ i \in Nat /\ i + 1 \in DOMAIN toLogin[z] /\ 1 < i + 1
                                       /\ toLogin'[z][i] = toLogin[z][i + 1]
  BY <1>1, TailIs DEF Checked
<1>4. /\ m.kind = "check" /\ r.kind # "data" /\ r.account = m.account /\ r.link = m.link
  BY DEF Checked
<1> HIDE DEF n
<1>5. \A i \in DOMAIN toZone'[z] :
        \/ i = n /\ i \notin DOMAIN toZone[z]
        \/ i # n /\ i \in DOMAIN toZone[z] /\ i < n
  BY <1>2
<1>6. \A i \in DOMAIN toZone'[z] : toZone'[z][i].kind = "data" =>
        i \in DOMAIN toZone[z] /\ ~(n < i)
  BY <1>2, <1>4
<1>7. GetsLoad(z)'
  <2>1. ASSUME NEW i \in DOMAIN toLogin'[z], toLogin'[z][i].kind = "get",
               ~Loading(z, toLogin[z][i + 1])
        PROVE  LET a == toLogin'[z][i].account
               IN /\ object[z][a] = NoPlayer
                  /\ \A j \in DOMAIN toLogin'[z] : j < i => Gone(toLogin'[z][j], "check", a)
                  /\ \A j \in DOMAIN toZone'[z] : Gone(toZone'[z][j], "rebound", a)
    <3> DEFINE a == toLogin'[z][i].account
    <3>1. /\ i + 1 \in DOMAIN toLogin[z] /\ toLogin[z][i + 1].kind = "get"
          /\ toLogin[z][i + 1].account = a
      BY <1>3, <2>1
    <3>2. /\ object[z][a] = NoPlayer
          /\ \A j \in DOMAIN toLogin[z] : j < i + 1 => Gone(toLogin[z][j], "check", a)
          /\ \A j \in DOMAIN toZone[z] : Gone(toZone[z][j], "rebound", a)
      BY <2>1, <3>1 DEF LoadAt, GetsLoad
    <3> HIDE DEF a
    <3>3. \A j \in DOMAIN toLogin'[z] : j < i => Gone(toLogin'[z][j], "check", a)
      BY <1>3, <3>2
    <3>4. Gone(r, "rebound", a)
      BY <1>3, <1>4, <3>2 DEF Gone
    <3> QED  BY <1>2, <1>5, <3>2, <3>3, <3>4 DEF a
  <2> QED  BY <1>1, <1>3, <2>1 DEF GetsLoad, Loading, Gone
<1>8. DataLoad(z)'
  <2>1. ASSUME NEW i \in DOMAIN toZone'[z], toZone'[z][i].kind = "data",
               ~Loading(z, toZone'[z][i])
        PROVE  LET a == toZone'[z][i].account
               IN /\ object[z][a] = NoPlayer
                  /\ \A j \in DOMAIN toZone'[z] : j < i => Gone(toZone'[z][j], "rebound", a)
    <3>1. i \in DOMAIN toZone[z] /\ toZone'[z][i] = toZone[z][i]
      BY <1>2, <1>6, <2>1
    <3>2. \A j \in DOMAIN toZone'[z] : j < i =>
            j \in DOMAIN toZone[z] /\ toZone'[z][j] = toZone[z][j]
      BY <1>2, <1>5, <1>6, <2>1
    <3> QED  BY <2>1, <3>1, <3>2 DEF LoadAt, DataLoad
  <2> QED  BY <1>1, <2>1 DEF DataLoad, Loading, Gone
<1>9. \A i, j \in DOMAIN toLogin'[z] :
        /\ i + 1 = j + 1 => i = j
        /\ j + 1 < i + 1 => j < i
  BY <1>3
<1>10. GetsFirst(z)'
  BY <1>3, <1>9 DEF LoadAt, GetsFirst
<1>11. DataOnce(z)'
  BY <1>2, <1>3, <1>6 DEF LoadAt, DataOnce
<1> QED  BY <1>7, <1>8, <1>10, <1>11 DEF LoadAt

LEMMA SendDataLoads ==
  ASSUME TypeInv, NoReturn, NEW z \in Zones, LoadAt(z), NEW m \in ToLogin, DataSent(z, m)
  PROVE  LoadAt(z)'
<1>1. /\ toLogin[z] \in Seq(ToLogin) /\ toZone[z] \in Seq(ToZone)
      /\ toLogin[z] # <<>> /\ toLogin'[z] = Tail(toLogin[z])
      /\ object' = object /\ visit' = visit
  BY DEF TypeInv, TypeOK, DataSent
<1>2. /\ 1 \in DOMAIN toLogin[z] /\ m = toLogin[z][1] /\ m.kind = "get"
      /\ \A i \in DOMAIN toLogin'[z] : /\ i \in Nat /\ i + 1 \in DOMAIN toLogin[z] /\ i + 1 # 1
                                       /\ toLogin'[z][i] = toLogin[z][i + 1]
  BY <1>1, TailIs DEF DataSent
<1>3. CASE toZone'[z] = toZone[z]
  <2>1. \A i \in DOMAIN toZone'[z] :
          i \in Nat /\ i + 0 \in DOMAIN toZone[z] /\ toZone'[z][i] = toZone[z][i + 0]
    BY <1>1, <1>3
  <2> QED  BY <1>1, <1>2, <2>1, LoadShrinks
<1>4. ASSUME NEW r \in ToZone, toZone'[z] = Append(toZone[z], r), r.kind = "data",
             r.account = m.account, r.gid = m.gid
      PROVE  LoadAt(z)'
  <2> DEFINE n == Len(toZone[z]) + 1
  <2>1. /\ n \in Nat /\ DOMAIN toZone[z] = 1..(n - 1) /\ DOMAIN toZone'[z] = 1..n
        /\ \A i \in DOMAIN toZone[z] : toZone'[z][i] = toZone[z][i]
        /\ toZone'[z][n] = r
    BY <1>1, <1>4, AppendIs
  <2> HIDE DEF n
  <2>2. \A i \in DOMAIN toZone'[z] : /\ i \in Nat /\ i <= n
                                     /\ i # n => i \in DOMAIN toZone[z]
    BY <2>1
  <2>3. \A i, j \in DOMAIN toZone'[z] : j < i => j # n
    BY <2>1
  <2>4. GetsLoad(z)'
    <3>1. ASSUME NEW i \in DOMAIN toLogin'[z], toLogin'[z][i].kind = "get",
                 ~Loading(z, toLogin'[z][i])
          PROVE  LET a == toLogin'[z][i].account
                 IN /\ object[z][a] = NoPlayer
                    /\ \A j \in DOMAIN toLogin'[z] : j < i => Gone(toLogin'[z][j], "check", a)
                    /\ \A j \in DOMAIN toZone'[z] : Gone(toZone'[z][j], "rebound", a)
      <4> DEFINE a == toLogin'[z][i].account
      <4>1. /\ i + 1 \in DOMAIN toLogin[z] /\ toLogin[z][i + 1] = toLogin'[z][i]
        BY <1>2
      <4>2. /\ object[z][a] = NoPlayer
            /\ \A j \in DOMAIN toLogin[z] : j < i + 1 => Gone(toLogin[z][j], "check", a)
            /\ \A j \in DOMAIN toZone[z] : Gone(toZone[z][j], "rebound", a)
        BY <3>1, <4>1 DEF LoadAt, GetsLoad
      <4> HIDE DEF a
      <4>3. \A j \in DOMAIN toLogin'[z] : j < i => Gone(toLogin'[z][j], "check", a)
        BY <1>2, <4>2
      <4>4. Gone(r, "rebound", a)
        BY <1>4 DEF Gone
      <4> QED  BY <2>1, <2>2, <4>2, <4>3, <4>4 DEF a
    <3> QED  BY <1>1, <3>1 DEF GetsLoad, Loading, Gone
  <2>5. DataLoad(z)'
    <3>1. ASSUME NEW i \in DOMAIN toZone'[z], toZone'[z][i].kind = "data",
                 ~Loading(z, toZone'[z][i])
          PROVE  LET a == toZone'[z][i].account
                 IN /\ object[z][a] = NoPlayer
                    /\ \A j \in DOMAIN toZone'[z] : j < i => Gone(toZone'[z][j], "rebound", a)
      <4>1. \A j \in DOMAIN toZone'[z] : j < i =>
              j \in DOMAIN toZone[z] /\ toZone'[z][j] = toZone[z][j]
        BY <2>1, <2>2, <2>3
      <4>2. CASE i # n
        <5>1. i \in DOMAIN toZone[z] /\ toZone'[z][i] = toZone[z][i]
          BY <2>1, <2>2, <4>2
        <5> QED  BY <3>1, <4>1, <5>1 DEF LoadAt, DataLoad
      <4>3. CASE i = n
        <5>1. ~Loading(z, m) /\ r.account = m.account /\ toZone'[z][i] = r
          BY <1>4, <2>1, <3>1, <4>3 DEF Loading
        <5>2. /\ object[z][m.account] = NoPlayer
              /\ \A j \in DOMAIN toZone[z] : Gone(toZone[z][j], "rebound", m.account)
          BY <1>2, <5>1 DEF LoadAt, GetsLoad
        <5> QED  BY <4>1, <5>1, <5>2
      <4> QED  BY <4>2, <4>3
    <3> QED  BY <1>1, <3>1 DEF DataLoad, Loading, Gone
  <2>6. \A i, j \in DOMAIN toLogin'[z] :
          /\ i + 1 = j + 1 => i = j
          /\ j + 1 < i + 1 => j < i
    BY <1>2
  <2>7. GetsFirst(z)'
    BY <1>2, <2>6 DEF LoadAt, GetsFirst
  <2>8. \A i \in DOMAIN toZone[z] : toZone[z][i].kind = "data" =>
          toZone[z][i].account # m.account
    BY <1>2 DEF LoadAt, DataOnce
  <2>9. \A i \in DOMAIN toLogin'[z] : toLogin'[z][i].kind = "get" =>
          toLogin'[z][i].account # m.account
    BY <1>2 DEF LoadAt, GetsFirst
  <2>10. DataOnce(z)'
    BY <1>2, <1>4, <2>1, <2>2, <2>8, <2>9 DEF LoadAt, DataOnce
  <2> QED  BY <2>4, <2>5, <2>7, <2>10 DEF LoadAt
<1> QED  BY <1>3, <1>4 DEF DataSent

(* A client that was let in: only a player it makes asks for its data.     *)
LEMMA AnsweredLoads ==
  ASSUME TypeInv, NoReturn, NEW z \in Zones, LoadAt(z), NEW m \in ToZone, Answered(z, m)
  PROVE  LoadAt(z)'
<1>1. /\ toLogin[z] \in Seq(ToLogin) /\ toZone[z] \in Seq(ToZone)
      /\ toZone[z] # <<>> /\ toZone'[z] = Tail(toZone[z])
  BY DEF TypeInv, TypeOK, Answered
<1>2. /\ 1 \in DOMAIN toZone[z] /\ m = toZone[z][1] /\ m.link \in Links
      /\ \A i \in DOMAIN toZone'[z] : /\ i \in Nat /\ i + 1 \in DOMAIN toZone[z] /\ 1 < i + 1
                                      /\ toZone'[z][i] = toZone[z][i + 1]
  BY <1>1, TailIs, ToZoneFields DEF Answered
<1>3. CASE UNCHANGED <<object, toLogin>>
  <2>1. \A i \in DOMAIN toLogin'[z] :
          i \in Nat /\ i + 0 \in DOMAIN toLogin[z] /\ toLogin'[z][i] = toLogin[z][i + 0]
    BY <1>1, <1>3
  <2> QED  BY <1>2, <1>3, <2>1, LoadShrinks
<1>4. CASE ~UNCHANGED <<object, toLogin>>
  <2>1. /\ m.kind = "rebound" /\ visit[m.link] # NoVisit
        /\ object[z][m.account] = NoPlayer
        /\ object'[z][m.account] # NoPlayer
        /\ object'[z][m.account].gid = m.gid /\ ~object'[z][m.account].init
        /\ \A b \in Accounts \ {m.account} : object'[z][b] = object[z][b]
    BY <1>4, NullAssumption DEF Answered
  <2>2. PICK g \in ToLogin : /\ toLogin'[z] = Append(toLogin[z], g)
                             /\ g.kind = "get" /\ g.account = m.account /\ g.gid = m.gid
    BY <1>4 DEF Answered
  <2> DEFINE n == Len(toLogin[z]) + 1
  <2>3. /\ n \in Nat /\ DOMAIN toLogin[z] = 1..(n - 1) /\ DOMAIN toLogin'[z] = 1..n
        /\ \A i \in DOMAIN toLogin[z] : toLogin'[z][i] = toLogin[z][i]
        /\ toLogin'[z][n] = g
    BY <1>1, <2>2, AppendIs
  <2> HIDE DEF n
  <2>4. \A i \in DOMAIN toLogin'[z] : /\ i \in Nat /\ i <= n
                                      /\ i # n => i \in DOMAIN toLogin[z] /\ i < n
    BY <2>3
  <2>5. ~Gone(m, "rebound", m.account)
    BY <2>1 DEF Gone
  <2>6. \A i \in DOMAIN toLogin[z] : toLogin[z][i].kind = "get" =>
          toLogin[z][i].account # m.account
    BY <1>2, <2>1, <2>5 DEF LoadAt, GetsLoad, Loading
  <2>7. \A i \in DOMAIN toZone'[z] : toZone'[z][i].kind = "data" =>
          toZone'[z][i].account # m.account
    BY <1>2, <2>1, <2>5 DEF LoadAt, DataLoad, Loading
  <2>8. GetsLoad(z)'
    <3>1. ASSUME NEW i \in DOMAIN toLogin'[z], toLogin'[z][i].kind = "get"
          PROVE  LET a == toLogin'[z][i].account
                 IN \/ Loading(z, toLogin[z][i])'
                    \/ /\ object'[z][a] = NoPlayer
                       /\ \A j \in DOMAIN toLogin'[z] :
                            j < i /\ toLogin'[z][j].kind = "check"
                              /\ toLogin'[z][j].account = a =>
                                 visit'[toLogin'[z][j].link] = NoVisit
                       /\ \A j \in DOMAIN toZone'[z] :
                            toZone'[z][j].kind = "rebound" /\ toZone'[z][j].account = a =>
                              visit'[toZone'[z][j].link] = NoVisit
      <4> DEFINE a == toLogin'[z][i].account
      <4>1. CASE i = n
        <5>1. Loading(z, toLogin[z][i])'
          BY <2>1, <2>2, <2>3, <4>1 DEF Loading
        <5> QED  BY <5>1
      <4>2. CASE i # n
        <5>1. i \in DOMAIN toLogin[z] /\ toLogin[z][i] = toLogin'[z][i]
          BY <2>3, <2>4, <4>2
        <5>2. a \in Accounts /\ a # m.account
          BY <1>1, <2>6, <3>1, <5>1, ToLoginFields
        <5>3. object'[z][a] = object[z][a]
          BY <2>1, <5>2
        <5>4. CASE Loading(z, toLogin[z][i])
          <6>1. Loading(z, toLogin[z][i])'
            BY <5>1, <5>3, <5>4 DEF Loading
          <6> QED  BY <6>1
        <5>5. CASE ~Loading(z, toLogin[z][i])
          <6>1. /\ object[z][a] = NoPlayer
                /\ \A j \in DOMAIN toLogin[z] : j < i => Gone(toLogin[z][j], "check", a)
                /\ \A j \in DOMAIN toZone[z] : Gone(toZone[z][j], "rebound", a)
            BY <3>1, <5>1, <5>5 DEF LoadAt, GetsLoad
          <6>2. \A j \in DOMAIN toLogin'[z] : j < i =>
                  j \in DOMAIN toLogin[z] /\ toLogin'[z][j] = toLogin[z][j]
            BY <2>3, <2>4
          <6> HIDE DEF a
          <6>3. \A j \in DOMAIN toLogin'[z] :
                  j < i /\ toLogin'[z][j].kind = "check" /\ toLogin'[z][j].account = a =>
                    visit'[toLogin'[z][j].link] = NoVisit
            BY <6>1, <6>2, GoneStays DEF Gone
          <6>4. \A j \in DOMAIN toZone'[z] :
                  toZone'[z][j].kind = "rebound" /\ toZone'[z][j].account = a =>
                    visit'[toZone'[z][j].link] = NoVisit
            BY <1>2, <6>1, GoneStays DEF Gone
          <6> QED  BY <5>3, <6>1, <6>3, <6>4 DEF a
        <5> QED  BY <5>4, <5>5
      <4> QED  BY <4>1, <4>2
    <3> QED  BY <3>1 DEF GetsLoad, Gone
  <2>9. DataLoad(z)'
    <3>1. \A i \in DOMAIN toZone'[z] : toZone'[z][i].kind = "data" =>
            object'[z][toZone'[z][i].account] = object[z][toZone'[z][i].account]
      BY <1>1, <1>2, <2>1, <2>7, ToZoneFields
    <3> QED  BY <1>2, <3>1, GoneStays DEF LoadAt, DataLoad, Loading, Gone
  <2>10. GetsFirst(z)'
    BY <2>2, <2>3, <2>4, <2>6 DEF LoadAt, GetsFirst
  <2>11. \A i, j \in DOMAIN toZone'[z] : i + 1 = j + 1 => i = j
    BY <1>2
  <2>12. DataOnce(z)'
    <3>1. \A i \in DOMAIN toLogin'[z], j \in DOMAIN toZone'[z] :
            toLogin'[z][i].kind = "get" /\ toZone'[z][j].kind = "data" =>
              toLogin'[z][i].account # toZone'[z][j].account
      BY <1>2, <2>2, <2>3, <2>4, <2>7 DEF LoadAt, DataOnce
    <3>2. \A i, j \in DOMAIN toZone'[z] :
            toZone'[z][i].kind = "data" /\ toZone'[z][j].kind = "data"
              /\ toZone'[z][j].account = toZone'[z][i].account => i = j
      BY <1>2, <2>11 DEF LoadAt, DataOnce
    <3> QED  BY <3>1, <3>2 DEF DataOnce
  <2> QED  BY <2>8, <2>9, <2>10, <2>12 DEF LoadAt
<1> QED  BY <1>3, <1>4

(* The data is for the player that waits for it, and nobody else's data is *)
(* touched.                                                                *)
LEMMA DataIsOwn ==
  ASSUME TypeInv, PassInv, OwnCharacter, NEW z \in Zones, Up(z),
         NEW m \in ToZone, DataTaken(z, m)
  PROVE  \/ object'[z] = object[z]
         \/ /\ object[z][m.account] # NoPlayer /\ object'[z][m.account].init
            /\ object'[z][m.account] # NoPlayer
            /\ object'[z][m.account].gid = object[z][m.account].gid
            /\ \A c \in Accounts \ {m.account} : object'[z][c] = object[z][c]
<1>1. m.link \in Links /\ m.account \in Accounts /\ m.gid \in Nat
  BY ToZoneFields
<1>2. CASE UNCHANGED object
  BY <1>2
<1>3. ASSUME NEW b \in Accounts,
             IF Bound(m.link) THEN b = visit[m.link].player ELSE b \in WithGid(z, m.gid)
      PROVE  b = m.account
  <2>1. CASE Bound(m.link)
    BY <1>1, <1>3, <2>1 DEF Bound, DataTaken, Agrees, OwnCharacter, Up
  <2>2. CASE ~Bound(m.link)
    <3>1. toZone[z] \in Seq(ToZone)
      BY DEF TypeInv, TypeOK
    <3>2. Pass(ServerOf[z], m.account, m.gid, z)
      BY <3>1, HeadAndTail, MessagePasses DEF DataTaken
    <3>3. Pass(ServerOf[z], b, m.gid, z)
      BY <1>3, <2>2, MessagePasses DEF WithGid
    <3> QED  BY <1>1, <3>2, <3>3, SessionAssumption DEF PassInv, Up
  <2> QED  BY <2>1, <2>2
<1> QED  BY <1>2, <1>3, NullAssumption DEF DataTaken

LEMMA DataLoads ==
  ASSUME TypeInv, PassInv, OwnCharacter, NoReturn, NEW z \in Zones, Up(z), LoadAt(z),
         NEW m \in ToZone, DataTaken(z, m)
  PROVE  LoadAt(z)'
<1>1. /\ toLogin[z] \in Seq(ToLogin) /\ toZone[z] \in Seq(ToZone)
      /\ toZone[z] # <<>> /\ toZone'[z] = Tail(toZone[z]) /\ toLogin' = toLogin
  BY DEF TypeInv, TypeOK, DataTaken
<1>2. /\ 1 \in DOMAIN toZone[z] /\ m = toZone[z][1] /\ m.kind = "data"
      /\ \A i \in DOMAIN toZone'[z] : /\ i \in Nat /\ i + 1 \in DOMAIN toZone[z] /\ i + 1 # 1
                                      /\ toZone'[z][i] = toZone[z][i + 1]
  BY <1>1, TailIs DEF DataTaken
<1>3. \A i \in DOMAIN toLogin'[z] :
        i \in Nat /\ i + 0 \in DOMAIN toLogin[z] /\ toLogin'[z][i] = toLogin[z][i + 0]
  BY <1>1
<1>4. \A c \in Accounts \ {m.account} : object'[z][c] = object[z][c]
  BY DataIsOwn
<1>5. \A i \in DOMAIN toLogin'[z] : toLogin'[z][i].kind = "get" =>
        object'[z][toLogin'[z][i].account] = object[z][toLogin'[z][i].account]
  BY <1>1, <1>2, <1>4, ToLoginFields DEF LoadAt, DataOnce
<1>6. \A i \in DOMAIN toZone'[z] : toZone'[z][i].kind = "data" =>
        object'[z][toZone'[z][i].account] = object[z][toZone'[z][i].account]
  BY <1>1, <1>2, <1>4, ToZoneFields DEF LoadAt, DataOnce
<1> QED  BY <1>2, <1>3, <1>5, <1>6, LoadShrinks

(* Who plays has its data, and asks no more.                               *)
LEMMA LogoutLoads ==
  ASSUME TypeInv, NoReturn, NEW z \in Zones, LoadAt(z), NEW a \in Accounts,
         NEW m \in ToLogin, LoggedOut(z, a, m)
  PROVE  LoadAt(z)'
<1>1. /\ \A i \in DOMAIN toLogin[z] : toLogin[z][i].account \in Accounts
      /\ \A i \in DOMAIN toZone[z] : toZone[z][i].account \in Accounts
  BY ToLoginFields, ToZoneFields DEF TypeInv, TypeOK
<1>2. object[z][a] # NoPlayer /\ object[z][a].init
  BY DEF LoggedOut, Plays
<1>3. /\ m.kind = "logout" /\ m.account = a
      /\ toLogin'[z] = Append(toLogin[z], m) /\ toZone'[z] = toZone[z]
      /\ \A b \in Accounts \ {a} : object'[z][b] = object[z][b]
  BY DEF LoggedOut
<1>4. \A i \in DOMAIN toLogin[z] : toLogin[z][i].kind = "get" => toLogin[z][i].account # a
  BY <1>2 DEF LoadAt, GetsLoad, Loading
<1>5. \A i \in DOMAIN toZone[z] : toZone[z][i].kind = "data" => toZone[z][i].account # a
  BY <1>2 DEF LoadAt, DataLoad, Loading
<1> QED  BY <1>1, <1>3, <1>4, <1>5, LoadAppends

LEMMA ZoneFaultLoads ==
  ASSUME TypeInv, NoReturn, NEW z \in Zones, LoadAt(z), BreakZone(z) \/ CrashZone(z)
  PROVE  LoadAt(z)'
<1>1. PICK q \in Seq(ToLogin) : LinkGone(z, q)
  BY LinkLostDoes DEF BreakZone, CrashZone
<1>2. /\ toZone'[z] = <<>>
      /\ \A i \in DOMAIN toLogin'[z] :
           /\ i \in Nat /\ i + 0 \in DOMAIN toLogin[z] /\ toLogin'[z][i] = toLogin[z][i + 0]
  BY <1>1 DEF LinkGone
<1>3. CASE BreakZone(z)
  <2>1. object' = object
    BY <1>3 DEF BreakZone
  <2> QED  BY <1>2, <2>1, LoadShrinks
<1>4. CASE CrashZone(z)
  <2>1. /\ \A b \in Accounts : object'[z][b] = NoPlayer
        /\ \A k \in Links : visit[k] # NoVisit /\ visit[k].zone = z => visit'[k] = NoVisit
        /\ \A k \in Links : visit[k] = NoVisit => visit'[k] = NoVisit
    BY <1>4 DEF CrashZone, TypeInv, TypeOK
  <2>2. \A i \in DOMAIN toLogin[z] : toLogin[z][i] \in ToLogin
    BY DEF TypeInv, TypeOK
  <2>3. \A i \in DOMAIN toLogin'[z] : toLogin'[z][i].kind = "check" =>
          visit'[toLogin'[z][i].link] = NoVisit
    BY <1>2, <2>1, <2>2, ToLoginFields DEF TypeInv, VisitInv, Agrees
  <2>4. \A i \in DOMAIN toLogin'[z] : toLogin'[z][i].account \in Accounts
    BY <1>2, <2>2, ToLoginFields
  <2>5. GetsLoad(z)'
    BY <1>2, <2>1, <2>3, <2>4 DEF GetsLoad, Gone
  <2>6. DataLoad(z)' /\ DataOnce(z)'
    BY <1>2 DEF DataLoad, DataOnce
  <2>7. GetsFirst(z)'
    BY <1>2 DEF LoadAt, GetsFirst
  <2> QED  BY <2>5, <2>6, <2>7 DEF LoadAt
<1> QED  BY <1>3, <1>4

LEMMA UpdateLoads ==
  ASSUME TypeInv, NoReturn, NEW z \in Zones, LoadAt(z), NEW m \in ToLogin, NEW s \in Servers,
         Updated(z, m, s)
  PROVE  LoadAt(z)'
<1>1. /\ toLogin[z] \in Seq(ToLogin) /\ toZone[z] \in Seq(ToZone) /\ toLogin[z] # <<>>
      /\ toLogin'[z] = Tail(toLogin[z]) /\ toZone' = toZone /\ object' = object
  BY DEF TypeInv, TypeOK, Updated
<1>2. \A i \in DOMAIN toLogin'[z] :
        i \in Nat /\ i + 1 \in DOMAIN toLogin[z] /\ toLogin'[z][i] = toLogin[z][i + 1]
  BY <1>1, TailIs
<1>3. \A i \in DOMAIN toZone'[z] :
        i \in Nat /\ i + 0 \in DOMAIN toZone[z] /\ toZone'[z][i] = toZone[z][i + 0]
  BY <1>1
<1> QED  BY <1>1, <1>2, <1>3, LoadShrinks

(* The steps of a zone server and about it.                                *)
LEMMA ZoneLoads ==
  ASSUME TypeInv, PassInv, OwnCharacter, NoReturn, LoadInv, NEW z \in Zones,
         \/ DoCheckRebind(z) \/ SendPlayerData(z) \/ UpdatePlayerData(z)
         \/ RecvCheckRebind(z) \/ SetPlayerData(z) \/ \E a \in Accounts : Logout(z, a)
  PROVE  LoadInv'
<1>1. Up(z) => LoadAt(z)
  BY DEF LoadInv
<1>2. CASE DoCheckRebind(z)
  <2>1. PICK m \in ToLogin, r \in ToZone : Checked(z, m, r)
    BY <1>2, CheckDoes
  <2>2. UNCHANGED restarted /\ \A y \in Zones \ {z} : Apart(y)
    BY <2>1 DEF Checked, outside
  <2>3. Up(z)' => LoadAt(z)'
    BY <1>1, <2>1, <2>2, CheckLoads DEF Up
  <2> QED  BY <2>2, <2>3, LoadOthers
<1>3. CASE SendPlayerData(z)
  <2>1. PICK m \in ToLogin : DataSent(z, m)
    BY <1>3, SendDataDoes
  <2>2. UNCHANGED restarted /\ \A y \in Zones \ {z} : Apart(y)
    BY <2>1 DEF DataSent, outside
  <2>3. Up(z)' => LoadAt(z)'
    BY <1>1, <2>1, <2>2, SendDataLoads DEF Up
  <2> QED  BY <2>2, <2>3, LoadOthers
<1>4. CASE UpdatePlayerData(z)
  <2>1. PICK m \in ToLogin, s \in Servers : Updated(z, m, s)
    BY <1>4, UpdateDoes
  <2>2. UNCHANGED restarted /\ \A y \in Zones \ {z} : Apart(y)
    BY <2>1 DEF Updated, outside
  <2>3. Up(z)' => LoadAt(z)'
    BY <1>1, <2>1, <2>2, UpdateLoads DEF Up
  <2> QED  BY <2>2, <2>3, LoadOthers
<1>5. CASE RecvCheckRebind(z)
  <2>1. PICK m \in ToZone : Answered(z, m)
    BY <1>5, AnsweredDoes
  <2>2. UNCHANGED restarted /\ \A y \in Zones \ {z} : Apart(y)
    BY <2>1 DEF Answered, outside
  <2>3. Up(z)' => LoadAt(z)'
    BY <1>1, <2>1, <2>2, AnsweredLoads DEF Up
  <2> QED  BY <2>2, <2>3, LoadOthers
<1>6. CASE SetPlayerData(z)
  <2>1. PICK m \in ToZone : DataTaken(z, m)
    BY <1>6, DataDoes
  <2>2. UNCHANGED restarted /\ \A y \in Zones \ {z} : Apart(y)
    BY <2>1 DEF DataTaken, outside
  <2>3. Up(z)' => LoadAt(z)'
    BY <1>1, <2>1, <2>2, DataLoads DEF Up
  <2> QED  BY <2>2, <2>3, LoadOthers
<1>7. ASSUME NEW a \in Accounts, Logout(z, a)
      PROVE  LoadInv'
  <2>1. PICK m \in ToLogin : LoggedOut(z, a, m)
    BY <1>7, LogoutDoes
  <2>2. UNCHANGED restarted /\ \A y \in Zones \ {z} : Apart(y)
    BY <2>1 DEF LoggedOut, outside
  <2>3. Up(z)' => LoadAt(z)'
    BY <1>1, <2>1, <2>2, LogoutLoads DEF Up
  <2> QED  BY <2>2, <2>3, LoadOthers
<1> QED  BY <1>2, <1>3, <1>4, <1>5, <1>6, <1>7

LEMMA ConnectLoads ==
  ASSUME TypeInv, NoReturn, LoadInv, NEW l \in Links, QuestCheckRebind(l)
  PROVE  LoadInv'
<1>1. PICK z \in Zones, m \in ToLogin : Connected(l, z, m)
  BY ConnectDoes
<1>2. UNCHANGED restarted /\ \A y \in Zones \ {z} : Apart(y)
  BY <1>1 DEF Connected, outside
<1>3. /\ m.kind = "check" /\ toLogin'[z] = Append(toLogin[z], m) /\ toZone' = toZone
      /\ object' = object
  BY <1>1 DEF Connected
<1>4. Up(z)' => LoadAt(z)'
  BY <1>2, <1>3, LoadAppends DEF Up, LoadInv
<1> QED  BY <1>2, <1>4, LoadOthers

LEMMA RestartLoads ==
  ASSUME TypeInv, NoReturn, LoadInv, NEW s \in Servers, CrashLogin(s) \/ Destroy(s)
  PROVE  LoadInv'
<1>1. PICK q : StartAgain(s, q)
  BY DEF CrashLogin, Destroy
<1>2. /\ toLogin' = [z \in Zones |-> IF ServerOf[z] = s THEN <<>> ELSE toLogin[z]]
      /\ toZone' = [z \in Zones |-> IF ServerOf[z] = s THEN <<>> ELSE toZone[z]]
      /\ restarted' = restarted \cup {s} /\ UNCHANGED object
  BY <1>1 DEF StartAgain
<1>3. \A z \in Zones : Up(z)' => Up(z) /\ Apart(z)
  BY <1>2 DEF Up, Apart
<1> QED  BY <1>3, LoadApart DEF LoadInv

LEMMA LoadNext ==
  ASSUME TypeInv, IInv, PassInv, OwnCharacter, LoadInv, [Next]_vars
  PROVE  LoadInv'
<1>1. NoReturn
  BY NobodyReturns
<1>2. CASE UNCHANGED vars
  BY <1>1, <1>2, LoadUntouched DEF vars, zoneVars, ghostVars
<1>3. CASE Next
  <2>1. ASSUME NEW l \in Links, NEW s \in Servers, NEW a \in Accounts, PlayerLogin(l, s, a)
        PROVE  LoadInv'
    BY <1>1, <2>1, LoadUntouched DEF PlayerLogin, ghostVars
  <2>2. ASSUME NEW l \in Links, \/ Break(l) \/ Closed(l) \/ Reselect(l)
                                \/ QuestCheckRebind(l) \/ Leave(l)
        PROVE  LoadInv'
    <3>1. CASE Break(l) \/ Closed(l) \/ Reselect(l) \/ Leave(l)
      BY <1>1, <3>1, LoadUntouched DEF Break, Closed, Reselect, Leave, ghostVars, zoneVars
    <3> QED  BY <1>1, <2>2, <3>1, ConnectLoads
  <2>3. ASSUME NEW s \in Servers, \/ RecvGetCharacterList(s) \/ RecvGetCharacter(s)
                                  \/ DbReceive(s) \/ ReconnectDb(s)
        PROVE  LoadInv'
    BY <1>1, <2>3, LoadUntouched
    DEF RecvGetCharacterList, RecvGetCharacter, DbReceive, ReconnectDb, ghostVars, zoneVars
  <2>4. ASSUME NEW a \in Accounts, DbExecute(a) \/ DbRemove(a)
        PROVE  LoadInv'
    BY <1>1, <2>4, LoadUntouched DEF DbExecute, DbRemove, ghostVars, zoneVars
  <2>5. ASSUME NEW z \in Zones,
               \/ DoCheckRebind(z) \/ SendPlayerData(z) \/ UpdatePlayerData(z)
               \/ RecvCheckRebind(z) \/ SetPlayerData(z)
               \/ \E a \in Accounts : Logout(z, a)
        PROVE  LoadInv'
    BY <1>1, <2>5, ZoneLoads
  <2>6. CASE Faults
    <3>1. ASSUME CrashDb \/ \E s \in Servers : BreakDb(s)
          PROVE  LoadInv'
      BY <1>1, <3>1, LoadUntouched DEF CrashDb, BreakDb, zoneVars
    <3>2. ASSUME NEW z \in Zones, BreakZone(z) \/ CrashZone(z)
          PROVE  LoadInv'
      <4>1. PICK q \in Seq(ToLogin) : LinkGone(z, q)
        BY <3>2, LinkLostDoes DEF BreakZone, CrashZone
      <4>2. UNCHANGED restarted /\ \A y \in Zones \ {z} : object'[y] = object[y]
        BY <3>2 DEF BreakZone, CrashZone, TypeInv, TypeOK
      <4>3. \A y \in Zones \ {z} : Apart(y)
        BY <4>1, <4>2 DEF LinkGone, Apart
      <4>4. Up(z)' => LoadAt(z)'
        BY <1>1, <3>2, <4>2, ZoneFaultLoads DEF Up, LoadInv
      <4> QED  BY <1>1, <4>2, <4>3, <4>4, LoadOthers
    <3> QED  BY <1>1, <2>6, <3>1, <3>2, RestartLoads DEF Faults
  <2> QED  BY <1>3, <2>1, <2>2, <2>3, <2>4, <2>5, <2>6 DEF Next
<1> QED  BY <1>2, <1>3

LEMMA InitLoad == Init => LoadInv
BY DEF Init, LoadInv, LoadAt, GetsLoad, DataLoad, GetsFirst, DataOnce

LEMMA LoadAlways == Spec => []LoadInv
<1>1. Init => LoadInv
  BY InitLoad
<1>2. (TypeInv /\ IInv /\ PassInv /\ OwnCharacter /\ LoadInv /\ [Next]_vars) => LoadInv'
  BY LoadNext
<1> QED  BY <1>1, <1>2, TypesAlways, InvAlways, PassesAlways, ClientsHaveTheirCharacter,
            PTL DEF Spec

-----------------------------------------------------------------------------
(* Whoever plays, is about to or has just stopped has a session, which     *)
(* names this zone server; and these exclude each other.                   *)
SessionAt(z, a) == InGame(ServerOf[z], a) /\ playerCache[ServerOf[z]][a].key = z
IsLogout(z, i, a) == toLogin[z][i].kind = "logout" /\ toLogin[z][i].account = a
LogoutAt(z, a) == \E i \in DOMAIN toLogin[z] : IsLogout(z, i, a)
DataAt(z, a) ==
  \E i \in DOMAIN toZone[z] : toZone[z][i].kind = "data" /\ toZone[z][i].account = a
Playing(z, a) == Plays(z, a) \/ DataAt(z, a)

PlayAt(z) ==
  /\ \A a \in Accounts : /\ Playing(z, a) \/ LogoutAt(z, a) => SessionAt(z, a)
                         /\ Playing(z, a) => ~LogoutAt(z, a)
  /\ \A i, j \in DOMAIN toLogin[z], a \in Accounts :
       IsLogout(z, i, a) /\ IsLogout(z, j, a) => i = j

PlayInv == \A z \in Zones : Up(z) => PlayAt(z)

(* No account more plays, and logouts are the old ones.                    *)
LEMMA PlayKept ==
  ASSUME NEW z \in Zones, PlayAt(z), NEW c \in Nat,
         \A a \in Accounts : Playing(z, a)' => Playing(z, a),
         \A i \in DOMAIN toLogin'[z] : toLogin'[z][i].kind = "logout" =>
           i \in Nat /\ i + c \in DOMAIN toLogin[z] /\ toLogin'[z][i] = toLogin[z][i + c],
         \A a \in Accounts : SessionAt(z, a) /\ (Playing(z, a) \/ LogoutAt(z, a))' =>
           SessionAt(z, a)'
  PROVE  PlayAt(z)'
<1>1. \A a \in Accounts : LogoutAt(z, a)' => LogoutAt(z, a)
  BY DEF LogoutAt, IsLogout
<1>2. \A a \in Accounts : /\ (Playing(z, a) \/ LogoutAt(z, a))' => SessionAt(z, a)'
                          /\ Playing(z, a)' => ~LogoutAt(z, a)'
  BY <1>1 DEF PlayAt
<1>3. \A i, j \in DOMAIN toLogin'[z], a \in Accounts :
        IsLogout(z, i, a)' /\ IsLogout(z, j, a)' => i = j
  BY DEF PlayAt, IsLogout
<1> QED  BY <1>2, <1>3 DEF PlayAt

LEMMA PlayApart ==
  ASSUME TypeInv, NEW z \in Zones, PlayAt(z), Apart(z),
         \A a \in Accounts : SessionAt(z, a) /\ (Playing(z, a) \/ LogoutAt(z, a)) =>
           SessionAt(z, a)'
  PROVE  PlayAt(z)'
<1>1. toLogin[z] \in Seq(ToLogin)
  BY DEF TypeInv, TypeOK
<1>2. \A i \in DOMAIN toLogin'[z] :
        i \in Nat /\ i + 0 \in DOMAIN toLogin[z] /\ toLogin'[z][i] = toLogin[z][i + 0]
  BY <1>1 DEF Apart
<1>3. \A a \in Accounts : /\ Playing(z, a)' <=> Playing(z, a)
                          /\ LogoutAt(z, a)' <=> LogoutAt(z, a)
  BY DEF Apart, Playing, Plays, DataAt, LogoutAt, IsLogout
<1> QED  BY <1>2, <1>3, PlayKept

LEMMA PlayOthers ==
  ASSUME TypeInv, PlayInv, restarted \subseteq restarted',
         NEW z \in Zones, Up(z)' => PlayAt(z)',
         \A y \in Zones \ {z} : Apart(y),
         \A y \in Zones \ {z}, a \in Accounts :
           Up(y)' /\ SessionAt(y, a) /\ (Playing(y, a) \/ LogoutAt(y, a)) => SessionAt(y, a)'
  PROVE  PlayInv'
BY PlayApart DEF PlayInv, Up

LEMMA PlayUntouched ==
  ASSUME TypeInv, PlayInv, UNCHANGED <<toLogin, toZone, object, restarted>>,
         \A y \in Zones, a \in Accounts : SessionAt(y, a) => SessionAt(y, a)'
  PROVE  PlayInv'
BY PlayApart DEF PlayInv, Up, Apart

(* A session's data, for whoever will play.                                *)
LEMMA SendDataPlays ==
  ASSUME TypeInv, PassInv, NEW z \in Zones, Up(z), LoadAt(z), PlayAt(z),
         NEW m \in ToLogin, DataSent(z, m)
  PROVE  PlayAt(z)'
<1>1. /\ toLogin[z] \in Seq(ToLogin) /\ toZone[z] \in Seq(ToZone) /\ toLogin[z] # <<>>
      /\ toLogin'[z] = Tail(toLogin[z]) /\ object' = object /\ playerCache' = playerCache
  BY DEF TypeInv, TypeOK, DataSent
<1>2. /\ 1 \in DOMAIN toLogin[z] /\ m = toLogin[z][1] /\ m.kind = "get"
      /\ \A i \in DOMAIN toLogin'[z] : /\ i \in Nat /\ i + 1 \in DOMAIN toLogin[z]
                                       /\ toLogin'[z][i] = toLogin[z][i + 1]
  BY <1>1, TailIs DEF DataSent
<1>3. m.account \in Accounts /\ m.gid \in Nat
  BY ToLoginFields
<1>4. \A a \in Accounts : SessionAt(z, a) => SessionAt(z, a)'
  BY <1>1 DEF SessionAt, InGame
<1>5. CASE toZone'[z] = toZone[z]
  <2>1. \A a \in Accounts : Playing(z, a)' => Playing(z, a)
    BY <1>1, <1>5 DEF Playing, Plays, DataAt
  <2> QED  BY <1>2, <1>4, <2>1, PlayKept
<1>6. ASSUME NEW r \in ToZone, SameSession(ServerOf[z], m), toZone'[z] = Append(toZone[z], r),
             r.account = m.account
      PROVE  PlayAt(z)'
  <2>1. SessionAt(z, m.account)
    <3> DEFINE p == playerCache[ServerOf[z]][m.account]
    <3>1. InGame(ServerOf[z], m.account) /\ p.gid = m.gid /\ ServerOf[z] \in Servers
      BY <1>6, SessionAssumption DEF SameSession
    <3>2. p \in SPlayer
      BY <1>3, <3>1 DEF InGame, TypeInv, TypeOK
    <3>3. p.key \in Zones
      BY <3>2 DEF SPlayer
    <3>4. Pass(ServerOf[z], m.account, m.gid, p.key)
      BY <3>1 DEF Pass
    <3>5. Pass(ServerOf[z], m.account, m.gid, z)
      BY <1>2, MessagePasses
    <3>6. p.key = z
      BY <1>3, <3>1, <3>3, <3>4, <3>5 DEF PassInv, Up
    <3> QED  BY <3>1, <3>6 DEF SessionAt
  <2>2. \A i \in DOMAIN toLogin[z] : ~IsLogout(z, i, m.account)
    <3>1. ASSUME NEW i \in DOMAIN toLogin[z], IsLogout(z, i, m.account)
          PROVE  FALSE
      <4>1. i < 1 /\ i \in 1..Len(toLogin[z])
        BY <1>1, <1>2, <3>1 DEF LoadAt, GetsFirst, IsLogout
      <4> QED  BY <1>1, <4>1
    <3> QED  BY <3>1
  <2>3. \A i \in DOMAIN toLogin'[z], a \in Accounts :
          IsLogout(z, i, a)' => i + 1 \in DOMAIN toLogin[z] /\ IsLogout(z, i + 1, a)
    BY <1>2 DEF IsLogout
  <2>4. \A a \in Accounts : LogoutAt(z, a)' => a # m.account /\ LogoutAt(z, a)
    BY <2>2, <2>3 DEF LogoutAt
  <2>5. \A a \in Accounts : Playing(z, a)' => a = m.account \/ Playing(z, a)
    <3>1. \A i \in DOMAIN toZone'[z] :
            (\E j \in DOMAIN toZone[z] : toZone'[z][i] = toZone[z][j]) \/ toZone'[z][i] = r
      BY <1>1, <1>6, AfterAppend
    <3> QED  BY <1>1, <1>6, <3>1 DEF Playing, Plays, DataAt
  <2>6. \A a \in Accounts : /\ (Playing(z, a) \/ LogoutAt(z, a))' => SessionAt(z, a)'
                            /\ Playing(z, a)' => ~LogoutAt(z, a)'
    BY <1>4, <2>1, <2>4, <2>5 DEF PlayAt
  <2>7. \A i, j \in DOMAIN toLogin'[z] : i + 1 = j + 1 => i = j
    BY <1>2
  <2>8. \A i, j \in DOMAIN toLogin'[z], a \in Accounts :
          IsLogout(z, i, a)' /\ IsLogout(z, j, a)' => i = j
    BY <2>3, <2>7 DEF PlayAt
  <2> QED  BY <2>6, <2>8 DEF PlayAt
<1> QED  BY <1>5, <1>6 DEF DataSent

LEMMA DataPlays ==
  ASSUME TypeInv, PassInv, OwnCharacter, NEW z \in Zones, Up(z), PlayAt(z),
         NEW m \in ToZone, DataTaken(z, m)
  PROVE  PlayAt(z)'
<1>1. /\ toLogin[z] \in Seq(ToLogin) /\ toZone[z] \in Seq(ToZone) /\ toZone[z] # <<>>
      /\ toZone'[z] = Tail(toZone[z]) /\ toLogin' = toLogin /\ playerCache' = playerCache
  BY DEF TypeInv, TypeOK, DataTaken
<1>2. /\ 1 \in DOMAIN toZone[z] /\ m = toZone[z][1] /\ m.kind = "data"
      /\ \A i \in DOMAIN toZone'[z] : \E j \in DOMAIN toZone[z] : toZone'[z][i] = toZone[z][j]
  BY <1>1, HeadAndTail, AfterTail DEF DataTaken
<1>3. m.account \in Accounts /\ DataAt(z, m.account)
  BY <1>2, ToZoneFields DEF DataAt
<1>4. \A a \in Accounts : Playing(z, a)' => Playing(z, a)
  <2>1. \A a \in Accounts : DataAt(z, a)' => DataAt(z, a)
    BY <1>2 DEF DataAt
  <2>2. \A a \in Accounts \ {m.account} : Plays(z, a)' => Plays(z, a)
    BY DataIsOwn DEF Plays
  <2> QED  BY <1>3, <2>1, <2>2 DEF Playing
<1>5. \A a \in Accounts : SessionAt(z, a) => SessionAt(z, a)'
  BY <1>1 DEF SessionAt, InGame
<1>6. \A i \in DOMAIN toLogin'[z] :
        i \in Nat /\ i + 0 \in DOMAIN toLogin[z] /\ toLogin'[z][i] = toLogin[z][i + 0]
  BY <1>1
<1> QED  BY <1>4, <1>5, <1>6, PlayKept

LEMMA LogoutPlays ==
  ASSUME TypeInv, NEW z \in Zones, LoadAt(z), PlayAt(z), NEW a \in Accounts,
         NEW m \in ToLogin, LoggedOut(z, a, m)
  PROVE  PlayAt(z)'
<1> DEFINE n == Len(toLogin[z]) + 1
<1>1. /\ toLogin[z] \in Seq(ToLogin)
      /\ toLogin'[z] = Append(toLogin[z], m) /\ toZone' = toZone /\ playerCache' = playerCache
      /\ m.kind = "logout" /\ m.account = a /\ Plays(z, a)
      /\ object'[z][a] = NoPlayer /\ \A b \in Accounts \ {a} : object'[z][b] = object[z][b]
  BY DEF TypeInv, TypeOK, LoggedOut
<1>2. /\ n \in Nat /\ DOMAIN toLogin[z] = 1..(n - 1) /\ DOMAIN toLogin'[z] = 1..n
      /\ \A i \in DOMAIN toLogin[z] : toLogin'[z][i] = toLogin[z][i]
      /\ toLogin'[z][n] = m
  BY <1>1, AppendIs
<1> HIDE DEF n
<1>3. \A i \in DOMAIN toLogin'[z] : i # n => i \in DOMAIN toLogin[z]
  BY <1>2
<1>4. \A i \in DOMAIN toLogin'[z], b \in Accounts : IsLogout(z, i, b)' =>
        \/ i \in DOMAIN toLogin[z] /\ IsLogout(z, i, b)
        \/ i = n /\ b = a
  BY <1>1, <1>2, <1>3 DEF IsLogout
<1>5. SessionAt(z, a) /\ ~LogoutAt(z, a)
  BY <1>1 DEF PlayAt, Playing
<1>6. ~DataAt(z, a)
  BY <1>1 DEF LoadAt, DataLoad, Loading, DataAt, Plays
<1>7. \A b \in Accounts : Playing(z, b)' => b # a /\ Playing(z, b)
  BY <1>1, <1>6 DEF Playing, Plays, DataAt
<1>8. \A b \in Accounts : LogoutAt(z, b)' => b = a \/ LogoutAt(z, b)
  BY <1>4 DEF LogoutAt
<1>9. \A b \in Accounts : SessionAt(z, b) => SessionAt(z, b)'
  BY <1>1 DEF SessionAt, InGame
<1>10. \A b \in Accounts : /\ (Playing(z, b) \/ LogoutAt(z, b))' => SessionAt(z, b)'
                           /\ Playing(z, b)' => ~LogoutAt(z, b)'
  BY <1>5, <1>7, <1>8, <1>9 DEF PlayAt
<1>11. \A i, j \in DOMAIN toLogin'[z], b \in Accounts :
         IsLogout(z, i, b)' /\ IsLogout(z, j, b)' => i = j
  BY <1>4, <1>5 DEF PlayAt, LogoutAt
<1> QED  BY <1>10, <1>11 DEF PlayAt

(* A logout ends the one session it can be about.                          *)
LEMMA UpdatePlays ==
  ASSUME TypeInv, PlayInv, NEW z \in Zones, NEW m \in ToLogin, NEW s \in Servers,
         Updated(z, m, s)
  PROVE  PlayInv'
<1>1. /\ toLogin[z] \in Seq(ToLogin) /\ toLogin[z] # <<>> /\ s = ServerOf[z]
      /\ toLogin'[z] = Tail(toLogin[z]) /\ toZone' = toZone /\ object' = object
      /\ UNCHANGED restarted /\ \A y \in Zones \ {z} : Apart(y)
  BY DEF TypeInv, TypeOK, Updated, outside
<1>2. /\ 1 \in DOMAIN toLogin[z] /\ m = toLogin[z][1] /\ m.kind = "logout"
      /\ \A i \in DOMAIN toLogin'[z] : /\ i \in Nat /\ i + 1 \in DOMAIN toLogin[z] /\ i + 1 # 1
                                       /\ toLogin'[z][i] = toLogin[z][i + 1]
  BY <1>1, TailIs DEF Updated
<1>3. m.account \in Accounts /\ IsLogout(z, 1, m.account) /\ LogoutAt(z, m.account)
  BY <1>2, ToLoginFields DEF LogoutAt, IsLogout
<1>4. ASSUME Up(z), NEW y \in Zones, NEW a \in Accounts, SessionAt(y, a), ~SessionAt(y, a)'
      PROVE  y = z /\ a = m.account
  <2>1. ServerOf[y] = s /\ a = m.account
    BY <1>4, SessionAssumption DEF Updated, SessionAt, InGame
  <2>2. SessionAt(z, a)
    BY <1>3, <1>4, <2>1 DEF PlayInv, PlayAt
  <2> QED  BY <1>1, <1>4, <2>1, <2>2 DEF SessionAt
<1>5. ASSUME NEW y \in Zones \ {z}, NEW a \in Accounts, Up(y)', SessionAt(y, a)
      PROVE  SessionAt(y, a)'
  <2>1. CASE ServerOf[y] = s
    <3>1. Up(z)
      BY <1>1, <1>5, <2>1 DEF Up
    <3> QED  BY <1>4, <1>5, <3>1
  <2>2. CASE ServerOf[y] # s
    BY <1>5, <2>2, SessionAssumption DEF Updated, SessionAt, InGame
  <2> QED  BY <2>1, <2>2
<1>6. ASSUME Up(z)
      PROVE  PlayAt(z)'
  <2>1. PlayAt(z)
    BY <1>6 DEF PlayInv
  <2>2. \A a \in Accounts : Playing(z, a)' => Playing(z, a)
    BY <1>1 DEF Playing, Plays, DataAt
  <2>3. ~Playing(z, m.account)' /\ ~LogoutAt(z, m.account)'
    <3>1. ~Playing(z, m.account)
      BY <1>3, <2>1 DEF PlayAt
    <3>2. \A i \in DOMAIN toLogin'[z] : ~IsLogout(z, i, m.account)'
      BY <1>2, <1>3, <2>1 DEF PlayAt, IsLogout
    <3> QED  BY <2>2, <3>1, <3>2, <1>3 DEF LogoutAt
  <2>4. \A a \in Accounts : SessionAt(z, a) /\ (Playing(z, a) \/ LogoutAt(z, a))' =>
          SessionAt(z, a)'
    BY <1>4, <1>6, <2>3
  <2> QED  BY <1>2, <2>1, <2>2, <2>4, PlayKept
<1>7. Up(z)' => PlayAt(z)'
  BY <1>1, <1>6 DEF Up
<1> QED  BY <1>1, <1>5, <1>7, PlayOthers

(* The other steps of a zone server and about it.                          *)
LEMMA CheckPlays ==
  ASSUME TypeInv, NEW z \in Zones, PlayAt(z), NEW m \in ToLogin, NEW r \in ToZone,
         Checked(z, m, r)
  PROVE  PlayAt(z)'
<1>1. /\ toLogin[z] \in Seq(ToLogin) /\ toZone[z] \in Seq(ToZone) /\ toLogin[z] # <<>>
      /\ toLogin'[z] = Tail(toLogin[z]) /\ object' = object /\ playerCache' = playerCache
      /\ toZone'[z] = Append(toZone[z], r) /\ r.kind # "data"
  BY DEF TypeInv, TypeOK, Checked
<1>2. \A i \in DOMAIN toLogin'[z] :
        i \in Nat /\ i + 1 \in DOMAIN toLogin[z] /\ toLogin'[z][i] = toLogin[z][i + 1]
  BY <1>1, TailIs
<1>3. \A i \in DOMAIN toZone'[z] :
        (\E j \in DOMAIN toZone[z] : toZone'[z][i] = toZone[z][j]) \/ toZone'[z][i] = r
  BY <1>1, AfterAppend
<1>4. \A a \in Accounts : Playing(z, a)' => Playing(z, a)
  BY <1>1, <1>3 DEF Playing, Plays, DataAt
<1>5. \A a \in Accounts : SessionAt(z, a) => SessionAt(z, a)'
  BY <1>1 DEF SessionAt, InGame
<1> QED  BY <1>2, <1>4, <1>5, PlayKept

LEMMA AnsweredPlays ==
  ASSUME TypeInv, NEW z \in Zones, PlayAt(z), NEW m \in ToZone, Answered(z, m)
  PROVE  PlayAt(z)'
<1>1. /\ toLogin[z] \in Seq(ToLogin) /\ toZone[z] \in Seq(ToZone) /\ toZone[z] # <<>>
      /\ toZone'[z] = Tail(toZone[z]) /\ playerCache' = playerCache
  BY DEF TypeInv, TypeOK, Answered
<1>2. \A i \in DOMAIN toZone'[z] : \E j \in DOMAIN toZone[z] : toZone'[z][i] = toZone[z][j]
  BY <1>1, AfterTail
<1>3. \A a \in Accounts : Playing(z, a)' => Playing(z, a)
  <2>1. \A a \in Accounts : Plays(z, a)' => Plays(z, a)
    BY DEF Answered, Plays
  <2> QED  BY <1>2, <2>1 DEF Playing, DataAt
<1>4. \A i \in DOMAIN toLogin'[z] : toLogin'[z][i].kind = "logout" =>
        i \in Nat /\ i + 0 \in DOMAIN toLogin[z] /\ toLogin'[z][i] = toLogin[z][i + 0]
  <2>1. CASE toLogin' = toLogin
    BY <1>1, <2>1
  <2>2. CASE toLogin' # toLogin
    <3>1. PICK g \in ToLogin : toLogin'[z] = Append(toLogin[z], g) /\ g.kind = "get"
      BY <2>2 DEF Answered
    <3> QED  BY <1>1, <3>1, Appended
  <2> QED  BY <2>1, <2>2
<1>5. \A a \in Accounts : SessionAt(z, a) => SessionAt(z, a)'
  BY <1>1 DEF SessionAt, InGame
<1> QED  BY <1>3, <1>4, <1>5, PlayKept

LEMMA ConnectPlays ==
  ASSUME TypeInv, NEW l \in Links, NEW z \in Zones, PlayAt(z), NEW m \in ToLogin,
         Connected(l, z, m)
  PROVE  PlayAt(z)'
<1>1. /\ toLogin[z] \in Seq(ToLogin) /\ toLogin'[z] = Append(toLogin[z], m)
      /\ m.kind = "check"
      /\ UNCHANGED <<toZone, object, playerCache>>
  BY DEF TypeInv, TypeOK, Connected
<1>2. \A i \in DOMAIN toLogin'[z] : toLogin'[z][i].kind = "logout" =>
        i \in Nat /\ i + 0 \in DOMAIN toLogin[z] /\ toLogin'[z][i] = toLogin[z][i + 0]
  BY <1>1, Appended
<1>3. \A a \in Accounts : Playing(z, a)' => Playing(z, a)
  BY <1>1 DEF Playing, Plays, DataAt
<1>4. \A a \in Accounts : SessionAt(z, a) => SessionAt(z, a)'
  BY <1>1 DEF SessionAt, InGame
<1> QED  BY <1>2, <1>3, <1>4, PlayKept

LEMMA ZoneFaultPlays ==
  ASSUME TypeInv, NEW z \in Zones, PlayAt(z), BreakZone(z) \/ CrashZone(z)
  PROVE  PlayAt(z)'
<1>1. PICK q \in Seq(ToLogin) : LinkGone(z, q)
  BY LinkLostDoes DEF BreakZone, CrashZone
<1>2. /\ toZone'[z] = <<>>
      /\ \A i \in DOMAIN toLogin'[z] :
           /\ i \in Nat /\ i + 0 \in DOMAIN toLogin[z] /\ toLogin'[z][i] = toLogin[z][i + 0]
  BY <1>1 DEF LinkGone
<1>3. /\ playerCache' = playerCache
      /\ \A b \in Accounts : object'[z][b] \in {NoPlayer, object[z][b]}
  BY DEF BreakZone, CrashZone, TypeInv, TypeOK
<1>4. \A a \in Accounts : Playing(z, a)' => Playing(z, a)
  BY <1>2, <1>3 DEF Playing, Plays, DataAt
<1>5. \A a \in Accounts : SessionAt(z, a) => SessionAt(z, a)'
  BY <1>3 DEF SessionAt, InGame
<1> QED  BY <1>2, <1>4, <1>5, PlayKept

LEMMA ZonePlays ==
  ASSUME TypeInv, PassInv, OwnCharacter, LoadInv, PlayInv, NEW z \in Zones,
         \/ DoCheckRebind(z) \/ SendPlayerData(z) \/ UpdatePlayerData(z)
         \/ RecvCheckRebind(z) \/ SetPlayerData(z) \/ \E a \in Accounts : Logout(z, a)
  PROVE  PlayInv'
<1>1. Up(z) => LoadAt(z) /\ PlayAt(z)
  BY DEF LoadInv, PlayInv
<1>2. ASSUME UNCHANGED <<playerCache, restarted>>, \A y \in Zones \ {z} : Apart(y),
             Up(z) => PlayAt(z)'
      PROVE  PlayInv'
  <2>1. \A y \in Zones, a \in Accounts : SessionAt(y, a) => SessionAt(y, a)'
    BY <1>2 DEF SessionAt, InGame
  <2> QED  BY <1>2, <2>1, PlayOthers DEF Up
<1>3. CASE DoCheckRebind(z)
  <2>1. PICK m \in ToLogin, r \in ToZone : Checked(z, m, r)
    BY <1>3, CheckDoes
  <2>2. UNCHANGED <<playerCache, restarted>> /\ \A y \in Zones \ {z} : Apart(y)
    BY <2>1 DEF Checked, outside
  <2> QED  BY <1>1, <1>2, <2>1, <2>2, CheckPlays
<1>4. CASE SendPlayerData(z)
  <2>1. PICK m \in ToLogin : DataSent(z, m)
    BY <1>4, SendDataDoes
  <2>2. UNCHANGED <<playerCache, restarted>> /\ \A y \in Zones \ {z} : Apart(y)
    BY <2>1 DEF DataSent, outside
  <2> QED  BY <1>1, <1>2, <2>1, <2>2, SendDataPlays
<1>5. CASE UpdatePlayerData(z)
  BY <1>5, UpdateDoes, UpdatePlays
<1>6. CASE RecvCheckRebind(z)
  <2>1. PICK m \in ToZone : Answered(z, m)
    BY <1>6, AnsweredDoes
  <2>2. UNCHANGED <<playerCache, restarted>> /\ \A y \in Zones \ {z} : Apart(y)
    BY <2>1 DEF Answered, outside
  <2> QED  BY <1>1, <1>2, <2>1, <2>2, AnsweredPlays
<1>7. CASE SetPlayerData(z)
  <2>1. PICK m \in ToZone : DataTaken(z, m)
    BY <1>7, DataDoes
  <2>2. UNCHANGED <<playerCache, restarted>> /\ \A y \in Zones \ {z} : Apart(y)
    BY <2>1 DEF DataTaken, outside
  <2> QED  BY <1>1, <1>2, <2>1, <2>2, DataPlays
<1>8. ASSUME NEW a \in Accounts, Logout(z, a)
      PROVE  PlayInv'
  <2>1. PICK m \in ToLogin : LoggedOut(z, a, m)
    BY <1>8, LogoutDoes
  <2>2. UNCHANGED <<playerCache, restarted>> /\ \A y \in Zones \ {z} : Apart(y)
    BY <2>1 DEF LoggedOut, outside
  <2> QED  BY <1>1, <1>2, <2>1, <2>2, LogoutPlays
<1> QED  BY <1>3, <1>4, <1>5, <1>6, <1>7, <1>8

LEMMA RestartPlays ==
  ASSUME TypeInv, PlayInv, NEW s \in Servers, CrashLogin(s) \/ Destroy(s)
  PROVE  PlayInv'
<1>1. PICK q : StartAgain(s, q)
  BY DEF CrashLogin, Destroy
<1>2. /\ toLogin' = [z \in Zones |-> IF ServerOf[z] = s THEN <<>> ELSE toLogin[z]]
      /\ toZone' = [z \in Zones |-> IF ServerOf[z] = s THEN <<>> ELSE toZone[z]]
      /\ restarted' = restarted \cup {s} /\ UNCHANGED object
      /\ \A t \in Servers \ {s} : playerCache'[t] = playerCache[t]
  BY <1>1 DEF StartAgain, TypeInv, TypeOK
<1>3. \A z \in Zones : Up(z)' => Up(z) /\ Apart(z)
  BY <1>2 DEF Up, Apart
<1>4. \A z \in Zones, a \in Accounts : Up(z)' /\ SessionAt(z, a) => SessionAt(z, a)'
  BY <1>2, SessionAssumption DEF Up, SessionAt, InGame
<1> QED  BY <1>3, <1>4, PlayApart DEF PlayInv

LEMMA PlayNext ==
  ASSUME TypeInv, IInv, PassInv, OwnCharacter, LoadInv, PlayInv, [Next]_vars
  PROVE  PlayInv'
<1>1. ASSUME UNCHANGED <<playerCache, toLogin, toZone, object, restarted>>
      PROVE  PlayInv'
  BY <1>1, PlayUntouched DEF SessionAt, InGame
<1>2. CASE UNCHANGED vars
  BY <1>1, <1>2 DEF vars, zoneVars, ghostVars
<1>3. CASE Next
  <2>1. ASSUME NEW l \in Links, NEW s \in Servers, NEW a \in Accounts, PlayerLogin(l, s, a)
        PROVE  PlayInv'
    BY <1>1, <2>1 DEF PlayerLogin, ghostVars
  <2>2. ASSUME NEW l \in Links, \/ Break(l) \/ Closed(l) \/ Reselect(l)
                                \/ QuestCheckRebind(l) \/ Leave(l)
        PROVE  PlayInv'
    <3>1. CASE Break(l) \/ Closed(l) \/ Reselect(l) \/ Leave(l)
      BY <1>1, <3>1 DEF Break, Closed, Reselect, Leave, ghostVars, zoneVars
    <3>2. CASE QuestCheckRebind(l)
      <4>1. PICK z \in Zones, m \in ToLogin : Connected(l, z, m)
        BY <3>2, ConnectDoes
      <4>2. UNCHANGED <<playerCache, restarted>> /\ \A y \in Zones \ {z} : Apart(y)
        BY <4>1 DEF Connected, outside
      <4>3. \A y \in Zones, a \in Accounts : SessionAt(y, a) => SessionAt(y, a)'
        BY <4>2 DEF SessionAt, InGame
      <4>4. Up(z)' => PlayAt(z)'
        BY <4>1, <4>2, ConnectPlays DEF Up, PlayInv
      <4> QED  BY <4>2, <4>3, <4>4, PlayOthers
    <3> QED  BY <2>2, <3>1, <3>2
  <2>3. ASSUME NEW s \in Servers, \/ RecvGetCharacterList(s) \/ RecvGetCharacter(s)
                                  \/ DbReceive(s) \/ ReconnectDb(s)
        PROVE  PlayInv'
    <3>1. CASE RecvGetCharacterList(s) \/ DbReceive(s) \/ ReconnectDb(s)
      BY <1>1, <3>1 DEF RecvGetCharacterList, DbReceive, ReconnectDb, ghostVars, zoneVars
    <3>2. CASE RecvGetCharacter(s)
      <4>1. \A t \in Servers, a \in Accounts :
              InGame(t, a) => playerCache'[t][a] = playerCache[t][a]
        <5>1. ASSUME NEW l \in Links, NEW b \in Accounts, NEW z \in Zones,
                     Assigned(s, l, b, z), NEW t \in Servers, NEW a \in Accounts, InGame(t, a)
              PROVE  playerCache'[t][a] = playerCache[t][a]
          BY <5>1 DEF Assigned
        <5> QED  BY <3>2, <5>1, CharacterDoes DEF IInv
      <4>2. \A y \in Zones, a \in Accounts : SessionAt(y, a) => SessionAt(y, a)'
        BY <4>1, SessionAssumption DEF SessionAt, InGame
      <4>3. UNCHANGED <<toLogin, toZone, object, restarted>>
        BY <3>2 DEF RecvGetCharacter, ghostVars
      <4> QED  BY <4>2, <4>3, PlayUntouched
    <3> QED  BY <2>3, <3>1, <3>2
  <2>4. ASSUME NEW a \in Accounts, DbExecute(a) \/ DbRemove(a)
        PROVE  PlayInv'
    BY <1>1, <2>4 DEF DbExecute, DbRemove, ghostVars, zoneVars
  <2>5. ASSUME NEW z \in Zones,
               \/ DoCheckRebind(z) \/ SendPlayerData(z) \/ UpdatePlayerData(z)
               \/ RecvCheckRebind(z) \/ SetPlayerData(z)
               \/ \E a \in Accounts : Logout(z, a)
        PROVE  PlayInv'
    BY <2>5, ZonePlays
  <2>6. CASE Faults
    <3>1. ASSUME CrashDb \/ \E s \in Servers : BreakDb(s)
          PROVE  PlayInv'
      BY <1>1, <3>1 DEF CrashDb, BreakDb, zoneVars
    <3>2. ASSUME NEW z \in Zones, BreakZone(z) \/ CrashZone(z)
          PROVE  PlayInv'
      <4>1. PICK q \in Seq(ToLogin) : LinkGone(z, q)
        BY <3>2, LinkLostDoes DEF BreakZone, CrashZone
      <4>2. /\ UNCHANGED <<playerCache, restarted>>
            /\ \A y \in Zones \ {z} : object'[y] = object[y]
        BY <3>2 DEF BreakZone, CrashZone, TypeInv, TypeOK
      <4>3. \A y \in Zones \ {z} : Apart(y)
        BY <4>1, <4>2 DEF LinkGone, Apart
      <4>4. Up(z)' => PlayAt(z)'
        BY <3>2, <4>2, ZoneFaultPlays DEF Up, PlayInv
      <4>5. \A y \in Zones, a \in Accounts : SessionAt(y, a) => SessionAt(y, a)'
        BY <4>2 DEF SessionAt, InGame
      <4> QED  BY <4>2, <4>3, <4>4, <4>5, PlayOthers
    <3> QED  BY <2>6, <3>1, <3>2, RestartPlays DEF Faults
  <2> QED  BY <1>3, <2>1, <2>2, <2>3, <2>4, <2>5, <2>6 DEF Next
<1> QED  BY <1>2, <1>3

LEMMA PlayAlways == Spec => []PlayInv
<1>1. Init => PlayInv
  BY DEF Init, PlayInv, PlayAt, Playing, Plays, DataAt, LogoutAt, IsLogout
<1>2. (TypeInv /\ IInv /\ PassInv /\ OwnCharacter /\ LoadInv /\ PlayInv /\ [Next]_vars)
        => PlayInv'
  BY PlayNext
<1> QED  BY <1>1, <1>2, TypesAlways, InvAlways, PassesAlways, ClientsHaveTheirCharacter,
            LoadAlways, PTL DEF Spec

(* No account plays at two zone servers, though a check that was answered  *)
(* before a logout may be taken after it (DoCheckRebind, CreateNewPlayer): *)
(* the data it asks for is not sent, its session being over.               *)
THEOREM OnePlayerPerAccount == Spec => []OnePlayer
<1>1. ASSUME IInv, PlayInv, NEW y \in Zones, NEW z \in Zones, NEW a \in Accounts,
             {ServerOf[y], ServerOf[z]} \cap restarted = {}, Plays(y, a), Plays(z, a)
      PROVE  y = z
  <2>1. SessionAt(y, a) /\ SessionAt(z, a)
    BY <1>1 DEF PlayInv, PlayAt, Playing, Up
  <2>2. ServerOf[y] = ServerOf[z]
    BY <1>1, <2>1, SessionAssumption DEF IInv, GameInv, Keeps, SessionAt
  <2> QED  BY <2>1, <2>2 DEF SessionAt
<1>2. IInv /\ PlayInv => OnePlayer
  BY <1>1 DEF OnePlayer
<1> QED  BY <1>2, InvAlways, PlayAlways, PTL
=============================================================================
