---------------------------- MODULE SessionProofs ----------------------------
(***************************************************************************)
(* What holds in LoginSession for any accounts, servers, zone servers,     *)
(* clients and faults: an account that is in the game is locked for its    *)
(* login server, and every save comes from the server that holds the row.  *)
(*                                                                         *)
(* A login server has one context per account, and none for an account in  *)
(* the game.  What it sends is handled in order, the waiting query first.  *)
(* So when a list request is executed, every unlock and every save its     *)
(* server sent before has been handled, and while the link that asked is   *)
(* open its server sends no other: from there to the logout nothing can    *)
(* mark the unit as leaving (`Clean`), and a unit that does not leave      *)
(* keeps its row (`Keeps`).                                                *)
(***************************************************************************)
EXTENDS LoginSession, FiniteSetTheorems, TLAPS

-----------------------------------------------------------------------------
(* The state of a link: from the login to its end it has a context, and    *)
(* what it logged in with is never forgotten.                              *)
LinksInv ==
  \A l \in Links :
    /\ phase[l] = "open" => tempLinkContext[l] # "none"
    /\ tempLinkContext[l] # "none" => phase[l] \in {"open", "cut"}
    /\ phase[l] = "new" <=> login[l] = NoLogin

(* A message between zone server z and its login server about client l:    *)
(* if the client is still there, it is the one the message speaks of.      *)
Agrees(z, m) ==
  /\ phase[m.link] = "closed"
  /\ visit[m.link] # NoVisit =>
       /\ visit[m.link].zone = z
       /\ visit[m.link].account = m.account /\ visit[m.link].gid = m.gid

(* A client is sent to a zone server once, when its link is closed.  The   *)
(* player it is bound to there exists.                                     *)
Bound(l) == visit[l] # NoVisit /\ visit[l].step = "there"

VisitInv ==
  /\ \A l \in Links :
       /\ phase[l] # "closed" => visit[l] = NoVisit
       /\ Bound(l) => object[visit[l].zone][visit[l].player] # NoPlayer
  /\ \A z \in Zones : \A i \in DOMAIN toLogin[z] :
       toLogin[z][i].kind # "logout" => Agrees(z, toLogin[z][i])
  /\ \A z \in Zones : \A i \in DOMAIN toZone[z] : Agrees(z, toZone[z][i])

(* TypeOK alone is not inductive: the zone server changes the player a     *)
(* client is bound to, and a link without a login has no server.           *)
TypeInv == TypeOK /\ LinksInv /\ VisitInv

-----------------------------------------------------------------------------
(* Messages belong to the links and servers that asked.                    *)
AskedBy(m) == login[m.link] = [server |-> m.serverId, account |-> m.account]

RequestsInv ==
  /\ \A s \in Servers : \A i \in DOMAIN toDb[s] :
       /\ toDb[s][i].serverId = s
       /\ toDb[s][i].kind \in {"list", "select"} => AskedBy(toDb[s][i])
  /\ \A a \in Accounts : waiting[a] # NoQuery =>
       /\ waiting[a].account = a
       /\ waiting[a].kind \in {"list", "select"} => AskedBy(waiting[a])
  /\ \A s \in Servers : \A i \in DOMAIN fromDb[s] :
       login[fromDb[s][i].link] # NoLogin /\ Server(fromDb[s][i].link) = s

(* One context for an account, and none while it is in the game.           *)
ContextInv ==
  /\ \A l, m \in Links : tempLinkContext[l] # "none" /\ tempLinkContext[m] # "none"
                           /\ login[l] = login[m] => l = m
  /\ \A s \in Servers, a \in Accounts : InGame(s, a) => ~InUse(s, a)

(* The cached unit is its row's owner's (PersistLayer: LockHeld).          *)
UnitsHeld == \A a \in Accounts : Cached(a) => unit[a].serverId = row[a].serverId

(* s holds the row, and it will not be given away by itself.               *)
Keeps(s, a) == row[a].serverId = s /\ (Cached(a) => ~unit[a].removeMe)

(* Requests of s after which the row may be given away.                    *)
Gives(m, a) == m.kind \in {"unlock", "save"} /\ m.account = a
UnlockWaits(s, a) ==
  waiting[a] # NoQuery /\ waiting[a].kind = "unlock" /\ waiting[a].serverId = s
NoneSent(s, a) == \A i \in DOMAIN toDb[s] : ~Gives(toDb[s][i], a)
Clean(s, a) == ~UnlockWaits(s, a) /\ NoneSent(s, a)

IsOpen(m, kind) == m.kind = kind /\ phase[m.link] = "open"

(* A list request that waits, or is on its way, is behind them all.        *)
ListInv ==
  /\ \A a \in Accounts : waiting[a] # NoQuery /\ IsOpen(waiting[a], "list") =>
       NoneSent(waiting[a].serverId, a)
  /\ \A s \in Servers : \A i, j \in DOMAIN toDb[s] :
       IsOpen(toDb[s][i], "list") /\ i < j => ~Gives(toDb[s][j], toDb[s][i].account)
  /\ \A s \in Servers : \A i \in DOMAIN fromDb[s] :
       IsOpen(fromDb[s][i], "list") /\ fromDb[s][i].result = "success" =>
         Clean(s, Account(fromDb[s][i].link))

(* Only a client that has its list selects.                                *)
SelectInv ==
  /\ \A a \in Accounts : waiting[a] # NoQuery /\ IsOpen(waiting[a], "select") =>
       tempLinkContext[waiting[a].link] = "unbind"
  /\ \A s \in Servers : \A i \in DOMAIN toDb[s] :
       IsOpen(toDb[s][i], "select") => tempLinkContext[toDb[s][i].link] = "unbind"
  /\ \A s \in Servers : \A i \in DOMAIN fromDb[s] :
       IsOpen(fromDb[s][i], "select") =>
         /\ tempLinkContext[fromDb[s][i].link] = "unbind"
         /\ fromDb[s][i].result = "success" => Keeps(s, Account(fromDb[s][i].link))
  /\ \A l \in Links : phase[l] = "open" /\ tempLinkContext[l] = "unbind" =>
       Clean(Server(l), Account(l))

(* In the game, and until the save of the logout is taken.                 *)
GameInv ==
  \A s \in Servers, a \in Accounts : InGame(s, a) => Keeps(s, a) /\ Clean(s, a)

SaveInv ==
  \A s \in Servers : \A i \in DOMAIN toDb[s] :
    toDb[s][i].kind = "save" =>
      LET a == toDb[s][i].account
      IN /\ Keeps(s, a) /\ ~UnlockWaits(s, a)
         /\ \A j \in DOMAIN toDb[s] : j < i => ~Gives(toDb[s][j], a)

IInv == /\ RequestsInv /\ ContextInv /\ UnitsHeld /\ ListInv /\ SelectInv
        /\ GameInv /\ SaveInv

-----------------------------------------------------------------------------
(* Types.                                                                  *)

(* The messages the actions build are messages.                            *)
LEMMA RequestTypes ==
  ASSUME NEW a \in Accounts, NEW s \in Servers, NEW l \in Links, NEW d \in Nat
  PROVE  /\ [kind |-> "list", account |-> a, serverId |-> s, link |-> l] \in Query
         /\ [kind |-> "select", account |-> a, serverId |-> s, link |-> l] \in Query
         /\ [kind |-> "unlock", account |-> a, serverId |-> s] \in Query
         /\ [kind |-> "save", account |-> a, serverId |-> s, data |-> d] \in Save
BY DEF Query, Save

(* What a request carries.                                                 *)
LEMMA QueryFields ==
  ASSUME NEW m \in Query
  PROVE  /\ m.kind \in {"list", "select", "unlock"}
         /\ m.account \in Accounts /\ m.serverId \in Servers
         /\ m.kind \in {"list", "select"} => m.link \in Links
BY DEF Query

LEMMA RequestFields ==
  ASSUME NEW m \in Query \cup Save
  PROVE  /\ m.account \in Accounts /\ m.serverId \in Servers
         /\ m.kind \in {"list", "select", "unlock", "save"}
         /\ m.kind # "save" => m \in Query
         /\ m.kind = "save" => m.data \in Nat
BY DEF Query, Save

LEMMA ToLoginFields ==
  ASSUME NEW m \in ToLogin
  PROVE  /\ m.account \in Accounts /\ m.gid \in Nat
         /\ m.kind \in {"check", "get", "logout"}
         /\ m.kind # "logout" => m.link \in Links
         /\ m.kind = "logout" => m.data \in Nat
BY DEF ToLogin

LEMMA ToZoneFields ==
  ASSUME NEW m \in ToZone
  PROVE  /\ m.account \in Accounts /\ m.gid \in Nat /\ m.data \in Nat
         /\ m.kind \in {"rebound", "refused", "data"} /\ m.link \in Links
BY DEF ToZone

(* The first of a queue, what is left of it, and what it grows to.         *)
LEMMA HeadAndTail ==
  ASSUME NEW S, NEW q \in Seq(S), q # <<>>
  PROVE  /\ Head(q) \in S /\ Tail(q) \in Seq(S) /\ Len(q) \in Nat \ {0}
         /\ 1 \in DOMAIN q /\ Head(q) = q[1]
         /\ \A i \in DOMAIN Tail(q) : i + 1 \in DOMAIN q /\ Tail(q)[i] = q[i + 1]
OBVIOUS

LEMMA Appended ==
  ASSUME NEW S, NEW q \in Seq(S), NEW e \in S
  PROVE  /\ Append(q, e) \in Seq(S)
         /\ \A i \in DOMAIN Append(q, e) :
              \/ i \in DOMAIN q /\ Append(q, e)[i] = q[i]
              \/ i = Len(q) + 1 /\ Append(q, e)[i] = e
OBVIOUS

LEMMA Joined ==
  ASSUME NEW S, NEW q \in Seq(S), NEW r \in Seq(S)
  PROVE  /\ q \o r \in Seq(S)
         /\ \A i \in DOMAIN (q \o r) :
              \/ i \in DOMAIN q /\ (q \o r)[i] = q[i]
              \/ i > Len(q) /\ i - Len(q) \in DOMAIN r /\ (q \o r)[i] = r[i - Len(q)]
OBVIOUS

LEMMA FirstOnes ==
  ASSUME NEW S, NEW q \in Seq(S), NEW p \in FirstOf(q)
  PROVE  /\ p \in Seq(S)
         /\ \A i \in DOMAIN p : i \in DOMAIN q /\ p[i] = q[i]
BY DEF FirstOf

LEMMA InitTypes == Init => TypeInv
BY SessionAssumption, NullAssumption
DEF Init, TypeInv, TypeOK, LinksInv, VisitInv, Bound, Row, Unit

(* Sending to the database server.                                         *)
LEMMA SentTypes ==
  ASSUME TypeOK, NEW s \in Servers, NEW m \in Query \cup Save
  PROVE  SentToDb(s, m) \in [Servers -> Seq(Query \cup Save)]
BY Appended DEF TypeOK, SentToDb

LEMMA LoginTypes ==
  ASSUME TypeInv, NEW l \in Links, login[l] # NoLogin
  PROVE  Server(l) \in Servers /\ Account(l) \in Accounts
BY DEF TypeInv, TypeOK, Login, Server, Account

LEMMA RequestsSent ==
  ASSUME TypeInv, NEW l \in Links, login[l] # NoLogin
  PROVE  /\ Unlock(l) \in [Servers -> Seq(Query \cup Save)]
         /\ SelectCharacter(l) \in [Servers -> Seq(Query \cup Save)]
<1>1. Server(l) \in Servers /\ Account(l) \in Accounts
  BY LoginTypes
<1>2. /\ [kind |-> "unlock", account |-> Account(l), serverId |-> Server(l)]
           \in Query \cup Save
      /\ [kind |-> "select", account |-> Account(l), serverId |-> Server(l), link |-> l]
           \in Query \cup Save
  BY <1>1, RequestTypes
<1> QED  BY <1>1, <1>2, SentTypes DEF TypeInv, Unlock, SelectCharacter

(* Steps of the login server send a client on at most, and change nothing  *)
(* at the zone servers.                                                    *)
LEMMA VisitsKept ==
  ASSUME TypeInv, UNCHANGED <<toLogin, toZone, object>>,
         \A k \in Links : phase[k] = "closed" => phase'[k] = "closed" /\ visit'[k] = visit[k],
         \A k \in Links : visit'[k] # visit[k] =>
           phase'[k] = "closed" /\ visit'[k] # NoVisit /\ visit'[k].step = "told"
  PROVE  VisitInv'
<1>1. \A k \in Links : /\ phase'[k] # "closed" => visit'[k] = NoVisit
                       /\ Bound(k)' => object'[visit'[k].zone][visit'[k].player] # NoPlayer
  BY DEF TypeInv, VisitInv, Bound
<1>2. ASSUME NEW z \in Zones, NEW m \in ToLogin \cup ToZone, m.link \in Links, Agrees(z, m)
      PROVE  Agrees(z, m)'
  BY <1>2 DEF Agrees
<1>3. ASSUME NEW z \in Zones, NEW i \in DOMAIN toLogin[z], toLogin[z][i].kind # "logout"
      PROVE  Agrees(z, toLogin[z][i])'
  <2>1. toLogin[z][i] \in ToLogin
    BY DEF TypeInv, TypeOK
  <2> QED  BY <1>2, <1>3, <2>1, ToLoginFields DEF TypeInv, VisitInv
<1>4. ASSUME NEW z \in Zones, NEW i \in DOMAIN toZone[z]
      PROVE  Agrees(z, toZone[z][i])'
  <2>1. toZone[z][i] \in ToZone /\ toZone[z][i].link \in Links
    BY ToZoneFields DEF TypeInv, TypeOK
  <2> QED  BY <1>2, <1>4, <2>1 DEF TypeInv, VisitInv
<1> QED  BY <1>1, <1>3, <1>4 DEF VisitInv

(* One lemma for each action: it keeps the types.                          *)
LEMMA PlayerLoginTypes ==
  ASSUME TypeInv, NEW l \in Links, NEW s \in Servers, NEW a \in Accounts,
         PlayerLogin(l, s, a)
  PROVE  TypeInv'
<1> USE SessionAssumption, NullAssumption
<1> DEFINE new == [server |-> s, account |-> a]
<1>0. UNCHANGED <<playerCache, nextGid, fromDb, dbUp, dbVars, toLogin, toZone, object,
                  ghostVars>>
  BY DEF PlayerLogin
<1>1. /\ login' = [login EXCEPT ![l] = new] /\ new \in Login
      /\ phase[l] = "new" /\ tempLinkContext[l] = "none" /\ visit[l] = NoVisit
  BY DEF PlayerLogin, TypeInv, TypeOK, LinksInv, VisitInv, Login
<1>2. CASE InUse(s, a) \/ InGame(s, a)
  <2>1. /\ phase' = [phase EXCEPT ![l] = "closed"]
        /\ UNCHANGED <<tempLinkContext, toDb>>
    BY <1>2 DEF PlayerLogin
  <2>2. visit' \in [Links -> Visit \cup {NoVisit}] /\ faults' \in 0..MaxFaults
    <3>1. CASE UNCHANGED <<visit, faults>>
      BY <3>1 DEF TypeInv, TypeOK
    <3>2. CASE ~UNCHANGED <<visit, faults>>
      <4> DEFINE p == playerCache[s][a]
      <4>1. PICK z \in PutIntoRegion(s, p.key) :
              Sent(l, z, a, p.gid) /\ Found(z # NoZone)
        BY <3>2, <1>2 DEF PlayerLogin
      <4>2. p \in SPlayer
        BY <3>2, <1>2 DEF PlayerLogin, InGame, TypeInv, TypeOK
      <4>3. p.gid \in Nat /\ z \in Zones \cup {NoZone}
        BY <4>2 DEF SPlayer, PutIntoRegion
      <4>4. z # NoZone => [zone |-> z, account |-> a, gid |-> p.gid, step |-> "told",
                           player |-> a] \in Visit
        BY <4>3 DEF Visit
      <4>5. faults' \in 0..MaxFaults
        BY <4>1 DEF Found, OneFault, TypeInv, TypeOK
      <4> QED  BY <4>1, <4>4, <4>5 DEF Sent, TypeInv, TypeOK
    <3> QED  BY <3>1, <3>2
  <2>3. \A m \in Links : m # l => visit'[m] = visit[m]
    BY <1>2 DEF PlayerLogin, Sent, TypeInv, TypeOK
  <2>4. visit'[l] # NoVisit => visit'[l].step = "told"
    BY <1>1, <1>2 DEF PlayerLogin, Sent, TypeInv, TypeOK
  <2>5. TypeOK'
    BY <1>0, <1>1, <2>1, <2>2 DEF TypeInv, TypeOK, dbVars, ghostVars
  <2>6. LinksInv'
    BY <1>1, <2>1 DEF TypeInv, TypeOK, LinksInv
  <2>7. VisitInv'
    <3>1. \A k \in Links : visit'[k] # visit[k] =>
            phase'[k] = "closed" /\ visit'[k] # NoVisit /\ visit'[k].step = "told"
      BY <1>1, <2>1, <2>3, <2>4 DEF TypeInv, TypeOK
    <3>2. \A k \in Links : phase[k] = "closed" =>
            phase'[k] = "closed" /\ visit'[k] = visit[k]
      BY <1>1, <2>1, <2>3 DEF TypeInv, TypeOK
    <3> QED  BY <1>0, <3>1, <3>2, VisitsKept
  <2> QED  BY <2>5, <2>6, <2>7 DEF TypeInv
<1>3. CASE ~InUse(s, a) /\ ~InGame(s, a)
  <2>1. /\ tempLinkContext' = [tempLinkContext EXCEPT ![l] = "asked"]
        /\ phase' = [phase EXCEPT ![l] = IF dbUp[s] THEN "open" ELSE "cut"]
        /\ toDb' = SentToDb(s, [kind |-> "list", account |-> a, serverId |-> s,
                                link |-> l])
        /\ UNCHANGED <<visit, faults>>
    BY <1>3 DEF PlayerLogin
  <2>2. toDb' \in [Servers -> Seq(Query \cup Save)]
    BY <2>1, SentTypes, RequestTypes DEF TypeInv
  <2>3. TypeOK'
    BY <1>0, <1>1, <2>1, <2>2 DEF TypeInv, TypeOK, dbVars, ghostVars
  <2>4. LinksInv'
    BY <1>1, <2>1 DEF TypeInv, TypeOK, LinksInv
  <2>5. VisitInv'
    BY <1>0, <1>1, <2>1, VisitsKept DEF TypeInv, TypeOK
  <2> QED  BY <2>3, <2>4, <2>5 DEF TypeInv
<1> QED  BY <1>2, <1>3

(* Steps that only end a context, or send something.                       *)
LEMMA LinkStepTypes ==
  ASSUME TypeInv, NEW l \in Links, Break(l) \/ Closed(l) \/ Reselect(l)
  PROVE  TypeInv'
<1> USE SessionAssumption, NullAssumption
<1>1. login[l] # NoLogin
  BY DEF TypeInv, LinksInv, Break, Closed, Reselect
<1>2. toDb' \in [Servers -> Seq(Query \cup Save)]
  <2>1. toDb' \in {toDb, Unlock(l), SelectCharacter(l)}
    BY DEF Break, Closed, Reselect
  <2>2. toDb \in [Servers -> Seq(Query \cup Save)]
    BY DEF TypeInv, TypeOK
  <2> QED  BY <1>1, <2>1, <2>2, RequestsSent
<1>3. /\ phase' \in [Links -> {"new", "open", "cut", "closed"}]
      /\ tempLinkContext' \in [Links -> {"none", "asked", "unbind"}]
  BY DEF TypeInv, TypeOK, Break, Closed, Reselect, clientVars
<1>4. UNCHANGED <<login, playerCache, nextGid, fromDb, dbUp, dbVars, zoneVars,
                  ghostVars, faults>>
  BY DEF Break, Closed, Reselect, clientVars
<1>5. TypeOK'
  BY <1>2, <1>3, <1>4 DEF TypeInv, TypeOK, dbVars, zoneVars, ghostVars
<1>6. LinksInv'
  BY <1>4 DEF TypeInv, TypeOK, LinksInv, Break, Closed, Reselect, clientVars
<1>7. VisitInv'
  BY <1>4, VisitsKept DEF TypeInv, TypeOK, Break, Closed, Reselect, clientVars, zoneVars
<1> QED  BY <1>5, <1>6, <1>7 DEF TypeInv

LEMMA ListAnswerTypes ==
  ASSUME TypeInv, NEW s \in Servers, RecvGetCharacterList(s)
  PROVE  TypeInv'
<1> USE SessionAssumption, NullAssumption
<1> DEFINE ans == Head(fromDb[s])
           l == ans.link
<1>1. /\ ans \in Answer /\ Tail(fromDb[s]) \in Seq(Answer)
      /\ fromDb' = [fromDb EXCEPT ![s] = Tail(@)]
  BY HeadAndTail DEF RecvGetCharacterList, TypeInv, TypeOK
<1>2. l \in Links
  BY <1>1 DEF Answer
<1>3. toDb' \in [Servers -> Seq(Query \cup Save)]
  <2>1. phase[l] = "open" => login[l] # NoLogin
    BY <1>2 DEF TypeInv, LinksInv
  <2>2. \/ toDb' = toDb
        \/ phase[l] = "open" /\ toDb' \in {Unlock(l), SelectCharacter(l)}
    BY DEF RecvGetCharacterList
  <2>3. toDb \in [Servers -> Seq(Query \cup Save)]
    BY DEF TypeInv, TypeOK
  <2> QED  BY <1>2, <2>1, <2>2, <2>3, RequestsSent
<1>4. \/ /\ phase[l] # "open"
         /\ UNCHANGED <<phase, tempLinkContext>>
      \/ /\ phase[l] = "open" /\ UNCHANGED phase
         /\ tempLinkContext' = [tempLinkContext EXCEPT ![l] = "unbind"]
      \/ /\ phase[l] = "open" /\ UNCHANGED tempLinkContext
         /\ phase' = [phase EXCEPT ![l] = "cut"]
  BY DEF RecvGetCharacterList
<1>5. UNCHANGED <<login, playerCache, nextGid, dbUp, dbVars, zoneVars, ghostVars, faults>>
  BY DEF RecvGetCharacterList
<1>6. TypeOK'
  BY <1>1, <1>2, <1>3, <1>4, <1>5 DEF TypeInv, TypeOK, dbVars, zoneVars, ghostVars
<1>7. LinksInv'
  BY <1>2, <1>4, <1>5 DEF TypeInv, TypeOK, LinksInv
<1>8. VisitInv'
  BY <1>2, <1>4, <1>5, VisitsKept DEF TypeInv, TypeOK, zoneVars
<1> QED  BY <1>6, <1>7, <1>8 DEF TypeInv

LEMMA SelectAnswerTypes ==
  ASSUME TypeInv, NEW s \in Servers, RecvGetCharacter(s)
  PROVE  TypeInv'
<1> USE SessionAssumption, NullAssumption
<1> DEFINE ans == Head(fromDb[s])
           l == ans.link
<1>1. /\ ans \in Answer /\ Tail(fromDb[s]) \in Seq(Answer)
      /\ fromDb' = [fromDb EXCEPT ![s] = Tail(@)]
      /\ UNCHANGED <<login, toDb, dbUp, dbVars, toLogin, toZone, object, ghostVars>>
  BY HeadAndTail DEF RecvGetCharacter, TypeInv, TypeOK
<1>2. l \in Links /\ ans.data \in Nat
  BY <1>1 DEF Answer
<1>3. CASE ~(Assignable(l) /\ ans.result = "success")
  <2>1. UNCHANGED <<phase, tempLinkContext, playerCache, nextGid, visit, faults>>
    BY <1>3 DEF RecvGetCharacter
  <2>2. TypeOK'
    BY <1>1, <2>1 DEF TypeInv, TypeOK, dbVars, ghostVars
  <2>3. LinksInv'
    BY <1>1, <2>1 DEF TypeInv, LinksInv
  <2>4. VisitInv'
    BY <1>1, <2>1, VisitsKept DEF TypeInv, TypeOK
  <2> QED  BY <2>2, <2>3, <2>4 DEF TypeInv
<1>4. CASE Assignable(l) /\ ans.result = "success"
  <2>1. PICK z \in PutIntoRegion(s, NoZone) :
          /\ Sent(l, z, Account(l), nextGid[s]) /\ Found(z # NoZone)
          /\ IF ~Placed(z) THEN UNCHANGED <<phase, tempLinkContext, playerCache>>
             ELSE /\ playerCache' = [playerCache EXCEPT ![s][Account(l)] =
                       [gid |-> nextGid[s], data |-> ans.data, key |-> z]]
                  /\ tempLinkContext' = [tempLinkContext EXCEPT ![l] = "none"]
                  /\ phase' = [phase EXCEPT ![l] = "closed"]
    BY <1>4 DEF RecvGetCharacter
  <2>2. /\ nextGid' = [nextGid EXCEPT ![s] = NextGid(@)]
        /\ nextGid[s] \in Nat /\ nextGid' \in [Servers -> Nat]
    <3>1. nextGid' = [nextGid EXCEPT ![s] = NextGid(@)]
      BY <1>4 DEF RecvGetCharacter
    <3>2. nextGid \in [Servers -> Nat]
      BY DEF TypeInv, TypeOK
    <3> QED  BY <3>1, <3>2 DEF NextGid
  <2>3. /\ phase[l] = "open" /\ login[l] # NoLogin /\ visit[l] = NoVisit
        /\ Account(l) \in Accounts
    BY <1>2, <1>4, LoginTypes DEF Assignable, TypeInv, LinksInv, VisitInv
  <2>4. faults' \in 0..MaxFaults
    BY <2>1 DEF Found, OneFault, TypeInv, TypeOK
  <2>5. CASE z = NoZone
    <3>1. UNCHANGED <<phase, tempLinkContext, playerCache, visit>>
      BY <2>1, <2>5 DEF Placed, Sent
    <3>2. TypeOK'
      BY <1>1, <2>2, <2>4, <3>1 DEF TypeInv, TypeOK, dbVars, ghostVars
    <3>3. LinksInv'
      BY <1>1, <3>1 DEF TypeInv, LinksInv
    <3>4. VisitInv'
      BY <1>1, <3>1, VisitsKept DEF TypeInv, TypeOK
    <3> QED  BY <3>2, <3>3, <3>4 DEF TypeInv
  <2>6. CASE z # NoZone
    <3> DEFINE new == [zone |-> z, account |-> Account(l), gid |-> nextGid[s],
                       step |-> "told", player |-> Account(l)]
               p == [gid |-> nextGid[s], data |-> ans.data, key |-> z]
    <3>1. z \in Zones
      BY <2>1, <2>6 DEF PutIntoRegion
    <3>2. new \in Visit /\ new.step = "told" /\ p \in SPlayer
      BY <1>2, <2>2, <2>3, <3>1 DEF Visit, SPlayer
    <3>3. /\ visit' = [visit EXCEPT ![l] = new]
          /\ playerCache' = [playerCache EXCEPT ![s][Account(l)] = p]
          /\ tempLinkContext' = [tempLinkContext EXCEPT ![l] = "none"]
          /\ phase' = [phase EXCEPT ![l] = "closed"]
      BY <2>1, <2>6 DEF Sent, Placed
    <3>4. /\ visit' \in [Links -> Visit \cup {NoVisit}]
          /\ playerCache' \in [Servers -> [Accounts -> SPlayer \cup {NoPlayer}]]
      BY <2>3, <3>2, <3>3 DEF TypeInv, TypeOK
    <3>5. TypeOK'
      BY <1>1, <2>2, <2>4, <3>3, <3>4 DEF TypeInv, TypeOK, dbVars, ghostVars
    <3>6. LinksInv'
      BY <1>1, <1>2, <2>3, <3>3 DEF TypeInv, TypeOK, LinksInv
    <3>7. VisitInv'
      BY <1>1, <1>2, <2>3, <3>2, <3>3, VisitsKept DEF TypeInv, TypeOK
    <3> QED  BY <3>5, <3>6, <3>7 DEF TypeInv
  <2> QED  BY <2>5, <2>6
<1> QED  BY <1>3, <1>4

-----------------------------------------------------------------------------
(* The database server.                                                    *)

(* Steps that leave links and zone servers alone.                          *)
LEMMA LinksUntouched ==
  ASSUME TypeInv, UNCHANGED <<clientVars, visit, toLogin, toZone, object>>
  PROVE  LinksInv' /\ VisitInv'
<1>1. LinksInv'
  BY DEF TypeInv, LinksInv, clientVars
<1>2. VisitInv'
  BY VisitsKept DEF clientVars
<1> QED  BY <1>1, <1>2

LEMMA ReceiveTypes ==
  ASSUME TypeInv, NEW s \in Servers, DbReceive(s)
  PROVE  TypeInv'
<1> USE SessionAssumption, NullAssumption
<1> DEFINE m == Head(toDb[s])
<1>1. /\ m \in Query \cup Save /\ Tail(toDb[s]) \in Seq(Query \cup Save)
      /\ toDb' = [toDb EXCEPT ![s] = Tail(@)]
      /\ UNCHANGED <<clientVars, playerCache, nextGid, fromDb, dbUp, row, zoneVars,
                     ghostVars, faults>>
  BY HeadAndTail DEF DbReceive, TypeInv, TypeOK
<1>2. unit' \in [Accounts -> Unit \cup {NoUnit}]
  <2>1. CASE m.kind = "save"
    <3> DEFINE u == [serverId |-> IF Cached(m.account) THEN unit[m.account].serverId
                                  ELSE m.serverId,
                     data |-> m.data, removeMe |-> TRUE]
    <3>1. m.account \in Accounts /\ m.serverId \in Servers /\ m.data \in Nat
      BY <1>1, <2>1, RequestFields
    <3>2. u \in Unit
      BY <3>1 DEF Unit, Cached, TypeInv, TypeOK
    <3>3. unit' = [unit EXCEPT ![m.account] = u]
      BY <2>1, <3>1 DEF DbReceive, SaveIntoCache, TypeInv, TypeOK
    <3> QED  BY <3>1, <3>2, <3>3 DEF TypeInv, TypeOK
  <2>2. CASE m.kind # "save"
    BY <2>2 DEF DbReceive, TypeInv, TypeOK
  <2> QED  BY <2>1, <2>2
<1>3. waiting' \in [Accounts -> Query \cup {NoQuery}]
  <2>1. m.kind # "save" => m \in Query
    BY <1>1, RequestFields
  <2> QED  BY <2>1 DEF DbReceive, TypeInv, TypeOK
<1>4. TypeOK'
  BY <1>1, <1>2, <1>3 DEF TypeInv, TypeOK, clientVars, zoneVars, ghostVars
<1>5. LinksInv' /\ VisitInv'
  BY <1>1, LinksUntouched DEF zoneVars
<1> QED  BY <1>4, <1>5 DEF TypeInv

(* An answer.                                                              *)
LEMMA AnswerTypes ==
  ASSUME TypeInv, NEW q \in Query, q.kind \in {"list", "select"}, NEW d \in Nat,
         NEW r \in {"success", "lockedSelf", "lockedOther", "fail"}, Answers(q, r, d)
  PROVE  fromDb' \in [Servers -> Seq(Answer)]
<1> DEFINE ans == [kind |-> q.kind, link |-> q.link, result |-> r, data |-> d]
           all == IF q.kind = "select" THEN <<ans, ans>> ELSE <<ans>>
<1>1. q.link \in Links /\ q.serverId \in Servers
  BY QueryFields
<1>2. ans \in Answer
  BY <1>1 DEF Answer
<1>3. all \in Seq(Answer)
  BY <1>2
<1>4. fromDb[q.serverId] \o all \in Seq(Answer)
  BY <1>1, <1>3, Joined DEF TypeInv, TypeOK
<1> QED  BY <1>1, <1>4 DEF Answers, TypeInv, TypeOK

LEMMA LockTypes ==
  ASSUME TypeInv, NEW a \in Accounts, NEW s \in Servers
  PROVE  LockRow(a, s) \in [Accounts -> Row]
BY DEF TypeInv, TypeOK, LockRow, Row

LEMMA ExecuteTypes ==
  ASSUME TypeInv, NEW a \in Accounts, DbExecute(a)
  PROVE  TypeInv'
<1> USE SessionAssumption, NullAssumption
<1> DEFINE q == waiting[a]
<1>1. /\ q \in Query
      /\ waiting' = [waiting EXCEPT ![a] = NoQuery]
      /\ UNCHANGED <<clientVars, playerCache, nextGid, toDb, dbUp, zoneVars, ghostVars,
                     faults>>
  BY DEF DbExecute, TypeInv, TypeOK
<1>2. q.account \in Accounts /\ q.serverId \in Servers
  BY <1>1, QueryFields
<1>3. /\ row' \in [Accounts -> Row]
      /\ unit' \in [Accounts -> Unit \cup {NoUnit}]
      /\ fromDb' \in [Servers -> Seq(Answer)]
  <2>1. CASE DbUnlock(q)
    <3>1. Cached(q.account) => [unit[q.account] EXCEPT !.removeMe = TRUE] \in Unit
      BY <1>2 DEF Unit, Cached, TypeInv, TypeOK
    <3> QED  BY <1>2, <2>1, <3>1 DEF DbUnlock, TypeInv, TypeOK
  <2>2. CASE DbList(q)
    <3>1. \E r \in {"success", "lockedSelf", "lockedOther", "fail"} : Answers(q, r, 0)
      BY <2>2 DEF DbList
    <3>2. fromDb' \in [Servers -> Seq(Answer)]
      BY <1>1, <2>2, <3>1, AnswerTypes DEF DbList
    <3>3. row' \in [Accounts -> Row]
      BY <1>2, <2>2, LockTypes DEF DbList, TypeInv, TypeOK
    <3> QED  BY <2>2, <3>2, <3>3 DEF DbList, TypeInv, TypeOK
  <2>3. CASE DbSelect(q)
    <3> DEFINE b == q.account
    <3>1. row[b].data \in Nat
      BY <1>2 DEF TypeInv, TypeOK, Row
    <3>2. fromDb' \in [Servers -> Seq(Answer)]
      <4>1. \/ UNCHANGED fromDb
            \/ \E r \in {"success", "lockedSelf", "lockedOther", "fail"}, d \in Nat :
                 Answers(q, r, d)
        BY <2>3, <3>1 DEF DbSelect
      <4>2. CASE UNCHANGED fromDb
        BY <4>2 DEF TypeInv, TypeOK
      <4>3. CASE ~UNCHANGED fromDb
        BY <1>1, <2>3, <4>1, <4>3, AnswerTypes DEF DbSelect
      <4> QED  BY <4>2, <4>3
    <3>3. row' \in [Accounts -> Row]
      BY <1>2, <2>3, LockTypes DEF DbSelect, TypeInv, TypeOK
    <3>4. [serverId |-> q.serverId, data |-> row[b].data, removeMe |-> FALSE] \in Unit
      BY <1>2, <3>1 DEF Unit
    <3>5. unit' \in [Accounts -> Unit \cup {NoUnit}]
      BY <1>2, <2>3, <3>4 DEF DbSelect, TypeInv, TypeOK
    <3> QED  BY <3>2, <3>3, <3>5
  <2> QED  BY <2>1, <2>2, <2>3 DEF DbExecute
<1>4. TypeOK'
  BY <1>1, <1>3 DEF TypeInv, TypeOK, clientVars, zoneVars, ghostVars
<1>5. LinksInv' /\ VisitInv'
  BY <1>1, LinksUntouched DEF zoneVars
<1> QED  BY <1>4, <1>5 DEF TypeInv

LEMMA RemoveTypes ==
  ASSUME TypeInv, NEW a \in Accounts, DbRemove(a)
  PROVE  TypeInv'
<1> USE SessionAssumption, NullAssumption
<1>1. [serverId |-> NoServer, data |-> unit[a].data] \in Row
  BY DEF DbRemove, Cached, Unit, Row, TypeInv, TypeOK
<1>2. TypeOK'
  BY <1>1 DEF DbRemove, TypeInv, TypeOK, clientVars, zoneVars, ghostVars
<1>3. LinksInv' /\ VisitInv'
  BY LinksUntouched DEF DbRemove, zoneVars
<1> QED  BY <1>2, <1>3 DEF TypeInv

-----------------------------------------------------------------------------
(* The zone servers.                                                       *)

LEMMA SendToLogin ==
  ASSUME TypeInv, NEW z \in Zones, NEW m \in ToLogin, ToLoginServer(z, m)
  PROVE  /\ toLogin' \in [Zones -> Seq(ToLogin)]
         /\ \A y \in Zones : \A i \in DOMAIN toLogin'[y] :
              \/ i \in DOMAIN toLogin[y] /\ toLogin'[y][i] = toLogin[y][i]
              \/ y = z /\ toLogin'[y][i] = m
<1>1. toLogin[z] \in Seq(ToLogin) /\ toLogin' = [toLogin EXCEPT ![z] = Append(@, m)]
  BY DEF ToLoginServer, TypeInv, TypeOK
<1>2. toLogin \in [Zones -> Seq(ToLogin)]
  BY DEF TypeInv, TypeOK
<1> QED  BY <1>1, <1>2, Appended

LEMMA TakeFromZone ==
  ASSUME TypeInv, NEW z \in Zones, toLogin[z] # <<>>, Taken(z)
  PROVE  /\ Head(toLogin[z]) \in ToLogin
         /\ Head(toLogin[z]).kind # "logout" => Agrees(z, Head(toLogin[z]))
         /\ toLogin' \in [Zones -> Seq(ToLogin)]
         /\ \A y \in Zones : \A i \in DOMAIN toLogin'[y] :
              \E j \in DOMAIN toLogin[y] : toLogin'[y][i] = toLogin[y][j]
<1>1. toLogin[z] \in Seq(ToLogin) /\ toLogin \in [Zones -> Seq(ToLogin)]
  BY DEF TypeInv, TypeOK
<1>2. /\ Head(toLogin[z]) \in ToLogin /\ Tail(toLogin[z]) \in Seq(ToLogin)
      /\ 1 \in DOMAIN toLogin[z] /\ Head(toLogin[z]) = toLogin[z][1]
      /\ \A i \in DOMAIN Tail(toLogin[z]) :
           i + 1 \in DOMAIN toLogin[z] /\ Tail(toLogin[z])[i] = toLogin[z][i + 1]
  BY <1>1, HeadAndTail
<1>3. toLogin' = [toLogin EXCEPT ![z] = Tail(@)]
  BY DEF Taken
<1>4. Head(toLogin[z]).kind # "logout" => Agrees(z, Head(toLogin[z]))
  BY <1>2 DEF TypeInv, VisitInv
<1> QED  BY <1>1, <1>2, <1>3, <1>4

LEMMA TakeFromLogin ==
  ASSUME TypeInv, NEW z \in Zones, toZone[z] # <<>>,
         toZone' = [toZone EXCEPT ![z] = Tail(@)]
  PROVE  /\ Head(toZone[z]) \in ToZone /\ Agrees(z, Head(toZone[z]))
         /\ toZone' \in [Zones -> Seq(ToZone)]
         /\ \A y \in Zones : \A i \in DOMAIN toZone'[y] :
              \E j \in DOMAIN toZone[y] : toZone'[y][i] = toZone[y][j]
<1>1. toZone[z] \in Seq(ToZone) /\ toZone \in [Zones -> Seq(ToZone)]
  BY DEF TypeInv, TypeOK
<1>2. /\ Head(toZone[z]) \in ToZone /\ Tail(toZone[z]) \in Seq(ToZone)
      /\ 1 \in DOMAIN toZone[z] /\ Head(toZone[z]) = toZone[z][1]
      /\ \A i \in DOMAIN Tail(toZone[z]) :
           i + 1 \in DOMAIN toZone[z] /\ Tail(toZone[z])[i] = toZone[z][i + 1]
  BY <1>1, HeadAndTail
<1>3. Agrees(z, Head(toZone[z]))
  BY <1>2 DEF TypeInv, VisitInv
<1> QED  BY <1>1, <1>2, <1>3

(* A reply speaks of the client the request spoke of.                      *)
LEMMA ReplyTypes ==
  ASSUME TypeInv, NEW z \in Zones, NEW m \in ToLogin, m.kind # "logout",
         NEW k \in {"rebound", "refused", "data"}, NEW d \in Nat, Reply(z, m, k, d),
         Agrees(z, m)
  PROVE  /\ toZone' \in [Zones -> Seq(ToZone)]
         /\ \A y \in Zones : \A i \in DOMAIN toZone'[y] :
              \/ \E j \in DOMAIN toZone[y] : toZone'[y][i] = toZone[y][j]
              \/ Agrees(y, toZone'[y][i])
<1> DEFINE r == [kind |-> k, account |-> m.account, gid |-> m.gid, data |-> d,
                 link |-> m.link]
<1>1. r \in ToZone
  BY ToLoginFields DEF ToZone
<1>2. Agrees(z, r)
  BY DEF Agrees
<1>3. toZone[z] \in Seq(ToZone) /\ toZone' = [toZone EXCEPT ![z] = Append(@, r)]
  BY DEF Reply, TypeInv, TypeOK
<1>4. toZone \in [Zones -> Seq(ToZone)]
  BY DEF TypeInv, TypeOK
<1> QED  BY <1>1, <1>2, <1>3, <1>4, Appended

(* Messages still speak of their clients when none was added that does not *)
(* and clients only went on, or left.                                      *)
LEMMA AgreementKept ==
  ASSUME TypeInv, TypeOK', UNCHANGED phase,
         \A k \in Links : visit'[k] # NoVisit =>
           /\ visit[k] # NoVisit /\ visit'[k].zone = visit[k].zone
           /\ visit'[k].account = visit[k].account /\ visit'[k].gid = visit[k].gid,
         \A k \in Links : Bound(k)' => object'[visit'[k].zone][visit'[k].player] # NoPlayer,
         \A y \in Zones : \A i \in DOMAIN toLogin'[y] :
           \/ toLogin'[y][i].kind = "logout" \/ Agrees(y, toLogin'[y][i])
           \/ \E j \in DOMAIN toLogin[y] : toLogin'[y][i] = toLogin[y][j],
         \A y \in Zones : \A i \in DOMAIN toZone'[y] :
           \/ Agrees(y, toZone'[y][i])
           \/ \E j \in DOMAIN toZone[y] : toZone'[y][i] = toZone[y][j]
  PROVE  VisitInv'
<1>1. ASSUME NEW z \in Zones, NEW m \in ToLogin \cup ToZone, m.link \in Links, Agrees(z, m)
      PROVE  Agrees(z, m)'
  BY <1>1 DEF Agrees
<1>2. ASSUME NEW z \in Zones, NEW i \in DOMAIN toLogin'[z], toLogin'[z][i].kind # "logout"
      PROVE  Agrees(z, toLogin[z][i])'
  <2>1. toLogin'[z][i] \in ToLogin
    BY DEF TypeOK
  <2>2. Agrees(z, toLogin'[z][i])
    BY <1>2 DEF TypeInv, VisitInv
  <2> QED  BY <1>1, <1>2, <2>1, <2>2, ToLoginFields
<1>3. ASSUME NEW z \in Zones, NEW i \in DOMAIN toZone'[z]
      PROVE  Agrees(z, toZone[z][i])'
  <2>1. toZone'[z][i] \in ToZone
    BY DEF TypeOK
  <2>2. Agrees(z, toZone'[z][i])
    BY <1>3 DEF TypeInv, VisitInv
  <2> QED  BY <1>1, <2>1, <2>2, ToZoneFields
<1>4. \A l \in Links : phase'[l] # "closed" => visit'[l] = NoVisit
  BY DEF TypeInv, VisitInv
<1> QED  BY <1>2, <1>3, <1>4 DEF VisitInv

LEMMA ClientsStay ==
  ASSUME TypeInv, TypeOK', UNCHANGED <<phase, visit, object>>,
         \A y \in Zones : \A i \in DOMAIN toLogin'[y] :
           \E j \in DOMAIN toLogin[y] : toLogin'[y][i] = toLogin[y][j],
         \A y \in Zones : \A i \in DOMAIN toZone'[y] :
           \/ \E j \in DOMAIN toZone[y] : toZone'[y][i] = toZone[y][j]
           \/ Agrees(y, toZone'[y][i])
  PROVE  VisitInv'
<1>1. \A k \in Links : Bound(k)' => object'[visit'[k].zone][visit'[k].player] # NoPlayer
  BY DEF TypeInv, VisitInv, Bound
<1>2. /\ UNCHANGED phase
      /\ \A k \in Links : visit'[k] # NoVisit =>
           /\ visit[k] # NoVisit /\ visit'[k].zone = visit[k].zone
           /\ visit'[k].account = visit[k].account /\ visit'[k].gid = visit[k].gid
  OBVIOUS
<1> QED  BY <1>1, <1>2, AgreementKept

LEMMA ConnectTypes ==
  ASSUME TypeInv, NEW l \in Links, QuestCheckRebind(l)
  PROVE  TypeInv'
<1> USE SessionAssumption, NullAssumption
<1> DEFINE v == visit[l]
           m == [kind |-> "check", account |-> v.account, gid |-> v.gid, link |-> l]
<1>1. /\ v \in Visit /\ phase[l] = "closed" /\ v # NoVisit
      /\ visit' = [visit EXCEPT ![l].step = "asked"]
      /\ UNCHANGED <<clientVars, playerCache, nextGid, toDb, fromDb, dbUp, dbVars, toZone,
                     object, ghostVars, faults>>
  BY DEF QuestCheckRebind, TypeInv, TypeOK, VisitInv
<1>2. v.zone \in Zones /\ m \in ToLogin /\ [v EXCEPT !.step = "asked"] \in Visit
  BY <1>1 DEF Visit, ToLogin
<1>3. ToLoginServer(v.zone, m) /\ Agrees(v.zone, m)
  BY <1>1 DEF QuestCheckRebind, Agrees
<1> DEFINE w == [v EXCEPT !.step = "asked"]
<1>4. /\ visit' = [visit EXCEPT ![l] = w] /\ w \in Visit
      /\ w.zone = v.zone /\ w.account = v.account /\ w.gid = v.gid /\ w.step = "asked"
  BY <1>1, <1>2 DEF Visit
<1> HIDE DEF w
<1>5. /\ toLogin' \in [Zones -> Seq(ToLogin)]
      /\ \A y \in Zones : \A i \in DOMAIN toLogin'[y] :
           \/ i \in DOMAIN toLogin[y] /\ toLogin'[y][i] = toLogin[y][i]
           \/ y = v.zone /\ toLogin'[y][i] = m
  BY <1>2, <1>3, SendToLogin
<1>6. TypeOK'
  <2>1. visit' \in [Links -> Visit \cup {NoVisit}]
    BY <1>4 DEF TypeInv, TypeOK
  <2> QED  BY <1>1, <1>5, <2>1 DEF TypeInv, TypeOK, clientVars, dbVars, ghostVars
<1>7. LinksInv'
  BY <1>1 DEF TypeInv, LinksInv, clientVars
<1>8. \A k \in Links : visit'[k] # NoVisit =>
        /\ visit[k] # NoVisit /\ visit'[k].zone = visit[k].zone
        /\ visit'[k].account = visit[k].account /\ visit'[k].gid = visit[k].gid
  BY <1>1, <1>4 DEF TypeInv, TypeOK
<1>9. \A k \in Links : Bound(k)' => object'[visit'[k].zone][visit'[k].player] # NoPlayer
  BY <1>1, <1>4 DEF TypeInv, TypeOK, VisitInv, Bound
<1>10. UNCHANGED <<phase, toZone>>
  BY <1>1 DEF clientVars
<1>11. VisitInv'
  BY <1>3, <1>5, <1>6, <1>8, <1>9, <1>10, AgreementKept
<1> QED  BY <1>6, <1>7, <1>11 DEF TypeInv

LEMMA LeaveTypes ==
  ASSUME TypeInv, NEW l \in Links, Leave(l)
  PROVE  TypeInv'
<1> USE SessionAssumption, NullAssumption
<1>1. /\ visit' = [visit EXCEPT ![l] = NoVisit]
      /\ UNCHANGED <<clientVars, playerCache, nextGid, toDb, fromDb, dbUp, dbVars, toLogin,
                     toZone, object, ghostVars, faults>>
  BY DEF Leave
<1>2. TypeOK'
  BY <1>1 DEF TypeInv, TypeOK, clientVars, dbVars, ghostVars
<1>3. LinksInv'
  BY <1>1 DEF TypeInv, LinksInv, clientVars
<1>4. VisitInv'
  BY <1>1, <1>2, AgreementKept DEF TypeInv, TypeOK, VisitInv, Bound, clientVars
<1> QED  BY <1>2, <1>3, <1>4 DEF TypeInv

LEMMA CheckTypes ==
  ASSUME TypeInv, NEW z \in Zones, DoCheckRebind(z)
  PROVE  TypeInv'
<1> USE SessionAssumption, NullAssumption
<1> DEFINE m == Head(toLogin[z])
           session == SameSession(ServerOf[z], m)
<1>1. /\ toLogin[z] # <<>> /\ m.kind = "check" /\ Taken(z)
      /\ UNCHANGED <<clientVars, playerCache, nextGid, toDb, fromDb, dbUp, dbVars, visit,
                     object, ghostVars>>
  BY DEF DoCheckRebind, FromZone
<1>2. /\ m \in ToLogin /\ Agrees(z, m)
      /\ toLogin' \in [Zones -> Seq(ToLogin)]
      /\ \A y \in Zones : \A i \in DOMAIN toLogin'[y] :
           \E j \in DOMAIN toLogin[y] : toLogin'[y][i] = toLogin[y][j]
  BY <1>1, TakeFromZone
<1>3. PICK r \in {"rebound", "refused"} :
        Reply(z, m, r, 0) /\ Found(session => r = "rebound")
  BY DEF DoCheckRebind
<1>4. /\ toZone' \in [Zones -> Seq(ToZone)]
      /\ \A y \in Zones : \A i \in DOMAIN toZone'[y] :
           \/ \E j \in DOMAIN toZone[y] : toZone'[y][i] = toZone[y][j]
           \/ Agrees(y, toZone'[y][i])
  <2>1. m.kind # "logout" /\ r \in {"rebound", "refused", "data"} /\ 0 \in Nat
    BY <1>1
  <2> QED  BY <1>2, <1>3, <2>1, ReplyTypes
<1>5. faults' \in 0..MaxFaults
  BY <1>3 DEF Found, OneFault, TypeInv, TypeOK
<1>6. TypeOK'
  BY <1>1, <1>2, <1>4, <1>5 DEF TypeInv, TypeOK, clientVars, dbVars, ghostVars
<1>7. LinksInv'
  BY <1>1 DEF TypeInv, LinksInv, clientVars
<1>8. UNCHANGED <<phase, visit, object>>
  BY <1>1 DEF clientVars
<1>9. VisitInv'
  BY <1>2, <1>4, <1>6, <1>8, ClientsStay
<1> QED  BY <1>6, <1>7, <1>9 DEF TypeInv

LEMMA SendDataTypes ==
  ASSUME TypeInv, NEW z \in Zones, SendPlayerData(z)
  PROVE  TypeInv'
<1> USE SessionAssumption, NullAssumption
<1> DEFINE m == Head(toLogin[z])
           s == ServerOf[z]
<1>1. /\ toLogin[z] # <<>> /\ m.kind = "get" /\ Taken(z)
      /\ UNCHANGED <<clientVars, playerCache, nextGid, toDb, fromDb, dbUp, dbVars, visit,
                     object, ghostVars, faults>>
  BY DEF SendPlayerData, FromZone
<1>2. /\ m \in ToLogin /\ Agrees(z, m)
      /\ toLogin' \in [Zones -> Seq(ToLogin)]
      /\ \A y \in Zones : \A i \in DOMAIN toLogin'[y] :
           \E j \in DOMAIN toLogin[y] : toLogin'[y][i] = toLogin[y][j]
  BY <1>1, TakeFromZone
<1>3. /\ toZone' \in [Zones -> Seq(ToZone)]
      /\ \A y \in Zones : \A i \in DOMAIN toZone'[y] :
           \/ \E j \in DOMAIN toZone[y] : toZone'[y][i] = toZone[y][j]
           \/ Agrees(y, toZone'[y][i])
  <2>1. CASE SameSession(s, m)
    <3>1. playerCache[s][m.account] \in SPlayer
      BY <1>2, <2>1, ToLoginFields DEF SameSession, InGame, TypeInv, TypeOK
    <3>2. playerCache[s][m.account].data \in Nat
      BY <3>1 DEF SPlayer
    <3>3. Reply(z, m, "data", playerCache[s][m.account].data)
      BY <2>1 DEF SendPlayerData
    <3> QED  BY <1>1, <1>2, <3>2, <3>3, ReplyTypes
  <2>2. CASE ~SameSession(s, m)
    BY <2>2 DEF SendPlayerData, TypeInv, TypeOK
  <2> QED  BY <2>1, <2>2
<1>4. TypeOK'
  BY <1>1, <1>2, <1>3 DEF TypeInv, TypeOK, clientVars, dbVars, ghostVars
<1>5. LinksInv'
  BY <1>1 DEF TypeInv, LinksInv, clientVars
<1>6. UNCHANGED <<phase, visit, object>>
  BY <1>1 DEF clientVars
<1>7. VisitInv'
  BY <1>2, <1>3, <1>4, <1>6, ClientsStay
<1> QED  BY <1>4, <1>5, <1>7 DEF TypeInv

LEMMA UpdateTypes ==
  ASSUME TypeInv, NEW z \in Zones, UpdatePlayerData(z)
  PROVE  TypeInv'
<1> USE SessionAssumption, NullAssumption
<1> DEFINE m == Head(toLogin[z])
           s == ServerOf[z]
           a == m.account
<1>1. /\ toLogin[z] # <<>> /\ m.kind = "logout" /\ Taken(z)
      /\ UNCHANGED <<clientVars, nextGid, fromDb, dbUp, dbVars, visit, toZone, object,
                     ghostVars, faults>>
  BY DEF UpdatePlayerData, FromZone
<1>2. /\ m \in ToLogin
      /\ toLogin' \in [Zones -> Seq(ToLogin)]
      /\ \A y \in Zones : \A i \in DOMAIN toLogin'[y] :
           \E j \in DOMAIN toLogin[y] : toLogin'[y][i] = toLogin[y][j]
  BY <1>1, TakeFromZone
<1>3. a \in Accounts /\ m.data \in Nat /\ s \in Servers
  BY <1>1, <1>2, ToLoginFields
<1>4. playerCache' \in [Servers -> [Accounts -> SPlayer \cup {NoPlayer}]]
  <2>1. playerCache' = [playerCache EXCEPT ![s][a] =
                          IF dbUp[s] \/ ~InGame(s, a) THEN NoPlayer ELSE Kept(@, m.data)]
    BY DEF UpdatePlayerData
  <2>2. InGame(s, a) => Kept(playerCache[s][a], m.data) \in SPlayer
    <3>1. InGame(s, a) => playerCache[s][a] \in SPlayer
      BY <1>3 DEF InGame, TypeInv, TypeOK
    <3> QED  BY <1>3, <3>1 DEF Kept, SPlayer
  <2>3. playerCache \in [Servers -> [Accounts -> SPlayer \cup {NoPlayer}]]
    BY DEF TypeInv, TypeOK
  <2>4. PICK x \in SPlayer \cup {NoPlayer} :
          playerCache' = [playerCache EXCEPT ![s][a] = x]
    <3>1. CASE dbUp[s] \/ ~InGame(s, a)
      BY <2>1, <3>1
    <3>2. CASE ~(dbUp[s] \/ ~InGame(s, a))
      <4>1. playerCache' = [playerCache EXCEPT ![s][a] = Kept(playerCache[s][a], m.data)]
        BY <1>3, <2>1, <2>3, <3>2
      <4> QED  BY <2>2, <3>2, <4>1
    <3> QED  BY <3>1, <3>2
  <2> QED  BY <1>3, <2>3, <2>4
<1>5. toDb' \in [Servers -> Seq(Query \cup Save)]
  <2>1. SentToDb(s, [kind |-> "save", account |-> a, serverId |-> s, data |-> m.data])
          \in [Servers -> Seq(Query \cup Save)]
    <3>1. [kind |-> "save", account |-> a, serverId |-> s, data |-> m.data]
            \in Query \cup Save
      BY <1>3 DEF Save
    <3> QED  BY <1>3, <3>1, SentTypes DEF TypeInv
  <2>2. toDb' = toDb \/
        toDb' = SentToDb(s, [kind |-> "save", account |-> a, serverId |-> s,
                             data |-> m.data])
    BY DEF UpdatePlayerData
  <2> QED  BY <2>1, <2>2 DEF TypeInv, TypeOK
<1>6. TypeOK'
  BY <1>1, <1>2, <1>4, <1>5 DEF TypeInv, TypeOK, clientVars, dbVars, ghostVars
<1>7. LinksInv'
  BY <1>1 DEF TypeInv, LinksInv, clientVars
<1>8. UNCHANGED <<phase, visit, object, toZone>>
  BY <1>1 DEF clientVars
<1>9. VisitInv'
  BY <1>2, <1>6, <1>8, ClientsStay
<1> QED  BY <1>6, <1>7, <1>9 DEF TypeInv

LEMMA BindTypes ==
  ASSUME TypeInv, NEW l \in Links, NEW z \in Zones, NEW b \in Accounts,
         visit[l] # NoVisit, visit[l].zone = z, BindPlayer(l, z, b)
  PROVE  /\ visit' \in [Links -> Visit \cup {NoVisit}]
         /\ \A k \in Links : visit'[k] # NoVisit =>
              /\ visit[k] # NoVisit /\ visit'[k].zone = visit[k].zone
              /\ visit'[k].account = visit[k].account /\ visit'[k].gid = visit[k].gid
         /\ \A k \in Links : Bound(k)' =>
              \/ visit'[k].zone = z /\ visit'[k].player = b
              \/ Bound(k) /\ visit'[k] = visit[k]
<1> USE NullAssumption
<1> DEFINE w == [visit[l] EXCEPT !.step = "there", !.player = b]
<1>1. /\ w \in Visit /\ w.zone = visit[l].zone /\ w.account = visit[l].account
      /\ w.gid = visit[l].gid /\ w.player = b
  BY DEF TypeInv, TypeOK, Visit
<1> HIDE DEF w
<1>2. visit' = [k \in Links |->
        IF k = l THEN w
        ELSE IF visit[k] # NoVisit /\ visit[k].step = "there" /\ visit[k].zone = z
                  /\ visit[k].player = b THEN NoVisit ELSE visit[k]]
  BY DEF BindPlayer, w
<1>3. visit \in [Links -> Visit \cup {NoVisit}]
  BY DEF TypeInv, TypeOK
<1> QED  BY <1>1, <1>2, <1>3 DEF Bound

LEMMA AnsweredTypes ==
  ASSUME TypeInv, NEW z \in Zones, RecvCheckRebind(z)
  PROVE  TypeInv'
<1> USE SessionAssumption, NullAssumption
<1> DEFINE m == Head(toZone[z])
           l == m.link
           a == m.account
<1>1. /\ toZone[z] # <<>> /\ toZone' = [toZone EXCEPT ![z] = Tail(@)]
      /\ UNCHANGED <<clientVars, playerCache, nextGid, toDb, fromDb, dbUp, dbVars,
                     ghostVars, faults>>
  BY DEF RecvCheckRebind, FromLogin
<1>2. /\ m \in ToZone /\ Agrees(z, m)
      /\ toZone' \in [Zones -> Seq(ToZone)]
      /\ \A y \in Zones : \A i \in DOMAIN toZone'[y] :
           \E j \in DOMAIN toZone[y] : toZone'[y][i] = toZone[y][j]
  BY <1>1, TakeFromLogin
<1>3. l \in Links /\ a \in Accounts /\ m.gid \in Nat
  BY <1>2, ToZoneFields
<1>4. /\ \A y \in Zones, b \in Accounts : object[y][b] # NoPlayer => object'[y][b] # NoPlayer
      /\ object' \in [Zones -> [Accounts -> Object \cup {NoPlayer}]]
  <2>1. CASE UNCHANGED object
    BY <2>1 DEF TypeInv, TypeOK
  <2>2. CASE ~UNCHANGED object
    <3> DEFINE new == [gid |-> m.gid, data |-> 0, init |-> FALSE]
    <3>1. object' = [object EXCEPT ![z][a] = new] /\ new \in Object
      BY <1>3, <2>2 DEF RecvCheckRebind, Object
    <3> QED  BY <1>3, <3>1 DEF TypeInv, TypeOK
  <2> QED  BY <2>1, <2>2
<1>5. /\ toLogin' \in [Zones -> Seq(ToLogin)]
      /\ \A y \in Zones : \A i \in DOMAIN toLogin'[y] :
           \/ Agrees(y, toLogin'[y][i])
           \/ \E j \in DOMAIN toLogin[y] : toLogin'[y][i] = toLogin[y][j]
  <2>1. CASE UNCHANGED toLogin
    BY <2>1 DEF TypeInv, TypeOK
  <2>2. CASE ~UNCHANGED toLogin
    <3> DEFINE g == [kind |-> "get", account |-> a, gid |-> m.gid, link |-> l]
    <3>1. ToLoginServer(z, g) /\ g \in ToLogin
      BY <1>3, <2>2 DEF RecvCheckRebind, ToLogin
    <3>2. Agrees(z, g)
      BY <1>2 DEF Agrees
    <3>3. /\ toLogin' \in [Zones -> Seq(ToLogin)]
          /\ \A y \in Zones : \A i \in DOMAIN toLogin'[y] :
               \/ i \in DOMAIN toLogin[y] /\ toLogin'[y][i] = toLogin[y][i]
               \/ y = z /\ toLogin'[y][i] = g
      BY <3>1, SendToLogin
    <3> QED  BY <3>2, <3>3
  <2> QED  BY <2>1, <2>2
<1>6. /\ visit' \in [Links -> Visit \cup {NoVisit}]
      /\ \A k \in Links : visit'[k] # NoVisit =>
           /\ visit[k] # NoVisit /\ visit'[k].zone = visit[k].zone
           /\ visit'[k].account = visit[k].account /\ visit'[k].gid = visit[k].gid
      /\ \A k \in Links : Bound(k)' => object'[visit'[k].zone][visit'[k].player] # NoPlayer
  <2>0. \A k \in Links : Bound(k) => /\ visit[k].zone \in Zones /\ visit[k].player \in Accounts
                                     /\ object[visit[k].zone][visit[k].player] # NoPlayer
    BY DEF TypeInv, TypeOK, VisitInv, Bound, Visit
  <2>1. CASE Cut(l)
    <3>1. visit' = [visit EXCEPT ![l] = NoVisit] /\ visit \in [Links -> Visit \cup {NoVisit}]
      BY <2>1 DEF Cut, TypeInv, TypeOK
    <3> QED  BY <1>4, <2>0, <3>1 DEF Bound
  <2>2. CASE ~Cut(l)
    <3>1. /\ visit[l] # NoVisit
          /\ \E b \in Accounts : BindPlayer(l, z, b) /\ object'[z][b] # NoPlayer
      <4>1. CASE \E b \in WithGid(z, m.gid) : BindPlayer(l, z, b)
        BY <1>4, <2>2, <4>1 DEF RecvCheckRebind, WithGid
      <4>2. CASE ~\E b \in WithGid(z, m.gid) : BindPlayer(l, z, b)
        <5>1. /\ object' = [object EXCEPT ![z][a] = [gid |-> m.gid, data |-> 0,
                                                     init |-> FALSE]]
              /\ BindPlayer(l, z, a) /\ visit[l] # NoVisit
          BY <2>2, <4>2 DEF RecvCheckRebind
        <5>2. [gid |-> m.gid, data |-> 0, init |-> FALSE] \in Object
          BY <1>3 DEF Object
        <5>3. object'[z][a] # NoPlayer
          BY <1>3, <5>1, <5>2 DEF TypeInv, TypeOK
        <5> QED  BY <1>3, <5>1, <5>3
      <4> QED  BY <4>1, <4>2
    <3>2. visit[l].zone = z
      BY <1>2, <3>1 DEF Agrees
    <3>3. PICK b \in Accounts : BindPlayer(l, z, b) /\ object'[z][b] # NoPlayer
      BY <3>1
    <3>4. /\ visit' \in [Links -> Visit \cup {NoVisit}]
          /\ \A k \in Links : visit'[k] # NoVisit =>
               /\ visit[k] # NoVisit /\ visit'[k].zone = visit[k].zone
               /\ visit'[k].account = visit[k].account /\ visit'[k].gid = visit[k].gid
          /\ \A k \in Links : Bound(k)' =>
               \/ visit'[k].zone = z /\ visit'[k].player = b
               \/ Bound(k) /\ visit'[k] = visit[k]
      BY <1>3, <3>1, <3>2, <3>3, BindTypes
    <3> QED  BY <1>4, <2>0, <3>3, <3>4
  <2> QED  BY <2>1, <2>2
<1>7. TypeOK'
  BY <1>1, <1>2, <1>4, <1>5, <1>6 DEF TypeInv, TypeOK, clientVars, dbVars, ghostVars
<1>8. LinksInv'
  BY <1>1 DEF TypeInv, LinksInv, clientVars
<1>9. UNCHANGED phase
  BY <1>1 DEF clientVars
<1>10. VisitInv'
  BY <1>2, <1>5, <1>6, <1>7, <1>9, AgreementKept
<1> QED  BY <1>7, <1>8, <1>10 DEF TypeInv

LEMMA DataTypes ==
  ASSUME TypeInv, NEW z \in Zones, SetPlayerData(z)
  PROVE  TypeInv'
<1> USE SessionAssumption, NullAssumption
<1> DEFINE m == Head(toZone[z])
           l == m.link
           here == IF visit[l] # NoVisit /\ visit[l].step = "there" /\ visit[l].zone = z
                   THEN {visit[l].player} ELSE WithGid(z, m.gid)
<1>1. /\ toZone[z] # <<>> /\ toZone' = [toZone EXCEPT ![z] = Tail(@)]
      /\ UNCHANGED <<clientVars, playerCache, nextGid, toDb, fromDb, dbUp, dbVars, toLogin,
                     ghostVars, faults>>
  BY DEF SetPlayerData, FromLogin
<1>2. /\ m \in ToZone
      /\ toZone' \in [Zones -> Seq(ToZone)]
      /\ \A y \in Zones : \A i \in DOMAIN toZone'[y] :
           \E j \in DOMAIN toZone[y] : toZone'[y][i] = toZone[y][j]
  BY <1>1, TakeFromLogin
<1>3. l \in Links /\ m.data \in Nat
  BY <1>2, ToZoneFields
<1>4. \A b \in here : b \in Accounts /\ object[z][b] \in Object
  BY <1>3 DEF TypeInv, TypeOK, VisitInv, Bound, Visit, WithGid
<1>5. /\ visit' \in [Links -> Visit \cup {NoVisit}]
      /\ \A k \in Links : visit'[k] # NoVisit => visit[k] # NoVisit /\ visit'[k] = visit[k]
  <2>1. UNCHANGED visit \/ visit' = [visit EXCEPT ![l] = NoVisit]
    BY DEF SetPlayerData, Cut
  <2> QED  BY <1>3, <2>1 DEF TypeInv, TypeOK
<1>6. /\ \A y \in Zones, b \in Accounts : object[y][b] # NoPlayer => object'[y][b] # NoPlayer
      /\ object' \in [Zones -> [Accounts -> Object \cup {NoPlayer}]]
  <2>1. CASE UNCHANGED object
    BY <2>1 DEF TypeInv, TypeOK
  <2>2. CASE ~UNCHANGED object
    <3>1. PICK b \in here :
            object' = [object EXCEPT ![z][b].data = m.data, ![z][b].init = TRUE]
      BY <2>2 DEF SetPlayerData
    <3> DEFINE new == [object[z][b] EXCEPT !.data = m.data, !.init = TRUE]
    <3>2. new \in Object
      BY <1>3, <1>4 DEF Object
    <3>3. object \in [Zones -> [Accounts -> Object \cup {NoPlayer}]]
      BY DEF TypeInv, TypeOK
    <3>4. object' = [object EXCEPT ![z][b] = new]
      BY <1>4, <3>1, <3>3
    <3> QED  BY <1>4, <3>2, <3>3, <3>4
  <2> QED  BY <2>1, <2>2
<1>7. TypeOK'
  BY <1>1, <1>2, <1>5, <1>6 DEF TypeInv, TypeOK, clientVars, dbVars, ghostVars
<1>8. LinksInv'
  BY <1>1 DEF TypeInv, LinksInv, clientVars
<1>9. UNCHANGED <<phase, toLogin>>
  BY <1>1 DEF clientVars
<1>10. \A k \in Links : Bound(k)' => object'[visit'[k].zone][visit'[k].player] # NoPlayer
  <2>1. \A k \in Links : Bound(k) => /\ visit[k].zone \in Zones /\ visit[k].player \in Accounts
                                     /\ object[visit[k].zone][visit[k].player] # NoPlayer
    BY DEF TypeInv, TypeOK, VisitInv, Bound, Visit
  <2> QED  BY <1>5, <1>6, <2>1 DEF Bound
<1>11. \A k \in Links : visit'[k] # NoVisit =>
         /\ visit[k] # NoVisit /\ visit'[k].zone = visit[k].zone
         /\ visit'[k].account = visit[k].account /\ visit'[k].gid = visit[k].gid
  BY <1>5
<1>12. VisitInv'
  BY <1>2, <1>7, <1>9, <1>10, <1>11, AgreementKept
<1> QED  BY <1>7, <1>8, <1>12 DEF TypeInv

LEMMA LogoutTypes ==
  ASSUME TypeInv, NEW z \in Zones, NEW a \in Accounts, Logout(z, a)
  PROVE  TypeInv'
<1> USE SessionAssumption, NullAssumption
<1> DEFINE m == [kind |-> "logout", account |-> a, gid |-> object[z][a].gid,
                 data |-> clock'[a]]
<1>1. /\ object[z][a] # NoPlayer
      /\ clock' = [clock EXCEPT ![a] = @ + 1] /\ ToLoginServer(z, m)
      /\ object' = [object EXCEPT ![z][a] = NoPlayer]
      /\ visit' = [l \in Links |->
           IF visit[l] # NoVisit /\ visit[l].zone = z /\ visit[l].step = "there"
                /\ visit[l].player = a THEN NoVisit ELSE visit[l]]
      /\ UNCHANGED <<clientVars, playerCache, nextGid, toDb, fromDb, dbUp, dbVars, toZone,
                     lost, restarted, faults>>
  BY DEF Logout
<1>2. clock' \in [Accounts -> Nat]
  BY <1>1 DEF TypeInv, TypeOK
<1>3. object[z][a] \in Object
  BY <1>1 DEF TypeInv, TypeOK
<1>4. m \in ToLogin
  BY <1>2, <1>3 DEF ToLogin, Object
<1>5. /\ toLogin' \in [Zones -> Seq(ToLogin)]
      /\ \A y \in Zones : \A i \in DOMAIN toLogin'[y] :
           \/ i \in DOMAIN toLogin[y] /\ toLogin'[y][i] = toLogin[y][i]
           \/ y = z /\ toLogin'[y][i] = m
  BY <1>1, <1>4, SendToLogin
<1>6. TypeOK'
  BY <1>1, <1>2, <1>5 DEF TypeInv, TypeOK, clientVars, dbVars
<1>7. LinksInv'
  BY <1>1 DEF TypeInv, LinksInv, clientVars
<1>8. \A k \in Links : visit'[k] # NoVisit => visit[k] # NoVisit /\ visit'[k] = visit[k]
  BY <1>1
<1>9. \A k \in Links : Bound(k)' => object'[visit'[k].zone][visit'[k].player] # NoPlayer
  <2>1. \A k \in Links : Bound(k) => /\ visit[k].zone \in Zones /\ visit[k].player \in Accounts
                                     /\ object[visit[k].zone][visit[k].player] # NoPlayer
    BY DEF TypeInv, TypeOK, VisitInv, Bound, Visit
  <2> QED  BY <1>1, <2>1 DEF TypeInv, TypeOK, Bound
<1>10. UNCHANGED <<phase, toZone>> /\ m.kind = "logout"
  BY <1>1 DEF clientVars
<1>11. VisitInv'
  BY <1>5, <1>6, <1>8, <1>9, <1>10, AgreementKept
<1> QED  BY <1>6, <1>7, <1>11 DEF TypeInv

-----------------------------------------------------------------------------
(* Faults.                                                                 *)

(* What is counted of a fault.                                             *)
LEMMA FaultTypes ==
  ASSUME TypeInv, Fault
  PROVE  clock' \in [Accounts -> Nat] /\ lost' \subseteq Accounts /\ faults' \in 0..MaxFaults
BY SessionAssumption DEF Fault, OneFault, TypeInv, TypeOK

LEMMA DbLinkTypes ==
  ASSUME TypeInv, NEW s \in Servers, BreakDb(s) \/ ReconnectDb(s)
  PROVE  TypeInv'
<1> USE SessionAssumption, NullAssumption
<1>1. toDb' \in [Servers -> Seq(Query \cup Save)]
  <2>1. toDb \in [Servers -> Seq(Query \cup Save)]
    BY DEF TypeInv, TypeOK
  <2>2. CASE BreakDb(s)
    <3>1. PICK q \in FirstOf(toDb[s]) : toDb' = [toDb EXCEPT ![s] = q]
      BY <2>2 DEF BreakDb
    <3>2. q \in Seq(Query \cup Save)
      BY <2>1, <3>1, FirstOnes
    <3> QED  BY <2>1, <3>1, <3>2
  <2>3. CASE ReconnectDb(s)
    BY <2>1, <2>3 DEF ReconnectDb
  <2> QED  BY <2>2, <2>3
<1>2. /\ dbUp' \in [Servers -> BOOLEAN] /\ fromDb' \in [Servers -> Seq(Answer)]
      /\ UNCHANGED <<clientVars, playerCache, nextGid, dbVars, zoneVars, restarted>>
  <2>1. \E x \in BOOLEAN : dbUp' = [dbUp EXCEPT ![s] = x]
    BY DEF BreakDb, ReconnectDb
  <2>2. UNCHANGED fromDb \/ fromDb' = [fromDb EXCEPT ![s] = <<>>]
    BY DEF BreakDb, ReconnectDb
  <2>3. UNCHANGED <<clientVars, playerCache, nextGid, dbVars, zoneVars, restarted>>
    BY DEF BreakDb, ReconnectDb, ghostVars
  <2>4. dbUp' \in [Servers -> BOOLEAN]
    <3>1. dbUp \in [Servers -> BOOLEAN]
      BY DEF TypeInv, TypeOK
    <3> QED  BY <2>1, <3>1, Zenon
  <2>5. fromDb' \in [Servers -> Seq(Answer)]
    <3>1. fromDb \in [Servers -> Seq(Answer)] /\ <<>> \in Seq(Answer)
      BY DEF TypeInv, TypeOK
    <3> QED  BY <2>2, <3>1
  <2> QED  BY <2>3, <2>4, <2>5
<1>3. clock' \in [Accounts -> Nat] /\ lost' \subseteq Accounts /\ faults' \in 0..MaxFaults
  <2>1. CASE Fault
    BY <2>1, FaultTypes
  <2>2. CASE UNCHANGED <<ghostVars, faults>>
    BY <2>2 DEF ghostVars, TypeInv, TypeOK
  <2> QED  BY <2>1, <2>2 DEF BreakDb, ReconnectDb
<1>4. TypeOK'
  BY <1>1, <1>2, <1>3 DEF TypeInv, TypeOK, clientVars, dbVars, zoneVars
<1>5. LinksInv' /\ VisitInv'
  BY <1>2, LinksUntouched DEF zoneVars
<1> QED  BY <1>4, <1>5 DEF TypeInv

LEMMA CrashDbTypes ==
  ASSUME TypeInv, CrashDb
  PROVE  TypeInv'
<1> USE SessionAssumption, NullAssumption
<1>1. /\ dbUp' = [s \in Servers |-> FALSE]
      /\ toDb' = [s \in Servers |-> <<>>] /\ fromDb' = [s \in Servers |-> <<>>]
      /\ unit' = [a \in Accounts |-> NoUnit] /\ waiting' = [a \in Accounts |-> NoQuery]
      /\ UNCHANGED <<clientVars, playerCache, nextGid, row, zoneVars, restarted>>
  BY DEF CrashDb
<1>2. clock' \in [Accounts -> Nat] /\ lost' \subseteq Accounts /\ faults' \in 0..MaxFaults
  BY FaultTypes DEF CrashDb
<1>3. TypeOK'
  BY <1>1, <1>2 DEF TypeInv, TypeOK, clientVars, zoneVars
<1>4. LinksInv' /\ VisitInv'
  BY <1>1, LinksUntouched DEF zoneVars
<1> QED  BY <1>3, <1>4 DEF TypeInv

LEMMA LinkLostTypes ==
  ASSUME TypeInv, NEW z \in Zones, LinkLost(z)
  PROVE  /\ toLogin' \in [Zones -> Seq(ToLogin)] /\ toZone' \in [Zones -> Seq(ToZone)]
         /\ \A y \in Zones : \A i \in DOMAIN toLogin'[y] :
              \E j \in DOMAIN toLogin[y] : toLogin'[y][i] = toLogin[y][j]
         /\ \A y \in Zones : \A i \in DOMAIN toZone'[y] :
              \E j \in DOMAIN toZone[y] : toZone'[y][i] = toZone[y][j]
<1>1. PICK q \in FirstOf(toLogin[z]) : toLogin' = [toLogin EXCEPT ![z] = q]
  BY DEF LinkLost
<1>2. toLogin \in [Zones -> Seq(ToLogin)] /\ toZone \in [Zones -> Seq(ToZone)]
  BY DEF TypeInv, TypeOK
<1>3. q \in Seq(ToLogin) /\ \A i \in DOMAIN q : i \in DOMAIN toLogin[z] /\ q[i] = toLogin[z][i]
  BY <1>1, <1>2, FirstOnes
<1>4. toZone' = [toZone EXCEPT ![z] = <<>>]
  BY DEF LinkLost
<1> QED  BY <1>1, <1>2, <1>3, <1>4

LEMMA ZoneFaultTypes ==
  ASSUME TypeInv, NEW z \in Zones, BreakZone(z) \/ CrashZone(z)
  PROVE  TypeInv'
<1> USE SessionAssumption, NullAssumption
<1>1. /\ LinkLost(z) /\ Fault
      /\ UNCHANGED <<clientVars, playerCache, nextGid, toDb, fromDb, dbUp, dbVars,
                     restarted>>
  BY DEF BreakZone, CrashZone
<1>2. \/ UNCHANGED <<visit, object>>
      \/ /\ object' = [object EXCEPT ![z] = [a \in Accounts |-> NoPlayer]]
         /\ visit' = [l \in Links |-> IF visit[l] # NoVisit /\ visit[l].zone = z
                                      THEN NoVisit ELSE visit[l]]
  BY DEF BreakZone, CrashZone
<1>3. /\ toLogin' \in [Zones -> Seq(ToLogin)] /\ toZone' \in [Zones -> Seq(ToZone)]
      /\ \A y \in Zones : \A i \in DOMAIN toLogin'[y] :
           \E j \in DOMAIN toLogin[y] : toLogin'[y][i] = toLogin[y][j]
      /\ \A y \in Zones : \A i \in DOMAIN toZone'[y] :
           \E j \in DOMAIN toZone[y] : toZone'[y][i] = toZone[y][j]
  BY <1>1, LinkLostTypes
<1>4. clock' \in [Accounts -> Nat] /\ lost' \subseteq Accounts /\ faults' \in 0..MaxFaults
  BY <1>1, FaultTypes
<1>5. /\ visit' \in [Links -> Visit \cup {NoVisit}]
      /\ object' \in [Zones -> [Accounts -> Object \cup {NoPlayer}]]
  <2>1. /\ visit \in [Links -> Visit \cup {NoVisit}]
        /\ object \in [Zones -> [Accounts -> Object \cup {NoPlayer}]]
    BY DEF TypeInv, TypeOK
  <2>2. CASE UNCHANGED <<visit, object>>
    BY <2>1, <2>2
  <2>3. CASE ~UNCHANGED <<visit, object>>
    BY <1>2, <2>1, <2>3
  <2> QED  BY <2>2, <2>3
<1>6. TypeOK'
  BY <1>1, <1>3, <1>4, <1>5 DEF TypeInv, TypeOK, clientVars, dbVars
<1>7. LinksInv'
  BY <1>1 DEF TypeInv, LinksInv, clientVars
<1>8. \A k \in Links : visit'[k] # NoVisit => visit[k] # NoVisit /\ visit'[k] = visit[k]
  BY <1>2
<1>9. \A k \in Links : Bound(k)' => object'[visit'[k].zone][visit'[k].player] # NoPlayer
  <2>1. \A k \in Links : Bound(k) => /\ visit[k].zone \in Zones /\ visit[k].player \in Accounts
                                     /\ object[visit[k].zone][visit[k].player] # NoPlayer
    BY DEF TypeInv, TypeOK, VisitInv, Bound, Visit
  <2> QED  BY <1>2, <2>1 DEF TypeInv, TypeOK, Bound
<1>10. UNCHANGED phase
  BY <1>1 DEF clientVars
<1>11. VisitInv'
  BY <1>3, <1>6, <1>8, <1>9, <1>10, AgreementKept
<1> QED  BY <1>6, <1>7, <1>11 DEF TypeInv

(* The saves of a login server that ends: one for every player in its      *)
(* cache.                                                                  *)
LEMMA SavesOfPlayers ==
  ASSUME TypeInv, NEW s \in Servers, NEW q \in SetToSeqs(SaveAllPlayer(s))
  PROVE  /\ q \in Seq(Query \cup Save)
         /\ \A i \in DOMAIN q : /\ q[i].kind = "save" /\ q[i].serverId = s
                                /\ q[i].account \in Accounts /\ InGame(s, q[i].account)
         /\ \A i, j \in DOMAIN q : i # j => q[i].account # q[j].account
<1> DEFINE A == {b \in Accounts : InGame(s, b)}
           saveOf(a) == [kind |-> "save", account |-> a, serverId |-> s,
                         data |-> playerCache[s][a].data]
           S == SaveAllPlayer(s)
           f == [a \in A |-> saveOf(a)]
<1>1. S = {saveOf(a) : a \in A}
  BY DEF SaveAllPlayer
<1>2. IsFiniteSet(A)
  BY FS_Subset, SessionAssumption
<1>3. f \in Surjection(A, S)
  BY <1>1 DEF Surjection
<1>4. Cardinality(S) \in Nat
  BY <1>2, <1>3, FS_Surjection, FS_CardinalityType
<1>5. /\ q \in [1..Cardinality(S) -> S]
      /\ \A i, j \in 1..Cardinality(S) : i # j => q[i] # q[j]
  BY DEF SetToSeqs
<1>6. \A a \in A : saveOf(a) \in Save
  <2> TAKE a \in A
  <2>1. playerCache[s][a] \in SPlayer
    BY DEF InGame, TypeInv, TypeOK
  <2> QED  BY <2>1 DEF SPlayer, Save
<1>7. \A m \in S : \E a \in A : m = saveOf(a)
  BY <1>1
<1>8. S \subseteq Save
  BY <1>6, <1>7
<1>9. DOMAIN q = 1..Cardinality(S) /\ q \in Seq(Query \cup Save)
  BY <1>4, <1>5, <1>8
<1>10. \A i \in DOMAIN q : \E a \in A : q[i] = saveOf(a)
  BY <1>5, <1>7, <1>9
<1>11. \A i \in DOMAIN q : q[i].account \in A /\ q[i] = saveOf(q[i].account)
  BY <1>10
<1> QED  BY <1>5, <1>9, <1>11

LEMMA StartAgainTypes ==
  ASSUME TypeInv, NEW s \in Servers, NEW q \in Seq(Query \cup Save), StartAgain(s, q), Fault
  PROVE  TypeInv'
<1> USE SessionAssumption, NullAssumption
<1> DEFINE its(z) == ServerOf[z] = s
           on(l)  == login[l] # NoLogin /\ Server(l) = s
<1>1. /\ phase' = [l \in Links |-> IF on(l) THEN "closed" ELSE phase[l]]
      /\ tempLinkContext' = [l \in Links |-> IF on(l) THEN "none" ELSE tempLinkContext[l]]
      /\ UNCHANGED <<login, dbVars, visit, object>>
  BY DEF StartAgain
<1>2. /\ playerCache' = [playerCache EXCEPT ![s] = [a \in Accounts |-> NoPlayer]]
      /\ nextGid' = [nextGid EXCEPT ![s] = 1]
      /\ toDb' = [toDb EXCEPT ![s] = q] /\ fromDb' = [fromDb EXCEPT ![s] = <<>>]
      /\ dbUp' = [dbUp EXCEPT ![s] = FALSE]
      /\ restarted' = restarted \cup {s}
  BY DEF StartAgain
<1>3. /\ toLogin' = [z \in Zones |-> IF its(z) THEN <<>> ELSE toLogin[z]]
      /\ toZone' = [z \in Zones |-> IF its(z) THEN <<>> ELSE toZone[z]]
  BY DEF StartAgain
<1>4. clock' \in [Accounts -> Nat] /\ lost' \subseteq Accounts /\ faults' \in 0..MaxFaults
  BY FaultTypes
<1>5. /\ phase' \in [Links -> {"new", "open", "cut", "closed"}]
      /\ tempLinkContext' \in [Links -> {"none", "asked", "unbind"}]
  BY <1>1 DEF TypeInv, TypeOK
<1>6. /\ playerCache' \in [Servers -> [Accounts -> SPlayer \cup {NoPlayer}]]
      /\ nextGid' \in [Servers -> Nat] /\ toDb' \in [Servers -> Seq(Query \cup Save)]
      /\ fromDb' \in [Servers -> Seq(Answer)] /\ dbUp' \in [Servers -> BOOLEAN]
      /\ restarted' \subseteq Servers
  <2>1. dbUp' \in [Servers -> BOOLEAN]
    <3>1. dbUp \in [Servers -> BOOLEAN]
      BY DEF TypeInv, TypeOK
    <3> QED  BY <1>2, <3>1, Zenon
  <2>2. /\ playerCache' \in [Servers -> [Accounts -> SPlayer \cup {NoPlayer}]]
        /\ nextGid' \in [Servers -> Nat] /\ toDb' \in [Servers -> Seq(Query \cup Save)]
        /\ fromDb' \in [Servers -> Seq(Answer)] /\ restarted' \subseteq Servers
    BY <1>2 DEF TypeInv, TypeOK
  <2> QED  BY <2>1, <2>2
<1>7. toLogin' \in [Zones -> Seq(ToLogin)] /\ toZone' \in [Zones -> Seq(ToZone)]
  BY <1>3 DEF TypeInv, TypeOK
<1>8. TypeOK'
  BY <1>1, <1>4, <1>5, <1>6, <1>7 DEF TypeInv, TypeOK, dbVars
<1>9. LinksInv'
  BY <1>1 DEF TypeInv, LinksInv
<1>10. \A k \in Links : phase[k] = "closed" => phase'[k] = "closed"
  BY <1>1
<1>11. \A k \in Links : /\ phase'[k] # "closed" => visit'[k] = NoVisit
                        /\ Bound(k)' => object'[visit'[k].zone][visit'[k].player] # NoPlayer
  BY <1>1, <1>10 DEF TypeInv, VisitInv, Bound
<1>12. ASSUME NEW z \in Zones, NEW m \in ToLogin \cup ToZone, m.link \in Links, Agrees(z, m)
       PROVE  Agrees(z, m)'
  BY <1>1, <1>10, <1>12 DEF Agrees
<1>13. ASSUME NEW z \in Zones, NEW i \in DOMAIN toLogin'[z], toLogin'[z][i].kind # "logout"
       PROVE  Agrees(z, toLogin[z][i])'
  <2>1. ~its(z) /\ toLogin'[z] = toLogin[z] /\ i \in DOMAIN toLogin[z]
    BY <1>3, <1>13
  <2>2. toLogin[z][i] \in ToLogin /\ Agrees(z, toLogin[z][i])
    BY <1>13, <2>1 DEF TypeInv, TypeOK, VisitInv
  <2> QED  BY <1>12, <1>13, <2>1, <2>2, ToLoginFields
<1>14. ASSUME NEW z \in Zones, NEW i \in DOMAIN toZone'[z]
       PROVE  Agrees(z, toZone[z][i])'
  <2>1. ~its(z) /\ toZone'[z] = toZone[z] /\ i \in DOMAIN toZone[z]
    BY <1>3, <1>14
  <2>2. toZone[z][i] \in ToZone /\ Agrees(z, toZone[z][i])
    BY <1>14, <2>1 DEF TypeInv, TypeOK, VisitInv
  <2> QED  BY <1>12, <2>1, <2>2, ToZoneFields
<1> QED  BY <1>8, <1>9, <1>11, <1>13, <1>14 DEF TypeInv, VisitInv

LEMMA RestartTypes ==
  ASSUME TypeInv, NEW s \in Servers, CrashLogin(s) \/ Destroy(s)
  PROVE  TypeInv'
<1>1. toDb[s] \in Seq(Query \cup Save)
  BY DEF TypeInv, TypeOK
<1>2. CASE CrashLogin(s)
  <2>1. PICK q \in FirstOf(toDb[s]) : StartAgain(s, q)
    BY <1>2 DEF CrashLogin
  <2> QED  BY <1>1, <1>2, <2>1, FirstOnes, StartAgainTypes DEF CrashLogin
<1>3. CASE Destroy(s)
  <2>1. PICK q \in SetToSeqs(SaveAllPlayer(s)) : StartAgain(s, toDb[s] \o q)
    BY <1>3 DEF Destroy
  <2>2. toDb[s] \o q \in Seq(Query \cup Save)
    BY <1>1, <2>1, SavesOfPlayers, Joined
  <2> QED  BY <1>3, <2>1, <2>2, StartAgainTypes DEF Destroy
<1> QED  BY <1>2, <1>3

(* Every step keeps the types.                                             *)
LEMMA NextTypes ==
  ASSUME TypeInv, [Next]_vars
  PROVE  TypeInv'
<1>1. CASE UNCHANGED vars
  <2>1. UNCHANGED <<clientVars, playerCache, nextGid, toDb, fromDb, dbUp, dbVars, zoneVars,
                    ghostVars, faults>>
    BY <1>1 DEF vars
  <2>2. TypeOK'
    BY <2>1 DEF TypeInv, TypeOK, clientVars, dbVars, zoneVars, ghostVars
  <2>3. LinksInv' /\ VisitInv'
    BY <2>1, LinksUntouched DEF zoneVars
  <2> QED  BY <2>2, <2>3 DEF TypeInv
<1>2. CASE Next
  <2>1. ASSUME NEW l \in Links, NEW s \in Servers, NEW a \in Accounts, PlayerLogin(l, s, a)
        PROVE  TypeInv'
    BY <2>1, PlayerLoginTypes
  <2>2. ASSUME NEW l \in Links, \/ Break(l) \/ Closed(l) \/ Reselect(l)
                                \/ QuestCheckRebind(l) \/ Leave(l)
        PROVE  TypeInv'
    BY <2>2, LinkStepTypes, ConnectTypes, LeaveTypes
  <2>3. ASSUME NEW s \in Servers, \/ RecvGetCharacterList(s) \/ RecvGetCharacter(s)
                                  \/ DbReceive(s) \/ ReconnectDb(s)
        PROVE  TypeInv'
    BY <2>3, ListAnswerTypes, SelectAnswerTypes, ReceiveTypes, DbLinkTypes
  <2>4. ASSUME NEW a \in Accounts, DbExecute(a) \/ DbRemove(a)
        PROVE  TypeInv'
    BY <2>4, ExecuteTypes, RemoveTypes
  <2>5. ASSUME NEW z \in Zones, \/ DoCheckRebind(z) \/ SendPlayerData(z)
                                \/ UpdatePlayerData(z) \/ RecvCheckRebind(z)
                                \/ SetPlayerData(z) \/ \E a \in Accounts : Logout(z, a)
        PROVE  TypeInv'
    BY <2>5, CheckTypes, SendDataTypes, UpdateTypes, AnsweredTypes, DataTypes, LogoutTypes
  <2>6. CASE Faults
    BY <2>6, CrashDbTypes, DbLinkTypes, RestartTypes, ZoneFaultTypes DEF Faults
  <2> QED  BY <1>2, <2>1, <2>2, <2>3, <2>4, <2>5, <2>6 DEF Next
<1> QED  BY <1>1, <1>2

LEMMA TypesAlways == Spec => []TypeInv
<1>1. Init => TypeInv
  BY InitTypes
<1>2. TypeInv /\ [Next]_vars => TypeInv'
  BY NextTypes
<1> QED  BY <1>1, <1>2, PTL DEF Spec

(* Every variable keeps its type: a message for a client always finds the  *)
(* client where it was sent, and a bound client a player.                  *)
THEOREM TypeCorrect == Spec => []TypeOK
<1>1. TypeInv => TypeOK
  BY DEF TypeInv
<1> QED  BY <1>1, TypesAlways, PTL

-----------------------------------------------------------------------------
(* The inductive invariant.                                                *)

LEMMA InitInv == Init => IInv
BY NullAssumption
DEF Init, IInv, RequestsInv, ContextInv, UnitsHeld, ListInv, SelectInv, GameInv, SaveInv,
    Cached, InGame

(* What a login server may send: an unlock or a save ends the context, or  *)
(* the session.                                                            *)
NewRequest(s, m) ==
  /\ m.serverId = s
  /\ m.kind \in {"list", "select"} =>
       login'[m.link] = [server |-> s, account |-> m.account]
  /\ m.kind = "select" /\ phase'[m.link] = "open" => tempLinkContext'[m.link] = "unbind"
  /\ m.kind \in {"unlock", "save"} =>
       /\ playerCache'[s][m.account] = NoPlayer
       /\ \A l \in Links :
            phase'[l] = "open" => login'[l] # [server |-> s, account |-> m.account]
  /\ m.kind = "save" => InGame(s, m.account)

(* The first n requests of s are still there, the others are new.          *)
Continues(s, n) ==
  /\ \A i \in DOMAIN toDb'[s] :
       IF i <= n THEN i \in DOMAIN toDb[s] /\ toDb'[s][i] = toDb[s][i]
       ELSE NewRequest(s, toDb'[s][i])
  /\ \A i, j \in DOMAIN toDb'[s] :
       n < j /\ j < i /\ toDb'[s][i].kind = "save" =>
         ~Gives(toDb'[s][j], toDb'[s][i].account)

(* What every step does but those of the database server: it sends such    *)
(* requests, drops messages, units and waiting queries, and lets a link go *)
(* on, or a session begin, only while the row is kept.                     *)
LoginSide ==
  /\ UNCHANGED row
  /\ \A a \in Accounts : /\ unit'[a] \in {unit[a], NoUnit}
                         /\ waiting'[a] \in {waiting[a], NoQuery}
  /\ \A l \in Links : login[l] # NoLogin => login'[l] = login[l]
  /\ \A l \in Links : phase'[l] = "open" /\ login[l] # NoLogin =>
       phase[l] = "open" /\ (tempLinkContext[l] = "unbind" => tempLinkContext'[l] = "unbind")
  /\ \A l \in Links : phase'[l] = "open" /\ tempLinkContext'[l] = "unbind" =>
       login[l] # NoLogin /\ Clean(Server(l), Account(l))
  /\ \A s \in Servers, a \in Accounts :
       playerCache'[s][a] # NoPlayer => InGame(s, a) \/ (Keeps(s, a) /\ Clean(s, a))
  /\ \A s \in Servers : \A i \in DOMAIN fromDb'[s] :
       \E j \in DOMAIN fromDb[s] : fromDb'[s][i] = fromDb[s][j]
  /\ \A s \in Servers : \E n \in Nat : Continues(s, n)

(* Requests and answers, as the invariants speak of them.                  *)
LEMMA RequestIs ==
  ASSUME TypeInv, IInv, NEW s \in Servers, NEW i \in DOMAIN toDb[s]
  PROVE  /\ toDb[s][i] \in Query \cup Save
         /\ toDb[s][i].account \in Accounts /\ toDb[s][i].serverId = s
         /\ toDb[s][i].kind \in {"list", "select"} =>
              /\ toDb[s][i].link \in Links /\ login[toDb[s][i].link] # NoLogin
              /\ login[toDb[s][i].link] = [server |-> s, account |-> toDb[s][i].account]
<1> DEFINE m == toDb[s][i]
<1>1. m \in Query \cup Save /\ m.serverId = s
  BY DEF TypeInv, TypeOK, IInv, RequestsInv
<1>2. m.account \in Accounts /\ (m.kind \in {"list", "select"} => m.link \in Links)
  BY <1>1, RequestFields, QueryFields
<1>3. m.kind \in {"list", "select"} => login[m.link] = [server |-> s, account |-> m.account]
  BY <1>1 DEF IInv, RequestsInv, AskedBy
<1>4. [server |-> s, account |-> m.account] \in Login
  BY <1>2 DEF Login
<1> QED  BY <1>1, <1>2, <1>3, <1>4, NullAssumption

LEMMA WaitingIs ==
  ASSUME TypeInv, IInv, NEW a \in Accounts, waiting[a] # NoQuery
  PROVE  /\ waiting[a] \in Query /\ waiting[a].account = a /\ waiting[a].serverId \in Servers
         /\ waiting[a].kind \in {"list", "select"} =>
              /\ waiting[a].link \in Links /\ login[waiting[a].link] # NoLogin
              /\ login[waiting[a].link] = [server |-> waiting[a].serverId, account |-> a]
<1> DEFINE m == waiting[a]
<1>1. m \in Query /\ m.account = a
  BY DEF TypeInv, TypeOK, IInv, RequestsInv
<1>2. m.serverId \in Servers /\ (m.kind \in {"list", "select"} => m.link \in Links)
  BY <1>1, QueryFields
<1>3. m.kind \in {"list", "select"} => login[m.link] = [server |-> m.serverId, account |-> a]
  BY <1>1 DEF IInv, RequestsInv, AskedBy
<1>4. [server |-> m.serverId, account |-> a] \in Login
  BY <1>2 DEF Login
<1> QED  BY <1>1, <1>2, <1>3, <1>4, NullAssumption

LEMMA AnswerIs ==
  ASSUME TypeInv, IInv, NEW s \in Servers, NEW i \in DOMAIN fromDb[s]
  PROVE  /\ fromDb[s][i] \in Answer /\ fromDb[s][i].link \in Links
         /\ login[fromDb[s][i].link] # NoLogin /\ Server(fromDb[s][i].link) = s
         /\ Account(fromDb[s][i].link) \in Accounts
<1>1. fromDb[s][i] \in Answer
  BY DEF TypeInv, TypeOK
<1>2. fromDb[s][i].link \in Links
  BY <1>1 DEF Answer
<1>3. login[fromDb[s][i].link] # NoLogin /\ Server(fromDb[s][i].link) = s
  BY DEF IInv, RequestsInv
<1> QED  BY <1>1, <1>2, <1>3, LoginTypes

(* A login is its server and its account.                                  *)
LEMMA LoginIs ==
  ASSUME TypeInv, NEW l \in Links, login[l] # NoLogin
  PROVE  login[l] = [server |-> Server(l), account |-> Account(l)]
BY DEF TypeInv, TypeOK, Login, Server, Account

(* A row that is kept stays so, and nothing that gives it away is sent     *)
(* while its player is in the game or a link of it is open.                *)
LEMMA KeepsStays ==
  ASSUME LoginSide, NEW s \in Servers, NEW a \in Accounts, Keeps(s, a)
  PROVE  Keeps(s, a)'
BY DEF LoginSide, Keeps, Cached

LEMMA CleanStays ==
  ASSUME LoginSide, NEW s \in Servers, NEW a \in Accounts, Clean(s, a),
         \/ playerCache'[s][a] # NoPlayer
         \/ \E l \in Links :
              phase'[l] = "open" /\ login'[l] = [server |-> s, account |-> a]
  PROVE  Clean(s, a)'
<1>1. ~UnlockWaits(s, a)'
  BY DEF LoginSide, Clean, UnlockWaits
<1>2. ASSUME NEW i \in DOMAIN toDb'[s], Gives(toDb'[s][i], a)
      PROVE  FALSE
  <2>1. PICK n \in Nat : Continues(s, n)
    BY DEF LoginSide
  <2>2. CASE i <= n
    BY <1>2, <2>1, <2>2 DEF Continues, Clean, NoneSent
  <2>3. CASE ~(i <= n)
    BY <1>2, <2>1, <2>3 DEF Continues, NewRequest, Gives
  <2> QED  BY <2>2, <2>3
<1> QED  BY <1>1, <1>2 DEF Clean, NoneSent

LEMMA LoginSideKeeps ==
  ASSUME TypeInv, TypeInv', IInv, LoginSide, ContextInv'
  PROVE  IInv'
<1> USE NullAssumption
<1>1. ASSUME NEW l \in Links, login[l] # NoLogin
      PROVE  /\ login'[l] = login[l] /\ Server(l)' = Server(l) /\ Account(l)' = Account(l)
             /\ phase'[l] = "open" => phase[l] = "open"
             /\ phase'[l] = "open" /\ tempLinkContext[l] = "unbind" =>
                  tempLinkContext'[l] = "unbind"
  BY <1>1 DEF LoginSide, Server, Account
<1>2. ASSUME NEW l \in Links, login[l] # NoLogin, phase'[l] = "open",
             Clean(Server(l), Account(l))
      PROVE  Clean(Server(l), Account(l))'
  <2>1. Server(l) \in Servers /\ Account(l) \in Accounts
    BY <1>2, LoginTypes
  <2>2. login'[l] = [server |-> Server(l), account |-> Account(l)]
    BY <1>1, <1>2, LoginIs
  <2>3. ASSUME NEW s \in Servers, NEW a \in Accounts, s = Server(l), a = Account(l)
        PROVE  Clean(s, a)'
    BY <1>2, <2>2, <2>3, CleanStays
  <2> QED  BY <1>1, <1>2, <2>1, <2>3
<1>3. RequestsInv'
  <2>1. ASSUME NEW s \in Servers, NEW i \in DOMAIN toDb'[s]
        PROVE  /\ toDb'[s][i].serverId = s
               /\ toDb'[s][i].kind \in {"list", "select"} => AskedBy(toDb[s][i])'
    <3>1. PICK n \in Nat : Continues(s, n)
      BY DEF LoginSide
    <3>2. CASE i <= n
      <4>1. i \in DOMAIN toDb[s] /\ toDb'[s][i] = toDb[s][i]
        BY <3>1, <3>2 DEF Continues
      <4>2. toDb[s][i].serverId = s
        BY <4>1, RequestIs
      <4>3. CASE toDb[s][i].kind \in {"list", "select"}
        <5>1. PICK l \in Links : l = toDb[s][i].link
          BY <4>1, <4>3, RequestIs
        <5>2. login[l] # NoLogin /\ login[l] = [server |-> s, account |-> toDb[s][i].account]
          BY <4>1, <4>3, <5>1, RequestIs
        <5>3. login'[l] = login[l]
          BY <1>1, <5>2
        <5> QED  BY <4>1, <4>2, <5>1, <5>2, <5>3 DEF AskedBy
      <4> QED  BY <4>1, <4>2, <4>3
    <3>3. CASE ~(i <= n)
      BY <3>1, <3>3 DEF Continues, NewRequest, AskedBy
    <3> QED  BY <3>2, <3>3
  <2>2. ASSUME NEW a \in Accounts, waiting'[a] # NoQuery
        PROVE  /\ waiting'[a].account = a
               /\ waiting'[a].kind \in {"list", "select"} => AskedBy(waiting[a])'
    <3>1. waiting'[a] = waiting[a]
      BY <2>2 DEF LoginSide
    <3>2. waiting[a].account = a
      BY <2>2, <3>1, WaitingIs
    <3>3. CASE waiting[a].kind \in {"list", "select"}
      <4>1. PICK l \in Links : l = waiting[a].link
        BY <2>2, <3>1, <3>3, WaitingIs
      <4>2. /\ login[l] # NoLogin
            /\ login[l] = [server |-> waiting[a].serverId, account |-> a]
        BY <2>2, <3>1, <3>3, <4>1, WaitingIs
      <4>3. login'[l] = login[l]
        BY <1>1, <4>2
      <4> QED  BY <3>1, <3>2, <4>1, <4>2, <4>3 DEF AskedBy
    <3> QED  BY <3>1, <3>2, <3>3
  <2>3. ASSUME NEW s \in Servers, NEW i \in DOMAIN fromDb'[s]
        PROVE  login'[fromDb'[s][i].link] # NoLogin /\ Server(fromDb[s][i].link)' = s
    <3>1. PICK j \in DOMAIN fromDb[s] : fromDb'[s][i] = fromDb[s][j]
      BY DEF LoginSide
    <3> QED  BY <1>1, <3>1, AnswerIs DEF Server
  <2> QED  BY <2>1, <2>2, <2>3 DEF RequestsInv
<1>4. UnitsHeld'
  BY DEF LoginSide, IInv, UnitsHeld, Cached
<1>5. ListInv'
  <2>1. ASSUME NEW a \in Accounts, waiting'[a] # NoQuery, IsOpen(waiting[a], "list")'
        PROVE  NoneSent(waiting[a].serverId, a)'
    <3>1. waiting'[a] = waiting[a] /\ waiting[a] # NoQuery /\ waiting[a].kind = "list"
      BY <2>1 DEF LoginSide, IsOpen
    <3> DEFINE s == waiting[a].serverId
               l == waiting[a].link
    <3>2. /\ s \in Servers /\ l \in Links /\ login[l] # NoLogin
          /\ login[l] = [server |-> s, account |-> a]
      BY <3>1, WaitingIs
    <3>3. phase'[l] = "open" /\ phase[l] = "open" /\ login'[l] = login[l]
      BY <1>1, <2>1, <3>1, <3>2 DEF IsOpen
    <3>4. NoneSent(s, a)
      BY <3>1, <3>3 DEF IInv, ListInv, IsOpen
    <3>5. ASSUME NEW i \in DOMAIN toDb'[s], Gives(toDb'[s][i], a)
          PROVE  FALSE
      <4>1. PICK n \in Nat : Continues(s, n)
        BY <3>2 DEF LoginSide
      <4>2. CASE i <= n
        BY <3>4, <3>5, <4>1, <4>2 DEF Continues, NoneSent
      <4>3. CASE ~(i <= n)
        BY <3>2, <3>3, <3>5, <4>1, <4>3 DEF Continues, NewRequest, Gives
      <4> QED  BY <4>2, <4>3
    <3> QED  BY <3>1, <3>5 DEF NoneSent
  <2>2. ASSUME NEW s \in Servers, NEW i \in DOMAIN toDb'[s], NEW j \in DOMAIN toDb'[s],
               IsOpen(toDb[s][i], "list")', i < j, Gives(toDb'[s][j], toDb'[s][i].account)
        PROVE  FALSE
    <3> DEFINE m == toDb'[s][i]
    <3>1. PICK n \in Nat : Continues(s, n)
      BY DEF LoginSide
    <3>2. m.kind = "list" /\ phase'[m.link] = "open" /\ i \in Nat /\ j \in Nat
      BY <2>2 DEF IsOpen, TypeInv, TypeOK
    <3>3. m.link \in Links
      <4>1. m \in Query \cup Save
        BY DEF TypeInv, TypeOK
      <4> QED  BY <3>2, <4>1, RequestFields, QueryFields
    <3>4. login'[m.link] = [server |-> s, account |-> m.account]
      <4>1. m.serverId = s /\ AskedBy(toDb[s][i])'
        BY <1>3, <3>2 DEF RequestsInv
      <4> QED  BY <4>1 DEF AskedBy
    <3>5. CASE j <= n
      <4>1. /\ i \in DOMAIN toDb[s] /\ m = toDb[s][i]
            /\ j \in DOMAIN toDb[s] /\ toDb'[s][j] = toDb[s][j]
        BY <2>2, <3>1, <3>2, <3>5 DEF Continues
      <4>2. PICK l \in Links : l = m.link
        BY <3>3
      <4>3. login[l] # NoLogin
        <5>1. toDb[s][i].kind \in {"list", "select"} /\ l = toDb[s][i].link
          BY <3>2, <4>1, <4>2
        <5> QED  BY <4>1, <5>1, RequestIs
      <4>4. phase[l] = "open"
        BY <1>1, <3>2, <4>2, <4>3
      <4> QED  BY <2>2, <3>2, <4>1, <4>2, <4>4 DEF IInv, ListInv, IsOpen
    <3>6. CASE ~(j <= n)
      BY <2>2, <3>1, <3>2, <3>3, <3>4, <3>6 DEF Continues, NewRequest, Gives
    <3> QED  BY <3>5, <3>6
  <2>3. ASSUME NEW s \in Servers, NEW i \in DOMAIN fromDb'[s],
               IsOpen(fromDb[s][i], "list")', fromDb'[s][i].result = "success"
        PROVE  Clean(s, Account(fromDb[s][i].link))'
    <3>1. PICK j \in DOMAIN fromDb[s] : fromDb'[s][i] = fromDb[s][j]
      BY DEF LoginSide
    <3>a. PICK l \in Links : l = fromDb[s][j].link
      BY AnswerIs
    <3>2. login[l] # NoLogin /\ Server(l) = s /\ l = fromDb'[s][i].link
      BY <3>1, <3>a, AnswerIs
    <3>3. phase'[l] = "open" /\ phase[l] = "open" /\ fromDb[s][j].kind = "list"
      BY <1>1, <2>3, <3>1, <3>2 DEF IsOpen
    <3>4. Clean(Server(l), Account(l))
      BY <2>3, <3>1, <3>a, <3>2, <3>3 DEF IInv, ListInv, IsOpen
    <3>5. Clean(Server(l), Account(l))' /\ Server(l)' = s
      BY <1>1, <1>2, <3>2, <3>3, <3>4
    <3>6. Server(l)' = s => Clean(s, Account(l))'
      BY <3>5
    <3> QED  BY <3>2, <3>5, <3>6
  <2> QED  BY <2>1, <2>2, <2>3 DEF ListInv
<1>6. SelectInv'
  <2>1. ASSUME NEW a \in Accounts, waiting'[a] # NoQuery, IsOpen(waiting[a], "select")'
        PROVE  tempLinkContext'[waiting'[a].link] = "unbind"
    <3>1. waiting'[a] = waiting[a] /\ waiting[a] # NoQuery /\ waiting[a].kind = "select"
      BY <2>1 DEF LoginSide, IsOpen
    <3> DEFINE l == waiting[a].link
    <3>2. l \in Links /\ login[l] # NoLogin /\ phase'[l] = "open"
      BY <2>1, <3>1, WaitingIs DEF IsOpen
    <3> QED  BY <1>1, <3>1, <3>2 DEF IInv, SelectInv, IsOpen
  <2>2. ASSUME NEW s \in Servers, NEW i \in DOMAIN toDb'[s], IsOpen(toDb[s][i], "select")'
        PROVE  tempLinkContext'[toDb'[s][i].link] = "unbind"
    <3>1. PICK n \in Nat : Continues(s, n)
      BY DEF LoginSide
    <3>2. CASE i <= n
      <4>1. i \in DOMAIN toDb[s] /\ toDb'[s][i] = toDb[s][i]
        BY <3>1, <3>2 DEF Continues
      <4>2. toDb[s][i].kind = "select"
        BY <2>2, <4>1 DEF IsOpen
      <4>3. PICK l \in Links : l = toDb[s][i].link
        BY <4>1, <4>2, RequestIs
      <4>4. login[l] # NoLogin /\ phase'[l] = "open"
        <5>1. toDb[s][i].kind \in {"list", "select"}
          BY <4>2
        <5>2. phase'[l] = "open"
          BY <2>2, <4>1, <4>3 DEF IsOpen
        <5>3. login[toDb[s][i].link] # NoLogin
          BY <4>1, <5>1, RequestIs
        <5> QED  BY <4>3, <5>2, <5>3
      <4>5. phase[l] = "open" /\ (tempLinkContext[l] = "unbind" =>
              tempLinkContext'[l] = "unbind")
        BY <1>1, <4>4
      <4>6. tempLinkContext[l] = "unbind"
        BY <4>1, <4>2, <4>3, <4>5 DEF IInv, SelectInv, IsOpen
      <4> QED  BY <4>1, <4>3, <4>5, <4>6
    <3>3. CASE ~(i <= n)
      BY <2>2, <3>1, <3>3 DEF Continues, NewRequest, IsOpen
    <3> QED  BY <3>2, <3>3
  <2>3. ASSUME NEW s \in Servers, NEW i \in DOMAIN fromDb'[s], IsOpen(fromDb[s][i], "select")'
        PROVE  /\ tempLinkContext'[fromDb'[s][i].link] = "unbind"
               /\ fromDb'[s][i].result = "success" => Keeps(s, Account(fromDb[s][i].link))'
    <3>1. PICK j \in DOMAIN fromDb[s] : fromDb'[s][i] = fromDb[s][j]
      BY DEF LoginSide
    <3>a. PICK l \in Links : l = fromDb[s][j].link
      BY AnswerIs
    <3>2. login[l] # NoLogin /\ Account(l) \in Accounts /\ l = fromDb'[s][i].link
      BY <3>1, <3>a, AnswerIs
    <3>3. phase'[l] = "open" /\ phase[l] = "open" /\ fromDb[s][j].kind = "select"
      BY <1>1, <2>3, <3>1, <3>2 DEF IsOpen
    <3>4. tempLinkContext[l] = "unbind"
      BY <3>3, <3>a DEF IInv, SelectInv, IsOpen
    <3>5. fromDb'[s][i].result = "success" => Keeps(s, Account(l))
      BY <3>1, <3>3, <3>a DEF IInv, SelectInv, IsOpen
    <3>6. ASSUME NEW a \in Accounts, Keeps(s, a)
          PROVE  Keeps(s, a)'
      BY <3>6, KeepsStays
    <3>7. tempLinkContext'[l] = "unbind" /\ Account(l)' = Account(l)
      BY <1>1, <3>2, <3>3, <3>4
    <3>8. fromDb'[s][i].result = "success" => Keeps(s, Account(l))'
      BY <3>2, <3>5, <3>6, <3>7
    <3> QED  BY <3>2, <3>7, <3>8
  <2>4. ASSUME NEW l \in Links, phase'[l] = "open", tempLinkContext'[l] = "unbind"
        PROVE  Clean(Server(l), Account(l))'
    <3>1. login[l] # NoLogin /\ Clean(Server(l), Account(l))
      BY <2>4 DEF LoginSide
    <3> QED  BY <1>2, <2>4, <3>1
  <2> QED  BY <2>1, <2>2, <2>3, <2>4 DEF SelectInv
<1>7. GameInv'
  <2>1. ASSUME NEW s \in Servers, NEW a \in Accounts, InGame(s, a)'
        PROVE  Keeps(s, a)' /\ Clean(s, a)'
    <3>1. playerCache'[s][a] # NoPlayer
      BY <2>1 DEF InGame
    <3>2. Keeps(s, a) /\ Clean(s, a)
      BY <3>1 DEF LoginSide, IInv, GameInv
    <3> QED  BY <3>1, <3>2, KeepsStays, CleanStays
  <2> QED  BY <2>1 DEF GameInv
<1>8. SaveInv'
  <2>1. ASSUME NEW s \in Servers, NEW i \in DOMAIN toDb'[s], toDb'[s][i].kind = "save",
               NEW a \in Accounts, a = toDb'[s][i].account
        PROVE  /\ Keeps(s, a)' /\ ~UnlockWaits(s, a)'
               /\ \A j \in DOMAIN toDb'[s] : j < i => ~Gives(toDb'[s][j], a)
    <3>0. DOMAIN toDb'[s] \subseteq Nat
      BY DEF TypeInv, TypeOK
    <3>1. PICK n \in Nat : Continues(s, n)
      BY DEF LoginSide
    <3>2. CASE i <= n
      <4>1. i \in DOMAIN toDb[s] /\ toDb'[s][i] = toDb[s][i]
        BY <3>1, <3>2 DEF Continues
      <4>2. /\ Keeps(s, a) /\ ~UnlockWaits(s, a)
            /\ \A j \in DOMAIN toDb[s] : j < i => ~Gives(toDb[s][j], a)
        BY <2>1, <4>1 DEF IInv, SaveInv
      <4>3. ~UnlockWaits(s, a)'
        BY <4>2 DEF LoginSide, UnlockWaits
      <4>4. ASSUME NEW j \in DOMAIN toDb'[s], j < i
            PROVE  ~Gives(toDb'[s][j], a)
        <5>1. j <= n
          BY <3>0, <3>2, <4>4
        <5> QED  BY <3>1, <4>2, <4>4, <5>1 DEF Continues
      <4> QED  BY <4>2, <4>3, <4>4, KeepsStays
    <3>3. CASE ~(i <= n)
      <4>1. InGame(s, a)
        BY <2>1, <3>1, <3>3 DEF Continues, NewRequest
      <4>2. Keeps(s, a) /\ Clean(s, a)
        BY <4>1 DEF IInv, GameInv
      <4>3. ~UnlockWaits(s, a)'
        BY <4>2 DEF LoginSide, UnlockWaits, Clean
      <4>4. ASSUME NEW j \in DOMAIN toDb'[s], j < i
            PROVE  ~Gives(toDb'[s][j], a)
        <5>1. CASE j <= n
          BY <3>1, <4>2, <5>1 DEF Continues, Clean, NoneSent
        <5>2. CASE ~(j <= n)
          BY <2>1, <3>0, <3>1, <4>4, <5>2 DEF Continues
        <5> QED  BY <5>1, <5>2
      <4> QED  BY <4>2, <4>3, <4>4, KeepsStays
    <3> QED  BY <3>2, <3>3
  <2>2. ASSUME NEW s \in Servers, NEW i \in DOMAIN toDb'[s]
        PROVE  toDb'[s][i].account \in Accounts
    <3>1. toDb'[s][i] \in Query \cup Save
      BY DEF TypeInv, TypeOK
    <3> QED  BY <3>1, RequestFields
  <2> QED  BY <2>1, <2>2 DEF SaveInv
<1> QED  BY <1>3, <1>4, <1>5, <1>6, <1>7, <1>8 DEF IInv

(* Steps that change nothing of what the invariant speaks of.              *)
LEMMA Untouched ==
  ASSUME IInv, UNCHANGED <<clientVars, playerCache, toDb, fromDb, dbVars>>
  PROVE  IInv'
<1>1. UNCHANGED <<phase, login, tempLinkContext, playerCache, toDb, fromDb, row, unit,
                  waiting>>
  BY DEF clientVars, dbVars
<1>2. RequestsInv' /\ UnitsHeld'
  BY <1>1 DEF IInv, RequestsInv, AskedBy, Server, UnitsHeld, Cached
<1>3. ContextInv'
  BY <1>1 DEF IInv, ContextInv, InGame, InUse, Server, Account
<1>4. ListInv'
  BY <1>1 DEF IInv, ListInv, IsOpen, NoneSent, Gives, Clean, UnlockWaits, Account
<1>5. SelectInv'
  BY <1>1 DEF IInv, SelectInv, IsOpen, NoneSent, Gives, Clean, UnlockWaits, Account, Server,
              Keeps, Cached
<1>6. GameInv'
  BY <1>1 DEF IInv, GameInv, InGame, NoneSent, Gives, Clean, UnlockWaits, Keeps, Cached
<1>7. SaveInv'
  BY <1>1 DEF IInv, SaveInv, Gives, UnlockWaits, Keeps, Cached
<1> QED  BY <1>2, <1>3, <1>4, <1>5, <1>6, <1>7 DEF IInv

(* A link with a context has logged in, and its account is not in the game.*)
LEMMA HasLogin ==
  ASSUME TypeInv, NEW l \in Links, tempLinkContext[l] # "none" \/ phase[l] = "open"
  PROVE  /\ login[l] # NoLogin /\ Server(l) \in Servers /\ Account(l) \in Accounts
         /\ tempLinkContext[l] # "none"
<1>1. login[l] # NoLogin /\ tempLinkContext[l] # "none"
  BY DEF TypeInv, LinksInv
<1> QED  BY <1>1, LoginTypes

LEMMA OneContext ==
  ASSUME TypeInv, IInv, NEW l \in Links, tempLinkContext[l] # "none"
  PROVE  /\ ~InGame(Server(l), Account(l))
         /\ \A k \in Links : phase[k] = "open" /\ login[k] = login[l] => k = l
<1>1. Server(l) \in Servers /\ Account(l) \in Accounts
  BY HasLogin
<1>2. InUse(Server(l), Account(l))
  BY DEF InUse
<1>3. \A k \in Links : phase[k] = "open" => tempLinkContext[k] # "none"
  BY DEF TypeInv, LinksInv
<1> QED  BY <1>1, <1>2, <1>3 DEF IInv, ContextInv

LEMMA InGameNoLink ==
  ASSUME TypeInv, IInv, NEW s \in Servers, NEW a \in Accounts, InGame(s, a), NEW l \in Links,
         phase[l] = "open"
  PROVE  login[l] # [server |-> s, account |-> a]
<1>1. tempLinkContext[l] # "none"
  BY HasLogin
<1>2. login[l] = [server |-> s, account |-> a] => Server(l) = s /\ Account(l) = a
  BY DEF Server, Account
<1> QED  BY <1>1, <1>2 DEF IInv, ContextInv, InUse

(* Contexts only end.                                                      *)
LEMMA ContextsEnd ==
  ASSUME TypeInv, IInv, \A l \in Links : login[l] # NoLogin => login'[l] = login[l],
         \A l \in Links : tempLinkContext'[l] # "none" => tempLinkContext[l] # "none",
         \A s \in Servers, a \in Accounts : playerCache'[s][a] # NoPlayer => InGame(s, a)
  PROVE  ContextInv'
<1>1. \A l \in Links : tempLinkContext'[l] # "none" =>
        tempLinkContext[l] # "none" /\ login'[l] = login[l]
  BY HasLogin
<1>2. \A l, m \in Links : tempLinkContext'[l] # "none" /\ tempLinkContext'[m] # "none"
                            /\ login'[l] = login'[m] => l = m
  BY <1>1 DEF IInv, ContextInv
<1>3. \A s \in Servers, a \in Accounts : InUse(s, a)' => InUse(s, a)
  BY <1>1 DEF InUse, Server, Account
<1>4. \A s \in Servers, a \in Accounts : InGame(s, a)' => InGame(s, a)
  BY DEF InGame
<1> QED  BY <1>2, <1>3, <1>4 DEF IInv, ContextInv

(* What is sent.                                                           *)
LEMMA NothingSent ==
  ASSUME TypeInv, NEW s \in Servers, toDb'[s] \in FirstOf(toDb[s])
  PROVE  \E n \in Nat : Continues(s, n)
<1>1. toDb[s] \in Seq(Query \cup Save)
  BY DEF TypeInv, TypeOK
<1>2. Len(toDb[s]) \in Nat
  BY <1>1
<1>3. \A i \in DOMAIN toDb'[s] : i \in DOMAIN toDb[s] /\ toDb'[s][i] = toDb[s][i]
  BY <1>1, FirstOnes
<1>4. \A i \in DOMAIN toDb[s] : i \in Nat /\ i <= Len(toDb[s])
  BY <1>1
<1>5. Continues(s, Len(toDb[s]))
  BY <1>2, <1>3, <1>4 DEF Continues
<1> QED  BY <1>2, <1>5

LEMMA SameSent ==
  ASSUME TypeInv, NEW s \in Servers, toDb'[s] = toDb[s]
  PROVE  \E n \in Nat : Continues(s, n)
<1>1. toDb[s] \in Seq(Query \cup Save) /\ Len(toDb[s]) \in Nat
  BY DEF TypeInv, TypeOK
<1>2. toDb[s] = SubSeq(toDb[s], 1, Len(toDb[s]))
  BY <1>1
<1> QED  BY <1>1, <1>2, NothingSent DEF FirstOf

LEMMA OneSent ==
  ASSUME TypeInv, NEW t \in Servers, NEW m \in Query \cup Save, NewRequest(t, m),
         toDb' = SentToDb(t, m)
  PROVE  \A s \in Servers : \E n \in Nat : Continues(s, n)
<1> TAKE s \in Servers
<1>1. toDb \in [Servers -> Seq(Query \cup Save)] /\ toDb[s] \in Seq(Query \cup Save)
  BY DEF TypeInv, TypeOK
<1>2. CASE s # t \/ ~dbUp[t]
  <2>1. toDb'[s] = toDb[s]
    BY <1>1, <1>2 DEF SentToDb
  <2> QED  BY <2>1, SameSent
<1>3. CASE s = t /\ dbUp[t]
  <2>1. toDb'[s] = Append(toDb[s], m) /\ Len(toDb[s]) \in Nat
    BY <1>1, <1>3 DEF SentToDb
  <2>2. DOMAIN toDb'[s] = 1..(Len(toDb[s]) + 1) /\ DOMAIN toDb[s] = 1..Len(toDb[s])
    BY <1>1, <2>1
  <2>3. \A i \in DOMAIN toDb'[s] :
          \/ i \in DOMAIN toDb[s] /\ toDb'[s][i] = toDb[s][i]
          \/ i = Len(toDb[s]) + 1 /\ toDb'[s][i] = m
    BY <1>1, <2>1, Appended
  <2>4. \A i \in DOMAIN toDb'[s] :
          IF i <= Len(toDb[s]) THEN i \in DOMAIN toDb[s] /\ toDb'[s][i] = toDb[s][i]
          ELSE NewRequest(s, toDb'[s][i])
    BY <1>3, <2>1, <2>2, <2>3
  <2>5. \A i, j \in DOMAIN toDb'[s] : ~(Len(toDb[s]) < j /\ j < i)
    BY <2>1, <2>2
  <2>6. Continues(s, Len(toDb[s]))
    BY <2>4, <2>5 DEF Continues
  <2> QED  BY <2>1, <2>6
<1> QED  BY <1>2, <1>3

(* Links that are open and select already.                                 *)
LEMMA OpenOnes ==
  ASSUME TypeInv, IInv, NEW l \in Links, phase[l] = "open", tempLinkContext[l] = "unbind"
  PROVE  login[l] # NoLogin /\ Clean(Server(l), Account(l))
BY HasLogin DEF IInv, SelectInv

(* A link that ends, or refuses, may unlock its row.                       *)
LEMMA UnlockSent ==
  ASSUME TypeInv, IInv, NEW l \in Links, tempLinkContext[l] # "none",
         phase' \in [Links -> {"new", "open", "cut", "closed"}],
         phase'[l] # "open", \A k \in Links : phase'[k] = "open" => phase[k] = "open",
         UNCHANGED <<login, playerCache>>, toDb' = Unlock(l)
  PROVE  \A s \in Servers : \E n \in Nat : Continues(s, n)
<1> DEFINE m == [kind |-> "unlock", account |-> Account(l), serverId |-> Server(l)]
<1>1. Server(l) \in Servers /\ Account(l) \in Accounts /\ login[l] # NoLogin
  BY HasLogin
<1>2. m \in Query \cup Save
  BY <1>1, RequestTypes
<1>3. login[l] = [server |-> Server(l), account |-> Account(l)]
  BY <1>1, LoginIs
<1>4. playerCache'[Server(l)][Account(l)] = NoPlayer
  BY OneContext DEF InGame
<1>5. \A k \in Links : phase'[k] = "open" => login'[k] # login[l]
  BY OneContext
<1>6. NewRequest(Server(l), m)
  BY <1>3, <1>4, <1>5 DEF NewRequest
<1>7. toDb' = SentToDb(Server(l), m)
  BY DEF Unlock
<1> QED  BY <1>1, <1>2, <1>6, <1>7, OneSent

LEMMA SelectSent ==
  ASSUME TypeInv, IInv, NEW l \in Links, phase[l] = "open", tempLinkContext'[l] = "unbind",
         UNCHANGED login, toDb' = SelectCharacter(l)
  PROVE  \A s \in Servers : \E n \in Nat : Continues(s, n)
<1> DEFINE m == [kind |-> "select", account |-> Account(l), serverId |-> Server(l),
                 link |-> l]
<1>1. Server(l) \in Servers /\ Account(l) \in Accounts /\ login[l] # NoLogin
  BY HasLogin
<1>2. m \in Query \cup Save
  BY <1>1, RequestTypes
<1>3. login[l] = [server |-> Server(l), account |-> Account(l)]
  BY <1>1, LoginIs
<1>4. NewRequest(Server(l), m)
  BY <1>3 DEF NewRequest
<1>5. toDb' = SentToDb(Server(l), m)
  BY DEF SelectCharacter
<1> QED  BY <1>1, <1>2, <1>4, <1>5, OneSent

(* The steps of a login server.                                            *)
LEMMA PlayerLoginInv ==
  ASSUME TypeInv, TypeInv', IInv, NEW l \in Links, NEW s \in Servers, NEW a \in Accounts,
         PlayerLogin(l, s, a)
  PROVE  IInv'
<1> DEFINE new == [server |-> s, account |-> a]
<1>1. /\ phase[l] = "new" /\ login[l] = NoLogin /\ tempLinkContext[l] = "none"
      /\ login' = [login EXCEPT ![l] = new]
      /\ UNCHANGED <<playerCache, fromDb, row, unit, waiting>>
  BY DEF PlayerLogin, TypeInv, LinksInv, TypeOK, dbVars
<1>2. \/ /\ phase' = [phase EXCEPT ![l] = "closed"]
         /\ UNCHANGED <<tempLinkContext, toDb>>
      \/ /\ ~InUse(s, a) /\ ~InGame(s, a)
         /\ tempLinkContext' = [tempLinkContext EXCEPT ![l] = "asked"]
         /\ phase' = [phase EXCEPT ![l] = IF dbUp[s] THEN "open" ELSE "cut"]
         /\ toDb' = SentToDb(s, [kind |-> "list", account |-> a, serverId |-> s,
                                 link |-> l])
  BY DEF PlayerLogin
<1>3. /\ phase \in [Links -> {"new", "open", "cut", "closed"}]
      /\ tempLinkContext \in [Links -> {"none", "asked", "unbind"}]
      /\ login \in [Links -> Login \cup {NoLogin}]
  BY DEF TypeInv, TypeOK
<1>4. \A k \in Links : login[k] # NoLogin =>
        login'[k] = login[k] /\ phase'[k] = phase[k] /\ tempLinkContext'[k] = tempLinkContext[k]
  BY <1>1, <1>2, <1>3
<1>5. \A k \in Links : phase'[k] = "open" /\ tempLinkContext'[k] = "unbind" =>
        login[k] # NoLogin /\ Clean(Server(k), Account(k))
  <2> SUFFICES ASSUME NEW k \in Links, phase'[k] = "open", tempLinkContext'[k] = "unbind"
               PROVE  login[k] # NoLogin /\ Clean(Server(k), Account(k))
    OBVIOUS
  <2>1. k # l
    BY <1>1, <1>2, <1>3
  <2>2. phase[k] = "open" /\ tempLinkContext[k] = "unbind"
    BY <1>2, <1>3, <2>1
  <2> QED  BY <2>2, OpenOnes
<1>6. \A t \in Servers : \E n \in Nat : Continues(t, n)
  <2>1. CASE UNCHANGED toDb
    BY <2>1, SameSent
  <2>2. CASE ~UNCHANGED toDb
    <3> DEFINE m == [kind |-> "list", account |-> a, serverId |-> s, link |-> l]
    <3>1. toDb' = SentToDb(s, m) /\ m \in Query \cup Save
      BY <1>2, <2>2, RequestTypes
    <3>2. login'[l] = new
      BY <1>1, <1>3
    <3>3. NewRequest(s, m)
      BY <3>2 DEF NewRequest
    <3> QED  BY <3>1, <3>3, OneSent
  <2> QED  BY <2>1, <2>2
<1>7. LoginSide
  <2>1. \A t \in Servers, b \in Accounts : playerCache'[t][b] # NoPlayer => InGame(t, b)
    BY <1>1 DEF InGame
  <2>2. \A t \in Servers : \A i \in DOMAIN fromDb'[t] :
          \E j \in DOMAIN fromDb[t] : fromDb'[t][i] = fromDb[t][j]
    BY <1>1
  <2> QED  BY <1>1, <1>4, <1>5, <1>6, <2>1, <2>2 DEF LoginSide
<1>8. ContextInv'
  <2>1. CASE UNCHANGED tempLinkContext
    <3>1. \A t \in Servers, b \in Accounts : playerCache'[t][b] # NoPlayer => InGame(t, b)
      BY <1>1 DEF InGame
    <3>2. \A k \in Links : /\ login[k] # NoLogin => login'[k] = login[k]
                           /\ tempLinkContext'[k] # "none" => tempLinkContext[k] # "none"
      BY <1>4, <2>1
    <3> QED  BY <3>1, <3>2, ContextsEnd
  <2>2. CASE ~UNCHANGED tempLinkContext
    <3>1. /\ ~InUse(s, a) /\ ~InGame(s, a)
          /\ tempLinkContext' = [tempLinkContext EXCEPT ![l] = "asked"]
      BY <1>2, <2>2
    <3>2. \A k \in Links : k # l /\ tempLinkContext'[k] # "none" =>
            /\ tempLinkContext[k] # "none" /\ login'[k] = login[k] /\ login[k] # new
      <4> TAKE k \in Links
      <4> HAVE k # l /\ tempLinkContext'[k] # "none"
      <4>1. tempLinkContext[k] # "none" /\ login'[k] = login[k]
        BY <1>1, <1>3, <3>1
      <4>2. login[k] = new => InUse(s, a)
        BY <4>1 DEF InUse, Server, Account
      <4> QED  BY <3>1, <4>1, <4>2
    <3>3. login'[l] = new
      BY <1>1, <1>3
    <3>4. \A k, m \in Links : tempLinkContext'[k] # "none" /\ tempLinkContext'[m] # "none"
                                /\ login'[k] = login'[m] => k = m
      BY <3>2, <3>3 DEF IInv, ContextInv
    <3>5. ASSUME NEW t \in Servers, NEW b \in Accounts, InGame(t, b)', InUse(t, b)'
          PROVE  FALSE
      <4>1. InGame(t, b)
        BY <1>1, <3>5 DEF InGame
      <4>2. PICK k \in Links : /\ tempLinkContext'[k] # "none"
                               /\ Server(k)' = t /\ Account(k)' = b
        BY <3>5 DEF InUse
      <4>3. CASE k = l
        <5>1. Server(k)' = s /\ Account(k)' = a
          BY <3>3, <4>3 DEF Server, Account
        <5> QED  BY <3>1, <4>1, <4>2, <5>1
      <4>4. CASE k # l
        <5>1. tempLinkContext[k] # "none" /\ Server(k) = t /\ Account(k) = b
          BY <3>2, <4>2, <4>4 DEF Server, Account
        <5> QED  BY <4>1, <5>1 DEF IInv, ContextInv, InUse
      <4> QED  BY <4>3, <4>4
    <3> QED  BY <3>4, <3>5 DEF ContextInv
  <2> QED  BY <2>1, <2>2
<1> QED  BY <1>7, <1>8, LoginSideKeeps

LEMMA LinkStepInv ==
  ASSUME TypeInv, TypeInv', IInv, NEW l \in Links, Break(l) \/ Closed(l) \/ Reselect(l)
  PROVE  IInv'
<1>1. /\ UNCHANGED <<login, playerCache, fromDb, row, unit, waiting>>
      /\ \/ phase' = [phase EXCEPT ![l] = "cut"] /\ UNCHANGED tempLinkContext
         \/ /\ phase' = [phase EXCEPT ![l] = "closed"]
            /\ tempLinkContext' = [tempLinkContext EXCEPT ![l] = "none"]
         \/ UNCHANGED <<phase, tempLinkContext>>
  BY DEF Break, Closed, Reselect, clientVars, dbVars
<1>2. /\ phase \in [Links -> {"new", "open", "cut", "closed"}]
      /\ tempLinkContext \in [Links -> {"none", "asked", "unbind"}]
  BY DEF TypeInv, TypeOK
<1>3. \A k \in Links : /\ phase'[k] = "open" =>
                            phase[k] = "open" /\ tempLinkContext'[k] = tempLinkContext[k]
                       /\ tempLinkContext'[k] # "none" => tempLinkContext[k] # "none"
  BY <1>1, <1>2
<1>4. \A t \in Servers : \E n \in Nat : Continues(t, n)
  <2>1. CASE UNCHANGED toDb
    BY <2>1, SameSent
  <2>2. CASE Closed(l) /\ tempLinkContext[l] = "unbind"
    <3>1. /\ phase' = [phase EXCEPT ![l] = "closed"] /\ toDb' = Unlock(l)
          /\ UNCHANGED <<login, playerCache>>
      BY <2>2 DEF Closed, Unlocks
    <3>2. /\ phase' \in [Links -> {"new", "open", "cut", "closed"}]
          /\ phase'[l] # "open" /\ tempLinkContext[l] # "none"
          /\ \A k \in Links : phase'[k] = "open" => phase[k] = "open"
      BY <1>2, <1>3, <2>2, <3>1
    <3> QED  BY <3>1, <3>2, UnlockSent
  <2>3. CASE Reselect(l)
    <3>1. /\ phase[l] = "open" /\ tempLinkContext'[l] = "unbind"
          /\ UNCHANGED login /\ toDb' = SelectCharacter(l)
      BY <2>3 DEF Reselect, clientVars
    <3> QED  BY <3>1, SelectSent
  <2> QED  BY <2>1, <2>2, <2>3 DEF Break, Closed, Unlocks
<1>5. \A t \in Servers, b \in Accounts : playerCache'[t][b] # NoPlayer => InGame(t, b)
  BY <1>1 DEF InGame
<1>6. LoginSide
  <2>1. \A t \in Servers : \A i \in DOMAIN fromDb'[t] :
          \E j \in DOMAIN fromDb[t] : fromDb'[t][i] = fromDb[t][j]
    BY <1>1
  <2>2. \A k \in Links : phase'[k] = "open" /\ tempLinkContext'[k] = "unbind" =>
          login[k] # NoLogin /\ Clean(Server(k), Account(k))
    BY <1>3, OpenOnes
  <2> QED  BY <1>1, <1>3, <1>4, <1>5, <2>1, <2>2 DEF LoginSide
<1>7. ContextInv'
  BY <1>1, <1>3, <1>5, ContextsEnd
<1> QED  BY <1>6, <1>7, LoginSideKeeps

LEMMA ListAnswerInv ==
  ASSUME TypeInv, TypeInv', IInv, NEW s \in Servers, RecvGetCharacterList(s)
  PROVE  IInv'
<1> DEFINE ans == Head(fromDb[s])
<1>1. /\ fromDb[s] # <<>> /\ ans.kind = "list" /\ fromDb' = [fromDb EXCEPT ![s] = Tail(@)]
      /\ UNCHANGED <<login, playerCache, row, unit, waiting>>
  BY DEF RecvGetCharacterList, dbVars
<1>2. /\ phase \in [Links -> {"new", "open", "cut", "closed"}]
      /\ tempLinkContext \in [Links -> {"none", "asked", "unbind"}]
      /\ fromDb \in [Servers -> Seq(Answer)] /\ fromDb[s] \in Seq(Answer)
  BY DEF TypeInv, TypeOK
<1>3. /\ 1 \in DOMAIN fromDb[s] /\ ans = fromDb[s][1]
      /\ \A i \in DOMAIN Tail(fromDb[s]) :
           i + 1 \in DOMAIN fromDb[s] /\ Tail(fromDb[s])[i] = fromDb[s][i + 1]
  BY <1>1, <1>2, HeadAndTail
<1>4. PICK l \in Links : l = ans.link
  BY <1>3, AnswerIs
<1>5. login[l] # NoLogin /\ Server(l) = s /\ Account(l) \in Accounts
  BY <1>3, <1>4, AnswerIs
<1>6. \/ /\ UNCHANGED <<phase, tempLinkContext, toDb>>
      \/ /\ phase[l] = "open" /\ ans.result = "success"
         /\ tempLinkContext' = [tempLinkContext EXCEPT ![l] = "unbind"]
         /\ toDb' = SelectCharacter(l) /\ UNCHANGED phase
      \/ /\ phase[l] = "open" /\ phase' = [phase EXCEPT ![l] = "cut"]
         /\ toDb' \in {toDb, Unlock(l)} /\ UNCHANGED tempLinkContext
  BY <1>4 DEF RecvGetCharacterList
<1>7. \A k \in Links : /\ phase'[k] = "open" => phase[k] = "open"
                       /\ tempLinkContext[k] = "unbind" => tempLinkContext'[k] = "unbind"
                       /\ k # l => tempLinkContext'[k] = tempLinkContext[k]
  BY <1>2, <1>6
<1>8. phase[l] = "open" => tempLinkContext[l] # "none"
  BY HasLogin
<1>9. \A t \in Servers : \E n \in Nat : Continues(t, n)
  <2>1. CASE UNCHANGED toDb
    BY <2>1, SameSent
  <2>2. CASE phase[l] = "open" /\ toDb' = Unlock(l) /\ phase' = [phase EXCEPT ![l] = "cut"]
    <3>1. /\ phase' \in [Links -> {"new", "open", "cut", "closed"}]
          /\ phase'[l] # "open" /\ tempLinkContext[l] # "none"
          /\ \A k \in Links : phase'[k] = "open" => phase[k] = "open"
      BY <1>2, <1>7, <1>8, <2>2
    <3> QED  BY <1>1, <2>2, <3>1, UnlockSent
  <2>3. CASE phase[l] = "open" /\ toDb' = SelectCharacter(l)
               /\ tempLinkContext' = [tempLinkContext EXCEPT ![l] = "unbind"]
    <3>1. tempLinkContext'[l] = "unbind"
      BY <1>2, <2>3
    <3> QED  BY <1>1, <2>3, <3>1, SelectSent
  <2> QED  BY <1>6, <2>1, <2>2, <2>3
<1>10. ASSUME NEW k \in Links, phase'[k] = "open", tempLinkContext'[k] = "unbind"
       PROVE  login[k] # NoLogin /\ Clean(Server(k), Account(k))
  <2>1. phase[k] = "open"
    BY <1>7, <1>10
  <2>2. CASE tempLinkContext[k] = "unbind"
    BY <2>1, <2>2, OpenOnes
  <2>3. CASE tempLinkContext[k] # "unbind"
    <3>1. k = l /\ ans.result = "success"
      BY <1>2, <1>6, <1>7, <1>10, <2>3
    <3>2. Clean(s, Account(l))
      BY <1>1, <1>3, <1>4, <2>1, <3>1 DEF IInv, ListInv, IsOpen
    <3> QED  BY <1>5, <3>1, <3>2
  <2> QED  BY <2>2, <2>3
<1>11. \A t \in Servers, b \in Accounts : playerCache'[t][b] # NoPlayer => InGame(t, b)
  BY <1>1 DEF InGame
<1>12. \A t \in Servers : \A i \in DOMAIN fromDb'[t] :
         \E j \in DOMAIN fromDb[t] : fromDb'[t][i] = fromDb[t][j]
  BY <1>1, <1>2, <1>3
<1>13. LoginSide
  BY <1>1, <1>7, <1>9, <1>10, <1>11, <1>12 DEF LoginSide
<1>14. \A k \in Links : tempLinkContext'[k] # "none" => tempLinkContext[k] # "none"
  BY <1>2, <1>6, <1>8
<1>15. ContextInv'
  BY <1>1, <1>11, <1>14, ContextsEnd
<1> QED  BY <1>13, <1>15, LoginSideKeeps

LEMMA SelectAnswerInv ==
  ASSUME TypeInv, TypeInv', IInv, NEW s \in Servers, RecvGetCharacter(s)
  PROVE  IInv'
<1> DEFINE ans == Head(fromDb[s])
<1>1. /\ fromDb[s] # <<>> /\ ans.kind = "select" /\ fromDb' = [fromDb EXCEPT ![s] = Tail(@)]
      /\ UNCHANGED <<login, toDb, row, unit, waiting>>
  BY DEF RecvGetCharacter, dbVars
<1>2. /\ phase \in [Links -> {"new", "open", "cut", "closed"}]
      /\ tempLinkContext \in [Links -> {"none", "asked", "unbind"}]
      /\ fromDb \in [Servers -> Seq(Answer)] /\ fromDb[s] \in Seq(Answer)
      /\ playerCache \in [Servers -> [Accounts -> SPlayer \cup {NoPlayer}]]
  BY DEF TypeInv, TypeOK
<1>3. /\ 1 \in DOMAIN fromDb[s] /\ ans = fromDb[s][1]
      /\ \A i \in DOMAIN Tail(fromDb[s]) :
           i + 1 \in DOMAIN fromDb[s] /\ Tail(fromDb[s])[i] = fromDb[s][i + 1]
  BY <1>1, <1>2, HeadAndTail
<1>4. PICK l \in Links : l = ans.link
  BY <1>3, AnswerIs
<1>5. login[l] # NoLogin /\ Server(l) = s /\ Account(l) \in Accounts
  BY <1>3, <1>4, AnswerIs
<1>6. \/ UNCHANGED <<phase, tempLinkContext, playerCache>>
      \/ /\ phase[l] = "open" /\ tempLinkContext[l] # "none" /\ ans.result = "success"
         /\ \E p : playerCache' = [playerCache EXCEPT ![s][Account(l)] = p]
         /\ tempLinkContext' = [tempLinkContext EXCEPT ![l] = "none"]
         /\ phase' = [phase EXCEPT ![l] = "closed"]
  BY <1>4 DEF RecvGetCharacter, Assignable
<1>7. \A k \in Links : /\ phase'[k] = "open" =>
                            phase[k] = "open" /\ tempLinkContext'[k] = tempLinkContext[k]
                       /\ tempLinkContext'[k] # "none" => tempLinkContext[k] # "none"
  BY <1>2, <1>6
<1>8. \A t \in Servers : \A i \in DOMAIN fromDb'[t] :
        \E j \in DOMAIN fromDb[t] : fromDb'[t][i] = fromDb[t][j]
  BY <1>1, <1>2, <1>3
<1>9. \A t \in Servers : \E n \in Nat : Continues(t, n)
  BY <1>1, SameSent
<1>10. \A k \in Links : phase'[k] = "open" /\ tempLinkContext'[k] = "unbind" =>
         login[k] # NoLogin /\ Clean(Server(k), Account(k))
  BY <1>7, OpenOnes
<1>11. CASE UNCHANGED playerCache
  <2>1. \A t \in Servers, b \in Accounts : playerCache'[t][b] # NoPlayer => InGame(t, b)
    BY <1>11 DEF InGame
  <2>2. LoginSide
    BY <1>1, <1>7, <1>8, <1>9, <1>10, <2>1 DEF LoginSide
  <2>3. ContextInv'
    BY <1>1, <1>7, <2>1, ContextsEnd
  <2> QED  BY <2>2, <2>3, LoginSideKeeps
<1>12. CASE ~UNCHANGED playerCache
  <2> DEFINE a == Account(l)
  <2>1. /\ phase[l] = "open" /\ tempLinkContext[l] # "none" /\ ans.result = "success"
        /\ tempLinkContext' = [tempLinkContext EXCEPT ![l] = "none"]
        /\ \E p : playerCache' = [playerCache EXCEPT ![s][a] = p]
    BY <1>6, <1>12
  <2>2. \A t \in Servers, b \in Accounts : playerCache'[t][b] # NoPlayer =>
          InGame(t, b) \/ (t = s /\ b = a)
    BY <1>2, <1>5, <2>1 DEF InGame
  <2>3. tempLinkContext[l] = "unbind" /\ Keeps(s, a)
    BY <1>1, <1>3, <1>4, <2>1 DEF IInv, SelectInv, IsOpen
  <2>4. Clean(s, a)
    BY <1>5, <2>1, <2>3, OpenOnes
  <2>5. LoginSide
    <3>1. \A t \in Servers, b \in Accounts : playerCache'[t][b] # NoPlayer =>
            InGame(t, b) \/ (Keeps(t, b) /\ Clean(t, b))
      BY <2>2, <2>3, <2>4
    <3> QED  BY <1>1, <1>7, <1>8, <1>9, <1>10, <3>1 DEF LoginSide
  <2>6. ContextInv'
    <3>1. \A k \in Links : tempLinkContext'[k] # "none" =>
            k # l /\ tempLinkContext[k] # "none" /\ login'[k] = login[k]
      BY <1>1, <1>2, <2>1
    <3>2. \A k, m \in Links : tempLinkContext'[k] # "none" /\ tempLinkContext'[m] # "none"
                                /\ login'[k] = login'[m] => k = m
      BY <3>1 DEF IInv, ContextInv
    <3>3. ASSUME NEW t \in Servers, NEW b \in Accounts, InGame(t, b)', InUse(t, b)'
          PROVE  FALSE
      <4>1. PICK k \in Links : /\ tempLinkContext'[k] # "none"
                               /\ Server(k)' = t /\ Account(k)' = b
        BY <3>3 DEF InUse
      <4>2. /\ k # l /\ tempLinkContext[k] # "none" /\ Server(k) = t /\ Account(k) = b
        BY <3>1, <4>1 DEF Server, Account
      <4>3. InGame(t, b) \/ (t = s /\ b = a)
        BY <2>2, <3>3 DEF InGame
      <4>4. CASE InGame(t, b)
        BY <4>2, <4>4 DEF IInv, ContextInv, InUse
      <4>5. CASE t = s /\ b = a
        <5>1. login[k] = login[l]
          BY <1>5, <4>2, <4>5, LoginIs, HasLogin
        <5> QED  BY <2>1, <4>2, <5>1 DEF IInv, ContextInv
      <4> QED  BY <4>3, <4>4, <4>5
    <3> QED  BY <3>2, <3>3 DEF ContextInv
  <2> QED  BY <2>5, <2>6, LoginSideKeeps
<1> QED  BY <1>11, <1>12

LEMMA UpdateInv ==
  ASSUME TypeInv, TypeInv', IInv, NEW z \in Zones, UpdatePlayerData(z)
  PROVE  IInv'
<1> DEFINE m == Head(toLogin[z])
<1>1. /\ toLogin[z] # <<>> /\ Taken(z)
      /\ UNCHANGED <<phase, login, tempLinkContext, fromDb, row, unit, waiting>>
  BY DEF UpdatePlayerData, FromZone, clientVars, dbVars
<1>2. m \in ToLogin /\ m.kind = "logout"
  BY <1>1, TakeFromZone DEF UpdatePlayerData, FromZone
<1>3. PICK a \in Accounts : a = m.account
  BY <1>2, ToLoginFields
<1>4. PICK s \in Servers : s = ServerOf[z]
  BY SessionAssumption
<1>5. playerCache' = [playerCache EXCEPT ![s][a] =
                        IF dbUp[s] \/ ~InGame(s, a) THEN NoPlayer ELSE Kept(@, m.data)]
  BY <1>3, <1>4 DEF UpdatePlayerData
<1>6. playerCache \in [Servers -> [Accounts -> SPlayer \cup {NoPlayer}]]
  BY DEF TypeInv, TypeOK
<1>7. \A t \in Servers, b \in Accounts : playerCache'[t][b] # NoPlayer => InGame(t, b)
  BY <1>5, <1>6 DEF InGame
<1>8. \A t \in Servers : \E n \in Nat : Continues(t, n)
  <2>1. CASE ~InGame(s, a) \/ ~dbUp[s]
    <3>1. UNCHANGED toDb
      BY <1>3, <1>4, <2>1 DEF UpdatePlayerData, SentToDb
    <3> QED  BY <3>1, SameSent
  <2>2. CASE InGame(s, a) /\ dbUp[s]
    <3> DEFINE r == [kind |-> "save", account |-> a, serverId |-> s, data |-> m.data]
    <3>1. toDb' = SentToDb(s, r)
      BY <1>3, <1>4, <2>2 DEF UpdatePlayerData
    <3>2. r \in Query \cup Save
      BY <1>2, ToLoginFields DEF Save
    <3>3. playerCache'[s][a] = NoPlayer
      BY <1>5, <1>6, <2>2
    <3>4. \A l \in Links : phase'[l] = "open" => login'[l] # [server |-> s, account |-> a]
      BY <1>1, <2>2, InGameNoLink
    <3>5. NewRequest(s, r)
      BY <2>2, <3>3, <3>4 DEF NewRequest
    <3> QED  BY <3>1, <3>2, <3>5, OneSent
  <2> QED  BY <2>1, <2>2
<1>9. LoginSide
  <2>1. \A k \in Links : phase'[k] = "open" /\ tempLinkContext'[k] = "unbind" =>
          login[k] # NoLogin /\ Clean(Server(k), Account(k))
    BY <1>1, OpenOnes
  <2>2. \A t \in Servers : \A i \in DOMAIN fromDb'[t] :
          \E j \in DOMAIN fromDb[t] : fromDb'[t][i] = fromDb[t][j]
    BY <1>1
  <2> QED  BY <1>1, <1>7, <1>8, <2>1, <2>2 DEF LoginSide
<1>10. ContextInv'
  BY <1>1, <1>7, ContextsEnd
<1> QED  BY <1>9, <1>10, LoginSideKeeps

(* Broken links and ends of the database server only lose.                 *)
LEMMA DbLinkInv ==
  ASSUME TypeInv, TypeInv', IInv, CrashDb \/ \E s \in Servers : BreakDb(s) \/ ReconnectDb(s)
  PROVE  IInv'
<1>1. /\ UNCHANGED <<phase, login, tempLinkContext, playerCache, row>>
      /\ \A a \in Accounts : unit'[a] \in {unit[a], NoUnit} /\ waiting'[a] \in {waiting[a], NoQuery}
  BY DEF BreakDb, ReconnectDb, CrashDb, clientVars, dbVars
<1>2. \A t \in Servers : toDb'[t] \in FirstOf(toDb[t])
  <2> TAKE t \in Servers
  <2>1. toDb \in [Servers -> Seq(Query \cup Save)] /\ toDb[t] \in Seq(Query \cup Save)
    BY DEF TypeInv, TypeOK
  <2>2. toDb[t] \in FirstOf(toDb[t]) /\ <<>> \in FirstOf(toDb[t])
    <3>1. Len(toDb[t]) \in 0..Len(toDb[t]) /\ 0 \in 0..Len(toDb[t])
      BY <2>1
    <3>2. SubSeq(toDb[t], 1, Len(toDb[t])) = toDb[t] /\ SubSeq(toDb[t], 1, 0) = <<>>
      BY <2>1
    <3> QED  BY <3>1, <3>2 DEF FirstOf
  <2>3. CASE CrashDb
    BY <2>2, <2>3 DEF CrashDb
  <2>4. CASE \E s \in Servers : ReconnectDb(s)
    BY <2>2, <2>4 DEF ReconnectDb
  <2>5. CASE \E s \in Servers : BreakDb(s)
    BY <2>1, <2>2, <2>5 DEF BreakDb
  <2> QED  BY <2>3, <2>4, <2>5
<1>3. \A t \in Servers : \A i \in DOMAIN fromDb'[t] :
        \E j \in DOMAIN fromDb[t] : fromDb'[t][i] = fromDb[t][j]
  <2> TAKE t \in Servers
  <2>1. fromDb \in [Servers -> Seq(Answer)] /\ DOMAIN <<>> = {}
    BY DEF TypeInv, TypeOK
  <2>2. fromDb'[t] = fromDb[t] \/ fromDb'[t] = <<>>
    BY <2>1 DEF BreakDb, ReconnectDb, CrashDb
  <2> QED  BY <2>1, <2>2
<1>4. LoginSide
  <2>1. \A k \in Links : phase'[k] = "open" /\ tempLinkContext'[k] = "unbind" =>
          login[k] # NoLogin /\ Clean(Server(k), Account(k))
    BY <1>1, OpenOnes
  <2>2. \A t \in Servers, b \in Accounts : playerCache'[t][b] # NoPlayer => InGame(t, b)
    BY <1>1 DEF InGame
  <2>3. \A t \in Servers : \E n \in Nat : Continues(t, n)
    BY <1>2, NothingSent
  <2> QED  BY <1>1, <1>3, <2>1, <2>2, <2>3 DEF LoginSide
<1>5. ContextInv'
  BY <1>1, ContextsEnd DEF InGame
<1> QED  BY <1>4, <1>5, LoginSideKeeps

LEMMA StartAgainInv ==
  ASSUME TypeInv, TypeInv', IInv, NEW s \in Servers, NEW q, StartAgain(s, q),
         \E n \in Nat : Continues(s, n)
  PROVE  IInv'
<1> DEFINE on(l) == login[l] # NoLogin /\ Server(l) = s
<1>1. /\ phase' = [l \in Links |-> IF on(l) THEN "closed" ELSE phase[l]]
      /\ tempLinkContext' = [l \in Links |-> IF on(l) THEN "none" ELSE tempLinkContext[l]]
      /\ UNCHANGED <<login, row, unit, waiting>>
  BY DEF StartAgain, dbVars
<1>2. /\ playerCache' = [playerCache EXCEPT ![s] = [a \in Accounts |-> NoPlayer]]
      /\ toDb' = [toDb EXCEPT ![s] = q] /\ fromDb' = [fromDb EXCEPT ![s] = <<>>]
  BY DEF StartAgain
<1>3. /\ playerCache \in [Servers -> [Accounts -> SPlayer \cup {NoPlayer}]]
      /\ toDb \in [Servers -> Seq(Query \cup Save)] /\ fromDb \in [Servers -> Seq(Answer)]
  BY DEF TypeInv, TypeOK
<1>4. \A t \in Servers, b \in Accounts : playerCache'[t][b] # NoPlayer => InGame(t, b)
  BY <1>2, <1>3 DEF InGame
<1>5. \A t \in Servers : \A i \in DOMAIN fromDb'[t] :
        \E j \in DOMAIN fromDb[t] : fromDb'[t][i] = fromDb[t][j]
  <2>1. \A t \in Servers : fromDb'[t] = fromDb[t] \/ fromDb'[t] = <<>>
    BY <1>2, <1>3
  <2> QED  BY <2>1
<1>6. \A t \in Servers : \E n \in Nat : Continues(t, n)
  <2>1. \A t \in Servers : t # s => toDb'[t] = toDb[t]
    BY <1>2, <1>3
  <2> QED  BY <2>1, SameSent
<1>7. \A k \in Links : /\ phase'[k] = "open" =>
                            phase[k] = "open" /\ tempLinkContext'[k] = tempLinkContext[k]
                       /\ tempLinkContext'[k] # "none" => tempLinkContext[k] # "none"
  BY <1>1
<1>8. LoginSide
  <2>1. \A k \in Links : phase'[k] = "open" /\ tempLinkContext'[k] = "unbind" =>
          login[k] # NoLogin /\ Clean(Server(k), Account(k))
    BY <1>7, OpenOnes
  <2> QED  BY <1>1, <1>4, <1>5, <1>6, <1>7, <2>1 DEF LoginSide
<1>9. ContextInv'
  BY <1>1, <1>4, <1>7, ContextsEnd
<1> QED  BY <1>8, <1>9, LoginSideKeeps

LEMMA RestartInv ==
  ASSUME TypeInv, TypeInv', IInv, NEW s \in Servers, CrashLogin(s) \/ Destroy(s)
  PROVE  IInv'
<1>1. toDb \in [Servers -> Seq(Query \cup Save)] /\ toDb[s] \in Seq(Query \cup Save)
  BY DEF TypeInv, TypeOK
<1>2. CASE CrashLogin(s)
  <2>1. PICK q \in FirstOf(toDb[s]) : StartAgain(s, q)
    BY <1>2 DEF CrashLogin
  <2>2. toDb'[s] = q
    BY <1>1, <2>1 DEF StartAgain
  <2> QED  BY <2>1, <2>2, NothingSent, StartAgainInv
<1>3. CASE Destroy(s)
  <2>1. PICK q \in SetToSeqs(SaveAllPlayer(s)) : StartAgain(s, toDb[s] \o q)
    BY <1>3 DEF Destroy
  <2> DEFINE n == Len(toDb[s])
  <2>2. toDb'[s] = toDb[s] \o q
    BY <1>1, <2>1 DEF StartAgain
  <2>3. /\ q \in Seq(Query \cup Save)
        /\ \A i \in DOMAIN q : /\ q[i].kind = "save" /\ q[i].serverId = s
                               /\ q[i].account \in Accounts /\ InGame(s, q[i].account)
        /\ \A i, j \in DOMAIN q : i # j => q[i].account # q[j].account
    BY <2>1, SavesOfPlayers
  <2>4. /\ \A a \in Accounts : playerCache'[s][a] = NoPlayer
        /\ \A l \in Links : phase'[l] = "open" => login[l] = NoLogin \/ Server(l) # s
        /\ UNCHANGED login
    BY <2>1 DEF StartAgain, TypeInv, TypeOK
  <2>5. \A l \in Links, a \in Accounts :
          phase'[l] = "open" => login'[l] # [server |-> s, account |-> a]
    <3>1. \A a \in Accounts : [server |-> s, account |-> a] \in Login
      BY DEF Login
    <3> QED  BY <2>4, <3>1, NullAssumption DEF Server
  <2>6. \A i \in DOMAIN q : NewRequest(s, q[i])
    BY <2>3, <2>4, <2>5 DEF NewRequest
  <2>7. \A i \in DOMAIN toDb'[s] :
          /\ i \in Nat
          /\ \/ i <= n /\ i \in DOMAIN toDb[s] /\ toDb'[s][i] = toDb[s][i]
             \/ i > n /\ i - n \in DOMAIN q /\ toDb'[s][i] = q[i - n]
    BY <1>1, <2>2, <2>3
  <2>8. n \in Nat
    BY <1>1
  <2>9. ASSUME NEW i \in DOMAIN toDb'[s], NEW j \in DOMAIN toDb'[s], n < j, j < i
        PROVE  ~Gives(toDb'[s][j], toDb'[s][i].account)
    <3>1. /\ i - n \in DOMAIN q /\ toDb'[s][i] = q[i - n]
          /\ j - n \in DOMAIN q /\ toDb'[s][j] = q[j - n] /\ i - n # j - n
      BY <2>7, <2>8, <2>9
    <3> QED  BY <2>3, <3>1 DEF Gives
  <2>10. \A i \in DOMAIN toDb'[s] :
           IF i <= n THEN i \in DOMAIN toDb[s] /\ toDb'[s][i] = toDb[s][i]
           ELSE NewRequest(s, toDb'[s][i])
    BY <2>6, <2>7, <2>8
  <2>11. Continues(s, n)
    BY <2>9, <2>10 DEF Continues
  <2> QED  BY <2>1, <2>8, <2>11, StartAgainInv
<1> QED  BY <1>2, <1>3

(* The database server takes a request: what was clean stays clean, and a  *)
(* row that is kept while no save is sent stays kept.                      *)
LEMMA ReceiveInv ==
  ASSUME TypeInv, TypeInv', IInv, NEW s \in Servers, DbReceive(s)
  PROVE  IInv'
<1> USE NullAssumption
<1>0. toDb \in [Servers -> Seq(Query \cup Save)] /\ toDb[s] \in Seq(Query \cup Save)
  BY DEF TypeInv, TypeOK
<1>1. /\ toDb[s] # <<>> /\ toDb' = [toDb EXCEPT ![s] = Tail(@)]
      /\ UNCHANGED <<phase, login, tempLinkContext, playerCache, fromDb, row>>
  BY DEF DbReceive, clientVars
<1>2. /\ 1 \in DOMAIN toDb[s] /\ Head(toDb[s]) = toDb[s][1]
      /\ \A i \in DOMAIN Tail(toDb[s]) :
           i \in Nat \ {0} /\ i + 1 \in DOMAIN toDb[s] /\ Tail(toDb[s])[i] = toDb[s][i + 1]
  BY <1>0, <1>1, HeadAndTail
<1>3. PICK m \in Query \cup Save : m = toDb[s][1]
  BY <1>2, RequestIs
<1>4. PICK a \in Accounts : a = m.account
  BY <1>3, RequestFields
<1>5. /\ m.serverId = s
      /\ m.kind \in {"list", "select"} =>
           m.link \in Links /\ login[m.link] = [server |-> s, account |-> a]
  BY <1>2, <1>3, <1>4, RequestIs
<1>6. \/ /\ m.kind = "save" /\ UNCHANGED waiting
         /\ unit' = [unit EXCEPT ![a] =
              [serverId |-> IF Cached(a) THEN @.serverId ELSE s,
               data |-> m.data, removeMe |-> TRUE]]
      \/ /\ m.kind # "save" /\ UNCHANGED unit
         /\ waiting' = [waiting EXCEPT ![a] = m]
  BY <1>2, <1>3, <1>4, <1>5 DEF DbReceive, SaveIntoCache
<1>7. /\ unit \in [Accounts -> Unit \cup {NoUnit}] /\ waiting \in [Accounts -> Query \cup {NoQuery}]
      /\ \A b \in Accounts : b # a => unit'[b] = unit[b] /\ waiting'[b] = waiting[b]
      /\ m.kind # "save" => waiting'[a] = m /\ UNCHANGED unit
      /\ m.kind = "save" => /\ UNCHANGED waiting
                            /\ unit'[a] = [serverId |-> IF Cached(a) THEN unit[a].serverId ELSE s,
                                           data |-> m.data, removeMe |-> TRUE]
  BY <1>6 DEF TypeInv, TypeOK
(* What is left of the requests. *)
<1>8. \A t \in Servers : \A i \in DOMAIN toDb'[t] :
        /\ i \in Nat
        /\ \/ t # s /\ i \in DOMAIN toDb[t] /\ toDb'[t][i] = toDb[t][i]
           \/ t = s /\ i + 1 \in DOMAIN toDb[s] /\ toDb'[s][i] = toDb[s][i + 1] /\ 1 < i + 1
  <2> TAKE t \in Servers
  <2>1. toDb[t] \in Seq(Query \cup Save)
    BY <1>0
  <2>2. CASE t # s
    BY <1>0, <1>1, <2>1, <2>2
  <2>3. CASE t = s
    BY <1>0, <1>1, <1>2, <2>3
  <2> QED  BY <2>2, <2>3
<1>9. \A t \in Servers, b \in Accounts : NoneSent(t, b) => NoneSent(t, b)'
  <2>1. \A t \in Servers : \A i \in DOMAIN toDb'[t] : \E j \in DOMAIN toDb[t] :
          toDb'[t][i] = toDb[t][j]
    BY <1>8
  <2> QED  BY <2>1 DEF NoneSent
<1>10. \A t \in Servers, b \in Accounts : Clean(t, b) => Clean(t, b)'
  <2> SUFFICES ASSUME NEW t \in Servers, NEW b \in Accounts, Clean(t, b)
               PROVE  ~UnlockWaits(t, b)'
    BY <1>9 DEF Clean
  <2>1. CASE b = a /\ m.kind # "save"
    <3>1. t = s => m.kind # "unlock"
      BY <1>2, <1>3, <1>4, <2>1 DEF Clean, NoneSent, Gives
    <3> QED  BY <1>5, <1>7, <2>1, <3>1 DEF UnlockWaits
  <2>2. CASE ~(b = a /\ m.kind # "save")
    BY <1>7, <2>2 DEF Clean, UnlockWaits
  <2> QED  BY <2>1, <2>2
<1>11. m.kind = "save" => Keeps(s, a)
  BY <1>2, <1>3, <1>4 DEF IInv, SaveInv
(* A row stays kept unless this is the save of its player. *)
<1>12. ASSUME NEW t \in Servers, NEW b \in Accounts, Keeps(t, b),
              ~(t = s /\ b = a /\ m.kind = "save")
       PROVE  Keeps(t, b)'
  <2>1. CASE b = a /\ m.kind = "save"
    BY <1>11, <1>12, <2>1 DEF Keeps
  <2>2. CASE ~(b = a /\ m.kind = "save")
    BY <1>1, <1>7, <1>12, <2>2 DEF Keeps, Cached
  <2> QED  BY <2>1, <2>2
<1>13. ASSUME NEW t \in Servers, NEW b \in Accounts, Keeps(t, b), Clean(t, b)
       PROVE  Keeps(t, b)'
  <2>1. t = s /\ b = a => m.kind # "save"
    BY <1>2, <1>3, <1>4, <1>13 DEF Clean, NoneSent, Gives
  <2> QED  BY <1>12, <1>13, <2>1
<1>14. RequestsInv'
  <2>1. ASSUME NEW t \in Servers, NEW i \in DOMAIN toDb'[t]
        PROVE  /\ toDb'[t][i].serverId = t
               /\ toDb'[t][i].kind \in {"list", "select"} => AskedBy(toDb[t][i])'
    <3>1. PICK j \in DOMAIN toDb[t] : toDb'[t][i] = toDb[t][j]
      BY <1>8
    <3> QED  BY <1>1, <3>1 DEF IInv, RequestsInv, AskedBy
  <2>2. ASSUME NEW b \in Accounts, waiting'[b] # NoQuery
        PROVE  /\ waiting'[b].account = b
               /\ waiting'[b].kind \in {"list", "select"} => AskedBy(waiting[b])'
    <3>1. CASE waiting'[b] = waiting[b]
      BY <1>1, <2>2, <3>1 DEF IInv, RequestsInv, AskedBy
    <3>2. CASE b = a /\ waiting'[a] = m
      BY <1>1, <1>4, <1>5, <3>2 DEF AskedBy
    <3> QED  BY <1>7, <3>1, <3>2
  <2>3. \A t \in Servers : \A i \in DOMAIN fromDb'[t] :
          login'[fromDb'[t][i].link] # NoLogin /\ Server(fromDb[t][i].link)' = t
    BY <1>1 DEF IInv, RequestsInv, Server
  <2> QED  BY <2>1, <2>2, <2>3 DEF RequestsInv
<1>15. ContextInv'
  BY <1>1, ContextsEnd DEF InGame
<1>16. UnitsHeld'
  <2> SUFFICES ASSUME NEW b \in Accounts, Cached(b)'
               PROVE  unit'[b].serverId = row[b].serverId
    BY <1>1 DEF UnitsHeld
  <2>1. CASE b = a /\ m.kind = "save"
    <3>1. unit'[a].serverId = IF Cached(a) THEN unit[a].serverId ELSE s
      BY <1>7, <2>1
    <3> QED  BY <1>11, <2>1, <3>1 DEF IInv, UnitsHeld, Keeps
  <2>2. CASE ~(b = a /\ m.kind = "save")
    BY <1>7, <2>2 DEF IInv, UnitsHeld, Cached
  <2> QED  BY <2>1, <2>2
<1>17. ListInv'
  <2>1. ASSUME NEW b \in Accounts, waiting'[b] # NoQuery, IsOpen(waiting[b], "list")'
        PROVE  NoneSent(waiting[b].serverId, b)'
    <3>1. PICK t \in Servers : t = waiting'[b].serverId
      <4>1. waiting'[b] \in Query
        BY <2>1 DEF TypeInv, TypeOK
      <4> QED  BY <4>1, QueryFields
    <3>2. NoneSent(t, b)'
      <4>1. CASE waiting'[b] = waiting[b]
        <5>1. NoneSent(t, b)
          BY <1>1, <2>1, <3>1, <4>1 DEF IInv, ListInv, IsOpen
        <5> QED  BY <1>9, <5>1
      <4>2. CASE b = a /\ waiting'[a] = m
        <5>1. IsOpen(toDb[s][1], "list") /\ t = s
          BY <1>1, <1>3, <1>5, <2>1, <3>1, <4>2 DEF IsOpen
        <5>2. \A j \in DOMAIN toDb[s] : 1 < j => ~Gives(toDb[s][j], a)
          BY <1>2, <1>3, <1>4, <5>1 DEF IInv, ListInv
        <5>3. \A i \in DOMAIN toDb'[s] : ~Gives(toDb'[s][i], a)
          BY <1>8, <5>2
        <5> QED  BY <4>2, <5>1, <5>3 DEF NoneSent
      <4> QED  BY <1>7, <4>1, <4>2
    <3> QED  BY <3>1, <3>2 DEF NoneSent
  <2>2. ASSUME NEW t \in Servers, NEW i \in DOMAIN toDb'[t], NEW j \in DOMAIN toDb'[t],
               IsOpen(toDb[t][i], "list")', i < j
        PROVE  ~Gives(toDb'[t][j], toDb'[t][i].account)
    <3>1. PICK k \in DOMAIN toDb[t], n \in DOMAIN toDb[t] :
            k < n /\ toDb'[t][i] = toDb[t][k] /\ toDb'[t][j] = toDb[t][n]
      <4>1. CASE t # s
        BY <1>8, <2>2, <4>1
      <4>2. CASE t = s
        <5>1. /\ i + 1 \in DOMAIN toDb[s] /\ toDb'[s][i] = toDb[s][i + 1]
              /\ j + 1 \in DOMAIN toDb[s] /\ toDb'[s][j] = toDb[s][j + 1]
              /\ i \in Nat /\ j \in Nat /\ i + 1 < j + 1
          BY <1>8, <2>2, <4>2
        <5> QED  BY <4>2, <5>1
      <4> QED  BY <4>1, <4>2
    <3> QED  BY <1>1, <2>2, <3>1 DEF IInv, ListInv, IsOpen
  <2>3. ASSUME NEW t \in Servers, NEW i \in DOMAIN fromDb'[t], IsOpen(fromDb[t][i], "list")',
               fromDb'[t][i].result = "success"
        PROVE  Clean(t, Account(fromDb[t][i].link))'
    <3>1. PICK b \in Accounts : b = Account(fromDb[t][i].link)
      BY <1>1, AnswerIs
    <3>2. Clean(t, b) /\ b = Account(fromDb[t][i].link)'
      BY <1>1, <2>3, <3>1 DEF IInv, ListInv, IsOpen, Account
    <3>3. Clean(t, b)'
      BY <1>10, <3>2
    <3> QED  BY <3>2, <3>3
  <2> QED  BY <2>1, <2>2, <2>3 DEF ListInv
<1>18. SelectInv'
  <2>1. \A t \in Servers : \A i \in DOMAIN toDb'[t] :
          IsOpen(toDb[t][i], "select")' => tempLinkContext'[toDb'[t][i].link] = "unbind"
    <3>1. \A t \in Servers : \A i \in DOMAIN toDb'[t] : \E j \in DOMAIN toDb[t] :
            toDb'[t][i] = toDb[t][j]
      BY <1>8
    <3> QED  BY <1>1, <3>1 DEF IInv, SelectInv, IsOpen
  <2>2. ASSUME NEW b \in Accounts, waiting'[b] # NoQuery, IsOpen(waiting[b], "select")'
        PROVE  tempLinkContext'[waiting'[b].link] = "unbind"
    <3>1. CASE waiting'[b] = waiting[b]
      BY <1>1, <2>2, <3>1 DEF IInv, SelectInv, IsOpen
    <3>2. CASE waiting'[b] = m
      <4>1. IsOpen(toDb[s][1], "select")
        BY <1>1, <1>3, <2>2, <3>2 DEF IsOpen
      <4> QED  BY <1>1, <1>2, <1>3, <3>2, <4>1 DEF IInv, SelectInv
    <3> QED  BY <1>7, <3>1, <3>2
  <2>3. ASSUME NEW l \in Links, phase[l] = "open", tempLinkContext[l] = "unbind"
        PROVE  /\ Clean(Server(l), Account(l))'
               /\ Keeps(Server(l), Account(l)) => Keeps(Server(l), Account(l))'
    <3>1. PICK t \in Servers, b \in Accounts : t = Server(l) /\ b = Account(l)
      BY <2>3, HasLogin
    <3>2. Clean(t, b) /\ t = Server(l)' /\ b = Account(l)'
      BY <1>1, <2>3, <3>1, OpenOnes DEF Server, Account
    <3>3. Clean(t, b)' /\ (Keeps(t, b) => Keeps(t, b)')
      BY <1>10, <1>13, <3>2
    <3> QED  BY <3>1, <3>2, <3>3
  <2>4. ASSUME NEW t \in Servers, NEW i \in DOMAIN fromDb'[t], IsOpen(fromDb[t][i], "select")'
        PROVE  /\ tempLinkContext'[fromDb'[t][i].link] = "unbind"
               /\ fromDb'[t][i].result = "success" => Keeps(t, Account(fromDb[t][i].link))'
    <3>1. PICK l \in Links : l = fromDb[t][i].link
      BY <1>1, AnswerIs
    <3>2. Server(l) = t /\ l = fromDb'[t][i].link /\ phase[l] = "open"
      BY <1>1, <2>4, <3>1, AnswerIs DEF IsOpen
    <3>3. /\ tempLinkContext[l] = "unbind"
          /\ fromDb[t][i].result = "success" => Keeps(t, Account(l))
      BY <1>1, <2>4, <3>1 DEF IInv, SelectInv, IsOpen
    <3>4. fromDb[t][i].result = "success" => Keeps(Server(l), Account(l))'
      BY <2>3, <3>2, <3>3
    <3>5. Server(l)' = t
      BY <1>1, <3>2 DEF Server
    <3> QED  BY <1>1, <3>2, <3>3, <3>4, <3>5
  <2>5. \A l \in Links : phase'[l] = "open" /\ tempLinkContext'[l] = "unbind" =>
          Clean(Server(l), Account(l))'
    BY <1>1, <2>3
  <2> QED  BY <2>1, <2>2, <2>4, <2>5 DEF SelectInv
<1>19. GameInv'
  <2> SUFFICES ASSUME NEW t \in Servers, NEW b \in Accounts, InGame(t, b)'
               PROVE  Keeps(t, b)' /\ Clean(t, b)'
    BY DEF GameInv
  <2>1. Keeps(t, b) /\ Clean(t, b)
    BY <1>1 DEF IInv, GameInv, InGame
  <2> QED  BY <1>10, <1>13, <2>1
<1>20. SaveInv'
  <2>1. ASSUME NEW t \in Servers, NEW i \in DOMAIN toDb'[t], toDb'[t][i].kind = "save",
               NEW b \in Accounts, b = toDb'[t][i].account
        PROVE  /\ Keeps(t, b)' /\ ~UnlockWaits(t, b)'
               /\ \A j \in DOMAIN toDb'[t] : j < i => ~Gives(toDb'[t][j], b)
    <3>1. PICK k \in DOMAIN toDb[t] :
            /\ toDb'[t][i] = toDb[t][k] /\ (t = s => 1 < k)
            /\ IF t = s THEN k = i + 1 ELSE k = i
      BY <1>8
    <3>2. /\ Keeps(t, b) /\ ~UnlockWaits(t, b)
          /\ \A j \in DOMAIN toDb[t] : j < k => ~Gives(toDb[t][j], b)
      BY <2>1, <3>1 DEF IInv, SaveInv
    <3>3. t = s => ~Gives(m, b)
      BY <1>2, <1>3, <3>1, <3>2
    <3>4. Keeps(t, b)'
      BY <1>4, <1>12, <3>2, <3>3 DEF Gives
    <3>5. ~UnlockWaits(t, b)'
      <4>1. CASE waiting'[b] = waiting[b]
        BY <3>2, <4>1 DEF UnlockWaits
      <4>2. CASE b = a /\ waiting'[b] = m
        BY <1>4, <1>5, <3>3, <4>2 DEF UnlockWaits, Gives
      <4> QED  BY <1>7, <4>1, <4>2
    <3>6. ASSUME NEW j \in DOMAIN toDb'[t], j < i
          PROVE  ~Gives(toDb'[t][j], b)
      <4>1. CASE t # s
        BY <1>8, <3>1, <3>2, <3>6, <4>1
      <4>2. CASE t = s
        <5>1. j + 1 \in DOMAIN toDb[s] /\ toDb'[s][j] = toDb[s][j + 1] /\ j + 1 < k
          BY <1>8, <3>1, <3>6, <4>2
        <5> QED  BY <3>2, <4>2, <5>1
      <4> QED  BY <4>1, <4>2
    <3> QED  BY <3>4, <3>5, <3>6
  <2>2. ASSUME NEW t \in Servers, NEW i \in DOMAIN toDb'[t]
        PROVE  toDb'[t][i].account \in Accounts
    <3>1. toDb'[t][i] \in Query \cup Save
      BY DEF TypeInv, TypeOK
    <3> QED  BY <3>1, RequestFields
  <2> QED  BY <2>1, <2>2 DEF SaveInv
<1> QED  BY <1>14, <1>15, <1>16, <1>17, <1>18, <1>19, <1>20 DEF IInv

(* What the answer to a request that was executed says.                    *)
NewAnswer(t, m) ==
  \E b \in Accounts :
    /\ m.link \in Links /\ login[m.link] = [server |-> t, account |-> b]
    /\ IsOpen(m, "list") /\ m.result = "success" => NoneSent(t, b) /\ waiting'[b] = NoQuery
    /\ IsOpen(m, "select") => tempLinkContext[m.link] = "unbind"
    /\ IsOpen(m, "select") /\ m.result = "success" => Keeps(t, b)'

(* The steps of the database server's work thread.                         *)
LEMMA DbSideKeeps ==
  ASSUME TypeInv, TypeInv', IInv,
         UNCHANGED <<phase, login, tempLinkContext, playerCache, toDb>>,
         \A b \in Accounts : waiting'[b] \in {waiting[b], NoQuery},
         \A t \in Servers, b \in Accounts :
           Keeps(t, b) /\ ~UnlockWaits(t, b) => Keeps(t, b)',
         UnitsHeld',
         \A t \in Servers : \A i \in DOMAIN fromDb'[t] :
           \/ \E j \in DOMAIN fromDb[t] : fromDb'[t][i] = fromDb[t][j]
           \/ NewAnswer(t, fromDb'[t][i])
  PROVE  IInv'
<1> USE NullAssumption
<1>1. \A t \in Servers, b \in Accounts : Clean(t, b) => Clean(t, b)'
  BY DEF Clean, UnlockWaits, NoneSent
<1>2. \A t \in Servers, b \in Accounts : Keeps(t, b) /\ Clean(t, b) => Keeps(t, b)'
  BY DEF Clean
<1>3. ASSUME NEW t \in Servers, NEW i \in DOMAIN fromDb'[t]
      PROVE  \E l \in Links, b \in Accounts :
               /\ l = fromDb'[t][i].link /\ login[l] = [server |-> t, account |-> b]
               /\ IsOpen(fromDb[t][i], "list")' /\ fromDb'[t][i].result = "success" =>
                    Clean(t, b)'
               /\ IsOpen(fromDb[t][i], "select")' =>
                    /\ tempLinkContext'[l] = "unbind"
                    /\ fromDb'[t][i].result = "success" => Keeps(t, b)'
  <2>1. CASE \E j \in DOMAIN fromDb[t] : fromDb'[t][i] = fromDb[t][j]
    <3>1. PICK j \in DOMAIN fromDb[t] : fromDb'[t][i] = fromDb[t][j]
      BY <2>1
    <3>2. PICK l \in Links : l = fromDb[t][j].link
      BY AnswerIs
    <3>3. login[l] # NoLogin /\ Server(l) = t
      BY <3>2, AnswerIs
    <3>4. PICK b \in Accounts : b = Account(l)
      BY <3>3, LoginTypes
    <3>5. login[l] = [server |-> t, account |-> b]
      BY <3>3, <3>4, LoginIs
    <3>6. IsOpen(fromDb[t][i], "list")' /\ fromDb'[t][i].result = "success" => Clean(t, b)
      BY <3>1, <3>2, <3>4 DEF IInv, ListInv, IsOpen
    <3>7. IsOpen(fromDb[t][i], "select")' =>
            /\ phase[l] = "open" /\ tempLinkContext[l] = "unbind"
            /\ fromDb'[t][i].result = "success" => Keeps(t, b)
      BY <3>1, <3>2, <3>4 DEF IInv, SelectInv, IsOpen
    <3>8. phase[l] = "open" /\ tempLinkContext[l] = "unbind" => Clean(t, b)
      BY <3>3, <3>4, OpenOnes
    <3> QED  BY <1>1, <1>2, <3>1, <3>2, <3>5, <3>6, <3>7, <3>8
  <2>2. CASE NewAnswer(t, fromDb'[t][i])
    <3>1. PICK b \in Accounts :
            /\ fromDb'[t][i].link \in Links
            /\ login[fromDb'[t][i].link] = [server |-> t, account |-> b]
            /\ IsOpen(fromDb'[t][i], "list") /\ fromDb'[t][i].result = "success" =>
                 NoneSent(t, b) /\ waiting'[b] = NoQuery
            /\ IsOpen(fromDb'[t][i], "select") =>
                 tempLinkContext[fromDb'[t][i].link] = "unbind"
            /\ IsOpen(fromDb'[t][i], "select") /\ fromDb'[t][i].result = "success" =>
                 Keeps(t, b)'
      BY <2>2 DEF NewAnswer
    <3>2. \A k \in {"list", "select"} : IsOpen(fromDb[t][i], k)' <=> IsOpen(fromDb'[t][i], k)
      BY DEF IsOpen
    <3>3. NoneSent(t, b) /\ waiting'[b] = NoQuery => Clean(t, b)'
      BY DEF Clean, NoneSent, UnlockWaits
    <3>4. PICK l \in Links : l = fromDb'[t][i].link
      BY <3>1
    <3> QED  BY <3>1, <3>2, <3>3, <3>4
  <2> QED  BY <2>1, <2>2
<1>4. RequestsInv'
  <2>1. ASSUME NEW t \in Servers, NEW i \in DOMAIN fromDb'[t]
        PROVE  login'[fromDb'[t][i].link] # NoLogin /\ Server(fromDb[t][i].link)' = t
    <3>1. PICK l \in Links, b \in Accounts :
            l = fromDb'[t][i].link /\ login[l] = [server |-> t, account |-> b]
      BY <1>3
    <3>2. [server |-> t, account |-> b] \in Login
      BY DEF Login
    <3> QED  BY <3>1, <3>2 DEF Server
  <2>2. \A t \in Servers : \A i \in DOMAIN toDb'[t] :
          /\ toDb'[t][i].serverId = t
          /\ toDb'[t][i].kind \in {"list", "select"} => AskedBy(toDb[t][i])'
    BY DEF IInv, RequestsInv, AskedBy
  <2>3. \A b \in Accounts : waiting'[b] # NoQuery =>
          /\ waiting'[b].account = b
          /\ waiting'[b].kind \in {"list", "select"} => AskedBy(waiting[b])'
    BY DEF IInv, RequestsInv, AskedBy
  <2> QED  BY <2>1, <2>2, <2>3 DEF RequestsInv
<1>5. ContextInv'
  BY DEF IInv, ContextInv, InGame, InUse, Server, Account
<1>6. ListInv'
  <2>1. \A b \in Accounts : waiting'[b] # NoQuery /\ IsOpen(waiting[b], "list")' =>
          NoneSent(waiting[b].serverId, b)'
    BY DEF IInv, ListInv, IsOpen, NoneSent
  <2>2. \A t \in Servers : \A i, j \in DOMAIN toDb'[t] :
          IsOpen(toDb[t][i], "list")' /\ i < j => ~Gives(toDb'[t][j], toDb'[t][i].account)
    BY DEF IInv, ListInv, IsOpen
  <2>3. ASSUME NEW t \in Servers, NEW i \in DOMAIN fromDb'[t], IsOpen(fromDb[t][i], "list")',
               fromDb'[t][i].result = "success"
        PROVE  Clean(t, Account(fromDb[t][i].link))'
    <3>1. PICK l \in Links, b \in Accounts :
            /\ l = fromDb'[t][i].link /\ login[l] = [server |-> t, account |-> b]
            /\ Clean(t, b)'
      BY <1>3, <2>3
    <3>2. Account(fromDb[t][i].link)' = b
      BY <3>1 DEF Account
    <3> QED  BY <3>1, <3>2
  <2> QED  BY <2>1, <2>2, <2>3 DEF ListInv
<1>7. SelectInv'
  <2>1. \A b \in Accounts : waiting'[b] # NoQuery /\ IsOpen(waiting[b], "select")' =>
          tempLinkContext'[waiting'[b].link] = "unbind"
    BY DEF IInv, SelectInv, IsOpen
  <2>2. \A t \in Servers : \A i \in DOMAIN toDb'[t] :
          IsOpen(toDb[t][i], "select")' => tempLinkContext'[toDb'[t][i].link] = "unbind"
    BY DEF IInv, SelectInv, IsOpen
  <2>3. ASSUME NEW t \in Servers, NEW i \in DOMAIN fromDb'[t], IsOpen(fromDb[t][i], "select")'
        PROVE  /\ tempLinkContext'[fromDb'[t][i].link] = "unbind"
               /\ fromDb'[t][i].result = "success" => Keeps(t, Account(fromDb[t][i].link))'
    <3>1. PICK l \in Links, b \in Accounts :
            /\ l = fromDb'[t][i].link /\ login[l] = [server |-> t, account |-> b]
            /\ tempLinkContext'[l] = "unbind"
            /\ fromDb'[t][i].result = "success" => Keeps(t, b)'
      BY <1>3, <2>3
    <3>2. Account(fromDb[t][i].link)' = b
      BY <3>1 DEF Account
    <3> QED  BY <3>1, <3>2
  <2>4. ASSUME NEW l \in Links, phase'[l] = "open", tempLinkContext'[l] = "unbind"
        PROVE  Clean(Server(l), Account(l))'
    <3>1. PICK t \in Servers, b \in Accounts : t = Server(l) /\ b = Account(l)
      BY <2>4, HasLogin
    <3>2. Clean(t, b) /\ t = Server(l)' /\ b = Account(l)'
      BY <2>4, <3>1, OpenOnes DEF Server, Account
    <3>3. Clean(t, b)'
      BY <1>1, <3>2
    <3> QED  BY <3>2, <3>3
  <2> QED  BY <2>1, <2>2, <2>3, <2>4 DEF SelectInv
<1>8. GameInv'
  <2> SUFFICES ASSUME NEW t \in Servers, NEW b \in Accounts, InGame(t, b)'
               PROVE  Keeps(t, b)' /\ Clean(t, b)'
    BY DEF GameInv
  <2>1. Keeps(t, b) /\ Clean(t, b)
    BY DEF IInv, GameInv, InGame
  <2> QED  BY <1>1, <1>2, <2>1
<1>9. SaveInv'
  <2>1. ASSUME NEW t \in Servers, NEW i \in DOMAIN toDb[t], toDb[t][i].kind = "save",
               NEW b \in Accounts, b = toDb[t][i].account
        PROVE  /\ Keeps(t, b)' /\ ~UnlockWaits(t, b)'
               /\ \A j \in DOMAIN toDb[t] : j < i => ~Gives(toDb[t][j], b)
    <3>1. /\ Keeps(t, b) /\ ~UnlockWaits(t, b)
          /\ \A j \in DOMAIN toDb[t] : j < i => ~Gives(toDb[t][j], b)
      BY <2>1 DEF IInv, SaveInv
    <3>2. ~UnlockWaits(t, b)'
      BY <3>1 DEF UnlockWaits
    <3> QED  BY <3>1, <3>2
  <2>2. \A t \in Servers : \A i \in DOMAIN toDb[t] : toDb[t][i].account \in Accounts
    BY RequestIs
  <2> QED  BY <2>1, <2>2 DEF SaveInv
<1> QED  BY <1>4, <1>5, <1>6, <1>7, <1>8, <1>9 DEF IInv

(* What an answer adds.                                                    *)
LEMMA AnswerSent ==
  ASSUME TypeInv, NEW q \in Query, NEW r, NEW d, Answers(q, r, d)
  PROVE  \A t \in Servers : \A i \in DOMAIN fromDb'[t] :
           \/ \E j \in DOMAIN fromDb[t] : fromDb'[t][i] = fromDb[t][j]
           \/ /\ t = q.serverId
              /\ fromDb'[t][i] = [kind |-> q.kind, link |-> q.link, result |-> r, data |-> d]
<1> DEFINE ans == [kind |-> q.kind, link |-> q.link, result |-> r, data |-> d]
           all == IF q.kind = "select" THEN <<ans, ans>> ELSE <<ans>>
<1> TAKE t \in Servers
<1> TAKE i \in DOMAIN fromDb'[t]
<1>1. fromDb \in [Servers -> Seq(Answer)] /\ fromDb[t] \in Seq(Answer)
  BY DEF TypeInv, TypeOK
<1>2. fromDb' = IF dbUp[q.serverId] THEN [fromDb EXCEPT ![q.serverId] = @ \o all] ELSE fromDb
  BY DEF Answers
<1>3. CASE fromDb'[t] = fromDb[t]
  BY <1>3
<1>4. CASE fromDb'[t] # fromDb[t]
  <2>1. t = q.serverId /\ fromDb'[t] = fromDb[t] \o all
    BY <1>1, <1>2, <1>4
  <2>2. all \in Seq({ans}) /\ \A j \in DOMAIN all : all[j] = ans
    <3> HIDE DEF ans
    <3>1. \A x : /\ <<x>> \in Seq({x}) /\ \A j \in DOMAIN <<x>> : <<x>>[j] = x
                /\ <<x, x>> \in Seq({x}) /\ \A j \in DOMAIN <<x, x>> : <<x, x>>[j] = x
      OBVIOUS
    <3> QED  BY <3>1
  <2>3. \/ i \in DOMAIN fromDb[t] /\ fromDb'[t][i] = fromDb[t][i]
        \/ fromDb'[t][i] = ans
    <3> HIDE DEF all
    <3>1. \A j \in DOMAIN (fromDb[t] \o all) :
            \/ j \in DOMAIN fromDb[t] /\ (fromDb[t] \o all)[j] = fromDb[t][j]
            \/ j - Len(fromDb[t]) \in DOMAIN all
                 /\ (fromDb[t] \o all)[j] = all[j - Len(fromDb[t])]
      BY <1>1, <2>2
    <3> QED  BY <2>1, <2>2, <3>1
  <2> QED  BY <2>1, <2>3
<1> QED  BY <1>3, <1>4

LEMMA AnswerAdds ==
  ASSUME TypeInv, NEW q \in Query, NEW r, NEW d, Answers(q, r, d),
         NewAnswer(q.serverId, [kind |-> q.kind, link |-> q.link, result |-> r, data |-> d])
  PROVE  \A t \in Servers : \A i \in DOMAIN fromDb'[t] :
           \/ \E j \in DOMAIN fromDb[t] : fromDb'[t][i] = fromDb[t][j]
           \/ NewAnswer(t, fromDb'[t][i])
BY AnswerSent

LEMMA ExecuteInv ==
  ASSUME TypeInv, TypeInv', IInv, NEW a \in Accounts, DbExecute(a)
  PROVE  IInv'
<1> USE NullAssumption, SessionAssumption
<1>1. PICK q \in Query : q = waiting[a] /\ q.account = a /\ q.serverId \in Servers
  BY WaitingIs DEF DbExecute
<1>2. /\ waiting[a] # NoQuery /\ waiting' = [waiting EXCEPT ![a] = NoQuery]
      /\ UNCHANGED <<phase, login, tempLinkContext, playerCache, toDb>>
      /\ DbUnlock(q) \/ DbList(q) \/ DbSelect(q)
  BY <1>1 DEF DbExecute, clientVars
<1>3. PICK s \in Servers : s = q.serverId
  BY <1>1
<1>4. /\ waiting \in [Accounts -> Query \cup {NoQuery}] /\ row \in [Accounts -> Row]
      /\ unit \in [Accounts -> Unit \cup {NoUnit}]
  BY DEF TypeInv, TypeOK
<1>5. waiting'[a] = NoQuery /\ \A b \in Accounts : waiting'[b] \in {waiting[b], NoQuery}
  BY <1>2, <1>4
<1>6. q.kind \in {"list", "select"} =>
        q.link \in Links /\ login[q.link] = [server |-> s, account |-> a]
  BY <1>1, <1>2, <1>3, WaitingIs
<1>7. CASE DbUnlock(q)
  <2>1. /\ UNCHANGED <<row, fromDb>> /\ q.kind = "unlock"
        /\ unit' = IF Cached(a) /\ unit[a].serverId = s
                   THEN [unit EXCEPT ![a].removeMe = TRUE] ELSE unit
    BY <1>1, <1>3, <1>7 DEF DbUnlock, OfItsServer
  <2>2. /\ \A b \in Accounts : b # a => unit'[b] = unit[b]
        /\ ~(Cached(a) /\ unit[a].serverId = s) => unit'[a] = unit[a]
        /\ Cached(a) => unit'[a].serverId = unit[a].serverId
    BY <1>4, <2>1 DEF Cached, Unit
  <2>3. UnlockWaits(s, a)
    BY <1>1, <1>2, <1>3, <2>1 DEF UnlockWaits
  <2>4. ASSUME NEW t \in Servers, NEW b \in Accounts, Keeps(t, b), ~UnlockWaits(t, b)
        PROVE  Keeps(t, b)'
    <3>1. CASE b = a /\ Cached(a) /\ unit[a].serverId = s
      <4>1. t = s
        BY <2>4, <3>1 DEF Keeps, IInv, UnitsHeld
      <4> QED  BY <2>3, <2>4, <3>1, <4>1
    <3>2. CASE ~(b = a /\ Cached(a) /\ unit[a].serverId = s)
      <4>1. unit'[b] = unit[b]
        BY <2>2, <3>2
      <4> QED  BY <2>1, <2>4, <4>1 DEF Keeps, Cached
    <3> QED  BY <3>1, <3>2
  <2>5. UnitsHeld'
    <3> SUFFICES ASSUME NEW b \in Accounts, Cached(b)'
                 PROVE  unit'[b].serverId = row[b].serverId
      BY <2>1 DEF UnitsHeld
    <3>1. Cached(b) /\ unit'[b].serverId = unit[b].serverId
      BY <2>2 DEF Cached
    <3> QED  BY <3>1 DEF IInv, UnitsHeld
  <2>6. \A t \in Servers : \A i \in DOMAIN fromDb'[t] :
          \E j \in DOMAIN fromDb[t] : fromDb'[t][i] = fromDb[t][j]
    BY <2>1
  <2> QED  BY <1>2, <1>5, <2>4, <2>5, <2>6, DbSideKeeps
<1>8. CASE DbList(q)
  <2>1. /\ UNCHANGED unit /\ q.kind = "list"
        /\ \/ ~Cached(a) /\ Lockable(a, s) /\ row' = LockRow(a, s)
           \/ UNCHANGED row
    BY <1>1, <1>3, <1>8 DEF DbList
  <2>2. PICK r \in {"success", "lockedSelf", "lockedOther"} : Answers(q, r, 0)
    BY <1>8 DEF DbList
  <2>3. \A t \in Servers, b \in Accounts : Keeps(t, b) => Keeps(t, b)'
    BY <1>4, <2>1 DEF Keeps, Cached, Lockable, LockRow, Row
  <2>4. UnitsHeld'
    BY <1>4, <2>1 DEF IInv, UnitsHeld, Cached, LockRow
  <2> DEFINE ans == [kind |-> q.kind, link |-> q.link, result |-> r, data |-> 0]
  <2>5. phase[q.link] = "open" => NoneSent(s, a)
    BY <1>1, <1>2, <1>3, <2>1 DEF IInv, ListInv, IsOpen
  <2>6. NewAnswer(s, ans)
    BY <1>5, <1>6, <2>1, <2>5 DEF NewAnswer, IsOpen
  <2>7. \A t \in Servers : \A i \in DOMAIN fromDb'[t] :
          \/ \E j \in DOMAIN fromDb[t] : fromDb'[t][i] = fromDb[t][j]
          \/ NewAnswer(t, fromDb'[t][i])
    BY <1>3, <2>2, <2>6, AnswerAdds
  <2> QED  BY <1>2, <1>5, <2>3, <2>4, <2>7, DbSideKeeps
<1>9. CASE DbSelect(q)
  <2>1. /\ q.kind = "select"
        /\ \/ UNCHANGED <<row, unit, fromDb>>
           \/ /\ ~Cached(a) /\ Lockable(a, s) /\ row' = LockRow(a, s)
              /\ unit' = [unit EXCEPT ![a] = [serverId |-> s, data |-> row[a].data,
                                              removeMe |-> FALSE]]
              /\ Answers(q, "success", row[a].data)
           \/ UNCHANGED <<row, unit>> /\ Answers(q, "fail", 0)
    BY <1>1, <1>3, <1>9 DEF DbSelect
  <2>2. phase[q.link] = "open" => tempLinkContext[q.link] = "unbind"
    BY <1>1, <1>2, <2>1 DEF IInv, SelectInv, IsOpen
  <2>3. CASE UNCHANGED <<row, unit>>
    <3>1. \A t \in Servers, b \in Accounts : Keeps(t, b) => Keeps(t, b)'
      BY <2>3 DEF Keeps, Cached
    <3>2. UnitsHeld'
      BY <2>3 DEF IInv, UnitsHeld, Cached
    <3>3. ~Cached(a) /\ Lockable(a, s) /\ row' = LockRow(a, s)
            /\ unit' = [unit EXCEPT ![a] = [serverId |-> s, data |-> row[a].data,
                                            removeMe |-> FALSE]] => FALSE
      <4>1. [serverId |-> s, data |-> row[a].data, removeMe |-> FALSE] \in Unit
        BY <1>4 DEF Unit, Row
      <4> QED  BY <1>4, <2>3, <4>1 DEF Cached
    <3>4. \A t \in Servers : \A i \in DOMAIN fromDb'[t] :
            \/ \E j \in DOMAIN fromDb[t] : fromDb'[t][i] = fromDb[t][j]
            \/ NewAnswer(t, fromDb'[t][i])
      <4>1. CASE UNCHANGED fromDb
        BY <4>1
      <4>2. CASE Answers(q, "fail", 0)
        <5> DEFINE ans == [kind |-> q.kind, link |-> q.link, result |-> "fail", data |-> 0]
        <5>1. NewAnswer(s, ans)
          BY <1>6, <2>1, <2>2 DEF NewAnswer, IsOpen
        <5> QED  BY <1>3, <4>2, <5>1, AnswerAdds
      <4> QED  BY <2>1, <3>3, <4>1, <4>2
    <3> QED  BY <1>2, <1>5, <3>1, <3>2, <3>4, DbSideKeeps
  <2>4. CASE ~UNCHANGED <<row, unit>>
    <3> DEFINE u == [serverId |-> s, data |-> row[a].data, removeMe |-> FALSE]
    <3>1. /\ ~Cached(a) /\ Lockable(a, s) /\ row' = LockRow(a, s)
          /\ unit' = [unit EXCEPT ![a] = u]
          /\ Answers(q, "success", row[a].data)
      BY <2>1, <2>4
    <3>2. /\ row'[a].serverId = s /\ unit'[a].serverId = s /\ ~unit'[a].removeMe
          /\ \A b \in Accounts : b # a => row'[b] = row[b] /\ unit'[b] = unit[b]
      BY <1>4, <3>1 DEF LockRow, Row
    <3>3. Keeps(s, a)'
      BY <3>2 DEF Keeps, Cached
    <3>4. \A t \in Servers, b \in Accounts : Keeps(t, b) => Keeps(t, b)'
      <4> TAKE t \in Servers, b \in Accounts
      <4> HAVE Keeps(t, b)
      <4>1. CASE b = a
        <5>1. t = s
          BY <3>1, <4>1 DEF Keeps, Lockable
        <5> QED  BY <3>3, <4>1, <5>1
      <4>2. CASE b # a
        BY <3>2, <4>2 DEF Keeps, Cached
      <4> QED  BY <4>1, <4>2
    <3>5. UnitsHeld'
      BY <3>2 DEF IInv, UnitsHeld, Cached
    <3> DEFINE ans == [kind |-> q.kind, link |-> q.link, result |-> "success",
                       data |-> row[a].data]
    <3>6. NewAnswer(s, ans)
      BY <1>6, <2>1, <2>2, <3>3 DEF NewAnswer, IsOpen
    <3>7. \A t \in Servers : \A i \in DOMAIN fromDb'[t] :
            \/ \E j \in DOMAIN fromDb[t] : fromDb'[t][i] = fromDb[t][j]
            \/ NewAnswer(t, fromDb'[t][i])
      BY <1>3, <3>1, <3>6, AnswerAdds
    <3> QED  BY <1>2, <1>5, <3>4, <3>5, <3>7, DbSideKeeps
  <2> QED  BY <2>3, <2>4
<1> QED  BY <1>2, <1>7, <1>8, <1>9

LEMMA RemoveInv ==
  ASSUME TypeInv, TypeInv', IInv, NEW a \in Accounts, DbRemove(a)
  PROVE  IInv'
<1>1. /\ Cached(a) /\ unit[a].removeMe
      /\ row' = [row EXCEPT ![a] = [serverId |-> NoServer, data |-> unit[a].data]]
      /\ unit' = [unit EXCEPT ![a] = NoUnit]
      /\ UNCHANGED <<phase, login, tempLinkContext, playerCache, toDb, fromDb, waiting>>
  BY DEF DbRemove, clientVars
<1>2. row \in [Accounts -> Row] /\ unit \in [Accounts -> Unit \cup {NoUnit}]
  BY DEF TypeInv, TypeOK
<1>3. unit'[a] = NoUnit /\ \A b \in Accounts : b # a => row'[b] = row[b] /\ unit'[b] = unit[b]
  BY <1>1, <1>2
<1>4. \A t \in Servers, b \in Accounts : Keeps(t, b) => Keeps(t, b)'
  BY <1>1, <1>3 DEF Keeps, Cached
<1>5. UnitsHeld'
  BY <1>3 DEF IInv, UnitsHeld, Cached
<1>6. \A t \in Servers : \A i \in DOMAIN fromDb'[t] :
        \E j \in DOMAIN fromDb[t] : fromDb'[t][i] = fromDb[t][j]
  BY <1>1
<1>7. \A b \in Accounts : waiting'[b] \in {waiting[b], NoQuery}
  BY <1>1
<1> QED  BY <1>1, <1>4, <1>5, <1>6, <1>7, DbSideKeeps

LEMMA NextInv ==
  ASSUME TypeInv, TypeInv', IInv, [Next]_vars
  PROVE  IInv'
<1>1. CASE UNCHANGED vars
  BY <1>1, Untouched DEF vars
<1>2. CASE Next
  <2>1. ASSUME NEW l \in Links, NEW s \in Servers, NEW a \in Accounts, PlayerLogin(l, s, a)
        PROVE  IInv'
    BY <2>1, PlayerLoginInv
  <2>2. ASSUME NEW l \in Links, \/ Break(l) \/ Closed(l) \/ Reselect(l)
                                \/ QuestCheckRebind(l) \/ Leave(l)
        PROVE  IInv'
    <3>1. CASE QuestCheckRebind(l) \/ Leave(l)
      BY <3>1, Untouched DEF QuestCheckRebind, Leave
    <3> QED  BY <2>2, <3>1, LinkStepInv
  <2>3. ASSUME NEW s \in Servers, \/ RecvGetCharacterList(s) \/ RecvGetCharacter(s)
                                  \/ DbReceive(s) \/ ReconnectDb(s)
        PROVE  IInv'
    BY <2>3, ListAnswerInv, SelectAnswerInv, ReceiveInv, DbLinkInv
  <2>4. ASSUME NEW a \in Accounts, DbExecute(a) \/ DbRemove(a)
        PROVE  IInv'
    BY <2>4, ExecuteInv, RemoveInv
  <2>5. ASSUME NEW z \in Zones, \/ DoCheckRebind(z) \/ SendPlayerData(z)
                                \/ UpdatePlayerData(z) \/ RecvCheckRebind(z)
                                \/ SetPlayerData(z) \/ \E a \in Accounts : Logout(z, a)
        PROVE  IInv'
    <3>1. CASE UpdatePlayerData(z)
      BY <3>1, UpdateInv
    <3>2. CASE ~UpdatePlayerData(z)
      <4>1. UNCHANGED <<clientVars, playerCache, toDb, fromDb, dbVars>>
        BY <2>5, <3>2 DEF DoCheckRebind, SendPlayerData, RecvCheckRebind, SetPlayerData, Logout
      <4> QED  BY <4>1, Untouched
    <3> QED  BY <3>1, <3>2
  <2>6. CASE Faults
    <3>1. CASE \E z \in Zones : BreakZone(z) \/ CrashZone(z)
      <4>1. UNCHANGED <<clientVars, playerCache, toDb, fromDb, dbVars>>
        BY <3>1 DEF BreakZone, CrashZone
      <4> QED  BY <4>1, Untouched
    <3> QED  BY <2>6, <3>1, DbLinkInv, RestartInv DEF Faults
  <2> QED  BY <1>2, <2>1, <2>2, <2>3, <2>4, <2>5, <2>6 DEF Next
<1> QED  BY <1>1, <1>2

LEMMA InvAlways == Spec => []IInv
<1>1. Init => IInv
  BY InitInv
<1>2. TypeInv /\ TypeInv' /\ IInv /\ [Next]_vars => IInv'
  BY NextInv
<1> QED  BY <1>1, <1>2, TypesAlways, PTL DEF Spec

-----------------------------------------------------------------------------
(* An account in the cache of a login server is locked for that server.    *)
THEOREM SessionsHoldTheirRows == Spec => []SessionHoldsRow
<1>1. IInv => SessionHoldsRow
  BY DEF IInv, GameInv, SessionHoldsRow, Keeps
<1> QED  BY <1>1, InvAlways, PTL

(* A save reaches the database server while its sender holds the account:  *)
(* what PersistLayer assumes of its senders where LateSaves is FALSE.      *)
THEOREM SavesComeFromOwners == Spec => []SavesAreOwned
<1>1. IInv => SavesAreOwned
  BY DEF IInv, SaveInv, SavesAreOwned, Keeps
<1> QED  BY <1>1, InvAlways, PTL

(* So no account is in the game over two login servers.                    *)
THEOREM OneSession ==
  Spec => [](\A s, t \in Servers, a \in Accounts : InGame(s, a) /\ InGame(t, a) => s = t)
<1>1. SessionHoldsRow =>
        \A s, t \in Servers, a \in Accounts : InGame(s, a) /\ InGame(t, a) => s = t
  BY DEF SessionHoldsRow
<1> QED  BY <1>1, SessionsHoldTheirRows, PTL
=============================================================================
