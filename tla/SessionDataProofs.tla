------------------------- MODULE SessionDataProofs -------------------------
(***************************************************************************)
(* Where the newest content of a player is in LoginSession, for any        *)
(* accounts, servers, zone servers, clients and faults: a player begins at *)
(* a zone server with what it was when it left the last one.               *)
(*                                                                         *)
(* It is in the session, or in the logout on its way to the session; with  *)
(* no session it is in the save on its way to the database server, or was  *)
(* taken there (`NewestOf`).  What carries content into a session or to a  *)
(* zone server is read where it is newest: a select is only executed for   *)
(* an account that nobody plays and of which no save is on its way, and    *)
(* the data of a session is only sent when its logout is not on its way.   *)
(* A fault may drop the newest content, which is then noted in `lost`.     *)
(***************************************************************************)
EXTENDS SessionPlayProofs

-----------------------------------------------------------------------------
DbData(a) == IF Cached(a) THEN unit[a].data ELSE row[a].data

IsSave(s, i, a) == toDb[s][i].kind = "save" /\ toDb[s][i].account = a
SaveSent(a) == \E s \in Servers : \E i \in DOMAIN toDb[s] : IsSave(s, i, a)

(* The answer with the character, to a client that waits for it.           *)
IsCharacter(s, i, a) == /\ IsOpen(fromDb[s][i], "select")
                        /\ fromDb[s][i].result = "success"
                        /\ Account(fromDb[s][i].link) = a
IsData(z, i, a) == toZone[z][i].kind = "data" /\ toZone[z][i].account = a

(* Contents get no older on their way to the zone server.                  *)
Bounded(a) ==
  /\ row[a].data <= DbData(a) /\ DbData(a) <= clock[a]
  /\ \A s \in Servers : InGame(s, a) =>
       DbData(a) <= playerCache[s][a].data /\ playerCache[s][a].data <= clock[a]

(* Content on its way is the newest.                                       *)
LogoutsLast(a) ==
  \A z \in Zones : \A i \in DOMAIN toLogin[z] :
    IsLogout(z, i, a) => toLogin[z][i].data = clock[a]
SavesLast(a) ==
  \A s \in Servers : \A i \in DOMAIN toDb[s] : IsSave(s, i, a) => toDb[s][i].data = clock[a]
CharactersLast(a) ==
  \A s \in Servers : \A i \in DOMAIN fromDb[s] :
    IsCharacter(s, i, a) => fromDb[s][i].data = clock[a]
DataLast(a) ==
  \A z \in Zones : \A i \in DOMAIN toZone[z] :
    IsData(z, i, a) => toZone[z][i].data = clock[a]
MessagesLast(a) == LogoutsLast(a) /\ SavesLast(a) /\ CharactersLast(a) /\ DataLast(a)

(* And so is content that stays, unless newer content is on its way to it. *)
CacheLast(a) ==
  \A s \in Servers : InGame(s, a) =>
    \/ playerCache[s][a].data = clock[a]
    \/ \E z \in Zones : ServerOf[z] = s /\ LogoutAt(z, a)
StoredLast(a) ==
  (\A s \in Servers : ~InGame(s, a)) /\ ~SaveSent(a) => DbData(a) = clock[a]

NewestOf(a) == Bounded(a) /\ MessagesLast(a) /\ CacheLast(a) /\ StoredLast(a)
NewestInv == restarted = {} => \A a \in Accounts \ lost : NewestOf(a)

LEMMA InitNewest == Init => NewestInv
<1> SUFFICES ASSUME Init, NEW a \in Accounts
             PROVE  NewestOf(a)
  BY DEF NewestInv
<1>1. DbData(a) = 0 /\ row[a].data = 0 /\ clock[a] = 0 /\ \A s \in Servers : ~InGame(s, a)
  BY DEF Init, DbData, Cached, InGame
<1>2. Bounded(a) /\ CacheLast(a) /\ StoredLast(a)
  BY <1>1 DEF Bounded, CacheLast, StoredLast
<1>3. MessagesLast(a)
  BY DEF Init, MessagesLast, LogoutsLast, SavesLast, CharactersLast, DataLast
<1> QED  BY <1>2, <1>3 DEF NewestOf

LEMMA ContentTypes ==
  ASSUME TypeInv, NEW a \in Accounts
  PROVE  /\ DbData(a) \in Nat /\ row[a].data \in Nat /\ clock[a] \in Nat
         /\ \A s \in Servers : InGame(s, a) => playerCache[s][a].data \in Nat
<1>1. /\ row[a] \in Row /\ (Cached(a) => unit[a] \in Unit) /\ clock[a] \in Nat
      /\ \A s \in Servers : InGame(s, a) => playerCache[s][a] \in SPlayer
  BY DEF TypeInv, TypeOK, Cached, InGame
<1>2. row[a].data \in Nat /\ (Cached(a) => unit[a].data \in Nat)
  BY <1>1 DEF Row, Unit
<1>3. \A s \in Servers : InGame(s, a) => playerCache[s][a].data \in Nat
  BY <1>1 DEF SPlayer
<1> QED  BY <1>1, <1>2, <1>3 DEF DbData

-----------------------------------------------------------------------------
(* Who is in the game is so at one place, and nothing of its content is on *)
(* its way to or from the database server.                                 *)
LEMMA OnlyServer ==
  ASSUME IInv, NEW a \in Accounts, NEW s \in Servers, NEW t \in Servers,
         InGame(s, a), InGame(t, a)
  PROVE  s = t
BY DEF IInv, GameInv, Keeps

LEMMA NoSaveInGame ==
  ASSUME IInv, NEW a \in Accounts, NEW s \in Servers, InGame(s, a)
  PROVE  ~SaveSent(a)
<1> SUFFICES ASSUME NEW t \in Servers, NEW i \in DOMAIN toDb[t], IsSave(t, i, a)
             PROVE  FALSE
  BY DEF SaveSent
<1>1. Keeps(t, a) /\ Keeps(s, a) /\ NoneSent(s, a)
  BY DEF IInv, SaveInv, GameInv, Clean, IsSave
<1> QED  BY <1>1 DEF Keeps, NoneSent, Gives, IsSave

LEMMA NoCharacterInGame ==
  ASSUME TypeInv, IInv, NEW a \in Accounts, NEW s \in Servers, InGame(s, a),
         NEW t \in Servers, NEW i \in DOMAIN fromDb[t]
  PROVE  ~IsCharacter(t, i, a)
<1> SUFFICES ASSUME IsCharacter(t, i, a)
             PROVE  FALSE
  OBVIOUS
<1> DEFINE l == fromDb[t][i].link
<1>1. l \in Links /\ Server(l) = t /\ Account(l) = a
  BY AnswerIs DEF IsCharacter
<1>2. tempLinkContext[l] = "unbind" /\ Keeps(t, a)
  BY <1>1 DEF IInv, SelectInv, IsCharacter
<1>3. ~InGame(t, a)
  BY <1>1, <1>2, OneContext
<1> QED  BY <1>2, <1>3 DEF IInv, GameInv, Keeps

(* A session names one zone server; said of the next state.                *)
LEMMA OnePlace ==
  ASSUME IInv', NEW a \in Accounts, NEW y \in Zones, NEW z \in Zones,
         SessionAt(y, a)', SessionAt(z, a)'
  PROVE  y = z
<1>1. /\ ServerOf[y] \in Servers /\ ServerOf[z] \in Servers
      /\ InGame(ServerOf[y], a)' /\ InGame(ServerOf[z], a)'
  BY SessionAssumption DEF SessionAt
<1>2. ServerOf[y] = ServerOf[z]
  BY <1>1 DEF IInv, GameInv, Keeps
<1> QED  BY <1>2 DEF SessionAt

-----------------------------------------------------------------------------
(* What steps do to messages: the old ones stay as new as they are.        *)

(* Nothing happens to the content of the account.                          *)
SameContent(a) ==
  /\ clock'[a] = clock[a] /\ DbData(a)' = DbData(a) /\ row'[a].data <= DbData(a)
  /\ \A s \in Servers : playerCache'[s][a] = playerCache[s][a]

LogoutsStay(a) == \A z \in Zones : LogoutAt(z, a) => LogoutAt(z, a)'
SavesStay(a) == SaveSent(a) => SaveSent(a)'

LEMMA Quiet ==
  ASSUME NEW a \in Accounts, NewestOf(a), SameContent(a), MessagesLast(a)',
         LogoutsStay(a), SavesStay(a)
  PROVE  NewestOf(a)'
<1>1. \A s \in Servers : InGame(s, a)' <=> InGame(s, a)
  BY DEF SameContent, InGame
<1>2. Bounded(a)'
  BY <1>1 DEF NewestOf, Bounded, SameContent
<1>3. CacheLast(a)'
  BY <1>1 DEF NewestOf, CacheLast, SameContent, LogoutsStay
<1>4. StoredLast(a)'
  BY <1>1 DEF NewestOf, StoredLast, SameContent, SavesStay
<1> QED  BY <1>2, <1>3, <1>4 DEF NewestOf

(* Messages of a step are old, or carry nothing older.                     *)
OldLogouts(a) ==
  \A z \in Zones : \A i \in DOMAIN toLogin'[z] :
    \/ \E j \in DOMAIN toLogin[z] : toLogin'[z][i] = toLogin[z][j]
    \/ toLogin'[z][i].kind # "logout" \/ toLogin'[z][i].account # a
OldSaves(a) ==
  \A s \in Servers : \A i \in DOMAIN toDb'[s] :
    \/ \E j \in DOMAIN toDb[s] : toDb'[s][i] = toDb[s][j]
    \/ toDb'[s][i].kind # "save" \/ toDb'[s][i].account # a \/ toDb'[s][i].data = clock[a]
OldCharacters(a) ==
  \A s \in Servers : \A i \in DOMAIN fromDb'[s] :
    \/ \E j \in DOMAIN fromDb[s] : fromDb'[s][i] = fromDb[s][j]
    \/ fromDb'[s][i].kind # "select" \/ fromDb'[s][i].result # "success"
    \/ phase'[fromDb'[s][i].link] # "open" \/ login'[fromDb'[s][i].link].account # a
    \/ fromDb'[s][i].data = clock[a]
OldData(a) ==
  \A z \in Zones : \A i \in DOMAIN toZone'[z] :
    \/ \E j \in DOMAIN toZone[z] : toZone'[z][i] = toZone[z][j]
    \/ toZone'[z][i].kind # "data" \/ toZone'[z][i].account # a
    \/ toZone'[z][i].data = clock[a]

(* A client that waits has waited since before the step.                   *)
LinksGoOn ==
  \A l \in Links : login[l] # NoLogin =>
    login'[l] = login[l] /\ (phase'[l] = "open" => phase[l] = "open")

LEMMA CharactersKept ==
  ASSUME TypeInv, IInv, NEW a \in Accounts, CharactersLast(a), clock'[a] = clock[a],
         LinksGoOn, OldCharacters(a)
  PROVE  CharactersLast(a)'
<1> SUFFICES ASSUME NEW s \in Servers, NEW i \in DOMAIN fromDb'[s], IsCharacter(s, i, a)'
             PROVE  fromDb'[s][i].data = clock[a]
  BY DEF CharactersLast
<1>1. /\ fromDb'[s][i].kind = "select" /\ phase'[fromDb'[s][i].link] = "open"
      /\ fromDb'[s][i].result = "success" /\ login'[fromDb'[s][i].link].account = a
  BY DEF IsCharacter, IsOpen, Account
<1>2. ASSUME NEW j \in DOMAIN fromDb[s], fromDb'[s][i] = fromDb[s][j]
      PROVE  fromDb'[s][i].data = clock[a]
  <2>1. fromDb[s][j].link \in Links /\ login[fromDb[s][j].link] # NoLogin
    BY AnswerIs
  <2>2. IsCharacter(s, j, a)
    BY <1>1, <1>2, <2>1 DEF LinksGoOn, IsCharacter, IsOpen, Account
  <2> QED  BY <1>2, <2>2 DEF CharactersLast
<1> QED  BY <1>1, <1>2 DEF OldCharacters

LEMMA MessagesKept ==
  ASSUME TypeInv, IInv, NEW a \in Accounts, MessagesLast(a), clock'[a] = clock[a],
         LinksGoOn, OldLogouts(a), OldSaves(a), OldCharacters(a), OldData(a)
  PROVE  MessagesLast(a)'
<1>1. LogoutsLast(a)'
  BY DEF MessagesLast, LogoutsLast, IsLogout, OldLogouts
<1>2. SavesLast(a)'
  BY DEF MessagesLast, SavesLast, IsSave, OldSaves
<1>3. DataLast(a)'
  BY DEF MessagesLast, DataLast, IsData, OldData
<1>4. CharactersLast(a)'
  BY CharactersKept DEF MessagesLast
<1> QED  BY <1>1, <1>2, <1>3, <1>4 DEF MessagesLast

LEMMA LinksNext ==
  ASSUME TypeInv, Next
  PROVE  LinksGoOn
<1>1. /\ phase \in [Links -> {"new", "open", "cut", "closed"}]
      /\ login \in [Links -> Login \cup {NoLogin}]
  BY DEF TypeInv, TypeOK
<1>2. CASE UNCHANGED <<phase, login>>
  BY <1>2 DEF LinksGoOn
<1>3. ASSUME NEW l \in Links, NEW s \in Servers, NEW a \in Accounts, PlayerLogin(l, s, a)
      PROVE  LinksGoOn
  <2>1. login[l] = NoLogin
    BY <1>3 DEF PlayerLogin, TypeInv, LinksInv
  <2>2. \A k \in Links \ {l} : login'[k] = login[k] /\ phase'[k] = phase[k]
    BY <1>1, <1>3 DEF PlayerLogin
  <2> QED  BY <2>1, <2>2 DEF LinksGoOn
<1>4. ASSUME NEW l \in Links, Break(l) \/ Closed(l)
      PROVE  LinksGoOn
  BY <1>1, <1>4 DEF Break, Closed, LinksGoOn
<1>5. ASSUME NEW s \in Servers, RecvGetCharacterList(s) \/ RecvGetCharacter(s)
      PROVE  LinksGoOn
  BY <1>1, <1>5 DEF RecvGetCharacterList, RecvGetCharacter, LinksGoOn
<1>6. ASSUME NEW s \in Servers, CrashLogin(s) \/ Destroy(s)
      PROVE  LinksGoOn
  <2>1. PICK q : StartAgain(s, q)
    BY <1>6 DEF CrashLogin, Destroy
  <2> QED  BY <1>1, <2>1 DEF StartAgain, LinksGoOn
<1>7. ASSUME NEW l \in Links, Reselect(l) \/ QuestCheckRebind(l) \/ Leave(l)
      PROVE  UNCHANGED <<phase, login>>
  BY <1>7 DEF Reselect, QuestCheckRebind, Leave, clientVars
<1>8. ASSUME NEW s \in Servers, DbReceive(s) \/ ReconnectDb(s) \/ BreakDb(s)
      PROVE  UNCHANGED <<phase, login>>
  BY <1>8 DEF DbReceive, ReconnectDb, BreakDb, clientVars
<1>9. ASSUME NEW a \in Accounts, DbExecute(a) \/ DbRemove(a)
      PROVE  UNCHANGED <<phase, login>>
  BY <1>9 DEF DbExecute, DbRemove, clientVars
<1>10. ASSUME NEW z \in Zones,
              \/ DoCheckRebind(z) \/ SendPlayerData(z) \/ UpdatePlayerData(z)
              \/ RecvCheckRebind(z) \/ SetPlayerData(z) \/ BreakZone(z) \/ CrashZone(z)
              \/ \E a \in Accounts : Logout(z, a)
       PROVE  UNCHANGED <<phase, login>>
  BY <1>10 DEF DoCheckRebind, SendPlayerData, UpdatePlayerData, RecvCheckRebind,
               SetPlayerData, BreakZone, CrashZone, Logout, clientVars
<1>11. CrashDb => UNCHANGED <<phase, login>>
  BY DEF CrashDb, clientVars
<1> QED  BY <1>2, <1>3, <1>4, <1>5, <1>6, <1>7, <1>8, <1>9, <1>10, <1>11 DEF Next, Faults

(* What is taken from the front, or added to the end.                      *)
LEMMA TailKeeps ==
  ASSUME NEW S, NEW q \in Seq(S), q # <<>>
  PROVE  \A j \in DOMAIN q : q[j] = Head(q) \/ \E i \in DOMAIN Tail(q) : Tail(q)[i] = q[j]
<1> SUFFICES ASSUME NEW j \in DOMAIN q, j # 1
             PROVE  \E i \in DOMAIN Tail(q) : Tail(q)[i] = q[j]
  BY TailIs
<1>1. j - 1 \in DOMAIN Tail(q) /\ Tail(q)[j - 1] = q[j]
  BY TailIs
<1> QED  BY <1>1

LEMMA AppendKeeps ==
  ASSUME NEW S, NEW q \in Seq(S), NEW e \in S, NEW r, r = Append(q, e)
  PROVE  /\ \A j \in DOMAIN q : \E i \in DOMAIN r : r[i] = q[j]
         /\ \E i \in DOMAIN r : r[i] = e
<1>1. \A j \in DOMAIN q : j \in DOMAIN r /\ r[j] = q[j]
  BY AppendIs
<1>2. Len(q) + 1 \in DOMAIN r /\ r[Len(q) + 1] = e
  BY AppendIs
<1> QED  BY <1>1, <1>2

(* A login server sends to the database server, or cannot.                 *)
LEMMA SentKeeps ==
  ASSUME TypeInv, NEW t \in Servers, NEW m \in Query \cup Save, toDb' = SentToDb(t, m)
  PROVE  /\ \A s \in Servers : \A i \in DOMAIN toDb'[s] :
              toDb'[s][i] = m \/ \E j \in DOMAIN toDb[s] : toDb'[s][i] = toDb[s][j]
         /\ \A s \in Servers : \A j \in DOMAIN toDb[s] :
              \E i \in DOMAIN toDb'[s] : toDb'[s][i] = toDb[s][j]
         /\ dbUp[t] => \E i \in DOMAIN toDb'[t] : toDb'[t][i] = m
<1>1. toDb \in [Servers -> Seq(Query \cup Save)] /\ toDb[t] \in Seq(Query \cup Save)
  BY DEF TypeInv, TypeOK
<1>2. CASE ~dbUp[t]
  BY <1>2 DEF SentToDb
<1>3. CASE dbUp[t]
  <2>1. /\ toDb'[t] = Append(toDb[t], m)
        /\ \A s \in Servers : s # t => toDb'[s] = toDb[s]
    BY <1>1, <1>3 DEF SentToDb
  <2>2. \A i \in DOMAIN toDb'[t] :
          toDb'[t][i] = m \/ \E j \in DOMAIN toDb[t] : toDb'[t][i] = toDb[t][j]
    BY <1>1, <2>1, AfterAppend
  <2>3. \A j \in DOMAIN toDb[t] : \E i \in DOMAIN toDb'[t] : toDb'[t][i] = toDb[t][j]
    BY <1>1, <2>1, AppendKeeps
  <2>4. \E i \in DOMAIN toDb'[t] : toDb'[t][i] = m
    BY <1>1, <2>1, AppendKeeps
  <2>5. \A s \in Servers : \A i \in DOMAIN toDb'[s] :
          toDb'[s][i] = m \/ \E j \in DOMAIN toDb[s] : toDb'[s][i] = toDb[s][j]
    BY <2>1, <2>2
  <2>6. \A s \in Servers : \A j \in DOMAIN toDb[s] :
          \E i \in DOMAIN toDb'[s] : toDb'[s][i] = toDb[s][j]
    BY <2>1, <2>3
  <2> QED  BY <2>4, <2>5, <2>6
<1> QED  BY <1>2, <1>3

LEMMA SentSaves ==
  ASSUME TypeInv, NEW a \in Accounts, NEW t \in Servers, NEW m \in Query \cup Save,
         toDb' = SentToDb(t, m), m.kind # "save" \/ m.account # a \/ m.data = clock[a]
  PROVE  OldSaves(a) /\ SavesStay(a)
<1>1. OldSaves(a)
  BY SentKeeps DEF OldSaves
<1>2. SavesStay(a)
  BY SentKeeps DEF SavesStay, SaveSent, IsSave
<1> QED  BY <1>1, <1>2

(* One message of a zone server is taken, or one is added.                 *)
LEMMA TailLogouts ==
  ASSUME TypeInv, NEW a \in Accounts, NEW z \in Zones, toLogin[z] # <<>>,
         toLogin'[z] = Tail(toLogin[z]),
         Head(toLogin[z]).kind # "logout" \/ Head(toLogin[z]).account # a
  PROVE  LogoutAt(z, a) => LogoutAt(z, a)'
<1>1. toLogin[z] \in Seq(ToLogin)
  BY DEF TypeInv, TypeOK
<1>2. \A j \in DOMAIN toLogin[z] : toLogin[z][j] = Head(toLogin[z]) \/
        \E i \in DOMAIN toLogin'[z] : toLogin'[z][i] = toLogin[z][j]
  BY <1>1, TailKeeps
<1> QED  BY <1>2 DEF LogoutAt, IsLogout

LEMMA AppendLogouts ==
  ASSUME TypeInv, NEW a \in Accounts, NEW z \in Zones, NEW m \in ToLogin,
         toLogin'[z] = Append(toLogin[z], m)
  PROVE  LogoutAt(z, a) \/ (m.kind = "logout" /\ m.account = a) => LogoutAt(z, a)'
<1>1. toLogin[z] \in Seq(ToLogin)
  BY DEF TypeInv, TypeOK
<1>2. \A j \in DOMAIN toLogin[z] : \E i \in DOMAIN toLogin'[z] :
        toLogin'[z][i] = toLogin[z][j]
  BY <1>1, AppendKeeps
<1>3. \E i \in DOMAIN toLogin'[z] : toLogin'[z][i] = m
  BY <1>1, AppendKeeps
<1> QED  BY <1>2, <1>3 DEF LogoutAt, IsLogout

-----------------------------------------------------------------------------
(* Steps that leave the content of the account alone.                      *)
LEMMA Quieter ==
  ASSUME TypeInv, IInv, LinksGoOn, NEW a \in Accounts, NewestOf(a), SameContent(a),
         OldLogouts(a), OldSaves(a), OldCharacters(a), OldData(a),
         LogoutsStay(a), SavesStay(a)
  PROVE  NewestOf(a)'
<1>1. MessagesLast(a)'
  BY MessagesKept DEF NewestOf, SameContent
<1> QED  BY <1>1, Quiet

LEMMA RowKept ==
  ASSUME NEW a \in Accounts, NewestOf(a), UNCHANGED <<row, unit>>
  PROVE  DbData(a)' = DbData(a) /\ row'[a].data <= DbData(a)
<1>1. DbData(a)' = DbData(a)
  BY DEF DbData, Cached
<1> QED  BY <1>1 DEF NewestOf, Bounded

LEMMA ZonesQuiet ==
  ASSUME NEW a \in Accounts, UNCHANGED <<toLogin, toZone>>
  PROVE  OldLogouts(a) /\ OldData(a) /\ LogoutsStay(a)
BY DEF OldLogouts, OldData, LogoutsStay, LogoutAt, IsLogout

LEMMA SavesQuiet ==
  ASSUME NEW a \in Accounts, UNCHANGED toDb
  PROVE  OldSaves(a) /\ SavesStay(a)
BY DEF OldSaves, SavesStay, SaveSent, IsSave

LEMMA CharactersQuiet ==
  ASSUME NEW a \in Accounts, UNCHANGED fromDb
  PROVE  OldCharacters(a)
BY DEF OldCharacters

(* A step of a login server that sends no save of the account.             *)
LEMMA LoginSideNewest ==
  ASSUME TypeInv, IInv, LinksGoOn, NEW a \in Accounts, NewestOf(a),
         OldSaves(a), SavesStay(a),
         \A t \in Servers : \A i \in DOMAIN fromDb'[t] :
           \E j \in DOMAIN fromDb[t] : fromDb'[t][i] = fromDb[t][j],
         UNCHANGED <<playerCache, row, unit, toLogin, toZone, clock>>
  PROVE  NewestOf(a)'
<1>1. OldLogouts(a) /\ OldData(a) /\ LogoutsStay(a)
  BY ZonesQuiet
<1>2. SameContent(a)
  BY RowKept DEF SameContent
<1>3. OldCharacters(a)
  BY DEF OldCharacters
<1> QED  BY <1>1, <1>2, <1>3, Quieter

(* An answer is taken.                                                     *)
LEMMA AnswerTaken ==
  ASSUME TypeInv, NEW s \in Servers, fromDb[s] # <<>>,
         fromDb' = [fromDb EXCEPT ![s] = Tail(@)]
  PROVE  \A t \in Servers : \A i \in DOMAIN fromDb'[t] :
           \E j \in DOMAIN fromDb[t] : fromDb'[t][i] = fromDb[t][j]
<1>1. fromDb \in [Servers -> Seq(Answer)] /\ fromDb[s] \in Seq(Answer)
  BY DEF TypeInv, TypeOK
<1>2. fromDb'[s] = Tail(fromDb[s]) /\ \A t \in Servers : t # s => fromDb'[t] = fromDb[t]
  BY <1>1
<1>3. \A i \in DOMAIN fromDb'[s] : \E j \in DOMAIN fromDb[s] : fromDb'[s][i] = fromDb[s][j]
  BY <1>1, <1>2, AfterTail
<1> QED  BY <1>2, <1>3

LEMMA RequestSaves ==
  ASSUME TypeInv, NEW a \in Accounts, NEW s \in Servers, NEW b \in Accounts, NEW l \in Links,
         \/ UNCHANGED toDb
         \/ \E k \in {"list", "select"} :
              toDb' = SentToDb(s, [kind |-> k, account |-> b, serverId |-> s, link |-> l])
         \/ toDb' = SentToDb(s, [kind |-> "unlock", account |-> b, serverId |-> s])
  PROVE  OldSaves(a) /\ SavesStay(a)
<1>1. CASE UNCHANGED toDb
  BY <1>1, SavesQuiet
<1>2. ASSUME NEW m \in Query, toDb' = SentToDb(s, m)
      PROVE  OldSaves(a) /\ SavesStay(a)
  <2>1. m.kind # "save" /\ m \in Query \cup Save
    BY QueryFields
  <2> QED  BY <1>2, <2>1, SentSaves
<1>3. /\ \A k \in {"list", "select"} :
           [kind |-> k, account |-> b, serverId |-> s, link |-> l] \in Query
      /\ [kind |-> "unlock", account |-> b, serverId |-> s] \in Query
  BY DEF Query
<1> QED  BY <1>1, <1>2, <1>3

LEMMA LoginNewest ==
  ASSUME TypeInv, IInv, LinksGoOn, NEW a \in Accounts, NewestOf(a),
         \/ \E l \in Links : \/ \E s \in Servers, b \in Accounts : PlayerLogin(l, s, b)
                             \/ Break(l) \/ Closed(l) \/ Reselect(l) \/ Leave(l)
         \/ \E s \in Servers : RecvGetCharacterList(s) \/ ReconnectDb(s)
  PROVE  NewestOf(a)'
<1>1. ASSUME NEW l \in Links, NEW s \in Servers, NEW b \in Accounts, PlayerLogin(l, s, b)
      PROVE  NewestOf(a)'
  <2>1. /\ UNCHANGED <<playerCache, row, unit, toLogin, toZone, clock, fromDb>>
        /\ toDb' \in {toDb, SentToDb(s, [kind |-> "list", account |-> b, serverId |-> s,
                                         link |-> l])}
    BY <1>1 DEF PlayerLogin, dbVars, ghostVars
  <2>2. OldSaves(a) /\ SavesStay(a)
    BY <2>1, RequestSaves
  <2> QED  BY <2>1, <2>2, LoginSideNewest
<1>2. ASSUME NEW l \in Links, Break(l) \/ Leave(l)
      PROVE  NewestOf(a)'
  <2>1. UNCHANGED <<playerCache, row, unit, toLogin, toZone, clock, fromDb, toDb>>
    BY <1>2 DEF Break, Leave, dbVars, ghostVars, zoneVars
  <2>2. OldSaves(a) /\ SavesStay(a)
    BY <2>1, SavesQuiet
  <2> QED  BY <2>1, <2>2, LoginSideNewest
<1>3. ASSUME NEW l \in Links, Closed(l) \/ Reselect(l)
      PROVE  NewestOf(a)'
  <2>1. /\ UNCHANGED <<playerCache, row, unit, toLogin, toZone, clock, fromDb>>
        /\ toDb' \in {toDb, Unlock(l), SelectCharacter(l)}
    BY <1>3 DEF Closed, Reselect, dbVars, ghostVars, zoneVars
  <2>2. toDb' # toDb => Server(l) \in Servers /\ Account(l) \in Accounts
    BY <1>3, HasLogin DEF Closed, Unlocks, Reselect
  <2>3. OldSaves(a) /\ SavesStay(a)
    BY <2>1, <2>2, SavesQuiet, RequestSaves DEF Unlock, SelectCharacter
  <2> QED  BY <2>1, <2>3, LoginSideNewest
<1>4. ASSUME NEW s \in Servers, RecvGetCharacterList(s)
      PROVE  NewestOf(a)'
  <2> DEFINE l == Head(fromDb[s]).link
  <2>1. /\ UNCHANGED <<playerCache, row, unit, toLogin, toZone, clock>>
        /\ toDb' # toDb => phase[l] = "open"
        /\ toDb' \in {toDb, Unlock(l), SelectCharacter(l)}
        /\ fromDb[s] # <<>> /\ fromDb' = [fromDb EXCEPT ![s] = Tail(@)]
    BY <1>4 DEF RecvGetCharacterList, dbVars, ghostVars, zoneVars
  <2>2. fromDb[s] \in Seq(Answer)
    BY DEF TypeInv, TypeOK
  <2>3. Head(fromDb[s]) \in Answer
    BY <2>1, <2>2, TailIs
  <2>4. l \in Links
    BY <2>3 DEF Answer
  <2>5. toDb' # toDb => Server(l) \in Servers /\ Account(l) \in Accounts
    BY <2>1, <2>4, HasLogin
  <2> HIDE DEF l
  <2>6. OldSaves(a) /\ SavesStay(a)
    BY <2>1, <2>4, <2>5, SavesQuiet, RequestSaves DEF Unlock, SelectCharacter
  <2>7. \A t \in Servers : \A i \in DOMAIN fromDb'[t] :
          \E j \in DOMAIN fromDb[t] : fromDb'[t][i] = fromDb[t][j]
    BY <2>1, AnswerTaken
  <2> QED  BY <2>1, <2>6, <2>7, LoginSideNewest
<1>5. ASSUME NEW s \in Servers, ReconnectDb(s)
      PROVE  NewestOf(a)'
  <2>1. UNCHANGED <<playerCache, row, unit, toLogin, toZone, clock, fromDb, toDb>>
    BY <1>5 DEF ReconnectDb, dbVars, ghostVars, zoneVars
  <2>2. OldSaves(a) /\ SavesStay(a)
    BY <2>1, SavesQuiet
  <2> QED  BY <2>1, <2>2, LoginSideNewest
<1> QED  BY <1>1, <1>2, <1>3, <1>4, <1>5

(* The character comes with the newest content.                            *)
LEMMA CharacterNewest ==
  ASSUME TypeInv, TypeInv', IInv, LinksGoOn, NEW a \in Accounts, NewestOf(a),
         NEW s \in Servers, RecvGetCharacter(s)
  PROVE  NewestOf(a)'
<1>1. /\ UNCHANGED <<login, toDb, dbUp, dbVars, toLogin, toZone, object, ghostVars>>
      /\ fromDb[s] # <<>> /\ fromDb' = [fromDb EXCEPT ![s] = Tail(@)]
      /\ \/ UNCHANGED playerCache
         \/ \E l \in Links, b \in Accounts, z \in Zones : Assigned(s, l, b, z)
  BY CharacterDoes DEF IInv
<1>2. UNCHANGED <<row, unit, clock, toDb, toLogin, toZone>>
  BY <1>1 DEF dbVars, ghostVars
<1>3. \A t \in Servers : \A i \in DOMAIN fromDb'[t] :
        \E j \in DOMAIN fromDb[t] : fromDb'[t][i] = fromDb[t][j]
  BY <1>1, AnswerTaken
<1>4. OldSaves(a) /\ SavesStay(a)
  BY <1>2, SavesQuiet
<1>5. CASE UNCHANGED playerCache
  BY <1>2, <1>3, <1>4, <1>5, LoginSideNewest
<1>6. ASSUME NEW l \in Links, NEW b \in Accounts, NEW z \in Zones, Assigned(s, l, b, z)
      PROVE  NewestOf(a)'
  <2>1. OldLogouts(a) /\ OldData(a) /\ LogoutsStay(a)
    BY <1>2, ZonesQuiet
  <2>2. OldCharacters(a)
    BY <1>3 DEF OldCharacters
  <2>3. DbData(a)' = DbData(a) /\ row'[a].data <= DbData(a)
    BY <1>2, RowKept
  <2>4. CASE a # b
    <3>1. \A t \in Servers : playerCache'[t][a] = playerCache[t][a]
      BY <1>6, <2>4 DEF Assigned
    <3>2. SameContent(a)
      BY <1>2, <2>3, <3>1 DEF SameContent
    <3> QED  BY <1>4, <2>1, <2>2, <3>2, Quieter
  <2>5. CASE a = b
    <3>1. fromDb[s] \in Seq(Answer) /\ fromDb[s] # <<>>
      BY <1>1 DEF TypeInv, TypeOK
    <3>2. 1 \in DOMAIN fromDb[s] /\ fromDb[s][1] = Head(fromDb[s])
      BY <3>1, TailIs
    <3>3. IsCharacter(s, 1, a)
      BY <1>6, <2>5, <3>2 DEF Assigned, IsCharacter
    <3>4. Head(fromDb[s]).data = clock[a]
      BY <3>2, <3>3 DEF NewestOf, MessagesLast, CharactersLast
    <3>5. /\ playerCache'[s][a].data = clock[a] /\ InGame(s, a)'
          /\ \A t \in Servers : t # s => playerCache'[t][a] = playerCache[t][a]
      <4>1. /\ playerCache'[s][a].data = clock[a] /\ playerCache'[s][a].key = z
            /\ playerCache'[s][a].gid = nextGid[s]
            /\ playerCache'[s][a] = [gid |-> nextGid[s], data |-> clock[a], key |-> z]
        BY <1>6, <2>5, <3>4 DEF Assigned
      <4>2. playerCache'[s][a] \in SPlayer
        BY <4>1 DEF SPlayer, TypeInv, TypeOK
      <4>3. InGame(s, a)'
        BY <4>2, NullAssumption DEF InGame
      <4> QED  BY <1>6, <2>5, <4>1, <4>3 DEF Assigned
    <3>6. clock[a] \in Nat /\ DbData(a) <= clock[a]
      BY ContentTypes DEF NewestOf, Bounded
    <3>7. \A t \in Servers : t # s => (InGame(t, a)' <=> InGame(t, a))
      BY <3>5 DEF InGame
    <3>8. Bounded(a)'
      BY <1>2, <2>3, <3>5, <3>6, <3>7 DEF NewestOf, Bounded
    <3>9. CacheLast(a)'
      BY <1>2, <2>1, <3>5, <3>7 DEF NewestOf, CacheLast, LogoutsStay
    <3>10. StoredLast(a)'
      BY <3>5 DEF StoredLast
    <3>11. MessagesLast(a)'
      BY <1>2, <1>4, <2>1, <2>2, MessagesKept DEF NewestOf
    <3> QED  BY <3>8, <3>9, <3>10, <3>11 DEF NewestOf
  <2> QED  BY <2>4, <2>5
<1> QED  BY <1>1, <1>5, <1>6

-----------------------------------------------------------------------------
(* The database server.                                                    *)
LEMMA ReceiveNewest ==
  ASSUME TypeInv, IInv, LinksGoOn, NEW a \in Accounts, NewestOf(a),
         NEW s \in Servers, DbReceive(s)
  PROVE  NewestOf(a)'
<1> DEFINE m == Head(toDb[s])
<1>1. /\ toDb[s] # <<>> /\ toDb' = [toDb EXCEPT ![s] = Tail(@)]
      /\ m.kind # "save" => UNCHANGED unit
      /\ m.kind = "save" => unit' = SaveIntoCache(m)
      /\ UNCHANGED <<playerCache, fromDb, row, toLogin, toZone, clock>>
  BY DEF DbReceive, zoneVars, ghostVars
<1>2. /\ toDb \in [Servers -> Seq(Query \cup Save)] /\ toDb[s] \in Seq(Query \cup Save)
      /\ unit \in [Accounts -> Unit \cup {NoUnit}]
  BY DEF TypeInv, TypeOK
<1>3. m \in Query \cup Save /\ 1 \in DOMAIN toDb[s] /\ toDb[s][1] = m
  BY <1>1, <1>2, TailIs
<1>4. m.account \in Accounts
  BY <1>3, RequestFields
<1>5. toDb'[s] = Tail(toDb[s]) /\ \A t \in Servers : t # s => toDb'[t] = toDb[t]
  BY <1>1, <1>2
<1>6. OldSaves(a)
  <2>1. \A i \in DOMAIN toDb'[s] : \E j \in DOMAIN toDb[s] : toDb'[s][i] = toDb[s][j]
    BY <1>1, <1>2, <1>5, AfterTail
  <2>2. \A t \in Servers : \A i \in DOMAIN toDb'[t] :
          \E j \in DOMAIN toDb[t] : toDb'[t][i] = toDb[t][j]
    BY <1>5, <2>1
  <2> QED  BY <2>2 DEF OldSaves
<1>7. OldLogouts(a) /\ OldData(a) /\ LogoutsStay(a) /\ OldCharacters(a)
  BY <1>1, ZonesQuiet, CharactersQuiet
<1>8. MessagesLast(a)'
  BY <1>1, <1>6, <1>7, MessagesKept DEF NewestOf
<1> HIDE DEF m
<1>9. CASE m.kind # "save" \/ m.account # a
  <2>1. unit'[a] = unit[a]
    BY <1>1, <1>2, <1>4, <1>9 DEF SaveIntoCache
  <2>2. DbData(a)' = DbData(a) /\ row'[a].data <= DbData(a)
    BY <1>1, <2>1 DEF DbData, Cached, NewestOf, Bounded
  <2>3. SameContent(a)
    BY <1>1, <2>2 DEF SameContent
  <2>4. \A j \in DOMAIN toDb[s] :
          toDb[s][j] = m \/ \E i \in DOMAIN toDb'[s] : toDb'[s][i] = toDb[s][j]
    BY <1>1, <1>2, <1>5, TailKeeps DEF m
  <2>5. SavesStay(a)
    BY <1>5, <1>9, <2>4 DEF SavesStay, SaveSent, IsSave
  <2> QED  BY <1>7, <1>8, <2>3, <2>5, Quiet
<1>10. CASE m.kind = "save" /\ m.account = a
  <2>1. IsSave(s, 1, a) /\ m.data = clock[a]
    BY <1>3, <1>10 DEF IsSave, NewestOf, MessagesLast, SavesLast
  <2>2. unit'[a].data = m.data /\ Cached(a)'
    <3>1. unit'[a] = [serverId |-> IF Cached(a) THEN unit[a].serverId ELSE m.serverId,
                      data |-> m.data, removeMe |-> TRUE]
      BY <1>1, <1>2, <1>10 DEF SaveIntoCache
    <3>2. m.serverId \in Servers /\ m.data \in Nat /\ (Cached(a) => unit[a].serverId \in Servers)
      BY <1>2, <1>3, <1>10, RequestFields DEF Cached, Unit
    <3>3. unit'[a] \in Unit
      BY <3>1, <3>2 DEF Unit
    <3>4. unit'[a] # NoUnit
      BY <3>3, NullAssumption
    <3>5. unit'[a].data = m.data
      BY <3>1
    <3> QED  BY <3>4, <3>5 DEF Cached
  <2>3. DbData(a)' = clock[a]
    BY <2>1, <2>2 DEF DbData
  <2>4. \A t \in Servers : ~InGame(t, a)
    BY <1>3, <2>1, NoSaveInGame DEF SaveSent
  <2>5. \A t \in Servers : ~InGame(t, a)'
    BY <1>1, <2>4 DEF InGame
  <2>6. row[a].data <= clock[a] /\ clock[a] <= clock[a]
    BY ContentTypes DEF NewestOf, Bounded
  <2>7. Bounded(a)'
    BY <1>1, <2>3, <2>5, <2>6 DEF Bounded
  <2>8. CacheLast(a)' /\ StoredLast(a)'
    BY <1>1, <2>3, <2>5 DEF CacheLast, StoredLast
  <2> QED  BY <1>8, <2>7, <2>8 DEF NewestOf
<1> QED  BY <1>9, <1>10

LEMMA RemoveNewest ==
  ASSUME TypeInv, IInv, LinksGoOn, NEW a \in Accounts, NewestOf(a),
         NEW b \in Accounts, DbRemove(b)
  PROVE  NewestOf(a)'
<1>1. /\ Cached(b)
      /\ row' = [row EXCEPT ![b] = [serverId |-> NoServer, data |-> unit[b].data]]
      /\ unit' = [unit EXCEPT ![b] = NoUnit]
      /\ UNCHANGED <<playerCache, toDb, fromDb, toLogin, toZone, clock>>
  BY DEF DbRemove, zoneVars, ghostVars
<1>2. row \in [Accounts -> Row] /\ unit \in [Accounts -> Unit \cup {NoUnit}]
  BY DEF TypeInv, TypeOK
<1>3. DbData(a)' = DbData(a) /\ row'[a].data <= DbData(a)
  <2>1. CASE a = b
    <3>1. ~Cached(a)' /\ row'[a].data = unit[a].data
      BY <1>1, <1>2, <2>1 DEF Cached
    <3>2. DbData(a) = unit[a].data /\ DbData(a) \in Nat
      BY <1>1, <2>1, ContentTypes DEF DbData
    <3>3. DbData(a)' = row'[a].data
      BY <3>1 DEF DbData
    <3> QED  BY <3>1, <3>2, <3>3
  <2>2. CASE a # b
    <3>1. row'[a] = row[a] /\ unit'[a] = unit[a]
      BY <1>1, <1>2, <2>2
    <3> QED  BY <3>1 DEF DbData, Cached, NewestOf, Bounded
  <2> QED  BY <2>1, <2>2
<1>4. SameContent(a)
  BY <1>1, <1>3 DEF SameContent
<1> QED  BY <1>1, <1>4, ZonesQuiet, SavesQuiet, CharactersQuiet, Quieter

(* A select is executed when nobody plays the account, and all its saves   *)
(* were taken.                                                             *)
LEMMA SelectNewest ==
  ASSUME TypeInv, IInv, NEW a \in Accounts, NewestOf(a),
         NEW q, q = waiting[a], q # NoQuery, q.kind = "select", phase[q.link] = "open",
         Lockable(a, q.serverId)
  PROVE  DbData(a) = clock[a]
<1> DEFINE l == q.link
           s == q.serverId
<1>1. /\ s \in Servers /\ l \in Links /\ Server(l) = s /\ Account(l) = a
  <2>1. /\ q.serverId \in Servers /\ q.link \in Links
        /\ login[q.link] = [server |-> q.serverId, account |-> a]
    BY WaitingIs
  <2> QED  BY <2>1 DEF Server, Account
<1>2. tempLinkContext[l] = "unbind"
  BY DEF IInv, SelectInv, IsOpen
<1>3. Clean(s, a) /\ ~InGame(s, a)
  BY <1>1, <1>2, OneContext DEF IInv, SelectInv
<1> HIDE DEF l, s
<1>4. ASSUME NEW t \in Servers, Keeps(t, a)
      PROVE  t = s
  BY <1>4, SessionAssumption DEF Keeps, Lockable, s
<1>5. \A t \in Servers : ~InGame(t, a)
  BY <1>1, <1>3, <1>4 DEF IInv, GameInv
<1>6. ASSUME NEW t \in Servers, NEW i \in DOMAIN toDb[t], IsSave(t, i, a)
      PROVE  FALSE
  <2>1. Keeps(t, a)
    BY <1>6 DEF IInv, SaveInv, IsSave
  <2> QED  BY <1>3, <1>4, <1>6, <2>1 DEF Clean, NoneSent, Gives, IsSave
<1>7. ~SaveSent(a)
  BY <1>6 DEF SaveSent
<1> QED  BY <1>5, <1>7 DEF NewestOf, StoredLast

LEMMA ExecuteNewest ==
  ASSUME TypeInv, IInv, LinksGoOn, NEW a \in Accounts, NewestOf(a),
         NEW b \in Accounts, DbExecute(b)
  PROVE  NewestOf(a)'
<1>1. PICK q \in Query : q = waiting[b] /\ q # NoQuery /\ q.account = b /\ q.serverId \in Servers
  BY WaitingIs DEF DbExecute
<1>2. /\ UNCHANGED <<phase, login, playerCache, toDb, toLogin, toZone, clock>>
      /\ DbUnlock(q) \/ DbList(q) \/ DbSelect(q)
  BY <1>1 DEF DbExecute, clientVars, zoneVars, ghostVars
<1>3. row \in [Accounts -> Row] /\ unit \in [Accounts -> Unit \cup {NoUnit}]
  BY DEF TypeInv, TypeOK
<1>4. DbData(a) \in Nat /\ row[a].data \in Nat /\ row[a].data <= DbData(a)
  BY ContentTypes DEF NewestOf, Bounded
<1>5. ASSUME DbData(a)' = DbData(a), row'[a].data <= DbData(a), OldCharacters(a)
      PROVE  NewestOf(a)'
  <2>1. SameContent(a)
    BY <1>2, <1>5 DEF SameContent
  <2> QED  BY <1>2, <1>5, <2>1, ZonesQuiet, SavesQuiet, Quieter
<1>6. CASE DbUnlock(q)
  <2>1. UNCHANGED <<row, fromDb>> /\ (Cached(a)' <=> Cached(a))
    <3>1. /\ UNCHANGED <<row, fromDb>>
          /\ unit' = IF Cached(b) /\ OfItsServer(q)
                     THEN [unit EXCEPT ![b].removeMe = TRUE] ELSE unit
      BY <1>1, <1>6 DEF DbUnlock
    <3>2. a # b => unit'[a] = unit[a]
      BY <1>3, <3>1
    <3>3. a = b /\ Cached(a) => unit'[a] \in Unit
      BY <1>3, <3>1 DEF Cached, Unit
    <3>4. a = b /\ ~Cached(a) => unit'[a] = unit[a]
      BY <1>3, <3>1
    <3> QED  BY <3>1, <3>2, <3>3, <3>4, NullAssumption DEF Cached
  <2>2. Cached(a) => unit'[a].data = unit[a].data
    BY <1>1, <1>3, <1>6 DEF DbUnlock, Cached, Unit
  <2>3. DbData(a)' = DbData(a)
    BY <2>1, <2>2 DEF DbData
  <2> QED  BY <1>4, <1>5, <2>1, <2>3, CharactersQuiet
<1>7. CASE DbList(q)
  <2>1. /\ UNCHANGED unit /\ q.kind = "list"
        /\ row' = LockRow(b, q.serverId) \/ UNCHANGED row
    BY <1>1, <1>7 DEF DbList
  <2>2. row'[a].data = row[a].data
    BY <1>1, <1>3, <2>1 DEF LockRow, Row
  <2>3. DbData(a)' = DbData(a)
    BY <2>1, <2>2 DEF DbData, Cached
  <2>4. PICK r \in {"success", "lockedSelf", "lockedOther"} : Answers(q, r, 0)
    BY <1>7 DEF DbList
  <2>5. OldCharacters(a)
    <3>1. \A t \in Servers : \A i \in DOMAIN fromDb'[t] :
            (\E j \in DOMAIN fromDb[t] : fromDb'[t][i] = fromDb[t][j])
              \/ fromDb'[t][i] = [kind |-> q.kind, link |-> q.link, result |-> r, data |-> 0]
      BY <2>4, AnswerSent
    <3> QED  BY <2>1, <3>1 DEF OldCharacters
  <2> QED  BY <1>4, <1>5, <2>2, <2>3, <2>5
<1>8. CASE DbSelect(q)
  <2>1. q.kind = "select"
    BY <1>8 DEF DbSelect
  <2>2. CASE UNCHANGED <<row, unit, fromDb>>
    BY <1>5, <2>2, RowKept, CharactersQuiet
  <2>3. CASE UNCHANGED <<row, unit>> /\ Answers(q, "fail", 0)
    <3>1. OldCharacters(a)
      <4>1. \A t \in Servers : \A i \in DOMAIN fromDb'[t] :
              (\E j \in DOMAIN fromDb[t] : fromDb'[t][i] = fromDb[t][j])
                \/ fromDb'[t][i] = [kind |-> q.kind, link |-> q.link, result |-> "fail",
                                    data |-> 0]
        BY <2>3, AnswerSent
      <4> QED  BY <4>1 DEF OldCharacters
    <3> QED  BY <1>5, <2>3, <3>1, RowKept
  <2>4. CASE /\ ~Cached(b) /\ Lockable(b, q.serverId) /\ row' = LockRow(b, q.serverId)
             /\ unit' = [unit EXCEPT ![b] = [serverId |-> q.serverId, data |-> row[b].data,
                                             removeMe |-> FALSE]]
             /\ Answers(q, "success", row[b].data)
    <3>1. row'[a].data = row[a].data
      BY <1>1, <1>3, <2>4 DEF LockRow, Row
    <3>2. DbData(a)' = DbData(a)
      <4>1. CASE a # b
        <5>1. unit'[a] = unit[a]
          BY <1>3, <2>4, <4>1
        <5> QED  BY <3>1, <5>1 DEF DbData, Cached
      <4>2. CASE a = b
        <5>1. unit'[a] = [serverId |-> q.serverId, data |-> row[a].data, removeMe |-> FALSE]
          BY <1>3, <2>4, <4>2
        <5>2. unit'[a] \in Unit /\ unit'[a].data = row[a].data
          BY <1>1, <1>4, <5>1 DEF Unit
        <5>3. Cached(a)'
          BY <5>2, NullAssumption DEF Cached
        <5> QED  BY <2>4, <4>2, <5>2, <5>3 DEF DbData
      <4> QED  BY <4>1, <4>2
    <3>3. login[q.link].account = b /\ login'[q.link] = login[q.link]
      <4>1. login[q.link] = [server |-> q.serverId, account |-> b]
        BY <1>1, <2>1, WaitingIs
      <4> QED  BY <1>2, <4>1
    <3>4. a = b /\ phase[q.link] = "open" => row[b].data = clock[a]
      <4>1. a = b /\ phase[q.link] = "open" => DbData(a) = clock[a]
        BY <1>1, <2>1, <2>4, SelectNewest
      <4> QED  BY <2>4, <4>1 DEF DbData
    <3>5. OldCharacters(a)
      <4> SUFFICES ASSUME NEW t \in Servers, NEW i \in DOMAIN fromDb'[t],
                          ~ \E j \in DOMAIN fromDb[t] : fromDb'[t][i] = fromDb[t][j],
                          phase'[fromDb'[t][i].link] = "open",
                          login'[fromDb'[t][i].link].account = a
                   PROVE  fromDb'[t][i].data = clock[a]
        BY DEF OldCharacters
      <4>1. fromDb'[t][i] = [kind |-> q.kind, link |-> q.link, result |-> "success",
                             data |-> row[b].data]
        BY <2>4, AnswerSent
      <4> QED  BY <1>2, <3>3, <3>4, <4>1
    <3> QED  BY <1>4, <1>5, <3>1, <3>2, <3>5
  <2> QED  BY <1>1, <1>8, <2>2, <2>3, <2>4 DEF DbSelect
<1> QED  BY <1>2, <1>6, <1>7, <1>8

-----------------------------------------------------------------------------
(* A step of a zone server, or of its login server for it, that leaves the *)
(* account's content alone.                                                *)
LEMMA ZoneQuiet ==
  ASSUME TypeInv, IInv, LinksGoOn, NEW a \in Accounts, NewestOf(a), NEW z \in Zones,
         UNCHANGED outside, clock'[a] = clock[a], OldSaves(a), SavesStay(a),
         \A s \in Servers : playerCache'[s][a] = playerCache[s][a],
         \A y \in Zones \ {z} : Apart(y),
         \A i \in DOMAIN toLogin'[z] :
           \/ \E j \in DOMAIN toLogin[z] : toLogin'[z][i] = toLogin[z][j]
           \/ toLogin'[z][i].kind # "logout" \/ toLogin'[z][i].account # a,
         \A i \in DOMAIN toZone'[z] :
           \/ \E j \in DOMAIN toZone[z] : toZone'[z][i] = toZone[z][j]
           \/ toZone'[z][i].kind # "data" \/ toZone'[z][i].account # a
           \/ toZone'[z][i].data = clock[a],
         LogoutAt(z, a) => LogoutAt(z, a)'
  PROVE  NewestOf(a)'
<1>1. UNCHANGED <<row, unit, fromDb>>
  BY DEF outside, dbVars
<1>2. OldLogouts(a)
  <2>1. \A y \in Zones \ {z} : toLogin'[y] = toLogin[y]
    BY DEF Apart
  <2> QED  BY <2>1 DEF OldLogouts
<1>3. OldData(a)
  <2>1. \A y \in Zones \ {z} : toZone'[y] = toZone[y]
    BY DEF Apart
  <2> QED  BY <2>1 DEF OldData
<1>4. LogoutsStay(a)
  <2>1. \A y \in Zones \ {z} : toLogin'[y] = toLogin[y]
    BY DEF Apart
  <2> QED  BY <2>1 DEF LogoutsStay, LogoutAt, IsLogout
<1>5. SameContent(a) /\ OldCharacters(a)
  BY <1>1, RowKept, CharactersQuiet DEF SameContent
<1> QED  BY <1>2, <1>3, <1>4, <1>5, Quieter

LEMMA ConnectNewest ==
  ASSUME TypeInv, IInv, LinksGoOn, NEW a \in Accounts, NewestOf(a),
         NEW l \in Links, QuestCheckRebind(l)
  PROVE  NewestOf(a)'
<1>1. PICK z \in Zones, m \in ToLogin : Connected(l, z, m)
  BY ConnectDoes
<1>2. /\ toLogin'[z] = Append(toLogin[z], m) /\ m.kind = "check"
      /\ UNCHANGED <<outside, playerCache, toZone, toDb, clock>>
      /\ \A y \in Zones \ {z} : Apart(y)
  BY <1>1 DEF Connected
<1>3. toLogin[z] \in Seq(ToLogin)
  BY DEF TypeInv, TypeOK
<1>4. \A i \in DOMAIN toLogin'[z] :
        (\E j \in DOMAIN toLogin[z] : toLogin'[z][i] = toLogin[z][j]) \/ toLogin'[z][i] = m
  BY <1>2, <1>3, AfterAppend
<1>5. LogoutAt(z, a) => LogoutAt(z, a)'
  BY <1>2, AppendLogouts
<1>6. OldSaves(a) /\ SavesStay(a)
  BY <1>2, SavesQuiet
<1> QED  BY <1>2, <1>4, <1>5, <1>6, ZoneQuiet

LEMMA CheckNewest ==
  ASSUME TypeInv, IInv, LinksGoOn, NEW a \in Accounts, NewestOf(a),
         NEW z \in Zones, DoCheckRebind(z)
  PROVE  NewestOf(a)'
<1>1. PICK m \in ToLogin, r \in ToZone : Checked(z, m, r)
  BY CheckDoes
<1>2. /\ toLogin[z] # <<>> /\ Head(toLogin[z]).kind = "check"
      /\ toLogin'[z] = Tail(toLogin[z])
      /\ toZone'[z] = Append(toZone[z], r) /\ r.kind # "data"
      /\ UNCHANGED <<outside, playerCache, toDb, clock>>
      /\ \A y \in Zones \ {z} : Apart(y)
  BY <1>1 DEF Checked
<1>3. toLogin[z] \in Seq(ToLogin) /\ toZone[z] \in Seq(ToZone)
  BY DEF TypeInv, TypeOK
<1>4. \A i \in DOMAIN toLogin'[z] : \E j \in DOMAIN toLogin[z] : toLogin'[z][i] = toLogin[z][j]
  BY <1>2, <1>3, AfterTail
<1>5. \A i \in DOMAIN toZone'[z] :
        (\E j \in DOMAIN toZone[z] : toZone'[z][i] = toZone[z][j]) \/ toZone'[z][i] = r
  BY <1>2, <1>3, AfterAppend
<1>6. LogoutAt(z, a) => LogoutAt(z, a)'
  BY <1>2, TailLogouts
<1>7. OldSaves(a) /\ SavesStay(a)
  BY <1>2, SavesQuiet
<1> QED  BY <1>2, <1>4, <1>5, <1>6, <1>7, ZoneQuiet

LEMMA AnsweredNewest ==
  ASSUME TypeInv, IInv, LinksGoOn, NEW a \in Accounts, NewestOf(a),
         NEW z \in Zones, RecvCheckRebind(z) \/ SetPlayerData(z)
  PROVE  NewestOf(a)'
<1>1. /\ toZone[z] # <<>> /\ toZone'[z] = Tail(toZone[z])
      /\ UNCHANGED <<outside, playerCache, toDb, clock>>
      /\ \A y \in Zones \ {z} : Apart(y)
      /\ \/ UNCHANGED toLogin
         \/ \E g \in ToLogin : toLogin'[z] = Append(toLogin[z], g) /\ g.kind = "get"
  <2>1. CASE RecvCheckRebind(z)
    BY <2>1, AnsweredDoes DEF Answered
  <2>2. CASE SetPlayerData(z)
    BY <2>2, DataDoes DEF DataTaken
  <2> QED  BY <2>1, <2>2
<1>2. toLogin[z] \in Seq(ToLogin) /\ toZone[z] \in Seq(ToZone)
  BY DEF TypeInv, TypeOK
<1>3. \A i \in DOMAIN toZone'[z] : \E j \in DOMAIN toZone[z] : toZone'[z][i] = toZone[z][j]
  BY <1>1, <1>2, AfterTail
<1>4. /\ LogoutAt(z, a) => LogoutAt(z, a)'
      /\ \A i \in DOMAIN toLogin'[z] :
           \/ \E j \in DOMAIN toLogin[z] : toLogin'[z][i] = toLogin[z][j]
           \/ toLogin'[z][i].kind # "logout"
  <2>1. CASE UNCHANGED toLogin
    BY <2>1 DEF LogoutAt, IsLogout
  <2>2. ASSUME NEW g \in ToLogin, toLogin'[z] = Append(toLogin[z], g), g.kind = "get"
        PROVE  /\ LogoutAt(z, a) => LogoutAt(z, a)'
               /\ \A i \in DOMAIN toLogin'[z] :
                    \/ \E j \in DOMAIN toLogin[z] : toLogin'[z][i] = toLogin[z][j]
                    \/ toLogin'[z][i].kind # "logout"
    <3>1. \A i \in DOMAIN toLogin'[z] :
            (\E j \in DOMAIN toLogin[z] : toLogin'[z][i] = toLogin[z][j]) \/ toLogin'[z][i] = g
      BY <1>2, <2>2, AfterAppend
    <3>2. LogoutAt(z, a) => LogoutAt(z, a)'
      BY <2>2, AppendLogouts
    <3> QED  BY <2>2, <3>1, <3>2
  <2> QED  BY <1>1, <2>1, <2>2
<1>5. OldSaves(a) /\ SavesStay(a)
  BY <1>1, SavesQuiet
<1> QED  BY <1>1, <1>3, <1>4, <1>5, ZoneQuiet

(* The data of a session is sent while no logout is on its way to it: a    *)
(* logout at its zone server would be behind the request that is answered, *)
(* and nobody whose data is on its way has one.                            *)
LEMMA SendDataNewest ==
  ASSUME TypeInv, IInv, IInv', PlayInv', restarted' = {}, LinksGoOn,
         NEW a \in Accounts, NewestOf(a), NEW z \in Zones, SendPlayerData(z)
  PROVE  NewestOf(a)'
<1>1. PICK m \in ToLogin : DataSent(z, m)
  BY SendDataDoes
<1>2. /\ toLogin[z] # <<>> /\ m = Head(toLogin[z]) /\ m.kind = "get"
      /\ toLogin'[z] = Tail(toLogin[z])
      /\ UNCHANGED <<outside, playerCache, toDb, clock>>
      /\ \A y \in Zones \ {z} : Apart(y)
  BY <1>1 DEF DataSent
<1>3. toLogin[z] \in Seq(ToLogin) /\ toZone[z] \in Seq(ToZone)
  BY DEF TypeInv, TypeOK
<1>4. \A i \in DOMAIN toLogin'[z] : \E j \in DOMAIN toLogin[z] : toLogin'[z][i] = toLogin[z][j]
  BY <1>2, <1>3, AfterTail
<1>5. LogoutAt(z, a) => LogoutAt(z, a)'
  BY <1>2, TailLogouts
<1>6. OldSaves(a) /\ SavesStay(a)
  BY <1>2, SavesQuiet
<1>7. CASE toZone'[z] = toZone[z]
  BY <1>2, <1>4, <1>5, <1>6, <1>7, ZoneQuiet
<1>8. ASSUME NEW r \in ToZone, SameSession(ServerOf[z], m), toZone'[z] = Append(toZone[z], r),
             r.kind = "data", r.account = m.account,
             r.data = playerCache[ServerOf[z]][m.account].data
      PROVE  NewestOf(a)'
  <2>1. \A i \in DOMAIN toZone'[z] :
          (\E j \in DOMAIN toZone[z] : toZone'[z][i] = toZone[z][j]) \/ toZone'[z][i] = r
    BY <1>3, <1>8, AfterAppend
  <2>2. ASSUME m.account = a
        PROVE  r.data = clock[a]
    <3>1. DataAt(z, a)'
      <4>1. \E i \in DOMAIN toZone'[z] : toZone'[z][i] = r
        BY <1>3, <1>8, AppendKeeps
      <4> QED  BY <1>8, <2>2, <4>1 DEF DataAt
    <3>2. SessionAt(z, a)' /\ ~LogoutAt(z, a)'
      BY <3>1 DEF PlayInv, PlayAt, Playing, Up
    <3>3. ASSUME NEW y \in Zones, LogoutAt(y, a)
          PROVE  FALSE
      <4>1. LogoutAt(y, a)'
        <5>1. CASE y = z
          BY <1>5, <3>3, <5>1
        <5>2. CASE y # z
          <6>1. toLogin'[y] = toLogin[y]
            BY <1>2, <5>2 DEF Apart
          <6> QED  BY <3>3, <6>1 DEF LogoutAt, IsLogout
        <5> QED  BY <5>1, <5>2
      <4>2. SessionAt(y, a)'
        BY <4>1 DEF PlayInv, PlayAt, Up
      <4>3. y = z
        BY <3>2, <4>2, OnePlace
      <4> QED  BY <3>2, <4>1, <4>3
    <3>4. ServerOf[z] \in Servers /\ InGame(ServerOf[z], a)
      BY <1>8, <2>2, SessionAssumption DEF SameSession
    <3> QED  BY <1>8, <2>2, <3>3, <3>4 DEF NewestOf, CacheLast
  <2>3. \A i \in DOMAIN toZone'[z] :
          \/ \E j \in DOMAIN toZone[z] : toZone'[z][i] = toZone[z][j]
          \/ toZone'[z][i].account # a \/ toZone'[z][i].data = clock[a]
    BY <1>8, <2>1, <2>2
  <2> QED  BY <1>2, <1>4, <1>5, <1>6, <2>3, ZoneQuiet
<1> QED  BY <1>1, <1>7, <1>8 DEF DataSent

(* The logout arrives: its content goes into the save, or stays in the     *)
(* session when that cannot be sent.                                       *)
LEMMA UpdateNewest ==
  ASSUME TypeInv, IInv, PlayInv, restarted = {}, LinksGoOn,
         NEW a \in Accounts, NewestOf(a), NEW z \in Zones, UpdatePlayerData(z)
  PROVE  NewestOf(a)'
<1>1. PICK m \in ToLogin, s \in Servers : Updated(z, m, s)
  BY UpdateDoes
<1>2. /\ toLogin[z] # <<>> /\ m = Head(toLogin[z]) /\ m.kind = "logout"
      /\ toLogin'[z] = Tail(toLogin[z]) /\ s = ServerOf[z]
      /\ \A t \in Servers, b \in Accounts :
           t # s \/ b # m.account => playerCache'[t][b] = playerCache[t][b]
      /\ UNCHANGED <<outside, toZone, clock>>
      /\ \A y \in Zones \ {z} : Apart(y)
  BY <1>1 DEF Updated
<1>3. m.account \in Accounts /\ m.data \in Nat
  BY <1>2, ToLoginFields
<1> DEFINE sent == [kind |-> "save", account |-> m.account, serverId |-> s,
                    data |-> m.data]
<1>4. toDb' = IF InGame(s, m.account) THEN SentToDb(s, sent) ELSE toDb
  BY <1>1 DEF Updated
<1>5. /\ sent \in Query \cup Save /\ sent.kind = "save"
      /\ sent.account = m.account /\ sent.data = m.data
  BY <1>3 DEF Save
<1> HIDE DEF sent
<1>6. toLogin[z] \in Seq(ToLogin)
  BY DEF TypeInv, TypeOK
<1>7. \A i \in DOMAIN toLogin'[z] : \E j \in DOMAIN toLogin[z] : toLogin'[z][i] = toLogin[z][j]
  BY <1>2, <1>6, AfterTail
<1>8. CASE m.account # a
  <2>1. LogoutAt(z, a) => LogoutAt(z, a)'
    BY <1>2, <1>8, TailLogouts
  <2>2. OldSaves(a) /\ SavesStay(a)
    BY <1>4, <1>5, <1>8, SavesQuiet, SentSaves
  <2> QED  BY <1>2, <1>7, <1>8, <2>1, <2>2, ZoneQuiet
<1>9. CASE m.account = a
  <2>1. 1 \in DOMAIN toLogin[z] /\ toLogin[z][1] = m
    BY <1>2, <1>6, TailIs
  <2>2. IsLogout(z, 1, a) /\ LogoutAt(z, a)
    BY <1>2, <1>9, <2>1 DEF LogoutAt, IsLogout
  <2>3. m.data = clock[a]
    BY <2>1, <2>2 DEF NewestOf, MessagesLast, LogoutsLast
  <2>4. InGame(s, a)
    BY <1>2, <2>2 DEF PlayInv, PlayAt, Up, SessionAt
  <2>5. toDb' = SentToDb(s, sent)
    BY <1>4, <1>9, <2>4
  <2>6. UNCHANGED <<row, unit, fromDb>>
    BY <1>2 DEF outside, dbVars
  <2>7. OldLogouts(a)
    <3>1. \A y \in Zones \ {z} : toLogin'[y] = toLogin[y]
      BY <1>2 DEF Apart
    <3> QED  BY <1>7, <3>1 DEF OldLogouts
  <2>8. OldSaves(a)
    BY <1>5, <2>3, <2>5, SentSaves
  <2>9. OldCharacters(a) /\ OldData(a)
    BY <1>2, <2>6, CharactersQuiet DEF OldData
  <2>10. MessagesLast(a)'
    BY <1>2, <2>7, <2>8, <2>9, MessagesKept DEF NewestOf
  <2>11. DbData(a)' = DbData(a) /\ row'[a].data <= DbData(a)
    BY <2>6, RowKept
  <2>12. DbData(a) <= clock[a] /\ clock[a] <= clock[a]
    BY ContentTypes DEF NewestOf, Bounded
  <2>13. \A t \in Servers : t # s => ~InGame(t, a)'
    <3>1. \A t \in Servers : t # s => ~InGame(t, a)
      BY <2>4, OnlyServer
    <3> QED  BY <1>2, <3>1 DEF InGame
  <2>14. CASE dbUp[s]
    <3>1. SaveSent(a)'
      <4>1. \E i \in DOMAIN toDb'[s] : toDb'[s][i] = sent
        BY <1>5, <2>5, <2>14, SentKeeps
      <4> QED  BY <1>5, <1>9, <4>1 DEF SaveSent, IsSave
    <3>2. ~InGame(s, a)'
      BY <1>1, <1>9, <2>4, <2>14 DEF Updated, InGame
    <3>3. Bounded(a)' /\ CacheLast(a)'
      BY <1>2, <2>11, <2>12, <2>13, <3>2 DEF Bounded, CacheLast
    <3>4. StoredLast(a)'
      BY <3>1 DEF StoredLast
    <3> QED  BY <2>10, <3>3, <3>4 DEF NewestOf
  <2>15. CASE ~dbUp[s]
    <3>1. playerCache'[s][a] \in SPlayer /\ playerCache'[s][a].data = clock[a]
      BY <1>1, <1>9, <2>3, <2>4, <2>15 DEF Updated
    <3>2. InGame(s, a)'
      BY <3>1, NullAssumption DEF InGame
    <3>3. Bounded(a)' /\ CacheLast(a)'
      BY <1>2, <2>11, <2>12, <2>13, <3>1 DEF Bounded, CacheLast
    <3>4. StoredLast(a)'
      BY <3>2 DEF StoredLast
    <3> QED  BY <2>10, <3>3, <3>4 DEF NewestOf
  <2> QED  BY <2>14, <2>15
<1> QED  BY <1>8, <1>9

(* A player leaves with new content: nothing else of the account is on its *)
(* way anywhere, since it has played until now.                            *)
LEMMA LogoutNewest ==
  ASSUME TypeInv, IInv, IInv', PlayInv, PlayInv', restarted = {}, restarted' = {}, LinksGoOn,
         NEW a \in Accounts, NewestOf(a), NEW z \in Zones, NEW b \in Accounts, Logout(z, b)
  PROVE  NewestOf(a)'
<1>1. PICK m \in ToLogin : LoggedOut(z, b, m)
  BY LogoutDoes
<1>2. /\ Plays(z, b) /\ toLogin'[z] = Append(toLogin[z], m)
      /\ m.kind = "logout" /\ m.account = b /\ m.data = clock[b] + 1
      /\ UNCHANGED <<outside, playerCache, toZone, toDb>>
      /\ clock'[b] = clock[b] + 1
      /\ \A c \in Accounts \ {b} : clock'[c] = clock[c]
      /\ \A y \in Zones \ {z} : Apart(y)
  BY <1>1 DEF LoggedOut
<1>3. toLogin[z] \in Seq(ToLogin)
  BY DEF TypeInv, TypeOK
<1>4. \A i \in DOMAIN toLogin'[z] :
        (\E j \in DOMAIN toLogin[z] : toLogin'[z][i] = toLogin[z][j]) \/ toLogin'[z][i] = m
  BY <1>2, <1>3, AfterAppend
<1>5. CASE a # b
  <2>1. LogoutAt(z, a) => LogoutAt(z, a)'
    BY <1>2, AppendLogouts
  <2>2. OldSaves(a) /\ SavesStay(a)
    BY <1>2, SavesQuiet
  <2>3. \A i \in DOMAIN toLogin'[z] :
          \/ \E j \in DOMAIN toLogin[z] : toLogin'[z][i] = toLogin[z][j]
          \/ toLogin'[z][i].account # a
    BY <1>2, <1>4, <1>5
  <2> QED  BY <1>2, <1>5, <2>1, <2>2, <2>3, ZoneQuiet
<1>6. CASE a = b
  <2> DEFINE s == ServerOf[z]
  <2>1. SessionAt(z, a) /\ ~LogoutAt(z, a)
    BY <1>2, <1>6 DEF PlayInv, PlayAt, Playing, Up
  <2>2. s \in Servers /\ InGame(s, a) /\ InGame(s, a)'
    BY <1>2, <2>1, SessionAssumption DEF SessionAt, InGame
  <2>3. LogoutAt(z, a)'
    BY <1>2, <1>6, AppendLogouts
  <2>4. \A y \in Zones : LogoutAt(y, a)' \/ DataAt(y, a)' => y = z
    <3>1. \A y \in Zones : LogoutAt(y, a)' \/ DataAt(y, a)' => SessionAt(y, a)'
      BY DEF PlayInv, PlayAt, Playing, Up
    <3> QED  BY <2>3, <3>1, OnePlace
  <2>5. ~DataAt(z, a)'
    BY <2>3 DEF PlayInv, PlayAt, Playing, Up
  <2>6. LogoutsLast(a)'
    <3> SUFFICES ASSUME NEW y \in Zones, NEW i \in DOMAIN toLogin'[y], IsLogout(y, i, a)'
                 PROVE  toLogin'[y][i].data = clock'[a]
      BY DEF LogoutsLast
    <3>1. y = z
      BY <2>4 DEF LogoutAt
    <3>2. toLogin'[z][i] = m
      BY <1>4, <2>1, <3>1 DEF LogoutAt, IsLogout
    <3> QED  BY <1>2, <1>6, <3>1, <3>2
  <2>7. DataLast(a)'
    BY <2>4, <2>5 DEF DataLast, IsData, DataAt
  <2>8. SavesLast(a)'
    <3>1. ~SaveSent(a)
      BY <2>2, NoSaveInGame
    <3> QED  BY <1>2, <3>1 DEF SavesLast, SaveSent, IsSave
  <2>9. CharactersLast(a)'
    <3>1. \A t \in Servers : \A i \in DOMAIN fromDb[t] : ~IsCharacter(t, i, a)
      BY <2>2, NoCharacterInGame
    <3>2. UNCHANGED <<fromDb, phase, login>>
      BY <1>2 DEF outside, clientVars
    <3> QED  BY <3>1, <3>2 DEF CharactersLast, IsCharacter, IsOpen, Account
  <2>10. /\ DbData(a) \in Nat /\ row[a].data \in Nat /\ clock[a] \in Nat
         /\ \A t \in Servers : InGame(t, a) => playerCache[t][a].data \in Nat
    BY ContentTypes
  <2>11. UNCHANGED <<row, unit, playerCache>> /\ clock'[a] = clock[a] + 1
    BY <1>2, <1>6 DEF outside, dbVars
  <2>12. DbData(a)' = DbData(a) /\ \A t \in Servers : InGame(t, a)' <=> InGame(t, a)
    BY <2>11 DEF DbData, Cached, InGame
  <2>13. Bounded(a)'
    <3>1. row'[a].data <= DbData(a)' /\ DbData(a)' <= clock'[a]
      BY <2>10, <2>11, <2>12 DEF NewestOf, Bounded
    <3>2. ASSUME NEW t \in Servers, InGame(t, a)'
          PROVE  DbData(a)' <= playerCache'[t][a].data /\ playerCache'[t][a].data <= clock'[a]
      <4>1. DbData(a) <= playerCache[t][a].data /\ playerCache[t][a].data <= clock[a]
        BY <2>12, <3>2 DEF NewestOf, Bounded
      <4>2. playerCache[t][a].data \in Nat
        BY <2>10, <2>12, <3>2
      <4> QED  BY <2>10, <2>11, <2>12, <4>1, <4>2
    <3> QED  BY <3>1, <3>2 DEF Bounded
  <2>14. CacheLast(a)'
    <3>1. \A t \in Servers : InGame(t, a)' => t = s
      BY <2>2, <2>12, OnlyServer
    <3> QED  BY <2>3, <3>1 DEF CacheLast
  <2>15. StoredLast(a)'
    BY <2>2 DEF StoredLast
  <2> QED  BY <2>6, <2>7, <2>8, <2>9, <2>13, <2>14, <2>15 DEF NewestOf, MessagesLast
<1> QED  BY <1>5, <1>6

-----------------------------------------------------------------------------
(* Faults: the newest content is somewhere, and while it is, it is where   *)
(* it belongs.                                                             *)
LEMMA NewestIsSomewhere ==
  ASSUME NEW a \in Accounts, NewestOf(a)
  PROVE  Somewhere(a)
<1>1. ASSUME NEW z \in Zones, LogoutAt(z, a)
      PROVE  Somewhere(a)
  <2>1. PICK i \in DOMAIN toLogin[z] : IsLogout(z, i, a)
    BY <1>1 DEF LogoutAt
  <2>2. toLogin[z][i].data = clock[a]
    BY <2>1 DEF NewestOf, MessagesLast, LogoutsLast
  <2> QED  BY <2>1, <2>2 DEF Somewhere, IsLogout
<1>2. ASSUME NEW s \in Servers, InGame(s, a)
      PROVE  Somewhere(a)
  <2>1. playerCache[s][a].data = clock[a] => Somewhere(a)
    BY <1>2 DEF Somewhere
  <2> QED  BY <1>1, <1>2, <2>1 DEF NewestOf, CacheLast
<1>3. CASE SaveSent(a)
  <2>1. PICK s \in Servers : \E i \in DOMAIN toDb[s] : IsSave(s, i, a)
    BY <1>3 DEF SaveSent
  <2>2. PICK i \in DOMAIN toDb[s] : IsSave(s, i, a)
    BY <2>1
  <2>3. toDb[s][i].data = clock[a]
    BY <2>2 DEF NewestOf, MessagesLast, SavesLast
  <2> QED  BY <2>2, <2>3 DEF Somewhere, IsSave
<1>4. CASE ~SaveSent(a) /\ \A s \in Servers : ~InGame(s, a)
  <2>1. DbData(a) = clock[a]
    BY <1>4 DEF NewestOf, StoredLast
  <2> QED  BY <2>1 DEF Somewhere, DbData
<1> QED  BY <1>2, <1>3, <1>4

LEMMA SomewhereIsNewest ==
  ASSUME TypeInv', IInv', PlayInv', restarted' = {}, NEW a \in Accounts,
         Bounded(a)', MessagesLast(a)', Somewhere(a)'
  PROVE  NewestOf(a)'
<1>1. /\ row'[a] \in Row /\ (Cached(a)' => unit'[a] \in Unit) /\ clock'[a] \in Nat
      /\ \A s \in Servers : InGame(s, a)' => playerCache'[s][a] \in SPlayer
  BY DEF TypeInv, TypeOK, Cached, InGame
<1>2. /\ row'[a].data \in Nat /\ DbData(a)' \in Nat /\ clock'[a] \in Nat
      /\ \A s \in Servers : InGame(s, a)' => playerCache'[s][a].data \in Nat
  <2>1. row'[a].data \in Nat /\ (Cached(a)' => unit'[a].data \in Nat)
    BY <1>1 DEF Row, Unit
  <2>2. \A s \in Servers : InGame(s, a)' => playerCache'[s][a].data \in Nat
    BY <1>1 DEF SPlayer
  <2> QED  BY <1>1, <2>1, <2>2 DEF DbData
<1>3. ASSUME NEW s \in Servers, NEW t \in Servers, InGame(s, a)', InGame(t, a)'
      PROVE  s = t
  BY <1>3 DEF IInv, GameInv, Keeps
<1>4. CASE row'[a].data = clock'[a] \/ (Cached(a)' /\ unit'[a].data = clock'[a])
  <2>1. DbData(a)' = clock'[a]
    <3>1. row'[a].data <= DbData(a)' /\ DbData(a)' <= clock'[a]
      BY DEF Bounded
    <3>2. CASE row'[a].data = clock'[a]
      BY <1>2, <3>1, <3>2
    <3>3. CASE Cached(a)' /\ unit'[a].data = clock'[a]
      BY <3>3 DEF DbData
    <3> QED  BY <1>4, <3>2, <3>3
  <2>2. \A s \in Servers : InGame(s, a)' => playerCache'[s][a].data = clock'[a]
    <3> SUFFICES ASSUME NEW s \in Servers, InGame(s, a)'
                 PROVE  playerCache'[s][a].data = clock'[a]
      OBVIOUS
    <3>1. DbData(a)' <= playerCache'[s][a].data /\ playerCache'[s][a].data <= clock'[a]
      BY DEF Bounded
    <3> QED  BY <1>2, <2>1, <3>1
  <2> QED  BY <2>1, <2>2 DEF NewestOf, CacheLast, StoredLast
<1>5. ASSUME NEW s \in Servers, InGame(s, a)', playerCache'[s][a].data = clock'[a]
      PROVE  NewestOf(a)'
  <2>1. CacheLast(a)'
    BY <1>3, <1>5 DEF CacheLast
  <2> QED  BY <1>5, <2>1 DEF NewestOf, StoredLast
<1>6. ASSUME NEW s \in Servers, NEW i \in DOMAIN toDb'[s], IsSave(s, i, a)'
      PROVE  NewestOf(a)'
  <2>1. ASSUME NEW t \in Servers, InGame(t, a)'
        PROVE  FALSE
    <3>1. Keeps(s, a)'
      BY <1>6 DEF IInv, SaveInv, IsSave
    <3>2. Keeps(t, a)' /\ NoneSent(t, a)'
      BY <2>1 DEF IInv, GameInv, Clean
    <3>3. s = t
      BY <3>1, <3>2 DEF Keeps
    <3> QED  BY <1>6, <3>2, <3>3 DEF NoneSent, Gives, IsSave
  <2>2. SaveSent(a)'
    BY <1>6 DEF SaveSent
  <2> QED  BY <2>1, <2>2 DEF NewestOf, CacheLast, StoredLast
<1>7. ASSUME NEW z \in Zones, LogoutAt(z, a)'
      PROVE  NewestOf(a)'
  <2>1. ServerOf[z] \in Servers /\ InGame(ServerOf[z], a)'
    BY <1>7, SessionAssumption DEF PlayInv, PlayAt, Up, SessionAt
  <2>2. CacheLast(a)'
    BY <1>3, <1>7, <2>1 DEF CacheLast
  <2> QED  BY <2>1, <2>2 DEF NewestOf, StoredLast
<1> QED  BY <1>4, <1>5, <1>6, <1>7 DEF Somewhere, IsSave, LogoutAt, IsLogout

(* A fault that drops the newest content says so.                          *)
LEMMA FaultKeeps ==
  ASSUME TypeInv, TypeInv', IInv, IInv', PlayInv', restarted' = {}, LinksGoOn,
         NEW a \in Accounts \ lost', NewestOf(a), Fault, Bounded(a)',
         OldLogouts(a), OldSaves(a), OldCharacters(a), OldData(a)
  PROVE  NewestOf(a)'
<1>1. clock' = clock /\ lost' = lost \cup {b \in Accounts : Somewhere(b) /\ ~Somewhere(b)'}
  BY DEF Fault
<1>2. Somewhere(a)'
  BY <1>1, NewestIsSomewhere
<1>3. MessagesLast(a)'
  BY <1>1, MessagesKept DEF NewestOf
<1> QED  BY <1>2, <1>3, SomewhereIsNewest

LEMMA DbFaultNewest ==
  ASSUME TypeInv, TypeInv', IInv, IInv', PlayInv', restarted' = {}, LinksGoOn,
         NEW a \in Accounts \ lost', NewestOf(a),
         CrashDb \/ \E s \in Servers : BreakDb(s)
  PROVE  NewestOf(a)'
<1>1. UNCHANGED <<playerCache, row, toLogin, toZone, clock>> /\ Fault
  BY DEF CrashDb, BreakDb, dbVars, zoneVars, Fault
<1>2. OldLogouts(a) /\ OldData(a)
  BY <1>1, ZonesQuiet
<1>3. \A s \in Servers : InGame(s, a)' <=> InGame(s, a)
  BY <1>1 DEF InGame
<1>4. ASSUME NEW s \in Servers, BreakDb(s)
      PROVE  NewestOf(a)'
  <2>1. PICK q \in FirstOf(toDb[s]) : toDb' = [toDb EXCEPT ![s] = q]
    BY <1>4 DEF BreakDb
  <2>2. fromDb' = [fromDb EXCEPT ![s] = <<>>] /\ UNCHANGED unit
    BY <1>4 DEF BreakDb, dbVars
  <2>3. /\ toDb \in [Servers -> Seq(Query \cup Save)] /\ toDb[s] \in Seq(Query \cup Save)
        /\ fromDb \in [Servers -> Seq(Answer)]
    BY DEF TypeInv, TypeOK
  <2>4. OldSaves(a)
    <3>1. \A i \in DOMAIN q : i \in DOMAIN toDb[s] /\ q[i] = toDb[s][i]
      BY <2>3, FirstOnes
    <3>2. toDb'[s] = q /\ \A t \in Servers : t # s => toDb'[t] = toDb[t]
      BY <2>1, <2>3
    <3> QED  BY <3>1, <3>2 DEF OldSaves
  <2>5. OldCharacters(a)
    <3>1. fromDb'[s] = <<>> /\ \A t \in Servers : t # s => fromDb'[t] = fromDb[t]
      BY <2>2, <2>3
    <3> QED  BY <3>1 DEF OldCharacters
  <2>6. DbData(a)' = DbData(a) /\ row'[a].data <= DbData(a)
    BY <1>1, <2>2, RowKept
  <2>7. Bounded(a)'
    BY <1>1, <1>3, <2>6 DEF NewestOf, Bounded
  <2> QED  BY <1>1, <1>2, <2>4, <2>5, <2>7, FaultKeeps
<1>5. CASE CrashDb
  <2>1. /\ toDb' = [s \in Servers |-> <<>>] /\ fromDb' = [s \in Servers |-> <<>>]
        /\ unit' = [b \in Accounts |-> NoUnit]
    BY <1>5 DEF CrashDb
  <2>2. OldSaves(a) /\ OldCharacters(a)
    BY <2>1 DEF OldSaves, OldCharacters
  <2>3. DbData(a)' = row[a].data /\ row'[a].data = row[a].data
    BY <1>1, <2>1 DEF DbData, Cached
  <2>4. /\ DbData(a) \in Nat /\ row[a].data \in Nat /\ clock[a] \in Nat
        /\ \A s \in Servers : InGame(s, a) => playerCache[s][a].data \in Nat
    BY ContentTypes
  <2>5. row[a].data <= row[a].data /\ row[a].data <= clock[a]
    BY <2>4 DEF NewestOf, Bounded
  <2>6. \A s \in Servers : InGame(s, a) =>
          row[a].data <= playerCache[s][a].data /\ playerCache[s][a].data <= clock[a]
    BY <2>4 DEF NewestOf, Bounded
  <2>7. Bounded(a)'
    BY <1>1, <1>3, <2>3, <2>5, <2>6 DEF Bounded
  <2> QED  BY <1>1, <1>2, <2>2, <2>7, FaultKeeps
<1> QED  BY <1>4, <1>5

LEMMA ZoneFaultNewest ==
  ASSUME TypeInv, TypeInv', IInv, IInv', PlayInv', restarted' = {}, LinksGoOn,
         NEW a \in Accounts \ lost', NewestOf(a), NEW z \in Zones,
         BreakZone(z) \/ CrashZone(z)
  PROVE  NewestOf(a)'
<1>1. UNCHANGED <<playerCache, row, unit, toDb, fromDb, clock>> /\ Fault /\ LinkLost(z)
  BY DEF BreakZone, CrashZone, dbVars, Fault
<1>2. PICK q \in Seq(ToLogin) : LinkGone(z, q)
  BY <1>1, LinkLostDoes
<1>3. OldLogouts(a)
  BY <1>2 DEF LinkGone, OldLogouts
<1>4. OldData(a)
  BY <1>2 DEF LinkGone, OldData
<1>5. OldSaves(a) /\ OldCharacters(a)
  BY <1>1, SavesQuiet, CharactersQuiet
<1>6. DbData(a)' = DbData(a) /\ row'[a].data <= DbData(a)
  BY <1>1, RowKept
<1>7. \A s \in Servers : InGame(s, a)' <=> InGame(s, a)
  BY <1>1 DEF InGame
<1>8. Bounded(a)'
  BY <1>1, <1>6, <1>7 DEF NewestOf, Bounded
<1> QED  BY <1>1, <1>3, <1>4, <1>5, <1>8, FaultKeeps

-----------------------------------------------------------------------------
(* What was lost or started again once is so for good.                     *)
LEMMA GhostsGrow ==
  ASSUME [Next]_vars
  PROVE  lost \subseteq lost' /\ restarted \subseteq restarted'
<1>1. CASE UNCHANGED <<lost, restarted>>
  BY <1>1
<1>2. CASE UNCHANGED vars
  BY <1>1, <1>2 DEF vars, ghostVars
<1>3. ASSUME NEW l \in Links,
             \/ \E s \in Servers, a \in Accounts : PlayerLogin(l, s, a)
             \/ Break(l) \/ Closed(l) \/ Reselect(l) \/ QuestCheckRebind(l) \/ Leave(l)
      PROVE  UNCHANGED <<lost, restarted>>
  BY <1>3 DEF PlayerLogin, Break, Closed, Reselect, QuestCheckRebind, Leave, ghostVars
<1>4. ASSUME NEW s \in Servers,
             RecvGetCharacterList(s) \/ RecvGetCharacter(s) \/ DbReceive(s) \/ ReconnectDb(s)
      PROVE  UNCHANGED <<lost, restarted>>
  BY <1>4 DEF RecvGetCharacterList, RecvGetCharacter, DbReceive, ReconnectDb, ghostVars
<1>5. ASSUME NEW a \in Accounts, DbExecute(a) \/ DbRemove(a)
      PROVE  UNCHANGED <<lost, restarted>>
  BY <1>5 DEF DbExecute, DbRemove, ghostVars
<1>6. ASSUME NEW z \in Zones,
             \/ DoCheckRebind(z) \/ SendPlayerData(z) \/ UpdatePlayerData(z)
             \/ RecvCheckRebind(z) \/ SetPlayerData(z) \/ \E a \in Accounts : Logout(z, a)
      PROVE  UNCHANGED <<lost, restarted>>
  BY <1>6 DEF DoCheckRebind, SendPlayerData, UpdatePlayerData, RecvCheckRebind,
              SetPlayerData, Logout, ghostVars
<1>7. CASE Faults
  <2>1. lost \subseteq lost'
    BY <1>7 DEF Faults, CrashDb, BreakDb, CrashLogin, Destroy, BreakZone, CrashZone, Fault
  <2>2. restarted \subseteq restarted'
    BY <1>7 DEF Faults, CrashDb, BreakDb, CrashLogin, Destroy, BreakZone, CrashZone,
                StartAgain
  <2> QED  BY <2>1, <2>2
<1> QED  BY <1>1, <1>2, <1>3, <1>4, <1>5, <1>6, <1>7 DEF Next

LEMMA NewestNext ==
  ASSUME TypeInv, TypeInv', IInv, IInv', PlayInv, PlayInv', NewestInv, [Next]_vars
  PROVE  NewestInv'
<1> SUFFICES ASSUME restarted' = {}, NEW a \in Accounts \ lost'
             PROVE  NewestOf(a)'
  BY DEF NewestInv
<1>1. restarted = {} /\ a \in Accounts \ lost
  BY GhostsGrow
<1>2. NewestOf(a)
  BY <1>1 DEF NewestInv
<1>3. CASE UNCHANGED vars
  BY <1>2, <1>3 DEF vars, clientVars, dbVars, zoneVars, ghostVars, NewestOf, Bounded,
        MessagesLast, LogoutsLast, SavesLast, CharactersLast, DataLast, CacheLast, StoredLast,
        DbData, Cached, InGame, SaveSent, IsSave, IsCharacter, IsOpen, Account, IsData,
        LogoutAt, IsLogout
<1>4. CASE Next
  <2>1. LinksGoOn
    BY <1>4, LinksNext
  <2>2. ASSUME NEW l \in Links,
               \/ \E s \in Servers, b \in Accounts : PlayerLogin(l, s, b)
               \/ Break(l) \/ Closed(l) \/ Reselect(l) \/ QuestCheckRebind(l) \/ Leave(l)
        PROVE  NewestOf(a)'
    BY <1>1, <1>2, <2>1, <2>2, LoginNewest, ConnectNewest
  <2>3. ASSUME NEW s \in Servers,
               RecvGetCharacterList(s) \/ RecvGetCharacter(s) \/ DbReceive(s) \/ ReconnectDb(s)
        PROVE  NewestOf(a)'
    BY <1>1, <1>2, <2>1, <2>3, LoginNewest, CharacterNewest, ReceiveNewest
  <2>4. ASSUME NEW b \in Accounts, DbExecute(b) \/ DbRemove(b)
        PROVE  NewestOf(a)'
    BY <1>1, <1>2, <2>1, <2>4, ExecuteNewest, RemoveNewest
  <2>5. ASSUME NEW z \in Zones,
               \/ DoCheckRebind(z) \/ SendPlayerData(z) \/ UpdatePlayerData(z)
               \/ RecvCheckRebind(z) \/ SetPlayerData(z) \/ \E b \in Accounts : Logout(z, b)
        PROVE  NewestOf(a)'
    <3>1. CASE DoCheckRebind(z) \/ RecvCheckRebind(z) \/ SetPlayerData(z)
      BY <1>1, <1>2, <2>1, <3>1, CheckNewest, AnsweredNewest
    <3>2. CASE SendPlayerData(z)
      BY <1>1, <1>2, <2>1, <3>2, SendDataNewest
    <3>3. CASE UpdatePlayerData(z)
      BY <1>1, <1>2, <2>1, <3>3, UpdateNewest
    <3>4. ASSUME NEW b \in Accounts, Logout(z, b)
          PROVE  NewestOf(a)'
      BY <1>1, <1>2, <2>1, <3>4, LogoutNewest
    <3> QED  BY <2>5, <3>1, <3>2, <3>3, <3>4
  <2>6. CASE Faults
    <3>1. ASSUME NEW s \in Servers, CrashLogin(s) \/ Destroy(s)
          PROVE  FALSE
      <4>1. s \in restarted'
        BY <3>1 DEF CrashLogin, Destroy, StartAgain
      <4> QED  BY <4>1
    <3>2. CASE CrashDb \/ \E s \in Servers : BreakDb(s)
      BY <1>2, <2>1, <3>2, DbFaultNewest
    <3>3. ASSUME NEW z \in Zones, BreakZone(z) \/ CrashZone(z)
          PROVE  NewestOf(a)'
      BY <1>2, <2>1, <3>3, ZoneFaultNewest
    <3> QED  BY <2>6, <3>1, <3>2, <3>3 DEF Faults
  <2> QED  BY <1>4, <2>2, <2>3, <2>4, <2>5, <2>6 DEF Next
<1> QED  BY <1>3, <1>4

LEMMA NewestAlways == Spec => []NewestInv
<1>1. Init => NewestInv
  BY InitNewest
<1>2. (/\ TypeInv /\ TypeInv' /\ IInv /\ IInv' /\ PlayInv /\ PlayInv'
       /\ NewestInv /\ [Next]_vars) => NewestInv'
  BY NewestNext
<1> QED  BY <1>1, <1>2, TypesAlways, InvAlways, PlayAlways, PTL DEF Spec

(* A player that enters a zone server goes on with what it was when it     *)
(* left the last one (SendPlayerData, UpdatePlayerData, SaveIntoCache),    *)
(* unless a fault dropped the last copy or a login server was started      *)
(* again: the row is given to no other server, and the account to no other *)
(* session, before the content of the logout is where it is read.          *)
THEOREM PlayersBeginWithLast == Spec => []BeginsWithLast
<1>1. ASSUME TypeInv, NewestInv, NEW z \in Zones, NEW i \in DOMAIN toZone[z],
             toZone[z][i].kind = "data", restarted = {}, toZone[z][i].account \notin lost
      PROVE  toZone[z][i].data = clock[toZone[z][i].account]
  <2>1. toZone[z] \in Seq(ToZone)
    BY <1>1 DEF TypeInv, TypeOK
  <2>2. toZone[z][i] \in ToZone
    BY <2>1
  <2> DEFINE a == toZone[z][i].account
  <2>3. a \in Accounts
    BY <2>2, ToZoneFields
  <2>4. NewestOf(a)
    BY <1>1, <2>3 DEF NewestInv
  <2>5. IsData(z, i, a)
    BY <1>1 DEF IsData
  <2> HIDE DEF a
  <2>6. toZone[z][i].data = clock[a]
    BY <2>4, <2>5 DEF NewestOf, MessagesLast, DataLast
  <2> QED  BY <2>6 DEF a
<1>2. TypeInv /\ NewestInv => BeginsWithLast
  BY <1>1 DEF BeginsWithLast
<1> QED  BY <1>2, TypesAlways, NewestAlways, PTL
=============================================================================
