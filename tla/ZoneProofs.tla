----------------------------- MODULE ZoneProofs -----------------------------
(***************************************************************************)
(* What holds in ZoneRegistry for any number of zone servers, links and    *)
(* restarts: no zone server is registered twice, entries go with their     *)
(* links, and answers find the entry that asked.                           *)
(*                                                                         *)
(* A zone server has one link that is up at most, its last one, and an     *)
(* older link gets no new messages.  So if nothing of the older links is   *)
(* left when a login is handled, no entry of the server is left either,    *)
(* and it gets one under its present link; otherwise the login overtook    *)
(* the end of an old link, which is what `overtaken` records.              *)
(***************************************************************************)
EXTENDS ZoneRegistry, TLAPS

-----------------------------------------------------------------------------
(* Types.                                                                  *)

(* The messages the actions build are messages.                            *)
LEMMA MessageTypes ==
  /\ \A z \in Zones : Login(z) \in Message
  /\ RegionEx \in Message /\ Close \in Message
  /\ \A q \in Query, b \in BOOLEAN :
       [type |-> "refresh", query |-> q, full |-> b] \in Message
BY DEF Message, Login, RegionEx, Close

(* What a message of each type carries.                                    *)
LEMMA MessageFields ==
  ASSUME NEW m \in Message
  PROVE  /\ m.type = "login" => m.key \in Zones
         /\ m.type = "refresh" => m.query \in Query /\ m.full \in BOOLEAN
BY DEF Message

(* The first of a queue, and what is left of it.                           *)
LEMMA HeadAndTail ==
  ASSUME NEW S, NEW q \in Seq(S), q # <<>>
  PROVE  Head(q) \in S /\ Tail(q) \in Seq(S)
OBVIOUS

(* A broken link keeps the first of its messages, and its end.             *)
LEMMA BrokenLink ==
  ASSUME NEW q \in Seq(Message), NEW k \in 0..Len(q)
  PROVE  Append(SubSeq(q, 1, Len(q) - k), Close) \in Seq(Message)
<1>1. SubSeq(q, 1, Len(q) - k) \in Seq(Message)
  OBVIOUS
<1> QED  BY <1>1, MessageTypes

(* A refreshed entry is the entry of the same server and link.             *)
LEMMA RefreshedType ==
  ASSUME NEW s \in SServer, NEW m \in Message, m.type = "refresh"
  PROVE  /\ Refreshed(s, m) \in SServer
         /\ Refreshed(s, m).ID = s.ID /\ Refreshed(s, m).idControl = s.idControl
         /\ Refreshed(s, m).gid = s.gid
BY MessageFields DEF SServer, Refreshed

(* A link without an owner is not in use: TypeOK is not inductive without, *)
(* since the owner of a link whose login is handled may become overtaken.  *)
Owned ==
  \A d \in Dnids :
    owner[d] = NoZone => ~up[d] /\ toLogin[d] = <<>> /\ toZone[d] = <<>>

LEMMA InitTypes == Init => TypeOK /\ Owned
BY ZoneAssumption DEF Init, TypeOK, Owned

LEMMA NextOwned ==
  ASSUME TypeOK, Owned, [Next]_vars
  PROVE  Owned'
<1> USE ZoneAssumption DEF TypeOK, Owned
<1>1. ASSUME NEW z \in Zones, Connect(z)
      PROVE  Owned'
  BY <1>1 DEF Connect
<1>2. ASSUME NEW z \in Zones, RestartZone(z) \/ CreateRegion(z)
      PROVE  Owned'
  BY <1>2 DEF RestartZone, CreateRegion, linkVars
<1>3. ASSUME NEW d \in Dnids, Break(d) \/ Answer(d)
      PROVE  Owned'
  BY <1>3 DEF Break, Answer, linkVars
<1>4. ASSUME NEW d \in Dnids, Handle(d)
      PROVE  Owned'
  <2>1. toLogin[d] # <<>> /\ toLogin' = [toLogin EXCEPT ![d] = Tail(@)]
    BY <1>4 DEF Handle, HandleLogin, HandleClose, HandleRefresh, HandleRegionEx
  <2>2. UNCHANGED <<linkVars, toZone>>
    BY <1>4 DEF Handle, HandleLogin, HandleClose, HandleRefresh, HandleRegionEx
  <2> QED  BY <2>1, <2>2 DEF linkVars
<1>5. ASSUME RestartLogin
      PROVE  Owned'
  BY <1>5 DEF RestartLogin
<1>6. ASSUME QueryRefreshGameServer
      PROVE  Owned'
  BY <1>6 DEF QueryRefreshGameServer, linkVars
<1>7. CASE UNCHANGED vars
  BY <1>7 DEF vars, linkVars
<1> QED  BY <1>1, <1>2, <1>3, <1>4, <1>5, <1>6, <1>7 DEF Next

LEMMA NextTypes ==
  ASSUME TypeOK, Owned, [Next]_vars
  PROVE  TypeOK'
<1> USE ZoneAssumption DEF TypeOK
<1>1. ASSUME NEW z \in Zones, Connect(z)
      PROVE  TypeOK'
  <2>1. <<Login(z)>> \in Seq(Message)
    BY MessageTypes
  <2>2. links + 1 \in Dnids
    BY <1>1 DEF Connect, Dnids
  <2> QED  BY <1>1, <2>1, <2>2 DEF Connect
<1>2. ASSUME NEW z \in Zones, RestartZone(z)
      PROVE  TypeOK'
  BY <1>2 DEF RestartZone, linkVars
<1>3. ASSUME NEW z \in Zones, CreateRegion(z)
      PROVE  TypeOK'
  <2>1. PICK d \in Dnids : /\ faction' = [faction EXCEPT ![z] = d]
                           /\ toLogin' = [toLogin EXCEPT ![d] = Append(@, RegionEx)]
    BY <1>3 DEF CreateRegion
  <2>2. Append(toLogin[d], RegionEx) \in Seq(Message)
    BY MessageTypes
  <2> QED  BY <1>3, <2>1, <2>2 DEF CreateRegion, linkVars, Dnids
<1>4. ASSUME NEW d \in Dnids, Break(d)
      PROVE  TypeOK'
  <2>1. PICK k \in 0..Len(toLogin[d]) :
          toLogin' = [toLogin EXCEPT ![d] = Append(SubSeq(@, 1, Len(@) - k), Close)]
    BY <1>4 DEF Break
  <2>2. Append(SubSeq(toLogin[d], 1, Len(toLogin[d]) - k), Close) \in Seq(Message)
    BY BrokenLink
  <2>3. toLogin' \in [Dnids -> Seq(Message)]
    BY <2>1, <2>2
  <2> QED  BY <1>4, <2>3 DEF Break
<1>5. ASSUME NEW d \in Dnids, Answer(d)
      PROVE  TypeOK'
  <2>1. /\ Head(toZone[d]) \in Query
        /\ Tail(toZone[d]) \in Seq(Query)
    BY <1>5, HeadAndTail DEF Answer
  <2>2. /\ Head(toZone[d]).bFullQuest \in BOOLEAN
        /\ (Head(toZone[d]).bFullQuest \/ faction[owner[d]] # 0) \in BOOLEAN
    BY <2>1 DEF Query
  <2>3. [type |-> "refresh", query |-> Head(toZone[d]),
         full |-> Head(toZone[d]).bFullQuest \/ faction[owner[d]] # 0] \in Message
    BY <2>1, <2>2, MessageTypes
  <2>4. toLogin' \in [Dnids -> Seq(Message)]
    BY <1>5, <2>3 DEF Answer
  <2> QED  BY <1>5, <2>1, <2>4 DEF Answer, linkVars
<1>6. ASSUME NEW d \in Dnids, HandleLogin(d)
      PROVE  TypeOK'
  <2> DEFINE z == Head(toLogin[d]).key
  <2>1. /\ Head(toLogin[d]) \in Message
        /\ Tail(toLogin[d]) \in Seq(Message)
    BY <1>6, HeadAndTail DEF HandleLogin
  <2>2. z \in Zones
    BY <1>6, <2>1, MessageFields DEF HandleLogin
  <2>3. NewServer(d, z) \in SServer
    BY <2>2 DEF NewServer, SServer
  <2>4. gameServers' \in [Dnids -> SServer \cup {NoServer}] /\ gids' \in Nat
    <3>1. CASE Existing(d, z) = {}
      <4>1. gameServers' = [gameServers EXCEPT ![d] = NewServer(d, z)] /\ gids' = gids + 1
        BY <1>6, <3>1 DEF HandleLogin
      <4> QED  BY <2>3, <4>1
    <3>2. CASE Existing(d, z) # {}
      <4>1. PICK e \in Existing(d, z) :
              gameServers' = [gameServers EXCEPT ![e].idControl = d]
        BY <1>6, <3>2 DEF HandleLogin
      <4>2. e \in Dnids /\ gameServers[e] \in SServer
        BY <4>1 DEF Existing, Entries, Registered
      <4>3. [gameServers[e] EXCEPT !.idControl = d] \in SServer
        BY <4>2 DEF SServer
      <4> QED  BY <1>6, <3>2, <4>1, <4>2, <4>3 DEF HandleLogin
    <3> QED  BY <3>1, <3>2
  <2>5. toLogin' \in [Dnids -> Seq(Message)]
    BY <1>6, <2>1 DEF HandleLogin
  <2>6. overtaken' \subseteq Zones
    <3>1. CASE OldLinks(d) = {}
      BY <1>6, <3>1 DEF HandleLogin
    <3>2. CASE OldLinks(d) # {}
      <4>1. owner[d] \in Zones
        BY <1>6 DEF HandleLogin, Owned
      <4> QED  BY <1>6, <3>2, <4>1 DEF HandleLogin
    <3> QED  BY <3>1, <3>2
  <2> QED  BY <1>6, <2>4, <2>5, <2>6 DEF HandleLogin, linkVars
<1>7. ASSUME NEW d \in Dnids, HandleClose(d)
      PROVE  TypeOK'
  <2>1. Tail(toLogin[d]) \in Seq(Message)
    BY <1>7, HeadAndTail DEF HandleClose
  <2> QED  BY <1>7, <2>1 DEF HandleClose, WithoutEntry, linkVars
<1>8. ASSUME NEW d \in Dnids, HandleRefresh(d)
      PROVE  TypeOK'
  <2>1. /\ Head(toLogin[d]) \in Message
        /\ Tail(toLogin[d]) \in Seq(Message)
    BY <1>8, HeadAndTail DEF HandleRefresh
  <2>2. \A e \in Dnids :
          Registered(e) => Refreshed(gameServers[e], Head(toLogin[d])) \in SServer
    BY <1>8, <2>1, RefreshedType DEF HandleRefresh, Registered
  <2>3. gameServers' \in [Dnids -> SServer \cup {NoServer}]
    BY <1>8, <2>2 DEF HandleRefresh, AcceptedBy
  <2> QED  BY <1>8, <2>1, <2>3 DEF HandleRefresh, linkVars
<1>9. ASSUME NEW d \in Dnids, HandleRegionEx(d)
      PROVE  TypeOK'
  <2>1. Tail(toLogin[d]) \in Seq(Message)
    BY <1>9, HeadAndTail DEF HandleRegionEx
  <2>2. Registered(d) =>
          [gameServers[d] EXCEPT !.Regions = @ \cup {"faction"}] \in SServer
    BY DEF Registered, SServer
  <2>3. gameServers' \in [Dnids -> SServer \cup {NoServer}]
    BY <1>9, <2>2 DEF HandleRegionEx
  <2> QED  BY <1>9, <2>1, <2>3 DEF HandleRegionEx, linkVars
<1>10. ASSUME RestartLogin
       PROVE  TypeOK'
  BY <1>10 DEF RestartLogin
<1>11. ASSUME QueryRefreshGameServer
       PROVE  TypeOK'
  <2>1. \A d \in Dnids : Registered(d) => QueryFor(d) \in Query
    BY DEF Registered, SServer, QueryFor, Query
  <2>2. toZone' \in [Dnids -> Seq(Query)]
    BY <1>11, <2>1 DEF QueryRefreshGameServer
  <2> QED  BY <1>11, <2>2 DEF QueryRefreshGameServer, linkVars
<1>12. CASE UNCHANGED vars
  BY <1>12 DEF vars, linkVars
<1> QED
  BY <1>1, <1>2, <1>3, <1>4, <1>5, <1>6, <1>7, <1>8, <1>9, <1>10, <1>11, <1>12
     DEF Next, Handle

(* The state of the registry has the types of ServerManager.cpp's fields.  *)
THEOREM TypeCorrect == Spec => []TypeOK
<1>1. TypeOK /\ Owned /\ [Next]_vars => (TypeOK /\ Owned)'
  BY NextTypes, NextOwned
<1> QED  BY <1>1, InitTypes, PTL DEF Spec

-----------------------------------------------------------------------------
(* An entry is added only for a server without one, and keeps its server.  *)

LEMMA InitOneEntry == Init => OneEntryPerServer
BY DEF Init, OneEntryPerServer, Registered

(* Whatever only removes entries, or changes other fields, adds none.      *)
LEMMA SameServersKeep ==
  ASSUME OneEntryPerServer,
         \A d \in Dnids : Registered(d)' =>
           Registered(d) /\ gameServers'[d].ID = gameServers[d].ID
  PROVE  OneEntryPerServer'
BY DEF OneEntryPerServer, Registered

LEMMA LoginKeepsOneEntry ==
  ASSUME TypeOK, OneEntryPerServer, NEW d \in Dnids, HandleLogin(d)
  PROVE  OneEntryPerServer'
<1> DEFINE z == Head(toLogin[d]).key
<1>1. CASE Existing(d, z) = {}
  <2>1. gameServers' = [gameServers EXCEPT ![d] = NewServer(d, z)]
    BY <1>1 DEF HandleLogin
  <2>2. \A e \in Dnids : Registered(e) => gameServers[e].ID # z
    BY <1>1 DEF Existing, Entries
  <2>3. /\ gameServers'[d].ID = z
        /\ \A e \in Dnids \ {d} : gameServers'[e] = gameServers[e]
    BY <2>1 DEF TypeOK, NewServer
  <2> QED  BY <2>2, <2>3 DEF OneEntryPerServer, Registered
<1>2. CASE Existing(d, z) # {}
  <2>1. PICK e \in Existing(d, z) :
          gameServers' = [gameServers EXCEPT ![e].idControl = d]
    BY <1>2 DEF HandleLogin
  <2>2. e \in Dnids /\ Registered(e) /\ gameServers[e] \in SServer
    BY <2>1 DEF Existing, Entries, Registered, TypeOK
  <2>3. gameServers'[e].ID = gameServers[e].ID
    BY <2>1, <2>2 DEF TypeOK, SServer
  <2>4. \A c \in Dnids \ {e} : gameServers'[c] = gameServers[c]
    BY <2>1 DEF TypeOK
  <2> QED  BY <2>2, <2>3, <2>4, SameServersKeep DEF Registered
<1> QED  BY <1>1, <1>2

LEMMA NextOneEntry ==
  ASSUME TypeOK, OneEntryPerServer, [Next]_vars
  PROVE  OneEntryPerServer'
<1>1. ASSUME UNCHANGED gameServers
      PROVE  OneEntryPerServer'
  BY <1>1, SameServersKeep DEF Registered
<1>2. ASSUME RestartLogin
      PROVE  OneEntryPerServer'
  BY <1>2 DEF RestartLogin, OneEntryPerServer, Registered
<1>3. ASSUME NEW d \in Dnids, HandleClose(d)
      PROVE  OneEntryPerServer'
  <2>1. \A e \in Dnids : gameServers'[e] = IF e = d THEN NoServer ELSE gameServers[e]
    BY <1>3 DEF HandleClose, WithoutEntry, TypeOK
  <2> QED  BY <2>1, SameServersKeep DEF Registered
<1>4. ASSUME NEW d \in Dnids, HandleRefresh(d)
      PROVE  OneEntryPerServer'
  <2> DEFINE m == Head(toLogin[d])
  <2>1. m \in Message /\ m.type = "refresh"
    BY <1>4, HeadAndTail DEF HandleRefresh, TypeOK
  <2>2. \A e \in Dnids : gameServers'[e] = IF AcceptedBy(e, m.query)
                                           THEN Refreshed(gameServers[e], m)
                                           ELSE gameServers[e]
    BY <1>4 DEF HandleRefresh
  <2>3. \A e \in Dnids :
          Registered(e) => Refreshed(gameServers[e], m).ID = gameServers[e].ID
    BY <2>1, RefreshedType DEF Registered, TypeOK
  <2>4. \A e \in Dnids : Registered(e)' =>
          Registered(e) /\ gameServers'[e].ID = gameServers[e].ID
    BY <2>2, <2>3 DEF AcceptedBy, Registered
  <2> QED  BY <2>4, SameServersKeep
<1>5. ASSUME NEW d \in Dnids, HandleRegionEx(d)
      PROVE  OneEntryPerServer'
  <2>1. CASE ~Registered(d)
    BY <1>1, <1>5, <2>1 DEF HandleRegionEx
  <2>2. CASE Registered(d)
    <3>1. gameServers' = [gameServers EXCEPT ![d].Regions = @ \cup {"faction"}]
      BY <1>5, <2>2 DEF HandleRegionEx
    <3>2. gameServers'[d].ID = gameServers[d].ID
      BY <2>2, <3>1 DEF TypeOK, SServer, Registered
    <3>3. \A e \in Dnids \ {d} : gameServers'[e] = gameServers[e]
      BY <3>1 DEF TypeOK
    <3> QED  BY <2>2, <3>2, <3>3, SameServersKeep DEF Registered
  <2> QED  BY <2>1, <2>2
<1> QED
  BY <1>1, <1>2, <1>3, <1>4, <1>5, LoginKeepsOneEntry
     DEF Next, Handle, Connect, RestartZone, CreateRegion, Break, Answer,
         QueryRefreshGameServer, vars

(* OnServerLogin looks for the server before it adds an entry: no zone     *)
(* server is ever registered twice, whatever is lost, restarted or late.   *)
THEOREM RegisteredOnce == Spec => []OneEntryPerServer
<1>1. TypeOK /\ OneEntryPerServer /\ [Next]_vars => OneEntryPerServer'
  BY NextOneEntry
<1> QED  BY <1>1, InitOneEntry, TypeCorrect, PTL DEF Spec
-----------------------------------------------------------------------------
(* Links and entries.  What arrives by a link is at most a login, then     *)
(* other messages, and, once the link is down, its end.                    *)
InOrder(q, z, isUp, registered) ==
  /\ \A i \in 1..Len(q) :
       /\ q[i].type = "login" => i = 1 /\ q[i].key = z /\ ~registered
       /\ q[i].type = "close" => i = Len(q) /\ ~isUp
  /\ ~isUp /\ q # <<>> => q[Len(q)].type = "close"

Fresh(d) ==
  /\ d > links => /\ owner[d] = NoZone /\ ~up[d] /\ ~Registered(d)
                  /\ toLogin[d] = <<>> /\ toZone[d] = <<>>
  /\ d <= links => owner[d] \in Zones

(* The link of a zone server that is up is its last one.                   *)
Newest(d) ==
  /\ up[d] => \A e \in Dnids : owner[e] = owner[d] => e <= d
  /\ toZone[d] # <<>> => up[d]

Ordered(d) == InOrder(toLogin[d], owner[d], up[d], Registered(d))

(* An entry is its link's, and goes with the end of the link.              *)
Belongs(d) ==
  Registered(d) => gameServers[d].ID = owner[d] /\ (up[d] \/ toLogin[d] # <<>>)

HasLogin(q) == \E i \in 1..Len(q) : q[i].type = "login"

(* Without overtaking, an entry is bound to its own link, nothing is left  *)
(* of the older ones, and a link that is up has its entry or its login.    *)
Current(d) ==
  owner[d] \notin overtaken =>
    /\ Registered(d) => gameServers[d].idControl = d /\ OldLinks(d) = {}
    /\ up[d] /\ ~Registered(d) => HasLogin(toLogin[d])

LinkInv(d) == Fresh(d) /\ Newest(d) /\ Ordered(d) /\ Belongs(d) /\ Current(d)

LinksInv == \A d \in Dnids : LinkInv(d)

LEMMA InitLinks == Init => LinksInv
BY ZoneAssumption
   DEF Init, LinksInv, LinkInv, Fresh, Newest, Ordered, InOrder, Belongs, Current,
       Registered, Dnids

(* Taking the first message, or adding one at the end.                     *)
LEMMA TailInOrder ==
  ASSUME NEW q \in Seq(Message), q # <<>>, NEW z, NEW isUp \in BOOLEAN,
         NEW r \in BOOLEAN, NEW s \in BOOLEAN, InOrder(q, z, isUp, r)
  PROVE  /\ InOrder(Tail(q), z, isUp, s)
         /\ Head(q).type # "login" => (HasLogin(q) <=> HasLogin(Tail(q)))
         /\ ~HasLogin(Tail(q))
         /\ ~isUp /\ Head(q).type # "close" => Tail(q) # <<>>
         /\ Head(q).type = "close" => ~isUp /\ Tail(q) = <<>>
<1>1. /\ Len(Tail(q)) = Len(q) - 1 /\ Len(q) \in Nat \ {0} /\ Head(q) = q[1]
      /\ \A i \in 1..Len(Tail(q)) : Tail(q)[i] = q[i + 1]
      /\ Tail(q) \in Seq(Message)
  OBVIOUS
<1>2. \A i \in 1..Len(Tail(q)) : i + 1 \in 1..Len(q) /\ i + 1 # 1
  BY <1>1
<1>3. \A i \in 1..Len(Tail(q)) : Tail(q)[i].type # "login"
  BY <1>1, <1>2 DEF InOrder
<1>4. Tail(q) = <<>> <=> Len(q) = 1
  BY <1>1
<1>5. InOrder(Tail(q), z, isUp, s)
  <2>1. ASSUME NEW i \in 1..Len(Tail(q)), Tail(q)[i].type = "close"
        PROVE  i = Len(Tail(q)) /\ ~isUp
    <3>1. i + 1 \in 1..Len(q) /\ q[i + 1].type = "close"
      BY <1>1, <1>2, <2>1
    <3>2. i + 1 = Len(q) /\ ~isUp
      BY <3>1 DEF InOrder
    <3>3. Len(Tail(q)) = Len(q) - 1 /\ Len(q) \in Nat /\ i \in Nat
      BY <1>1
    <3> QED  BY <3>2, <3>3
  <2>2. ASSUME ~isUp, Tail(q) # <<>>
        PROVE  Tail(q)[Len(Tail(q))].type = "close"
    <3>1. Len(Tail(q)) \in 1..Len(Tail(q)) /\ Len(Tail(q)) + 1 = Len(q)
      BY <1>1, <1>4, <2>2
    <3>2. Tail(q)[Len(Tail(q))] = q[Len(q)]
      BY <1>1, <3>1
    <3> QED  BY <2>2, <3>2 DEF InOrder
  <2> QED  BY <1>3, <2>1, <2>2 DEF InOrder
<1>6. ~HasLogin(Tail(q))
  BY <1>3 DEF HasLogin
<1>7. Head(q).type # "login" => ~HasLogin(q)
  BY <1>1 DEF HasLogin, InOrder
<1>8. ~isUp /\ Head(q).type # "close" => Tail(q) # <<>>
  BY <1>1, <1>4 DEF InOrder
<1>9. Head(q).type = "close" => ~isUp /\ Tail(q) = <<>>
  <2>1. 1 \in 1..Len(q)
    BY <1>1
  <2> QED  BY <1>1, <1>4, <2>1 DEF InOrder
<1> QED  BY <1>5, <1>6, <1>7, <1>8, <1>9

LEMMA AppendInOrder ==
  ASSUME NEW q \in Seq(Message), NEW m \in Message, m.type \notin {"login", "close"},
         NEW z, NEW r \in BOOLEAN, InOrder(q, z, TRUE, r)
  PROVE  /\ InOrder(Append(q, m), z, TRUE, r)
         /\ HasLogin(q) => HasLogin(Append(q, m))
<1>1. /\ Len(Append(q, m)) = Len(q) + 1 /\ Append(q, m)[Len(q) + 1] = m
      /\ \A i \in 1..Len(q) : Append(q, m)[i] = q[i]
      /\ Len(q) \in Nat
  OBVIOUS
<1> QED  BY <1>1 DEF InOrder, HasLogin

LEMMA BreakInOrder ==
  ASSUME NEW q \in Seq(Message), NEW k \in 0..Len(q), NEW z, NEW r \in BOOLEAN,
         InOrder(q, z, TRUE, r)
  PROVE  /\ InOrder(Append(SubSeq(q, 1, Len(q) - k), Close), z, FALSE, r)
         /\ Append(SubSeq(q, 1, Len(q) - k), Close) # <<>>
<1> DEFINE p == SubSeq(q, 1, Len(q) - k)
<1>1. /\ p \in Seq(Message) /\ Len(p) = Len(q) - k
      /\ Len(p) \in Nat /\ Len(p) <= Len(q)
      /\ \A i \in 1..Len(p) : p[i] = q[i]
  OBVIOUS
<1>2. Close \in Message /\ Close.type = "close"
  BY MessageTypes DEF Close
<1> HIDE DEF p
<1>3. /\ Len(Append(p, Close)) = Len(p) + 1 /\ Append(p, Close)[Len(p) + 1] = Close
      /\ \A i \in 1..Len(p) : Append(p, Close)[i] = p[i]
  BY <1>1, <1>2
<1>4. \A i \in 1..Len(p) :
        /\ Append(p, Close)[i].type = "login" => i = 1 /\ Append(p, Close)[i].key = z /\ ~r
        /\ Append(p, Close)[i].type # "close"
  BY <1>1, <1>3 DEF InOrder
<1>5. InOrder(Append(p, Close), z, FALSE, r)
  <2> DEFINE n == Len(p)
  <2>1. n \in Nat /\ Len(Append(p, Close)) = n + 1
    BY <1>1, <1>3
  <2> HIDE DEF n
  <2>2. \A i \in 1..(n + 1) : i \in 1..n \/ i = n + 1
    BY <2>1
  <2>3. \A i \in 1..Len(Append(p, Close)) : i \in 1..Len(p) \/ i = Len(p) + 1
    BY <2>1, <2>2 DEF n
  <2>4. Close.type # "login"
    BY DEF Close
  <2> QED  BY <1>1, <1>2, <1>3, <1>4, <2>3, <2>4 DEF InOrder
<1>6. Append(p, Close) # <<>>
  BY <1>1, <1>2
<1> QED  BY <1>5, <1>6 DEF p

-----------------------------------------------------------------------------
(* The steps.  Only HandleLogin needs an argument of its own.              *)

LEMMA ConnectKeepsLinks ==
  ASSUME TypeOK, LinksInv, NEW z \in Zones, Connect(z)
  PROVE  LinksInv'
<1>1. PICK d \in Dnids : /\ d = links + 1 /\ d > links /\ links \in Nat
                         /\ links' = d /\ \A x \in Dnids : x \in Nat
  BY ZoneAssumption DEF Connect, TypeOK, Dnids
<1>2. /\ owner' = [owner EXCEPT ![d] = z] /\ up' = [up EXCEPT ![d] = TRUE]
      /\ toLogin' = [toLogin EXCEPT ![d] = <<Login(z)>>]
      /\ UNCHANGED <<toZone, gameServers, overtaken>>
  BY <1>1 DEF Connect
<1>3. Fresh(d) /\ z # NoZone
  BY <1>1, ZoneAssumption DEF LinksInv, LinkInv
<1>4. ASSUME NEW x \in Dnids \ {d}
      PROVE  LinkInv(x)'
  <2>1. /\ owner'[x] = owner[x] /\ up'[x] = up[x] /\ toLogin'[x] = toLogin[x]
        /\ toZone'[x] = toZone[x] /\ gameServers'[x] = gameServers[x]
    BY <1>2 DEF TypeOK
  <2>2. LinkInv(x) /\ x \in Nat /\ (x <= links \/ x > d) /\ (x > links' => x > links)
        /\ (x <= links' => x <= links)
    BY <1>1 DEF LinksInv
  <2>3. Fresh(x)' /\ Ordered(x)' /\ Belongs(x)'
    BY <1>1, <2>1, <2>2 DEF LinkInv, Fresh, Ordered, Belongs, Registered
  <2>4. Newest(x)'
    <3>1. up[x] => owner[x] # z
      BY DEF Connect, Connected
    <3>2. up[x] => \A e \in Dnids : owner'[e] = owner[x] => owner[e] = owner[x]
      BY <1>2, <3>1 DEF TypeOK
    <3> QED  BY <2>1, <2>2, <3>2 DEF LinkInv, Newest
  <2>5. Current(x)'
    <3>1. Registered(x) => OldLinks(x)' \subseteq OldLinks(x)
      <4>1. Registered(x) => ~(d < x)
        BY <1>1, <2>2 DEF LinkInv, Fresh
      <4>2. \A e \in Dnids \ {d} : toLogin'[e] = toLogin[e] /\ owner'[e] = owner[e]
        BY <1>2 DEF TypeOK
      <4> QED  BY <2>1, <4>1, <4>2 DEF OldLinks
    <3> QED  BY <1>2, <2>1, <2>2, <3>1 DEF LinkInv, Current, Registered
  <2> QED  BY <2>3, <2>4, <2>5 DEF LinkInv
<1>5. LinkInv(d)'
  <2>1. /\ owner'[d] = z /\ up'[d] /\ toLogin'[d] = <<Login(z)>>
        /\ toZone'[d] = <<>> /\ ~Registered(d)'
    BY <1>1, <1>2, <1>3 DEF TypeOK, Fresh, Registered
  <2>2. Fresh(d)' /\ Belongs(d)'
    BY <1>1, <2>1 DEF Fresh, Belongs
  <2>3. Newest(d)'
    <3>1. \A e \in Dnids : owner'[e] = z => e <= d
      <4> SUFFICES ASSUME NEW e \in Dnids, owner'[e] = z, e # d
                   PROVE  e <= d
        BY <1>1
      <4>1. owner[e] = z
        BY <1>2 DEF TypeOK
      <4>2. Fresh(e) /\ e \in Nat
        BY <1>1 DEF LinksInv, LinkInv
      <4> QED  BY <1>1, <1>3, <4>1, <4>2 DEF Fresh
    <3> QED  BY <2>1, <3>1 DEF Newest
  <2>4. /\ Len(<<Login(z)>>) = 1
        /\ <<Login(z)>>[1].type = "login" /\ <<Login(z)>>[1].key = z
    BY DEF Login
  <2>5. Ordered(d)'
    BY <2>1, <2>4 DEF Ordered, InOrder
  <2>6. Current(d)'
    BY <2>1, <2>4 DEF Current, HasLogin
  <2> QED  BY <2>2, <2>3, <2>5, <2>6 DEF LinkInv
<1> QED  BY <1>4, <1>5 DEF LinksInv

(* A message other than a login or the end, by a link that is up.          *)
LEMMA AppendKeepsLinks ==
  ASSUME TypeOK, LinksInv, NEW d \in Dnids, up[d], NEW m \in Message,
         m.type \notin {"login", "close"},
         toLogin' = [toLogin EXCEPT ![d] = Append(@, m)],
         \A x \in Dnids : toZone'[x] # <<>> => toZone[x] # <<>>,
         UNCHANGED <<links, owner, up, gameServers, overtaken>>
  PROVE  LinksInv'
<1> SUFFICES ASSUME NEW x \in Dnids
             PROVE  LinkInv(x)'
  BY DEF LinksInv
<1>1. LinkInv(x) /\ LinkInv(d) /\ Registered(x)' = Registered(x)
  BY DEF LinksInv, Registered
<1>2. \A e \in Dnids \ {d} : toLogin'[e] = toLogin[e]
  BY DEF TypeOK
<1>3. /\ toLogin'[d] = Append(toLogin[d], m) /\ toLogin[d] \in Seq(Message)
      /\ InOrder(toLogin'[d], owner[d], TRUE, Registered(d))
      /\ HasLogin(toLogin[d]) => HasLogin(toLogin'[d])
      /\ toLogin'[d] # <<>>
  <2>1. /\ toLogin'[d] = Append(toLogin[d], m) /\ toLogin[d] \in Seq(Message)
    BY DEF TypeOK
  <2>2. InOrder(toLogin[d], owner[d], TRUE, Registered(d)) /\ Registered(d) \in BOOLEAN
    BY <1>1 DEF LinkInv, Ordered, Registered, TypeOK
  <2>3. Append(toLogin[d], m) # <<>>
    BY <2>1
  <2> QED  BY <2>1, <2>2, <2>3, AppendInOrder
<1>4. Fresh(x)' /\ Newest(x)'
  BY <1>1, <1>2 DEF LinkInv, Fresh, Newest
<1>5. Ordered(x)' /\ Belongs(x)'
  BY <1>1, <1>2, <1>3 DEF LinkInv, Ordered, Belongs, TypeOK
<1>6. Current(x)'
  <2>1. ASSUME NEW e \in OldLinks(x)'
        PROVE  e \in OldLinks(x)
    <3>1. e # d
      BY <1>1, <2>1 DEF OldLinks, LinkInv, Newest, Dnids
    <3> QED  BY <1>2, <2>1, <3>1 DEF OldLinks
  <2>2. HasLogin(toLogin[x]) => HasLogin(toLogin[x])'
    BY <1>2, <1>3
  <2> QED  BY <1>1, <2>1, <2>2 DEF LinkInv, Current
<1> QED  BY <1>4, <1>5, <1>6 DEF LinkInv

LEMMA BreakKeepsLinks ==
  ASSUME TypeOK, LinksInv, NEW d \in Dnids, Break(d)
  PROVE  LinksInv'
<1> SUFFICES ASSUME NEW x \in Dnids
             PROVE  LinkInv(x)'
  BY DEF LinksInv
<1>1. /\ LinkInv(x) /\ LinkInv(d) /\ Registered(x)' = Registered(x)
      /\ Registered(d)' = Registered(d) /\ up[d]
      /\ UNCHANGED <<links, owner, gameServers, overtaken>>
  BY DEF LinksInv, Registered, Break
<1>2. /\ \A e \in Dnids \ {d} :
            toLogin'[e] = toLogin[e] /\ up'[e] = up[e] /\ toZone'[e] = toZone[e]
      /\ up'[d] = FALSE /\ toZone'[d] = <<>>
  BY DEF Break, TypeOK
<1>3. InOrder(toLogin'[d], owner[d], FALSE, Registered(d)) /\ toLogin'[d] # <<>>
  <2>1. PICK k \in 0..Len(toLogin[d]) :
          toLogin' = [toLogin EXCEPT ![d] = Append(SubSeq(@, 1, Len(@) - k), Close)]
    BY DEF Break
  <2>2. /\ toLogin[d] \in Seq(Message) /\ Registered(d) \in BOOLEAN
        /\ InOrder(toLogin[d], owner[d], TRUE, Registered(d))
        /\ toLogin'[d] = Append(SubSeq(toLogin[d], 1, Len(toLogin[d]) - k), Close)
    BY <1>1, <2>1 DEF LinkInv, Ordered, Registered, TypeOK
  <2> QED  BY <2>2, BreakInOrder
<1>4. Fresh(x)' /\ Newest(x)'
  BY <1>1, <1>2 DEF LinkInv, Fresh, Newest
<1>5. Ordered(x)' /\ Belongs(x)'
  BY <1>1, <1>2, <1>3 DEF LinkInv, Ordered, Belongs, TypeOK
<1>6. Current(x)'
  <2>1. ASSUME NEW e \in OldLinks(x)'
        PROVE  e \in OldLinks(x)
    <3>1. e # d
      BY <1>1, <2>1 DEF OldLinks, LinkInv, Newest, Dnids
    <3> QED  BY <1>1, <1>2, <2>1, <3>1 DEF OldLinks
  <2> QED  BY <1>1, <1>2, <2>1 DEF LinkInv, Current
<1> QED  BY <1>4, <1>5, <1>6 DEF LinkInv

LEMMA RestartKeepsLinks ==
  ASSUME TypeOK, LinksInv, RestartLogin
  PROVE  LinksInv'
<1> SUFFICES ASSUME NEW x \in Dnids
             PROVE  LinkInv(x)'
  BY DEF LinksInv
<1>1. /\ LinkInv(x) /\ ~Registered(x)' /\ ~up'[x]
      /\ toLogin'[x] = <<>> /\ toZone'[x] = <<>>
      /\ UNCHANGED <<links, owner>>
  BY DEF LinksInv, Registered, RestartLogin
<1> QED
  BY <1>1 DEF LinkInv, Fresh, Newest, Ordered, InOrder, Belongs, Current

LEMMA QueryKeepsLinks ==
  ASSUME TypeOK, LinksInv, QueryRefreshGameServer
  PROVE  LinksInv'
<1> SUFFICES ASSUME NEW x \in Dnids
             PROVE  LinkInv(x)'
  BY DEF LinksInv
<1>1. /\ LinkInv(x) /\ Registered(x)' = Registered(x)
      /\ UNCHANGED <<links, owner, up, toLogin, gameServers, overtaken>>
  BY DEF LinksInv, Registered, QueryRefreshGameServer, linkVars
<1>2. toZone'[x] = toZone[x] \/ up[x]
  BY DEF QueryRefreshGameServer
<1>3. OldLinks(x)' = OldLinks(x)
  BY <1>1 DEF OldLinks
<1> QED
  BY <1>1, <1>2, <1>3 DEF LinkInv, Fresh, Newest, Ordered, Belongs, Current

(* Taking a message from a link; the entries of other links keep what they *)
(* are, that of the link itself may come or go.                            *)
LEMMA TakeKeepsOthers ==
  ASSUME TypeOK, LinksInv, NEW d \in Dnids, toLogin[d] # <<>>,
         toLogin' = [toLogin EXCEPT ![d] = Tail(@)],
         UNCHANGED <<links, owner, up, toZone>>, overtaken \subseteq overtaken',
         NEW x \in Dnids, Registered(x)' = Registered(x),
         Registered(x) => /\ gameServers'[x].ID = gameServers[x].ID
                          /\ \/ owner[x] \in overtaken'
                             \/ gameServers'[x].idControl = gameServers[x].idControl,
         x = d => Head(toLogin[d]).type \notin {"login", "close"}
  PROVE  LinkInv(x)'
<1>1. /\ LinkInv(x) /\ toLogin[d] \in Seq(Message)
      /\ toLogin'[d] = Tail(toLogin[d]) /\ up[d] \in BOOLEAN
      /\ \A e \in Dnids \ {d} : toLogin'[e] = toLogin[e]
      /\ Registered(x) \in BOOLEAN
  BY DEF LinksInv, TypeOK, Registered
<1>2. x = d =>
        /\ InOrder(toLogin'[x], owner[x], up[x], Registered(x))
        /\ HasLogin(toLogin[x]) => HasLogin(toLogin'[x])
        /\ ~up[x] => toLogin'[x] # <<>>
  <2> SUFFICES ASSUME x = d
               PROVE  /\ InOrder(Tail(toLogin[d]), owner[d], up[d], Registered(d))
                      /\ HasLogin(toLogin[d]) => HasLogin(Tail(toLogin[d]))
                      /\ ~up[d] => Tail(toLogin[d]) # <<>>
    BY <1>1
  <2>1. InOrder(toLogin[d], owner[d], up[d], Registered(d))
    BY <1>1 DEF LinkInv, Ordered
  <2> QED  BY <1>1, <2>1, TailInOrder
<1>3. Fresh(x)' /\ Newest(x)'
  BY <1>1 DEF LinkInv, Fresh, Newest
<1>4. Ordered(x)' /\ Belongs(x)'
  BY <1>1, <1>2 DEF LinkInv, Ordered, Belongs
<1>5. Current(x)'
  <2>1. OldLinks(x)' \subseteq OldLinks(x)
    BY <1>1 DEF OldLinks
  <2>2. HasLogin(toLogin[x]) => HasLogin(toLogin[x])'
    BY <1>1, <1>2
  <2> QED  BY <1>1, <2>1, <2>2 DEF LinkInv, Current
<1> QED  BY <1>3, <1>4, <1>5 DEF LinkInv

LEMMA CloseKeepsLinks ==
  ASSUME TypeOK, LinksInv, NEW d \in Dnids, HandleClose(d)
  PROVE  LinksInv'
<1>1. /\ toLogin[d] # <<>> /\ Head(toLogin[d]).type = "close"
      /\ toLogin' = [toLogin EXCEPT ![d] = Tail(@)]
      /\ UNCHANGED <<links, owner, up, toZone, overtaken>>
      /\ \A x \in Dnids \ {d} : gameServers'[x] = gameServers[x]
      /\ gameServers'[d] = NoServer
  BY DEF HandleClose, WithoutEntry, linkVars, TypeOK
<1>2. ASSUME NEW x \in Dnids \ {d}
      PROVE  LinkInv(x)'
  BY <1>1, TakeKeepsOthers DEF Registered
<1>3. LinkInv(d)'
  <2>1. InOrder(toLogin[d], owner[d], up[d], Registered(d)) /\ LinkInv(d)
    BY DEF LinksInv, LinkInv, Ordered
  <2>2. /\ toLogin[d] \in Seq(Message) /\ up[d] \in BOOLEAN /\ Registered(d) \in BOOLEAN
        /\ toLogin'[d] = Tail(toLogin[d]) /\ ~Registered(d)'
    BY <1>1 DEF TypeOK, Registered
  <2>3. ~up[d] /\ toLogin'[d] = <<>>
    BY <1>1, <2>1, <2>2, TailInOrder
  <2> QED
    BY <1>1, <2>1, <2>2, <2>3
       DEF LinkInv, Fresh, Newest, Ordered, InOrder, Belongs, Current
<1> QED  BY <1>2, <1>3 DEF LinksInv

(* A refreshed entry keeps its server, its link and its number.            *)
LEMMA RefreshKeepsEntries ==
  ASSUME TypeOK, NEW d \in Dnids, HandleRefresh(d) \/ HandleRegionEx(d),
         NEW x \in Dnids
  PROVE  /\ Registered(x)' = Registered(x)
         /\ Registered(x) => /\ gameServers'[x].ID = gameServers[x].ID
                             /\ gameServers'[x].idControl = gameServers[x].idControl
                             /\ gameServers'[x].gid = gameServers[x].gid
<1>1. CASE HandleRefresh(d)
  <2> DEFINE m == Head(toLogin[d])
  <2>1. m \in Message /\ m.type = "refresh"
    BY <1>1, HeadAndTail DEF HandleRefresh, TypeOK
  <2>2. gameServers'[x] = IF AcceptedBy(x, m.query) THEN Refreshed(gameServers[x], m)
                                                   ELSE gameServers[x]
    BY <1>1 DEF HandleRefresh
  <2>3. Registered(x) =>
          /\ Refreshed(gameServers[x], m) \in SServer
          /\ Refreshed(gameServers[x], m).ID = gameServers[x].ID
          /\ Refreshed(gameServers[x], m).idControl = gameServers[x].idControl
          /\ Refreshed(gameServers[x], m).gid = gameServers[x].gid
    BY <2>1, RefreshedType DEF Registered, TypeOK
  <2> QED  BY <2>2, <2>3, NoServerAssumption DEF AcceptedBy, Registered
<1>2. CASE HandleRegionEx(d)
  <2>1. CASE ~(x = d /\ Registered(d))
    <3>1. gameServers'[x] = gameServers[x]
      BY <1>2, <2>1 DEF HandleRegionEx, TypeOK
    <3> QED  BY <3>1 DEF Registered
  <2>2. CASE x = d /\ Registered(d)
    <3>1. gameServers[d] \in SServer
      BY <2>2 DEF Registered, TypeOK
    <3>2. gameServers'[x] = [gameServers[d] EXCEPT !.Regions = @ \cup {"faction"}]
      BY <1>2, <2>2 DEF HandleRegionEx, TypeOK
    <3>3. /\ gameServers'[x] \in SServer
          /\ gameServers'[x].ID = gameServers[x].ID
          /\ gameServers'[x].idControl = gameServers[x].idControl
          /\ gameServers'[x].gid = gameServers[x].gid
      BY <2>2, <3>1, <3>2 DEF SServer
    <3> QED  BY <2>2, <3>3, NoServerAssumption DEF Registered
  <2> QED  BY <2>1, <2>2
<1> QED  BY <1>1, <1>2

LEMMA RefreshKeepsLinks ==
  ASSUME TypeOK, LinksInv, NEW d \in Dnids, HandleRefresh(d) \/ HandleRegionEx(d)
  PROVE  LinksInv'
<1>1. /\ toLogin[d] # <<>> /\ Head(toLogin[d]).type \notin {"login", "close"}
      /\ toLogin' = [toLogin EXCEPT ![d] = Tail(@)]
      /\ UNCHANGED <<links, owner, up, toZone, overtaken>>
  BY DEF HandleRefresh, HandleRegionEx, linkVars
<1> QED  BY <1>1, RefreshKeepsEntries, TakeKeepsOthers DEF LinksInv

(* The new entry of a server that is not registered.                       *)
EntryAdded(d) ==
  /\ Registered(d)' /\ gameServers'[d].ID = owner[d] /\ gameServers'[d].idControl = d
  /\ gameServers'[d].Regions = {}
  /\ \A x \in Dnids \ {d} : gameServers'[x] = gameServers[x]

(* The entry of a registered server, at another link, is bound to d.       *)
EntryBound(d) ==
  /\ owner[d] \in overtaken'
  /\ \A x \in Dnids :
       /\ Registered(x)' = Registered(x)
       /\ Registered(x) => gameServers'[x].ID = gameServers[x].ID
       /\ owner[x] = owner[d] \/ gameServers'[x] = gameServers[x]

(* A login that finds an entry of an older link is one that overtook the   *)
(* end of that link; the entry of a younger link was made by such a login. *)
LEMMA LoginEffect ==
  ASSUME TypeOK, LinksInv, NEW d \in Dnids, HandleLogin(d)
  PROVE  ~Registered(d) /\ (EntryAdded(d) \/ EntryBound(d))
<1>1. /\ toLogin[d] # <<>> /\ Head(toLogin[d]).type = "login"
      /\ overtaken' = IF OldLinks(d) = {} THEN overtaken ELSE overtaken \cup {owner[d]}
  BY DEF HandleLogin
<1>2. /\ LinkInv(d) /\ toLogin[d] \in Seq(Message)
      /\ \A x \in Dnids : x \in Nat
  BY DEF LinksInv, TypeOK, Dnids
<1>3. Head(toLogin[d]).key = owner[d] /\ ~Registered(d)
  <2>1. 1 \in 1..Len(toLogin[d]) /\ Head(toLogin[d]) = toLogin[d][1]
    BY <1>1, <1>2
  <2> QED  BY <1>1, <1>2, <2>1 DEF LinkInv, Ordered, InOrder
<1>4. CASE Existing(d, owner[d]) = {}
  <2>1. owner[d] \in Zones
    BY <1>1, <1>2, ZoneAssumption DEF LinkInv, Fresh, TypeOK, Dnids
  <2>2. gameServers' = [gameServers EXCEPT ![d] = NewServer(d, owner[d])]
    BY <1>3, <1>4 DEF HandleLogin
  <2>3. NewServer(d, owner[d]) \in SServer
    BY <2>1 DEF NewServer, SServer, TypeOK
  <2>4. EntryAdded(d)
    BY <2>2, <2>3, NoServerAssumption DEF TypeOK, NewServer, Registered, EntryAdded
  <2> QED  BY <1>3, <2>4
<1>5. CASE Existing(d, owner[d]) # {}
  <2>1. PICK e \in Existing(d, owner[d]) :
          gameServers' = [gameServers EXCEPT ![e].idControl = d]
    BY <1>3, <1>5 DEF HandleLogin
  <2>2. e \in Dnids \ {d} /\ Registered(e) /\ gameServers[e] \in SServer
    BY <1>3, <2>1 DEF Existing, Entries, Registered, TypeOK
  <2>3. owner[e] = owner[d] /\ (up[e] \/ toLogin[e] # <<>>)
    BY <2>1, <2>2 DEF Existing, Entries, LinksInv, LinkInv, Belongs
  <2>4. owner[d] \in overtaken'
    <3>1. CASE e < d
      <4>1. e \in OldLinks(d)
        BY <1>2, <2>2, <2>3, <3>1 DEF OldLinks, LinksInv, LinkInv, Newest
      <4> QED  BY <1>1, <4>1
    <3>2. CASE d < e
      <4>1. d \in OldLinks(e)
        BY <1>1, <2>3, <3>2 DEF OldLinks
      <4>2. owner[e] \in overtaken
        BY <2>2, <4>1 DEF LinksInv, LinkInv, Current
      <4> QED  BY <1>1, <2>3, <4>2
    <3> QED  BY <1>2, <2>2, <3>1, <3>2
  <2>5. Registered(e)' /\ gameServers'[e].ID = gameServers[e].ID
    <3>1. gameServers'[e] = [gameServers[e] EXCEPT !.idControl = d]
      BY <2>1, <2>2 DEF TypeOK
    <3>2. gameServers'[e] \in SServer /\ gameServers'[e].ID = gameServers[e].ID
      BY <2>2, <3>1 DEF SServer
    <3> QED  BY <3>2, NoServerAssumption DEF Registered
  <2>6. \A x \in Dnids \ {e} : gameServers'[x] = gameServers[x]
    BY <2>1 DEF TypeOK
  <2> QED  BY <1>3, <2>2, <2>3, <2>4, <2>5, <2>6 DEF EntryBound, Registered
<1> QED  BY <1>4, <1>5

LEMMA LoginKeepsLinks ==
  ASSUME TypeOK, LinksInv, NEW d \in Dnids, HandleLogin(d)
  PROVE  LinksInv'
<1>1. /\ toLogin[d] # <<>> /\ Head(toLogin[d]).type = "login"
      /\ toLogin' = [toLogin EXCEPT ![d] = Tail(@)]
      /\ UNCHANGED <<links, owner, up, toZone>>
      /\ overtaken' = IF OldLinks(d) = {} THEN overtaken ELSE overtaken \cup {owner[d]}
  BY DEF HandleLogin, linkVars
<1>2. /\ LinkInv(d) /\ toLogin[d] \in Seq(Message) /\ up[d] \in BOOLEAN
      /\ Registered(d) \in BOOLEAN /\ toLogin'[d] = Tail(toLogin[d])
      /\ overtaken \subseteq overtaken'
  BY <1>1 DEF LinksInv, TypeOK, Registered
<1>3. ~Registered(d) /\ (EntryAdded(d) \/ EntryBound(d))
  BY LoginEffect
<1>4. /\ \A r \in BOOLEAN : InOrder(toLogin'[d], owner[d], up[d], r)
      /\ ~up[d] => toLogin'[d] # <<>>
  BY <1>1, <1>2, TailInOrder DEF LinkInv, Ordered
<1>5. ASSUME NEW x \in Dnids \ {d}
      PROVE  LinkInv(x)'
  <2>1. /\ Registered(x)' = Registered(x)
        /\ Registered(x) => /\ gameServers'[x].ID = gameServers[x].ID
                            /\ \/ owner[x] \in overtaken'
                               \/ gameServers'[x].idControl = gameServers[x].idControl
    <3>1. CASE EntryAdded(d)
      BY <1>5, <3>1 DEF EntryAdded, Registered
    <3>2. CASE EntryBound(d)
      BY <3>2 DEF EntryBound
    <3> QED  BY <1>3, <3>1, <3>2
  <2> QED  BY <1>1, <1>2, <1>5, <2>1, TakeKeepsOthers
<1>6. LinkInv(d)'
  <2>1. Newest(d)'
    BY <1>1, <1>2 DEF LinkInv, Newest
  <2>2. Fresh(d)' /\ Ordered(d)'
    BY <1>1, <1>2, <1>4 DEF LinkInv, Fresh, Ordered, Registered
  <2>3. Belongs(d)'
    <3>1. CASE EntryAdded(d)
      BY <1>1, <1>4, <3>1 DEF EntryAdded, Belongs
    <3>2. CASE EntryBound(d)
      BY <1>3, <3>2 DEF EntryBound, Belongs, Registered
    <3> QED  BY <1>3, <3>1, <3>2
  <2>4. Current(d)'
    <3>1. OldLinks(d)' \subseteq OldLinks(d)
      BY <1>1, <1>2 DEF OldLinks, TypeOK
    <3> QED  BY <1>1, <1>3, <3>1 DEF Current, EntryAdded, EntryBound
  <2> QED  BY <2>1, <2>2, <2>3, <2>4 DEF LinkInv
<1> QED  BY <1>5, <1>6 DEF LinksInv

LEMMA NextLinks ==
  ASSUME TypeOK, LinksInv, [Next]_vars
  PROVE  LinksInv'
<1>1. ASSUME NEW z \in Zones, CreateRegion(z)
      PROVE  LinksInv'
  <2>1. PICK d \in Dnids : /\ owner[d] = z /\ up[d]
                           /\ toLogin' = [toLogin EXCEPT ![d] = Append(@, RegionEx)]
    BY <1>1 DEF CreateRegion
  <2>2. RegionEx \in Message /\ RegionEx.type \notin {"login", "close"}
    BY MessageTypes DEF RegionEx
  <2>3. UNCHANGED <<links, owner, up, toZone, gameServers, overtaken>>
    BY <1>1 DEF CreateRegion, linkVars
  <2> QED  BY <2>1, <2>2, <2>3, AppendKeepsLinks
<1>2. ASSUME NEW d \in Dnids, Answer(d)
      PROVE  LinksInv'
  <2> DEFINE q == Head(toZone[d])
             m == [type |-> "refresh", query |-> q,
                   full |-> q.bFullQuest \/ faction[owner[d]] # 0]
  <2>1. q \in Query /\ (q.bFullQuest \/ faction[owner[d]] # 0) \in BOOLEAN
    BY <1>2, HeadAndTail DEF Answer, TypeOK, Query
  <2>2. m \in Message /\ m.type \notin {"login", "close"}
    BY <2>1, MessageTypes
  <2>3. up[d]
    BY <1>2 DEF Answer, LinksInv, LinkInv, Newest
  <2>4. /\ toLogin' = [toLogin EXCEPT ![d] = Append(@, m)]
        /\ \A x \in Dnids : toZone'[x] # <<>> => toZone[x] # <<>>
        /\ UNCHANGED <<links, owner, up, gameServers, overtaken>>
    BY <1>2 DEF Answer, linkVars, TypeOK
  <2> QED  BY <2>2, <2>3, <2>4, AppendKeepsLinks
<1>3. ASSUME UNCHANGED <<links, owner, up, toLogin, toZone, gameServers, overtaken>>
      PROVE  LinksInv'
  BY <1>3
     DEF LinksInv, LinkInv, Fresh, Newest, Ordered, Belongs, Current, OldLinks, Registered
<1>4. ASSUME NEW z \in Zones, RestartZone(z)
      PROVE  LinksInv'
  BY <1>3, <1>4 DEF RestartZone, linkVars
<1>5. CASE UNCHANGED vars
  BY <1>3, <1>5 DEF vars, linkVars
<1> QED
  BY <1>1, <1>2, <1>4, <1>5, ConnectKeepsLinks, BreakKeepsLinks, RestartKeepsLinks,
     QueryKeepsLinks, CloseKeepsLinks, RefreshKeepsLinks, LoginKeepsLinks
     DEF Next, Handle

(* A login that is not in Types has not been handled before.               *)
LEMMA LinksGiveCurrent ==
  ASSUME TypeOK, LinksInv
  PROVE  EntryIsCurrent
<1> SUFFICES ASSUME NEW d \in Dnids
             PROVE  /\ Registered(d) => up[d] \/ "close" \in Types(toLogin[d])
                    /\ owner[d] \notin overtaken /\ up[d]
                         /\ "login" \notin Types(toLogin[d]) =>
                         Registered(d) /\ gameServers[d].ID = owner[d]
                           /\ gameServers[d].idControl = d
  BY DEF EntryIsCurrent
<1>1. LinkInv(d) /\ toLogin[d] \in Seq(Message)
  BY DEF LinksInv, TypeOK
<1>2. \A i \in 1..Len(toLogin[d]) : toLogin[d][i].type \in Types(toLogin[d])
  BY <1>1 DEF Types
<1>3. Registered(d) => up[d] \/ "close" \in Types(toLogin[d])
  <2>1. toLogin[d] # <<>> => Len(toLogin[d]) \in 1..Len(toLogin[d])
    BY <1>1
  <2> QED  BY <1>1, <1>2, <2>1 DEF LinkInv, Belongs, Ordered, InOrder
<1>4. HasLogin(toLogin[d]) => "login" \in Types(toLogin[d])
  BY <1>2 DEF HasLogin
<1> QED  BY <1>1, <1>3, <1>4 DEF LinkInv, Belongs, Current

(* No entry outlives its link; and where no login overtook the end of an   *)
(* old link, entries and links agree: for any number of zone servers,      *)
(* links, breaks and restarts.                                             *)
THEOREM EntriesAreCurrent == Spec => []EntryIsCurrent
<1>1. TypeOK /\ LinksInv /\ [Next]_vars => LinksInv'
  BY NextLinks
<1>2. TypeOK /\ LinksInv => EntryIsCurrent
  BY LinksGiveCurrent
<1> QED  BY <1>1, <1>2, InitLinks, TypeCorrect, PTL DEF Spec

-----------------------------------------------------------------------------
(* Queries and answers.  What was asked by a link, and is not answered or  *)
(* whose answer was not handled, is for the entry of this link.            *)
Queries(d) ==
  {toZone[d][i] : i \in 1..Len(toZone[d])}
    \cup {toLogin[d][i].query : i \in {j \in 1..Len(toLogin[d]) :
                                         toLogin[d][j].type = "refresh"}}

Accepted(d) == owner[d] \notin overtaken => \A q \in Queries(d) : AcceptedBy(d, q)

QueriesInv == \A d \in Dnids : Accepted(d)

LEMMA InitQueries == Init => QueriesInv
BY DEF Init, QueriesInv, Accepted, Queries

(* What is in a queue after its first message is taken, or one is added.   *)
LEMMA TailElements ==
  ASSUME NEW S, NEW q \in Seq(S), q # <<>>
  PROVE  /\ \A i \in 1..Len(Tail(q)) : \E j \in 1..Len(q) : Tail(q)[i] = q[j]
         /\ \E j \in 1..Len(q) : Head(q) = q[j]
<1>1. /\ Len(Tail(q)) = Len(q) - 1 /\ Len(q) \in Nat \ {0} /\ Head(q) = q[1]
      /\ \A i \in 1..Len(Tail(q)) : Tail(q)[i] = q[i + 1]
  OBVIOUS
<1>2. \A i \in 1..Len(Tail(q)) : i + 1 \in 1..Len(q)
  BY <1>1
<1>3. 1 \in 1..Len(q)
  BY <1>1
<1> QED  BY <1>1, <1>2, <1>3

LEMMA AppendElements ==
  ASSUME NEW S, NEW q \in Seq(S), NEW m \in S
  PROVE  \A i \in 1..Len(Append(q, m)) :
           Append(q, m)[i] = m \/ \E j \in 1..Len(q) : Append(q, m)[i] = q[j]
<1>1. /\ Len(Append(q, m)) = Len(q) + 1 /\ Append(q, m)[Len(q) + 1] = m
      /\ \A i \in 1..Len(q) : Append(q, m)[i] = q[i]
      /\ Len(q) \in Nat
  OBVIOUS
<1>2. \A i \in 1..Len(Append(q, m)) : i \in 1..Len(q) \/ i = Len(q) + 1
  BY <1>1
<1> QED  BY <1>1, <1>2

(* An entry that keeps its server, link and number keeps what was asked.   *)
LEMMA AcceptedKeeps ==
  ASSUME NEW x \in Dnids, Accepted(x), owner' = owner, overtaken \subseteq overtaken',
         \/ owner[x] \in overtaken'
         \/ Registered(x) => /\ Registered(x)'
                             /\ gameServers'[x].ID = gameServers[x].ID
                             /\ gameServers'[x].idControl = gameServers[x].idControl
                             /\ gameServers'[x].gid = gameServers[x].gid,
         Queries(x)' \subseteq Queries(x)
  PROVE  Accepted(x)'
BY DEF Accepted, AcceptedBy, Registered

(* Handling a message leaves the queries and the other answers.            *)
LEMMA HandleQueries ==
  ASSUME TypeOK, NEW d \in Dnids, toLogin[d] # <<>>,
         toLogin' = [toLogin EXCEPT ![d] = Tail(@)], UNCHANGED toZone,
         NEW x \in Dnids
  PROVE  Queries(x)' \subseteq Queries(x)
<1>1. CASE x # d
  BY <1>1 DEF Queries, TypeOK
<1>2. CASE x = d
  <2>1. toLogin[d] \in Seq(Message) /\ toLogin'[d] = Tail(toLogin[d])
    BY DEF TypeOK
  <2>2. \A i \in 1..Len(toLogin'[d]) : \E j \in 1..Len(toLogin[d]) :
          toLogin'[d][i] = toLogin[d][j]
    BY <2>1, TailElements
  <2> QED  BY <1>2, <2>2 DEF Queries
<1> QED  BY <1>1, <1>2

LEMMA ConnectKeepsQueries ==
  ASSUME TypeOK, LinksInv, QueriesInv, NEW z \in Zones, Connect(z)
  PROVE  QueriesInv'
<1>1. PICK d \in Dnids : d = links + 1 /\ d > links
  BY ZoneAssumption DEF Connect, TypeOK, Dnids
<1>2. /\ owner' = [owner EXCEPT ![d] = z]
      /\ toLogin' = [toLogin EXCEPT ![d] = <<Login(z)>>]
      /\ UNCHANGED <<toZone, gameServers, overtaken>>
  BY <1>1 DEF Connect
<1>3. ASSUME NEW x \in Dnids \ {d}
      PROVE  Accepted(x)'
  <2>1. owner'[x] = owner[x] /\ toLogin'[x] = toLogin[x]
    BY <1>2 DEF TypeOK
  <2>2. Queries(x)' = Queries(x)
    BY <1>2, <2>1 DEF Queries
  <2> QED  BY <1>2, <2>1, <2>2 DEF QueriesInv, Accepted, AcceptedBy, Registered
<1>4. Accepted(d)'
  <2>1. toZone'[d] = <<>> /\ toLogin'[d] = <<Login(z)>>
    BY <1>1, <1>2 DEF LinksInv, LinkInv, Fresh, TypeOK
  <2>2. \A i \in 1..Len(toLogin'[d]) : toLogin'[d][i].type # "refresh"
    BY <2>1 DEF Login
  <2> QED  BY <2>1, <2>2 DEF Accepted, Queries
<1> QED  BY <1>3, <1>4 DEF QueriesInv

(* Only a message that carries no query is added to what arrives.          *)
LEMMA BreakKeepsQueries ==
  ASSUME TypeOK, QueriesInv, NEW d \in Dnids, Break(d)
  PROVE  QueriesInv'
<1> SUFFICES ASSUME NEW x \in Dnids
             PROVE  Queries(x)' \subseteq Queries(x)
  BY AcceptedKeeps DEF Break, QueriesInv, Registered
<1>1. PICK k \in 0..Len(toLogin[d]) :
        toLogin' = [toLogin EXCEPT ![d] = Append(SubSeq(@, 1, Len(@) - k), Close)]
  BY DEF Break
<1>2. CASE x # d
  BY <1>1, <1>2 DEF Break, Queries, TypeOK
<1>3. CASE x = d
  <2> DEFINE q == toLogin[d]
             p == SubSeq(q, 1, Len(q) - k)
  <2>1. q \in Seq(Message) /\ toLogin'[d] = Append(p, Close) /\ toZone'[d] = <<>>
    BY <1>1 DEF TypeOK, Break
  <2>2. p \in Seq(Message) /\ \A i \in 1..Len(p) : i \in 1..Len(q) /\ p[i] = q[i]
    BY <2>1
  <2> HIDE DEF p
  <2>3. \A i \in 1..Len(Append(p, Close)) :
          Append(p, Close)[i] = Close \/ \E j \in 1..Len(q) : Append(p, Close)[i] = q[j]
    BY <2>2, AppendElements, MessageTypes
  <2>4. Close.type # "refresh"
    BY DEF Close
  <2> QED  BY <1>3, <2>1, <2>3, <2>4 DEF Queries
<1> QED  BY <1>2, <1>3

LEMMA CreateKeepsQueries ==
  ASSUME TypeOK, QueriesInv, NEW z \in Zones, CreateRegion(z)
  PROVE  QueriesInv'
<1> SUFFICES ASSUME NEW x \in Dnids
             PROVE  Queries(x)' \subseteq Queries(x)
  BY AcceptedKeeps DEF CreateRegion, linkVars, QueriesInv, Registered
<1>1. PICK d \in Dnids : toLogin' = [toLogin EXCEPT ![d] = Append(@, RegionEx)]
  BY DEF CreateRegion
<1>2. CASE x # d
  BY <1>1, <1>2 DEF CreateRegion, Queries, TypeOK
<1>3. CASE x = d
  <2>1. toLogin[d] \in Seq(Message) /\ toLogin'[d] = Append(toLogin[d], RegionEx)
    BY <1>1 DEF TypeOK
  <2>2. \A i \in 1..Len(toLogin'[d]) :
          \/ toLogin'[d][i] = RegionEx
          \/ \E j \in 1..Len(toLogin[d]) : toLogin'[d][i] = toLogin[d][j]
    BY <2>1, AppendElements, MessageTypes
  <2>3. RegionEx.type # "refresh" /\ UNCHANGED toZone
    BY DEF RegionEx, CreateRegion
  <2> QED  BY <1>3, <2>2, <2>3 DEF Queries
<1> QED  BY <1>2, <1>3

(* An answer carries the query it answers.                                 *)
LEMMA AnswerKeepsQueries ==
  ASSUME TypeOK, QueriesInv, NEW d \in Dnids, Answer(d)
  PROVE  QueriesInv'
<1> SUFFICES ASSUME NEW x \in Dnids
             PROVE  Queries(x)' \subseteq Queries(x)
  BY AcceptedKeeps DEF Answer, linkVars, QueriesInv, Registered
<1> DEFINE q == Head(toZone[d])
           m == [type |-> "refresh", query |-> q,
                 full |-> q.bFullQuest \/ faction[owner[d]] # 0]
<1>1. /\ toLogin' = [toLogin EXCEPT ![d] = Append(@, m)]
      /\ toZone' = [toZone EXCEPT ![d] = Tail(@)] /\ toZone[d] # <<>>
  BY DEF Answer
<1>2. CASE x # d
  BY <1>1, <1>2 DEF Queries, TypeOK
<1>3. CASE x = d
  <2>1. /\ toLogin[d] \in Seq(Message) /\ toZone[d] \in Seq(Query)
        /\ toLogin'[d] = Append(toLogin[d], m) /\ toZone'[d] = Tail(toZone[d])
    BY <1>1 DEF TypeOK
  <2>2. m \in Message
    <3>1. q \in Query /\ (q.bFullQuest \/ faction[owner[d]] # 0) \in BOOLEAN
      BY <1>1, <2>1, HeadAndTail DEF Query
    <3> QED  BY <3>1, MessageTypes
  <2>3. m.query = q
    OBVIOUS
  <2> HIDE DEF m
  <2>4. \A i \in 1..Len(toLogin'[d]) :
          \/ toLogin'[d][i] = m
          \/ \E j \in 1..Len(toLogin[d]) : toLogin'[d][i] = toLogin[d][j]
    BY <2>1, <2>2, AppendElements
  <2>5. /\ \A i \in 1..Len(toZone'[d]) : \E j \in 1..Len(toZone[d]) :
               toZone'[d][i] = toZone[d][j]
        /\ \E j \in 1..Len(toZone[d]) : q = toZone[d][j]
    BY <1>1, <2>1, TailElements
  <2> HIDE DEF q
  <2>6. \A i \in 1..Len(toZone'[d]) : toZone'[d][i] \in Queries(d)
    BY <2>5 DEF Queries
  <2>7. m.query \in Queries(d)
    BY <2>3, <2>5 DEF Queries
  <2>8. ASSUME NEW i \in 1..Len(toLogin'[d]), toLogin'[d][i].type = "refresh"
        PROVE  toLogin'[d][i].query \in Queries(d)
    BY <2>4, <2>7, <2>8 DEF Queries
  <2>9. Queries(d)' \subseteq Queries(d)
    <3> SUFFICES ASSUME NEW r \in Queries(d)'
                 PROVE  r \in Queries(d)
      OBVIOUS
    <3>1. CASE \E i \in 1..Len(toZone'[d]) : r = toZone'[d][i]
      BY <2>6, <3>1
    <3>2. CASE \E i \in 1..Len(toLogin'[d]) :
                 toLogin'[d][i].type = "refresh" /\ r = toLogin'[d][i].query
      BY <2>8, <3>2
    <3> QED  BY <3>1, <3>2 DEF Queries
  <2> QED  BY <1>3, <2>9
<1> QED  BY <1>2, <1>3

LEMMA QueryKeepsQueries ==
  ASSUME TypeOK, LinksInv, QueriesInv, QueryRefreshGameServer
  PROVE  QueriesInv'
<1> SUFFICES ASSUME NEW x \in Dnids
             PROVE  Accepted(x)'
  BY DEF QueriesInv
<1>1. UNCHANGED <<owner, toLogin, gameServers, overtaken>>
  BY DEF QueryRefreshGameServer, linkVars
<1>2. CASE ~(Registered(x) /\ up[x])
  <2>1. toZone'[x] = toZone[x]
    BY <1>2 DEF QueryRefreshGameServer
  <2>2. Queries(x)' = Queries(x)
    BY <1>1, <2>1 DEF Queries
  <2> QED  BY <1>1, <2>2, AcceptedKeeps DEF QueriesInv, Registered
<1>3. CASE Registered(x) /\ up[x]
  <2>1. /\ toZone[x] \in Seq(Query) /\ toZone'[x] = Append(toZone[x], QueryFor(x))
        /\ QueryFor(x) \in Query
    BY <1>3 DEF QueryRefreshGameServer, TypeOK, Registered, SServer, QueryFor, Query
  <2>2. \A i \in 1..Len(toZone'[x]) :
          \/ toZone'[x][i] = QueryFor(x)
          \/ \E j \in 1..Len(toZone[x]) : toZone'[x][i] = toZone[x][j]
    BY <2>1, AppendElements
  <2>3. Queries(x)' \subseteq Queries(x) \cup {QueryFor(x)}
    BY <1>1, <2>2 DEF Queries
  <2>4. owner[x] \notin overtaken => AcceptedBy(x, QueryFor(x))
    BY <1>3 DEF AcceptedBy, QueryFor, LinksInv, LinkInv, Current
  <2> QED  BY <1>1, <2>3, <2>4 DEF QueriesInv, Accepted, AcceptedBy, Registered
<1> QED  BY <1>2, <1>3

(* A close ends what its link still had; a login finds nothing asked.      *)
LEMMA CloseKeepsQueries ==
  ASSUME TypeOK, LinksInv, QueriesInv, NEW d \in Dnids, HandleClose(d)
  PROVE  QueriesInv'
<1> SUFFICES ASSUME NEW x \in Dnids
             PROVE  Accepted(x)'
  BY DEF QueriesInv
<1>1. /\ toLogin[d] # <<>> /\ Head(toLogin[d]).type = "close"
      /\ toLogin' = [toLogin EXCEPT ![d] = Tail(@)]
      /\ UNCHANGED <<owner, toZone, overtaken>>
      /\ \A e \in Dnids \ {d} : gameServers'[e] = gameServers[e]
  BY DEF HandleClose, WithoutEntry, linkVars, TypeOK
<1>2. CASE x # d
  <2>1. Queries(x)' \subseteq Queries(x)
    BY <1>1, HandleQueries
  <2> QED  BY <1>1, <1>2, <2>1, AcceptedKeeps DEF QueriesInv, Registered
<1>3. CASE x = d
  <2>1. /\ toLogin[d] \in Seq(Message) /\ up[d] \in BOOLEAN /\ Registered(d) \in BOOLEAN
        /\ toLogin'[d] = Tail(toLogin[d])
        /\ InOrder(toLogin[d], owner[d], up[d], Registered(d))
    BY <1>1 DEF TypeOK, Registered, LinksInv, LinkInv, Ordered
  <2>2. ~up[d] /\ toLogin'[d] = <<>>
    BY <1>1, <2>1, TailInOrder
  <2>3. toZone'[d] = <<>>
    BY <1>1, <2>2 DEF LinksInv, LinkInv, Newest
  <2> QED  BY <1>3, <2>2, <2>3 DEF Accepted, Queries
<1> QED  BY <1>2, <1>3

LEMMA RefreshKeepsQueries ==
  ASSUME TypeOK, QueriesInv, NEW d \in Dnids, HandleRefresh(d) \/ HandleRegionEx(d)
  PROVE  QueriesInv'
<1> SUFFICES ASSUME NEW x \in Dnids
             PROVE  Accepted(x)'
  BY DEF QueriesInv
<1>1. /\ toLogin[d] # <<>>
      /\ toLogin' = [toLogin EXCEPT ![d] = Tail(@)]
      /\ UNCHANGED <<owner, toZone, overtaken>>
  BY DEF HandleRefresh, HandleRegionEx, linkVars
<1>2. Queries(x)' \subseteq Queries(x)
  BY <1>1, HandleQueries
<1> QED  BY <1>1, <1>2, RefreshKeepsEntries, AcceptedKeeps DEF QueriesInv

LEMMA LoginKeepsQueries ==
  ASSUME TypeOK, LinksInv, QueriesInv, NEW d \in Dnids, HandleLogin(d)
  PROVE  QueriesInv'
<1> SUFFICES ASSUME NEW x \in Dnids
             PROVE  Accepted(x)'
  BY DEF QueriesInv
<1>1. /\ toLogin[d] # <<>>
      /\ toLogin' = [toLogin EXCEPT ![d] = Tail(@)]
      /\ UNCHANGED <<owner, toZone>> /\ overtaken \subseteq overtaken'
  BY DEF HandleLogin, linkVars
<1>2. Queries(x)' \subseteq Queries(x)
  BY <1>1, HandleQueries
<1>3. \/ owner[x] \in overtaken'
      \/ Registered(x) => gameServers'[x] = gameServers[x]
  <2>1. CASE EntryAdded(d)
    BY <2>1, LoginEffect DEF EntryAdded
  <2>2. CASE EntryBound(d)
    <3>1. owner[d] \in overtaken' /\ (owner[x] = owner[d] \/ gameServers'[x] = gameServers[x])
      BY <2>2 DEF EntryBound
    <3> QED  BY <3>1
  <2> QED  BY <2>1, <2>2, LoginEffect
<1> QED  BY <1>1, <1>2, <1>3, AcceptedKeeps DEF QueriesInv, Registered

LEMMA NextQueries ==
  ASSUME TypeOK, LinksInv, QueriesInv, [Next]_vars
  PROVE  QueriesInv'
<1>1. ASSUME UNCHANGED <<owner, toLogin, toZone, gameServers, overtaken>>
      PROVE  QueriesInv'
  BY <1>1 DEF QueriesInv, Accepted, Queries, AcceptedBy, Registered
<1>2. ASSUME NEW z \in Zones, RestartZone(z)
      PROVE  QueriesInv'
  BY <1>1, <1>2 DEF RestartZone, linkVars
<1>3. CASE UNCHANGED vars
  BY <1>1, <1>3 DEF vars, linkVars
<1>4. ASSUME RestartLogin
      PROVE  QueriesInv'
  BY <1>4 DEF RestartLogin, QueriesInv, Accepted, Queries
<1> QED
  BY <1>2, <1>3, <1>4, ConnectKeepsQueries, CreateKeepsQueries, BreakKeepsQueries,
     AnswerKeepsQueries, QueryKeepsQueries, CloseKeepsQueries, RefreshKeepsQueries,
     LoginKeepsQueries
     DEF Next, Handle

(* No answer of a zone server is refused, whatever was restarted or        *)
(* reconnected between the query and the answer, unless a login overtook   *)
(* the end of an old link.                                                 *)
THEOREM AnswersAreTaken == Spec => []AnswersTaken
<1>1. TypeOK /\ LinksInv /\ [Next]_vars => LinksInv'
  BY NextLinks
<1>2. TypeOK /\ LinksInv /\ QueriesInv /\ [Next]_vars => QueriesInv'
  BY NextQueries
<1>3. TypeOK /\ QueriesInv => AnswersTaken
  <2>1. TypeOK => \A d \in Dnids : DOMAIN toLogin[d] = 1..Len(toLogin[d])
    BY DEF TypeOK
  <2> QED  BY <2>1 DEF QueriesInv, Accepted, Queries, AnswersTaken
<1> QED  BY <1>1, <1>2, <1>3, InitLinks, InitQueries, TypeCorrect, PTL DEF Spec

-----------------------------------------------------------------------------
(* The region of a faction.  The announcement is sent once per life of the *)
(* region, by the link it is known by: on the way it is the only one, and  *)
(* once it was handled it is in the entry of that link.                    *)
HasRegion(q) == \E i \in 1..Len(q) : q[i].type = "region"

OneRegion(q) ==
  \A i, j \in 1..Len(q) : q[i].type = "region" /\ q[j].type = "region" => i = j

Announced == \A z \in Zones : faction[z] # 0 => owner[faction[z]] = z

HasFaction(d) == "faction" \in gameServers[d].Regions

Known(d) ==
  up[d] =>
    /\ OneRegion(toLogin[d])
    /\ HasRegion(toLogin[d]) => faction[owner[d]] = d
    /\ owner[d] \notin overtaken =>
         /\ ~Registered(d) /\ faction[owner[d]] = d => HasRegion(toLogin[d])
         /\ Registered(d) =>
              (HasFaction(d) <=> faction[owner[d]] = d /\ ~HasRegion(toLogin[d]))

RegionInv == Announced /\ \A d \in Dnids : Known(d)

LEMMA InitRegions == Init => RegionInv
BY DEF Init, RegionInv, Announced, Known

(* Announcements in a queue after its first message is taken, or one is    *)
(* added.                                                                  *)
LEMMA TailRegions ==
  ASSUME NEW q \in Seq(Message), q # <<>>, OneRegion(q)
  PROVE  /\ OneRegion(Tail(q))
         /\ Head(q).type = "region" => ~HasRegion(Tail(q))
         /\ Head(q).type # "region" => (HasRegion(q) <=> HasRegion(Tail(q)))
<1>1. /\ Len(Tail(q)) = Len(q) - 1 /\ Len(q) \in Nat \ {0} /\ Head(q) = q[1]
      /\ \A i \in 1..Len(Tail(q)) : Tail(q)[i] = q[i + 1]
  OBVIOUS
<1>2. \A i \in 1..Len(Tail(q)) : i + 1 \in 1..Len(q) /\ i + 1 # 1 /\ i \in Nat
  BY <1>1
<1>3. ASSUME NEW i \in 1..Len(Tail(q)), NEW j \in 1..Len(Tail(q)),
             Tail(q)[i].type = "region", Tail(q)[j].type = "region"
      PROVE  i = j
  <2>1. i + 1 = j + 1
    BY <1>1, <1>2, <1>3 DEF OneRegion
  <2> QED  BY <1>2, <2>1
<1>4. Head(q).type = "region" => ~HasRegion(Tail(q))
  <2>1. 1 \in 1..Len(q)
    BY <1>1
  <2> QED  BY <1>1, <1>2, <2>1 DEF OneRegion, HasRegion
<1>5. Head(q).type # "region" => (HasRegion(q) <=> HasRegion(Tail(q)))
  <2>1. \A k \in 1..Len(q) : k = 1 \/ (k - 1 \in 1..Len(Tail(q)) /\ k = (k - 1) + 1)
    BY <1>1
  <2>2. HasRegion(Tail(q)) => HasRegion(q)
    BY <1>1, <1>2 DEF HasRegion
  <2>3. ASSUME Head(q).type # "region", NEW k \in 1..Len(q), q[k].type = "region"
        PROVE  HasRegion(Tail(q))
    <3>1. k - 1 \in 1..Len(Tail(q)) /\ k = (k - 1) + 1
      BY <1>1, <2>1, <2>3
    <3>2. Tail(q)[k - 1] = q[(k - 1) + 1]
      BY <1>1, <3>1
    <3> QED  BY <2>3, <3>1, <3>2 DEF HasRegion
  <2> QED  BY <2>2, <2>3 DEF HasRegion
<1> QED  BY <1>3, <1>4, <1>5 DEF OneRegion

LEMMA AppendRegions ==
  ASSUME NEW q \in Seq(Message), NEW m \in Message
  PROVE  /\ m.type # "region" =>
              /\ HasRegion(Append(q, m)) <=> HasRegion(q)
              /\ OneRegion(q) => OneRegion(Append(q, m))
         /\ m.type = "region" =>
              /\ HasRegion(Append(q, m))
              /\ ~HasRegion(q) => OneRegion(Append(q, m))
<1>1. /\ Len(Append(q, m)) = Len(q) + 1 /\ Append(q, m)[Len(q) + 1] = m
      /\ \A i \in 1..Len(q) : Append(q, m)[i] = q[i]
      /\ Len(q) \in Nat
  OBVIOUS
<1>2. \A i \in 1..Len(Append(q, m)) : i \in 1..Len(q) \/ i = Len(q) + 1
  BY <1>1
<1>3. /\ \A i \in 1..Len(q) : i \in 1..Len(Append(q, m))
      /\ Len(q) + 1 \in 1..Len(Append(q, m))
  BY <1>1
<1> QED  BY <1>1, <1>2, <1>3 DEF HasRegion, OneRegion

(* What keeps a link's part of the invariant.                              *)
LEMMA KnownKeeps ==
  ASSUME NEW x \in Dnids, Known(x), up'[x] => up[x], owner'[x] = owner[x],
         overtaken \subseteq overtaken', faction'[owner[x]] = faction[owner[x]],
         OneRegion(toLogin[x]) => OneRegion(toLogin'[x]),
         HasRegion(toLogin[x]) <=> HasRegion(toLogin'[x]),
         \/ owner[x] \in overtaken'
         \/ /\ Registered(x)' <=> Registered(x)
            /\ Registered(x) => (HasFaction(x)' <=> HasFaction(x))
  PROVE  Known(x)'
BY DEF Known, Registered, HasFaction

LEMMA ConnectKeepsRegions ==
  ASSUME TypeOK, LinksInv, RegionInv, NEW z \in Zones, Connect(z)
  PROVE  RegionInv'
<1>1. PICK d \in Dnids : d = links + 1
  BY ZoneAssumption DEF Connect, Dnids, TypeOK
<1>2. /\ owner' = [owner EXCEPT ![d] = z] /\ up' = [up EXCEPT ![d] = TRUE]
      /\ toLogin' = [toLogin EXCEPT ![d] = <<Login(z)>>]
      /\ UNCHANGED <<gameServers, faction, overtaken>>
      /\ d > links
  BY <1>1 DEF Connect, TypeOK
<1>3. owner[d] = NoZone /\ ~Registered(d)
  BY <1>2 DEF LinksInv, LinkInv, Fresh
<1>4. Announced'
  BY <1>2, <1>3, ZoneAssumption DEF RegionInv, Announced, TypeOK
<1>5. ASSUME NEW x \in Dnids \ {d}
      PROVE  Known(x)'
  <2>1. owner'[x] = owner[x] /\ up'[x] = up[x] /\ toLogin'[x] = toLogin[x]
    BY <1>2, <1>5 DEF TypeOK
  <2> QED  BY <1>2, <2>1, KnownKeeps DEF RegionInv, Registered, HasFaction
<1>6. Known(d)'
  <2>1. /\ toLogin'[d] = <<Login(z)>> /\ owner'[d] = z /\ ~Registered(d)'
    BY <1>1, <1>2, <1>3 DEF TypeOK, Registered
  <2>2. OneRegion(toLogin'[d]) /\ ~HasRegion(toLogin'[d])
    BY <2>1 DEF OneRegion, HasRegion, Login
  <2>3. faction'[z] # d
    BY <1>1, <1>2, <1>3, ZoneAssumption DEF RegionInv, Announced, Dnids
  <2> QED  BY <2>1, <2>2, <2>3 DEF Known
<1> QED  BY <1>4, <1>5, <1>6 DEF RegionInv

LEMMA BreakKeepsRegions ==
  ASSUME TypeOK, RegionInv, NEW d \in Dnids, Break(d)
  PROVE  RegionInv'
<1>1. /\ ~up'[d] /\ UNCHANGED <<owner, gameServers, faction, overtaken>>
      /\ \A x \in Dnids \ {d} : up'[x] = up[x] /\ toLogin'[x] = toLogin[x]
  BY DEF Break, TypeOK
<1>2. ASSUME NEW x \in Dnids \ {d}
      PROVE  Known(x)'
  BY <1>1, KnownKeeps DEF RegionInv, Registered, HasFaction
<1> QED  BY <1>1, <1>2 DEF RegionInv, Announced, Known

LEMMA RestartKeepsRegions ==
  ASSUME TypeOK, RegionInv, RestartLogin
  PROVE  RegionInv'
BY DEF RestartLogin, RegionInv, Announced, Known

LEMMA RestartZoneKeepsRegions ==
  ASSUME TypeOK, RegionInv, NEW z \in Zones, RestartZone(z)
  PROVE  RegionInv'
<1>1. /\ ~Connected(z) /\ faction' = [faction EXCEPT ![z] = 0]
      /\ UNCHANGED <<owner, up, toLogin, gameServers, overtaken>>
  BY DEF RestartZone, linkVars
<1>2. Announced'
  BY <1>1 DEF RegionInv, Announced, TypeOK
<1>3. ASSUME NEW x \in Dnids, up[x]
      PROVE  Known(x)'
  <2>1. faction'[owner[x]] = faction[owner[x]]
    BY <1>1, <1>3 DEF Connected, TypeOK
  <2> QED  BY <1>1, <2>1, KnownKeeps DEF RegionInv, Registered, HasFaction
<1> QED  BY <1>1, <1>2, <1>3 DEF RegionInv, Known

(* The announcement is the first of its link, which is the link of z.      *)
LEMMA CreateKeepsRegions ==
  ASSUME TypeOK, LinksInv, RegionInv, NEW z \in Zones, CreateRegion(z)
  PROVE  RegionInv'
<1>1. PICK d \in Dnids :
        /\ owner[d] = z /\ up[d]
        /\ faction' = [faction EXCEPT ![z] = d]
        /\ toLogin' = [toLogin EXCEPT ![d] = Append(@, RegionEx)]
  BY DEF CreateRegion
<1>2. faction[z] = 0 /\ UNCHANGED <<owner, up, gameServers, overtaken>> /\ d # 0
  BY DEF CreateRegion, linkVars, Dnids
<1>3. faction'[z] = d /\ \A y \in Zones \ {z} : faction'[y] = faction[y]
  BY <1>1 DEF TypeOK
<1>4. Announced'
  BY <1>1, <1>2, <1>3 DEF RegionInv, Announced
<1>5. Known(d)'
  <2>1. /\ toLogin[d] \in Seq(Message) /\ toLogin'[d] = Append(toLogin[d], RegionEx)
        /\ RegionEx \in Message /\ RegionEx.type = "region"
    BY <1>1, MessageTypes DEF TypeOK, RegionEx
  <2>2. ~HasRegion(toLogin[d]) /\ Known(d)
    BY <1>1, <1>2 DEF RegionInv, Known
  <2>3. OneRegion(toLogin'[d]) /\ HasRegion(toLogin'[d])
    BY <2>1, <2>2, AppendRegions
  <2> QED  BY <1>1, <1>2, <1>3, <2>2, <2>3 DEF Known, Registered, HasFaction
<1>6. ASSUME NEW x \in Dnids \ {d}, up[x]
      PROVE  Known(x)'
  <2>1. owner[x] # z
    BY <1>1, <1>6 DEF LinksInv, LinkInv, Newest, Dnids
  <2>2. owner[x] \in Zones
    BY <1>6, ZoneAssumption DEF LinksInv, LinkInv, Fresh, TypeOK, Dnids
  <2>3. faction'[owner[x]] = faction[owner[x]] /\ toLogin'[x] = toLogin[x]
    BY <1>1, <1>3, <1>6, <2>1, <2>2 DEF TypeOK
  <2> QED  BY <1>2, <2>3, KnownKeeps DEF RegionInv, Registered, HasFaction
<1> QED  BY <1>2, <1>4, <1>5, <1>6 DEF RegionInv, Known

LEMMA AnswerKeepsRegions ==
  ASSUME TypeOK, RegionInv, NEW d \in Dnids, Answer(d)
  PROVE  RegionInv'
<1> DEFINE q == Head(toZone[d])
           m == [type |-> "refresh", query |-> q,
                 full |-> q.bFullQuest \/ faction[owner[d]] # 0]
<1>1. q \in Query /\ (q.bFullQuest \/ faction[owner[d]] # 0) \in BOOLEAN
  BY HeadAndTail DEF Answer, TypeOK, Query
<1>2. m \in Message /\ m.type # "region"
  BY <1>1, MessageTypes
<1>3. /\ toLogin' = [toLogin EXCEPT ![d] = Append(@, m)]
      /\ UNCHANGED <<owner, up, gameServers, faction, overtaken>>
  BY DEF Answer, linkVars
<1> HIDE DEF m
<1>4. ASSUME NEW x \in Dnids
      PROVE  Known(x)'
  <2>1. CASE x # d
    <3>1. toLogin'[x] = toLogin[x]
      BY <1>3, <2>1 DEF TypeOK
    <3> QED  BY <1>3, <3>1, KnownKeeps DEF RegionInv, Registered, HasFaction
  <2>2. CASE x = d
    <3>1. toLogin[x] \in Seq(Message) /\ toLogin'[x] = Append(toLogin[x], m)
      BY <1>3, <2>2 DEF TypeOK
    <3>2. /\ HasRegion(toLogin[x]) <=> HasRegion(toLogin'[x])
          /\ OneRegion(toLogin[x]) => OneRegion(toLogin'[x])
      BY <1>2, <3>1, AppendRegions
    <3> QED  BY <1>3, <3>2, KnownKeeps DEF RegionInv, Registered, HasFaction
  <2> QED  BY <2>1, <2>2
<1> QED  BY <1>3, <1>4 DEF RegionInv, Announced

(* What handling a message leaves in the queues.                           *)
LEMMA TakenRegions ==
  ASSUME TypeOK, RegionInv, NEW d \in Dnids, toLogin[d] # <<>>,
         toLogin' = [toLogin EXCEPT ![d] = Tail(@)], NEW x \in Dnids, up[x]
  PROVE  /\ OneRegion(toLogin'[x])
         /\ x # d \/ Head(toLogin[d]).type # "region" =>
              (HasRegion(toLogin[x]) <=> HasRegion(toLogin'[x]))
         /\ x = d /\ Head(toLogin[d]).type = "region" =>
              HasRegion(toLogin[x]) /\ ~HasRegion(toLogin'[x])
<1>1. OneRegion(toLogin[x]) /\ toLogin[x] \in Seq(Message)
  BY DEF RegionInv, Known, TypeOK
<1>2. CASE x # d
  <2>1. toLogin'[x] = toLogin[x]
    BY <1>2 DEF TypeOK
  <2> QED  BY <1>1, <1>2, <2>1
<1>3. CASE x = d
  <2>1. toLogin'[x] = Tail(toLogin[x]) /\ toLogin[x] # <<>>
    BY <1>3 DEF TypeOK
  <2>2. Head(toLogin[x]).type = "region" => HasRegion(toLogin[x])
    <3>1. 1 \in 1..Len(toLogin[x]) /\ Head(toLogin[x]) = toLogin[x][1]
      BY <1>1, <2>1
    <3> QED  BY <3>1 DEF HasRegion
  <2> QED  BY <1>1, <1>3, <2>1, <2>2, TailRegions
<1> QED  BY <1>2, <1>3

LEMMA CloseKeepsRegions ==
  ASSUME TypeOK, LinksInv, RegionInv, NEW d \in Dnids, HandleClose(d)
  PROVE  RegionInv'
<1>1. /\ toLogin[d] # <<>> /\ Head(toLogin[d]).type = "close"
      /\ toLogin' = [toLogin EXCEPT ![d] = Tail(@)]
      /\ UNCHANGED <<owner, up, faction, overtaken>>
      /\ \A x \in Dnids \ {d} : gameServers'[x] = gameServers[x]
  BY DEF HandleClose, WithoutEntry, linkVars, TypeOK
<1>2. ~up[d]
  <2>1. InOrder(toLogin[d], owner[d], up[d], Registered(d))
    BY DEF LinksInv, LinkInv, Ordered
  <2>2. toLogin[d] \in Seq(Message) /\ up[d] \in BOOLEAN /\ Registered(d) \in BOOLEAN
    BY DEF TypeOK, Registered
  <2> QED  BY <1>1, <2>1, <2>2, TailInOrder
<1>3. ASSUME NEW x \in Dnids, up[x]
      PROVE  Known(x)'
  BY <1>1, <1>2, <1>3, TakenRegions, KnownKeeps DEF RegionInv, Registered, HasFaction
<1> QED  BY <1>1, <1>3 DEF RegionInv, Announced, Known

(* Refreshing neither adds nor removes the region of a faction.            *)
LEMMA RefreshKeepsRegions ==
  ASSUME TypeOK, RegionInv, NEW d \in Dnids, HandleRefresh(d)
  PROVE  RegionInv'
<1> DEFINE m == Head(toLogin[d])
<1>1. /\ toLogin[d] # <<>> /\ m.type = "refresh"
      /\ toLogin' = [toLogin EXCEPT ![d] = Tail(@)]
      /\ UNCHANGED <<owner, up, faction, overtaken>>
  BY DEF HandleRefresh, linkVars
<1>2. ASSUME NEW x \in Dnids
      PROVE  /\ Registered(x)' = Registered(x)
             /\ Registered(x) => (HasFaction(x)' <=> HasFaction(x))
  <2>1. Registered(x)' = Registered(x)
    BY RefreshKeepsEntries
  <2>2. gameServers'[x] = IF AcceptedBy(x, m.query) THEN Refreshed(gameServers[x], m)
                                                   ELSE gameServers[x]
    BY DEF HandleRefresh
  <2>3. ASSUME Registered(x)
        PROVE  HasFaction(x)' <=> HasFaction(x)
    <3>1. gameServers[x] \in SServer
      BY <2>3 DEF Registered, TypeOK
    <3>2. Refreshed(gameServers[x], m).Regions =
            IF m.full THEN gameServers[x].Regions \cup {"fixed"} ELSE gameServers[x].Regions
      BY <3>1 DEF SServer, Refreshed
    <3> QED  BY <2>2, <3>2 DEF HasFaction
  <2> QED  BY <2>1, <2>3
<1>3. ASSUME NEW x \in Dnids, up[x]
      PROVE  Known(x)'
  BY <1>1, <1>2, <1>3, TakenRegions, KnownKeeps DEF RegionInv
<1> QED  BY <1>1, <1>3 DEF RegionInv, Announced, Known

(* An announcement that is handled finds the entry of its link.            *)
LEMMA RegionKeepsRegions ==
  ASSUME TypeOK, LinksInv, RegionInv, NEW d \in Dnids, HandleRegionEx(d)
  PROVE  RegionInv'
<1>1. /\ toLogin[d] # <<>> /\ Head(toLogin[d]).type = "region"
      /\ toLogin' = [toLogin EXCEPT ![d] = Tail(@)]
      /\ UNCHANGED <<owner, up, faction, overtaken>>
      /\ \A x \in Dnids \ {d} : gameServers'[x] = gameServers[x]
  BY DEF HandleRegionEx, linkVars, TypeOK
<1>2. ASSUME NEW x \in Dnids \ {d}, up[x]
      PROVE  Known(x)'
  BY <1>1, <1>2, TakenRegions, KnownKeeps DEF RegionInv, Registered, HasFaction
<1>3. ASSUME up[d]
      PROVE  Known(d)'
  <2>1. /\ OneRegion(toLogin'[d]) /\ ~HasRegion(toLogin'[d])
        /\ HasRegion(toLogin[d]) /\ Known(d) /\ faction[owner[d]] = d
    BY <1>1, <1>3, TakenRegions DEF RegionInv, Known
  <2>2. ASSUME owner[d] \notin overtaken
        PROVE  Registered(d)
    <3>1. ~HasLogin(toLogin[d])
      <4>1. toLogin[d] \in Seq(Message) /\ toLogin[d][1].type # "login"
        BY <1>1 DEF TypeOK
      <4> QED  BY <4>1 DEF HasLogin, LinksInv, LinkInv, Ordered, InOrder
    <3> QED  BY <1>3, <2>2, <3>1 DEF LinksInv, LinkInv, Current
  <2>3. Registered(d) => Registered(d)' /\ HasFaction(d)'
    <3> SUFFICES ASSUME Registered(d)
                 PROVE  Registered(d)' /\ HasFaction(d)'
      OBVIOUS
    <3>1. Registered(d)'
      BY RefreshKeepsEntries
    <3>2. gameServers[d] \in SServer
      BY DEF Registered, TypeOK
    <3>3. gameServers'[d] = [gameServers[d] EXCEPT !.Regions = @ \cup {"faction"}]
      BY DEF HandleRegionEx, TypeOK
    <3> QED  BY <3>1, <3>2, <3>3 DEF HasFaction, SServer
  <2> QED  BY <1>1, <2>1, <2>2, <2>3 DEF Known
<1> QED  BY <1>1, <1>2, <1>3 DEF RegionInv, Announced, Known

LEMMA LoginKeepsRegions ==
  ASSUME TypeOK, LinksInv, RegionInv, NEW d \in Dnids, HandleLogin(d)
  PROVE  RegionInv'
<1>1. /\ toLogin[d] # <<>> /\ Head(toLogin[d]).type = "login"
      /\ toLogin' = [toLogin EXCEPT ![d] = Tail(@)]
      /\ UNCHANGED <<owner, up, faction>> /\ overtaken \subseteq overtaken'
  BY DEF HandleLogin, linkVars
<1>2. ~Registered(d) /\ (EntryAdded(d) \/ EntryBound(d))
  BY LoginEffect
<1>3. ASSUME NEW x \in Dnids, up[x], x # d \/ EntryBound(d)
      PROVE  Known(x)'
  <2>1. \/ owner[x] \in overtaken'
        \/ /\ Registered(x)' <=> Registered(x)
           /\ Registered(x) => (HasFaction(x)' <=> HasFaction(x))
    BY <1>2, <1>3 DEF EntryAdded, EntryBound, Registered, HasFaction
  <2>2. OneRegion(toLogin'[x]) /\ (HasRegion(toLogin[x]) <=> HasRegion(toLogin'[x]))
    BY <1>1, <1>3, TakenRegions
  <2> QED  BY <1>1, <2>1, <2>2, KnownKeeps DEF RegionInv
<1>4. ASSUME up[d], EntryAdded(d)
      PROVE  Known(d)'
  <2>1. OneRegion(toLogin'[d]) /\ (HasRegion(toLogin[d]) <=> HasRegion(toLogin'[d]))
    BY <1>1, <1>4, TakenRegions
  <2>2. Registered(d)' /\ ~HasFaction(d)' /\ Known(d)
    BY <1>4 DEF EntryAdded, HasFaction, RegionInv
  <2> QED  BY <1>1, <1>2, <2>1, <2>2 DEF Known
<1> QED  BY <1>1, <1>2, <1>3, <1>4 DEF RegionInv, Announced, Known

LEMMA NextRegions ==
  ASSUME TypeOK, LinksInv, RegionInv, [Next]_vars
  PROVE  RegionInv'
<1>1. ASSUME UNCHANGED <<owner, up, toLogin, gameServers, faction, overtaken>>
      PROVE  RegionInv'
  BY <1>1 DEF RegionInv, Announced, Known, Registered, HasFaction
<1>2. CASE QueryRefreshGameServer
  BY <1>1, <1>2 DEF QueryRefreshGameServer, linkVars
<1>3. CASE UNCHANGED vars
  BY <1>1, <1>3 DEF vars, linkVars
<1> QED
  BY <1>2, <1>3, ConnectKeepsRegions, RestartZoneKeepsRegions, CreateKeepsRegions,
     BreakKeepsRegions, AnswerKeepsRegions, LoginKeepsRegions, CloseKeepsRegions,
     RefreshKeepsRegions, RegionKeepsRegions, RestartKeepsRegions
     DEF Next, Handle

(* The region of a faction can be reached as long as the link lives by     *)
(* which it was announced, and no longer: refreshing never adds or removes *)
(* it, for any number of links, breaks and restarts.                       *)
THEOREM FactionsAreKnown == Spec => []FactionKnown
<1>1. TypeOK /\ LinksInv /\ [Next]_vars => LinksInv'
  BY NextLinks
<1>2. TypeOK /\ LinksInv /\ RegionInv /\ [Next]_vars => RegionInv'
  BY NextRegions
<1>3. TypeOK /\ LinksInv /\ RegionInv => FactionKnown
  <2> SUFFICES ASSUME TypeOK, LinksInv, RegionInv, NEW d \in Dnids,
                      owner[d] \notin overtaken, up[d],
                      "login" \notin Types(toLogin[d])
               PROVE  HasFaction(d) <=> /\ faction[owner[d]] = d
                                        /\ "region" \notin Types(toLogin[d])
    BY DEF FactionKnown, HasFaction
  <2>1. DOMAIN toLogin[d] = 1..Len(toLogin[d])
    BY DEF TypeOK
  <2>2. "region" \in Types(toLogin[d]) <=> HasRegion(toLogin[d])
    BY <2>1 DEF Types, HasRegion
  <2>3. Registered(d)
    BY LinksGiveCurrent DEF EntryIsCurrent
  <2> QED  BY <2>2, <2>3 DEF RegionInv, Known
<1> QED  BY <1>1, <1>2, <1>3, InitLinks, InitRegions, TypeCorrect, PTL DEF Spec
=============================================================================
