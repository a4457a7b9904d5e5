---------------------------- MODULE ZoneRegistry ----------------------------
(***************************************************************************)
(* The login server's registry of zone servers: gameServers of             *)
(* LoginServer/ServerManager.cpp, from link to SServer.  A zone server     *)
(* connects and logs in; every 20 seconds the login server asks it for its *)
(* data; PutIntoRegion sends a player to the server that has the region.   *)
(* When its link breaks a zone server connects again and again until it    *)
(* succeeds (NetLoginServerModule.cpp).                                    *)
(*                                                                         *)
(* Links are numbered (dnid) and never used again.  A link is ordered; the *)
(* end of a link comes after what arrived by it.  The two ends of a link   *)
(* notice its end independently: a zone server may be back, by a new link, *)
(* before the login server hears of the end of the old one.                *)
(*                                                                         *)
(* A zone server has its fixed regions and, once a script created it, the  *)
(* region of a faction; "fixed" and "faction" stand for them.              *)
(***************************************************************************)
EXTENDS Naturals, Sequences

CONSTANTS Zones, NoZone, NoServer,
          FactionZones, \* zone servers whose scripts create a faction's region
          MaxLinks,     \* bound: links
          MaxQueries,   \* bound: queries in flight on a link
          MaxFlight,    \* bound: messages to the login server on a link
          MaxRestarts   \* bound: restarts of the login server

ASSUME ZoneAssumption ==
  /\ NoZone \notin Zones /\ FactionZones \subseteq Zones
  /\ MaxLinks \in Nat /\ MaxQueries \in Nat /\ MaxFlight \in Nat /\ MaxRestarts \in Nat

Dnids == 1..MaxLinks

(* The fields of SServer the protocol depends on; open says that dwIP and  *)
(* dwPort are set.  The key of an entry in gameServers is not a field.     *)
SServer == [ID : Zones, idControl : Dnids, gid : Nat, open : BOOLEAN,
            bQuestFullData : BOOLEAN, Regions : SUBSET {"fixed", "faction"}]

(* SQRefreshRegionServerMsg, which comes back in the answer.               *)
Query == [dnidClient : Dnids, key : Zones, gid : Nat, bFullQuest : BOOLEAN]

(* What arrives at the login server.  The end of a link is NULL data.      *)
Message ==
  [type : {"login"}, key : Zones]
    \cup [type : {"refresh"}, query : Query, full : BOOLEAN]
    \cup [type : {"region", "close"}]

Login(z) == [type |-> "login", key |-> z]
RegionEx == [type |-> "region"]
Close == [type |-> "close"]

ASSUME NoServerAssumption == NoServer \notin SServer

VARIABLES
  links,        \* links so far
  owner,        \* owner[d]: the zone server of link d
  up,           \* up[d]: the link can carry messages
  toLogin,      \* toLogin[d]: messages to the login server
  toZone,       \* toZone[d]: queries to the zone server
  gameServers,  \* link -> SServer, or NoServer
  gids,         \* s_CurGlobalID[1]
  faction,      \* faction[z]: the link its faction region was announced by;
                \* 0 if it has none, or had no link then
  overtaken,    \* zone servers whose login overtook the end of an old link
  restarts      \* restarts of the login server

linkVars == <<links, owner, up>>
vars == <<linkVars, toLogin, toZone, gameServers, gids, faction, overtaken, restarts>>

TypeOK ==
  /\ links \in 0..MaxLinks
  /\ owner \in [Dnids -> Zones \cup {NoZone}]
  /\ up \in [Dnids -> BOOLEAN]
  /\ toLogin \in [Dnids -> Seq(Message)]
  /\ toZone \in [Dnids -> Seq(Query)]
  /\ gameServers \in [Dnids -> SServer \cup {NoServer}]
  /\ gids \in Nat
  /\ faction \in [Zones -> 0..MaxLinks]
  /\ overtaken \subseteq Zones
  /\ restarts \in 0..MaxRestarts

Init ==
  /\ links = 0
  /\ owner = [d \in Dnids |-> NoZone]
  /\ up = [d \in Dnids |-> FALSE]
  /\ toLogin = [d \in Dnids |-> <<>>]
  /\ toZone = [d \in Dnids |-> <<>>]
  /\ gameServers = [d \in Dnids |-> NoServer]
  /\ gids = 0
  /\ faction = [z \in Zones |-> 0]
  /\ overtaken = {}
  /\ restarts = 0

-----------------------------------------------------------------------------
Connected(z) == \E d \in Dnids : owner[d] = z /\ up[d]

(* The zone server starts, or has noticed the end of its link: it connects *)
(* and registers itself.                                                   *)
Connect(z) ==
  /\ ~Connected(z) /\ links < MaxLinks
  /\ LET d == links + 1
     IN /\ links' = d
        /\ owner' = [owner EXCEPT ![d] = z]
        /\ up' = [up EXCEPT ![d] = TRUE]
        /\ toLogin' = [toLogin EXCEPT ![d] = <<Login(z)>>]
  /\ UNCHANGED <<toZone, gameServers, gids, faction, overtaken, restarts>>

(* A link breaks, or its zone server fails: the last k messages are lost.  *)
Break(d) ==
  /\ up[d]
  /\ up' = [up EXCEPT ![d] = FALSE]
  /\ \E k \in 0..Len(toLogin[d]) :
       toLogin' = [toLogin EXCEPT ![d] = Append(SubSeq(@, 1, Len(@) - k), Close)]
  /\ toZone' = [toZone EXCEPT ![d] = <<>>]
  /\ UNCHANGED <<links, owner, gameServers, gids, faction, overtaken, restarts>>

(* The zone server is started again: the region of the faction is gone.    *)
RestartZone(z) ==
  /\ ~Connected(z) /\ faction[z] # 0
  /\ faction' = [faction EXCEPT ![z] = 0]
  /\ UNCHANGED <<linkVars, toLogin, toZone, gameServers, gids, overtaken, restarts>>

(* The login server is started again.                                      *)
RestartLogin ==
  /\ restarts < MaxRestarts
  /\ restarts' = restarts + 1
  /\ up' = [d \in Dnids |-> FALSE]
  /\ toLogin' = [d \in Dnids |-> <<>>]
  /\ toZone' = [d \in Dnids |-> <<>>]
  /\ gameServers' = [d \in Dnids |-> NoServer]
  /\ gids' = 0
  /\ UNCHANGED <<links, owner, faction, overtaken>>

(* A script creates the region of a faction: SARefreshRegionServerMsgEx is *)
(* sent once.                                                              *)
CreateRegion(z) ==
  /\ z \in FactionZones /\ faction[z] = 0
  /\ \E d \in Dnids :
       /\ owner[d] = z /\ up[d] /\ Len(toLogin[d]) < MaxFlight
       /\ faction' = [faction EXCEPT ![z] = d]
       /\ toLogin' = [toLogin EXCEPT ![d] = Append(@, RegionEx)]
  /\ UNCHANGED <<linkVars, toZone, gameServers, gids, overtaken, restarts>>

-----------------------------------------------------------------------------
Registered(d) == gameServers[d] # NoServer

(* OnServerLogin: a server that is registered already only gets its new    *)
(* link; the entry stays where it is.                                      *)
NewServerUnlinked(d, z) ==                      \* deviation: idControl left 0
  [ID |-> z, idControl |-> 0, gid |-> gids, open |-> FALSE,
   bQuestFullData |-> FALSE, Regions |-> {}]
NewServer(d, z) ==
  [ID |-> z, idControl |-> d, gid |-> gids, open |-> FALSE,
   bQuestFullData |-> FALSE, Regions |-> {}]

Entries(z) == {e \in Dnids : Registered(e) /\ gameServers[e].ID = z}
EntriesHere(d, z) == Entries(z) \cap {d}        \* deviation: looks at its link only
Existing(d, z) == Entries(z)

OldLinks(d) == {e \in Dnids : e < d /\ owner[e] = owner[d] /\ toLogin[e] # <<>>}

HandleLogin(d) ==
  /\ toLogin[d] # <<>> /\ Head(toLogin[d]).type = "login"
  /\ LET z == Head(toLogin[d]).key
     IN IF Existing(d, z) = {}
        THEN /\ gameServers' = [gameServers EXCEPT ![d] = NewServer(d, z)]
             /\ gids' = gids + 1
        ELSE /\ \E e \in Existing(d, z) :
                  gameServers' = [gameServers EXCEPT ![e].idControl = d]
             /\ UNCHANGED gids
  /\ overtaken' = IF OldLinks(d) = {} THEN overtaken ELSE overtaken \cup {owner[d]}
  /\ toLogin' = [toLogin EXCEPT ![d] = Tail(@)]
  /\ UNCHANGED <<linkVars, toZone, faction, restarts>>

(* Entry without data: the link has ended.                                 *)
WithoutNothing(d) == gameServers                \* deviation: entry kept
WithoutEntry(d) == [gameServers EXCEPT ![d] = NoServer]

HandleClose(d) ==
  /\ toLogin[d] # <<>> /\ Head(toLogin[d]).type = "close"
  /\ gameServers' = WithoutEntry(d)
  /\ toLogin' = [toLogin EXCEPT ![d] = Tail(@)]
  /\ UNCHANGED <<linkVars, toZone, gids, faction, overtaken, restarts>>

(* QueryRefreshGameServer, every 20 seconds: to the key of every entry.    *)
QueryForCounter(d) ==                           \* deviation: gid of the next entry
  [dnidClient |-> d, key |-> gameServers[d].ID, gid |-> gids,
   bFullQuest |-> ~gameServers[d].bQuestFullData]
QueryFor(d) ==
  [dnidClient |-> d, key |-> gameServers[d].ID, gid |-> gameServers[d].gid,
   bFullQuest |-> ~gameServers[d].bQuestFullData]

QueryRefreshGameServer ==
  LET asked == {d \in Dnids : Registered(d) /\ up[d]}
  IN /\ \A d \in asked : Len(toZone[d]) < MaxQueries
     /\ toZone' = [d \in Dnids |-> IF d \in asked THEN Append(toZone[d], QueryFor(d))
                                                  ELSE toZone[d]]
     /\ UNCHANGED <<linkVars, toLogin, gameServers, gids, faction, overtaken, restarts>>

(* RecvRefreshMsg and FillRegionInfoMsg at the zone server: the fixed      *)
(* regions are in the answer when they were asked for, and also when their *)
(* number differs from that of all regions.  No other region ever is.      *)
Answer(d) ==
  /\ toZone[d] # <<>> /\ Len(toLogin[d]) < MaxFlight
  /\ LET q == Head(toZone[d])
     IN toLogin' = [toLogin EXCEPT ![d] =
          Append(@, [type |-> "refresh", query |-> q,
                     full |-> q.bFullQuest \/ faction[owner[d]] # 0])]
  /\ toZone' = [toZone EXCEPT ![d] = Tail(@)]
  /\ UNCHANGED <<linkVars, gameServers, gids, faction, overtaken, restarts>>

(* RefreshRegionServer: the server is looked up by its number; an answer   *)
(* to a query of another link or another entry is refused.  Regions are    *)
(* added, never cleared.                                                   *)
AcceptedBy(e, q) ==
  Registered(e) /\ gameServers[e].ID = q.key
    /\ gameServers[e].idControl = q.dnidClient /\ gameServers[e].gid = q.gid

RefreshedAlone(s, m) ==                       \* deviation: regions cleared
  [s EXCEPT !.open = TRUE, !.bQuestFullData = @ \/ m.full,
            !.Regions = IF m.full THEN {"fixed"} ELSE @]
RefreshedNoAddress(s, m) ==                     \* deviation: address not taken over
  [s EXCEPT !.bQuestFullData = @ \/ m.full,
            !.Regions = IF m.full THEN @ \cup {"fixed"} ELSE @]
Refreshed(s, m) ==
  [s EXCEPT !.open = TRUE, !.bQuestFullData = @ \/ m.full,
            !.Regions = IF m.full THEN @ \cup {"fixed"} ELSE @]

HandleRefresh(d) ==
  /\ toLogin[d] # <<>> /\ Head(toLogin[d]).type = "refresh"
  /\ LET m == Head(toLogin[d])
     IN gameServers' = [e \in Dnids |-> IF AcceptedBy(e, m.query)
                                        THEN Refreshed(gameServers[e], m)
                                        ELSE gameServers[e]]
  /\ toLogin' = [toLogin EXCEPT ![d] = Tail(@)]
  /\ UNCHANGED <<linkVars, toZone, gids, faction, overtaken, restarts>>

(* RefreshRegionServerEx: for the entry of the link, if there is one.      *)
HandleRegionEx(d) ==
  /\ toLogin[d] # <<>> /\ Head(toLogin[d]).type = "region"
  /\ gameServers' = IF Registered(d)
                    THEN [gameServers EXCEPT ![d].Regions = @ \cup {"faction"}]
                    ELSE gameServers
  /\ toLogin' = [toLogin EXCEPT ![d] = Tail(@)]
  /\ UNCHANGED <<linkVars, toZone, gids, faction, overtaken, restarts>>

Handle(d) == HandleLogin(d) \/ HandleClose(d) \/ HandleRefresh(d) \/ HandleRegionEx(d)

Next ==
  \/ \E z \in Zones : Connect(z) \/ RestartZone(z) \/ CreateRegion(z)
  \/ \E d \in Dnids : Break(d) \/ Answer(d) \/ Handle(d)
  \/ RestartLogin
  \/ QueryRefreshGameServer

(* Zone servers do not give up connecting; the loops of the servers handle *)
(* what arrived; the 20 second timer goes on.                              *)
Fairness ==
  /\ \A z \in Zones : WF_vars(Connect(z))
  /\ \A d \in Dnids : WF_vars(Handle(d)) /\ WF_vars(Answer(d))
  /\ WF_vars(QueryRefreshGameServer)

Spec == Init /\ [][Next]_vars /\ Fairness

-----------------------------------------------------------------------------
Types(q) == {q[i].type : i \in DOMAIN q}

(* PutIntoRegion: where a player for a region of z is sent; the message    *)
(* carries the address of the entry, known or not.                         *)
PutIntoRegion(z, region) == {e \in Entries(z) : region \in gameServers[e].Regions}

(* Hazard ServerManager.cpp:868.  A zone server is never registered twice, *)
(* in whatever order its logins and the ends of its links are handled, so  *)
(* that a player is looked for at one server.                              *)
OneEntryPerServer ==
  \A d, e \in Dnids :
    Registered(d) /\ Registered(e) /\ gameServers[d].ID = gameServers[e].ID => d = e

(* Hazard ServerManager.cpp:868.  No entry outlives its link: the link is  *)
(* up or its end is still to be handled.  And unless a login overtook the  *)
(* end of an old link, a zone server that is connected and whose login was *)
(* handled is registered, by its present link.                             *)
EntryIsCurrent ==
  \A d \in Dnids :
    /\ Registered(d) => up[d] \/ "close" \in Types(toLogin[d])
    /\ owner[d] \notin overtaken /\ up[d] /\ "login" \notin Types(toLogin[d]) =>
         Registered(d) /\ gameServers[d].ID = owner[d] /\ gameServers[d].idControl = d

(* Hazard ServerManager.cpp:930.  Unless a login overtook the end of an    *)
(* old link, no answer of a zone server is refused, whatever was restarted *)
(* or reconnected between the query and the answer.                        *)
AnswersTaken ==
  \A d \in Dnids :
    owner[d] \notin overtaken =>
      \A i \in DOMAIN toLogin[d] :
        toLogin[d][i].type = "refresh" => AcceptedBy(d, toLogin[d][i].query)

(* Hazard ServerManager.cpp:978.  The region of a faction is announced     *)
(* once, and refreshing never adds or removes it: it can be reached as     *)
(* long as the link lives by which it was announced, and no longer.        *)
FactionKnown ==
  \A d \in Dnids :
    owner[d] \notin overtaken /\ up[d] /\ "login" \notin Types(toLogin[d]) =>
      ("faction" \in gameServers[d].Regions
         <=> faction[owner[d]] = d /\ "region" \notin Types(toLogin[d]))

(* NetLoginServerModule.cpp:88: after its link broke the zone server       *)
(* registers itself again.  A zone server that stays connected can be      *)
(* reached in the end, at an address, by its present link.                 *)
RegisteredAgain ==
  \A z \in Zones :
    <>[](Connected(z) /\ z \notin overtaken) =>
      <>[](\E e \in PutIntoRegion(z, "fixed") :
             gameServers[e].open /\ up[gameServers[e].idControl])

(* ServerManager.cpp:867, of a server that is registered already: "set the *)
(* new server connection".  A server is unregistered only at the end of    *)
(* the link it is connected by.                                            *)
UnregisteredAtItsEnd ==
  [][\A d \in Dnids :
       Registered(d) /\ ~Registered(d)' => ~up'[gameServers[d].idControl]]_vars
=============================================================================
