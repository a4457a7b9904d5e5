----------------------------- MODULE LoginQueue -----------------------------
(***************************************************************************)
(* The queue of the login server (LoginServer/NetAccountCheckModule.cpp):  *)
(* clients whose account was checked log in at once, or wait while         *)
(* max_player_limit logins are in progress; a tick of 20 seconds lets the  *)
(* first of the queue in.                                                  *)
(*                                                                         *)
(* What is "in progress" is counted elsewhere: the counter goes up when a  *)
(* zone server fetches the player's data (ServerManager::SendPlayerData)   *)
(* and down when the zone server reports the login as complete.  The steps *)
(* of the database server and of the zone servers are the environment.     *)
(*                                                                         *)
(* A link is a client connection; its dnid is never used again.            *)
(***************************************************************************)
EXTENDS Naturals, Sequences, FiniteSets

CONSTANTS Accounts, Links,
          NoAccount,
          Gm,           \* links from the address of a game master
          Kinds,        \* kinds of object zone servers create for a player:
                        \* "NEWPLAYER" in this code (GameWorld.cpp:2024), but
                        \* the report is written for "PLAYER"
          MaxPlayerLimit,       \* max_player_limit
          MaxCounter            \* bound: players' data fetched

ASSUME QueueAssumption ==
  /\ NoAccount \notin Accounts
  /\ Gm \subseteq Links
  /\ Kinds \subseteq {"PLAYER", "NEWPLAYER"}
  /\ MaxPlayerLimit \in Nat /\ MaxCounter \in Nat

SQueueData == [dnidClient : Links, account : Accounts]

VARIABLES
  phase,           \* new, open, cut (not valid, its context still there), closed
  account,         \* the account a link logs in with
  told,            \* what the client was told last
  loginQueueList,  \* the waiting clients
  tempLinkContext, \* link -> account whose characters are being fetched
  playerCache,     \* accounts in the game
  concurrency,     \* g_dConcurrencyPlayerNum
  playerloginlist, \* accounts whose login is in progress
  zone,            \* the player at its zone server
  complete         \* reports of completed logins on their way

linkVars == <<phase, account, told>>
countVars == <<concurrency, playerloginlist>>
zoneVars == <<zone, complete>>
vars == <<linkVars, loginQueueList, tempLinkContext, playerCache, countVars, zoneVars>>

TypeOK ==
  /\ phase \in [Links -> {"new", "open", "cut", "closed"}]
  /\ account \in [Links -> Accounts \cup {NoAccount}]
  /\ told \in [Links -> {"nothing", "wait", "success", "already", "error"}]
  /\ loginQueueList \in Seq(SQueueData)
  /\ tempLinkContext \in [Links -> Accounts \cup {NoAccount}]
  /\ playerCache \subseteq Accounts
  /\ concurrency \in Nat
  /\ playerloginlist \subseteq Accounts
  /\ zone \in [Accounts -> {"none", "placed", "loading", "playing"}]
  /\ complete \subseteq Accounts

Init ==
  /\ phase = [l \in Links |-> "new"]
  /\ account = [l \in Links |-> NoAccount]
  /\ told = [l \in Links |-> "nothing"]
  /\ loginQueueList = <<>>
  /\ tempLinkContext = [l \in Links |-> NoAccount]
  /\ playerCache = {}
  /\ concurrency = 0
  /\ playerloginlist = {}
  /\ zone = [a \in Accounts |-> "none"]
  /\ complete = {}

-----------------------------------------------------------------------------
IsValid(l) == phase[l] = "open"

(* RebindAccount finds the account at another link or in the game.         *)
Known(a) == a \in playerCache \/ \E l \in Links : tempLinkContext[l] = a

(* RebindAccount of an account in the game: PutIntoRegion sends the client *)
(* to the player's zone server, which may have lost the player.            *)
Placed(as) ==
  [a \in Accounts |-> IF a \in as \cap playerCache /\ zone[a] = "none"
                      THEN "placed" ELSE zone[a]]

(* A client connects and sends its account, which is being checked.        *)
Connect(l, a) ==
  /\ phase[l] = "new"
  /\ phase' = [phase EXCEPT ![l] = "open"]
  /\ account' = [account EXCEPT ![l] = a]
  /\ UNCHANGED <<told, loginQueueList, tempLinkContext, playerCache, countVars,
                 zoneVars>>

Checking(l) == IsValid(l) /\ account[l] # NoAccount /\ told[l] = "nothing"

(* RecvCheckAccountMsg: who must wait.                                     *)
MustWait(l) ==
  concurrency >= MaxPlayerLimit /\ l \notin Gm /\ account[l] \notin playerCache

QueueDataEmpty(l) ==                            \* deviation: not filled in
  [dnidClient |-> l, account |-> NoAccount]
QueueData(l) == [dnidClient |-> l, account |-> account[l]]

Wait(l) ==
  /\ Checking(l) /\ MustWait(l)
  /\ loginQueueList' = Append(loginQueueList, QueueData(l))
  /\ told' = [told EXCEPT ![l] = "wait"]
  /\ UNCHANGED <<phase, account, tempLinkContext, playerCache, countVars, zoneVars>>

(* PlayerLogin; up: the request for the characters can be sent.            *)
PlayerLogin(l, up) ==
  /\ Checking(l) /\ ~MustWait(l)
  /\ IF Known(account[l])
     THEN /\ told' = [told EXCEPT ![l] = "already"]
          /\ zone' = Placed({account[l]})
          /\ UNCHANGED <<phase, tempLinkContext>>
     ELSE /\ tempLinkContext' = [tempLinkContext EXCEPT ![l] = account[l]]
          /\ told' = [told EXCEPT ![l] = IF up THEN "success" ELSE "error"]
          /\ phase' = [phase EXCEPT ![l] = IF up THEN "open" ELSE "cut"]
          /\ UNCHANGED zone
  /\ UNCHANGED <<account, loginQueueList, playerCache, countVars, complete>>

-----------------------------------------------------------------------------
(* The tick.  In its loop, entry i of the queue calls PlayerLogin if its   *)
(* link is valid; that registers a context if the account is known neither *)
(* before the tick nor from an earlier entry of it.                        *)
Entry(i) == loginQueueList[i]
Valid(i) == IsValid(Entry(i).dnidClient)
RegistersAlone(i) ==                            \* deviation: checked once
  Valid(i) /\ ~Known(Entry(i).account)
Registers(i) ==
  /\ Valid(i) /\ ~Known(Entry(i).account)
  /\ \A j \in 1..(i - 1) : Valid(j) => Entry(j).account # Entry(i).account

(* PlayerLogin returned TRUE, the entry takes one of the free places.      *)
TakesPlace(i, up) == Valid(i) /\ (up \/ ~Registers(i))

(* The loop takes entries as long as there are some and a place is free:   *)
(* entry k, if the entries before it left a place.                         *)
FreePlaces == MaxPlayerLimit - concurrency
PoppedOneLess(up) ==                            \* deviation: off by one
  {k \in 1..Len(loginQueueList) :
     Cardinality({i \in 1..k : TakesPlace(i, up)}) < FreePlaces}
Popped(up) ==
  {k \in 1..Len(loginQueueList) :
     Cardinality({i \in 1..(k - 1) : TakesPlace(i, up)}) < FreePlaces}

(* UpdateQueuePlayer drops the entries whose link is gone; PopLoginPlayer  *)
(* takes their accounts from the list of logins and from the counter.      *)
Left(popped) == (1..Len(loginQueueList)) \ popped
Dropped(popped) == {Entry(i).account : i \in {j \in Left(popped) : ~Valid(j)}}

(* The others keep their order.                                            *)
StillWaitingNone(popped) == <<>>                \* deviation: drops everyone
StillWaiting(popped) ==
  LET keep   == {i \in Left(popped) : Valid(i)}
      Nth(n) == CHOOSE i \in keep : Cardinality({j \in keep : j <= i}) = n
  IN [n \in 1..Cardinality(keep) |-> Entry(Nth(n))]

Minus(m, n) == IF m >= n THEN m - n ELSE 0

Tick(up) ==
  /\ concurrency < MaxPlayerLimit /\ loginQueueList # <<>>
  /\ LET called == {i \in Popped(up) : Valid(i)}
         new    == {i \in called : Registers(i)}
         Of(is) == {Entry(i).dnidClient : i \in is}
         lost   == Dropped(Popped(up)) \cap playerloginlist
     IN /\ tempLinkContext' =
             [l \in Links |-> IF l \in Of(new) THEN account[l] ELSE tempLinkContext[l]]
        /\ told' =
             [l \in Links |-> IF l \in Of(new)
                              THEN IF up THEN "success" ELSE "error"
                              ELSE IF l \in Of(called) THEN "already" ELSE told[l]]
        /\ phase' = [l \in Links |-> IF l \in Of(new) /\ ~up THEN "cut" ELSE phase[l]]
        /\ zone' = Placed({Entry(i).account : i \in called})
        /\ loginQueueList' = StillWaiting(Popped(up))
        /\ playerloginlist' = playerloginlist \ lost
        /\ concurrency' = Minus(concurrency, Cardinality(lost))
  /\ UNCHANGED <<account, playerCache, complete>>

-----------------------------------------------------------------------------
EndLink(l) ==
  /\ phase' = [phase EXCEPT ![l] = "closed"]
  /\ account' = [account EXCEPT ![l] = NoAccount]
  /\ told' = [told EXCEPT ![l] = "nothing"]

(* The client closes its link at any time, or it is cut because the        *)
(* account is not valid.  Without a context nobody minds its end.          *)
Break(l) ==
  /\ IsValid(l)
  /\ IF tempLinkContext[l] = NoAccount
     THEN EndLink(l)
     ELSE /\ phase' = [phase EXCEPT ![l] = "cut"]
          /\ UNCHANGED <<account, told>>
  /\ UNCHANGED <<loginQueueList, tempLinkContext, playerCache, countVars, zoneVars>>

(* The end of the link is noticed: CPlayerManager::Entry without data.     *)
Closed(l) ==
  /\ phase[l] = "cut"
  /\ EndLink(l)
  /\ tempLinkContext' = [tempLinkContext EXCEPT ![l] = NoAccount]
  /\ UNCHANGED <<loginQueueList, playerCache, countVars, zoneVars>>

(* The database server sent the character: AssignPlayer.  The client goes  *)
(* on to the zone server, its link is of no more use.                      *)
AssignPlayer(l) ==
  LET a == tempLinkContext[l]
  IN /\ IsValid(l) /\ a # NoAccount /\ a \notin playerCache
     /\ playerCache' = playerCache \cup {a}
     /\ tempLinkContext' = [tempLinkContext EXCEPT ![l] = NoAccount]
     /\ zone' = [zone EXCEPT ![a] = "placed"]
     /\ EndLink(l)
     /\ UNCHANGED <<loginQueueList, countVars, complete>>

(* The zone server fetches the player's data: SendPlayerData.              *)
SendPlayerData(a) ==
  /\ zone[a] = "placed" /\ a \in playerCache
  /\ concurrency < MaxCounter
  /\ zone' = [zone EXCEPT ![a] = "loading"]
  /\ concurrency' = concurrency + 1
  /\ playerloginlist' = playerloginlist \cup {a}
  /\ UNCHANGED <<linkVars, loginQueueList, tempLinkContext, playerCache, complete>>

(* The zone server has set the data.  It looks the player up as a CPlayer  *)
(* and reports the login only when it finds one.                           *)
SetPlayerData(a, kind) ==
  /\ zone[a] = "loading"
  /\ zone' = [zone EXCEPT ![a] = "playing"]
  /\ complete' = IF kind = "PLAYER" THEN complete \cup {a} ELSE complete
  /\ UNCHANGED <<linkVars, loginQueueList, tempLinkContext, playerCache, countVars>>

(* EPRO_REFRESH_PLAYERLOGINCOMPLTE.                                        *)
LoginComplete(a) ==
  /\ a \in complete
  /\ complete' = complete \ {a}
  /\ concurrency' = Minus(concurrency, 1)
  /\ playerloginlist' = playerloginlist \ {a}
  /\ UNCHANGED <<linkVars, loginQueueList, tempLinkContext, playerCache, zone>>

(* The player leaves the game; the report of its login came before.        *)
Leave(a) ==
  /\ zone[a] = "playing" /\ a \notin complete
  /\ zone' = [zone EXCEPT ![a] = "none"]
  /\ playerCache' = playerCache \ {a}
  /\ UNCHANGED <<linkVars, loginQueueList, tempLinkContext, countVars, complete>>

(* The zone server fails, or refuses the data: nothing is reported.        *)
LosePlayer(a) ==
  /\ zone[a] \in {"loading", "playing"} /\ a \notin complete
  /\ zone' = [zone EXCEPT ![a] = "none"]
  /\ UNCHANGED <<linkVars, loginQueueList, tempLinkContext, playerCache, countVars,
                 complete>>

Next ==
  \/ \E l \in Links : \/ \E a \in Accounts : Connect(l, a)
                      \/ Wait(l) \/ Break(l) \/ Closed(l)
                      \/ \E up \in BOOLEAN : PlayerLogin(l, up)
                      \/ AssignPlayer(l)
  \/ \E up \in BOOLEAN : Tick(up)
  \/ \E a \in Accounts : \/ SendPlayerData(a) \/ LoginComplete(a)
                         \/ \E kind \in Kinds : SetPlayerData(a, kind)
                         \/ Leave(a) \/ LosePlayer(a)

(* The tick comes every 20 seconds; the loops of the servers handle what   *)
(* they are sent.                                                          *)
Fairness ==
  /\ WF_vars(\E up \in BOOLEAN : Tick(up))
  /\ \A a \in Accounts : /\ WF_vars(\E kind \in Kinds : SetPlayerData(a, kind))
                         /\ WF_vars(LoginComplete(a))

Spec == Init /\ [][Next]_vars /\ Fairness

-----------------------------------------------------------------------------
(* Hazard NetAccountCheckModule.cpp:169.  The tick takes entries from the  *)
(* queue whatever PlayerLogin returned, and drops entries further back.    *)
(* A client that was told to wait, and heard nothing since, is in the      *)
(* queue exactly once as long as its link is valid.                        *)
WaitersQueued ==
  \A l \in Links :
    told[l] = "wait" /\ IsValid(l) =>
      Cardinality({i \in 1..Len(loginQueueList) : Entry(i).dnidClient = l}) = 1

(* Hazard PlayerManager.cpp:1207.  Nobody fetches an account's characters  *)
(* twice: an account is at one link at most and not in the game as well,   *)
(* also when the same account waits several times and one tick lets all    *)
(* the entries in.                                                         *)
OneLogin ==
  \A l \in Links :
    tempLinkContext[l] # NoAccount =>
      /\ tempLinkContext[l] \notin playerCache
      /\ \A m \in Links : tempLinkContext[m] = tempLinkContext[l] => m = l

Waits(l) == \E i \in 1..Len(loginQueueList) : Entry(i).dnidClient = l

(* Hazard ServerManager.cpp:1028.  Once the counter stays under the limit  *)
(* every waiting client gets its turn, although new clients then log in    *)
(* without waiting.                                                        *)
QueueMoves ==
  <>[](concurrency < MaxPlayerLimit) => \A l \in Links : Waits(l) ~> ~Waits(l)

(* NetAccountCheckModule.cpp:17 says of the list of logins: "saved at the  *)
(* login server when the player logs in, deleted after the entry into the  *)
(* region server is complete".                                             *)
EntryLeavesList ==
  \A a \in Accounts :
    a \in playerloginlist /\ zone[a] = "playing" ~> a \notin playerloginlist
=============================================================================
