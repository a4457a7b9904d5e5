---------------------------- MODULE QueueProofs ----------------------------
(***************************************************************************)
(* What holds in LoginQueue for any accounts, links and limits.            *)
(*                                                                         *)
(* The argument is about the entries of the queue: no link has two of      *)
(* them, and an entry whose link is valid belongs to a client that was     *)
(* told to wait and asks for the entry's account.  The tick takes some     *)
(* entries out; the others are renumbered, and it has to be shown that     *)
(* renumbering loses none of them and doubles none of them.                *)
(***************************************************************************)
EXTENDS LoginQueue, FiniteSetTheorems, TLAPS

-----------------------------------------------------------------------------
(* Numbering a finite set of numbers in their order reaches every member   *)
(* exactly once.                                                           *)
UpTo(keep, i) == {j \in keep : j <= i}

LEMMA Numbering ==
  ASSUME NEW N \in Nat, NEW keep \in SUBSET (1..N)
  PROVE  /\ IsFiniteSet(keep) /\ Cardinality(keep) \in Nat
         /\ \A n \in 1..Cardinality(keep) :
              \E i \in keep : Cardinality(UpTo(keep, i)) = n
         /\ \A i \in keep : Cardinality(UpTo(keep, i)) \in 1..Cardinality(keep)
         /\ \A i, k \in keep :
              Cardinality(UpTo(keep, i)) = Cardinality(UpTo(keep, k)) => i = k
<1>1. IsFiniteSet(1..N)
  BY FS_Interval
<1>2. IsFiniteSet(keep)
  BY <1>1, FS_Subset
<1>3. Cardinality(keep) \in Nat
  BY <1>2, FS_CardinalityType
<1>4. \A i \in keep : /\ IsFiniteSet(UpTo(keep, i))
                      /\ Cardinality(UpTo(keep, i)) \in Nat
                      /\ Cardinality(UpTo(keep, i)) <= Cardinality(keep)
  <2>1. TAKE i \in keep
  <2>2. UpTo(keep, i) \in SUBSET keep
    BY DEF UpTo
  <2>3. IsFiniteSet(UpTo(keep, i)) /\ Cardinality(UpTo(keep, i)) <= Cardinality(keep)
    BY <1>2, <2>2, FS_Subset
  <2> QED  BY <2>3, FS_CardinalityType
<1>5. \A i \in keep : Cardinality(UpTo(keep, i)) # 0
  <2>1. TAKE i \in keep
  <2>2. i \in UpTo(keep, i)
    BY DEF UpTo
  <2> QED  BY <1>4, <2>2, FS_EmptySet
<1>6. ASSUME NEW i \in keep, NEW k \in keep, i < k
      PROVE  Cardinality(UpTo(keep, i)) # Cardinality(UpTo(keep, k))
  <2>1. UpTo(keep, i) \in SUBSET UpTo(keep, k)
    <3>1. \A j \in keep : j \in Int
      OBVIOUS
    <3>2. \A j \in keep : j <= i => j <= k
      BY <1>6, <3>1
    <3> QED  BY <3>2 DEF UpTo
  <2>2. k \in UpTo(keep, k) /\ k \notin UpTo(keep, i)
    BY <1>6 DEF UpTo
  <2>3. UpTo(keep, k) # UpTo(keep, i)
    BY <2>2
  <2>4. IsFiniteSet(UpTo(keep, k))
    BY <1>4
  <2> QED  BY <2>1, <2>3, <2>4, FS_Subset
<1>7. ASSUME NEW i \in keep, NEW k \in keep,
             Cardinality(UpTo(keep, i)) = Cardinality(UpTo(keep, k))
      PROVE  i = k
  <2>1. ~(i < k) /\ ~(k < i)
    BY <1>6, <1>7
  <2> QED  BY <2>1
<1>8. \A i \in keep : Cardinality(UpTo(keep, i)) \in 1..Cardinality(keep)
  <2>1. TAKE i \in keep
  <2>2. /\ Cardinality(UpTo(keep, i)) \in Nat
        /\ Cardinality(UpTo(keep, i)) <= Cardinality(keep)
        /\ Cardinality(UpTo(keep, i)) # 0
    BY <1>4, <1>5
  <2> QED  BY <1>3, <2>2
<1>9. \A n \in 1..Cardinality(keep) :
        \E i \in keep : Cardinality(UpTo(keep, i)) = n
  <2> DEFINE rank == [i \in keep |-> Cardinality(UpTo(keep, i))]
             places == 1..Cardinality(keep)
  <2>1. rank \in [keep -> places]
    BY <1>8
  <2>2. \A i, k \in keep : rank[i] = rank[k] => i = k
    BY <1>7
  <2>3. rank \in Injection(keep, places)
    BY <2>1, <2>2 DEF Injection, IsInjective
  <2>4. IsFiniteSet(places) /\ Cardinality(places) = Cardinality(keep)
    <3>1. Cardinality(keep) \in Int /\ 1 \in Int
      BY <1>3
    <3>2. /\ IsFiniteSet(places)
          /\ Cardinality(places)
               = IF 1 > Cardinality(keep) THEN 0 ELSE Cardinality(keep) - 1 + 1
      BY <3>1, FS_Interval
    <3> QED  BY <1>3, <3>2
  <2> HIDE DEF places
  <2>5. rank \in Surjection(keep, places)
    BY <2>3, <2>4, FS_Injection
  <2>6. \A n \in places : \E i \in keep : rank[i] = n
    BY <2>5 DEF Surjection
  <2>7. \A i \in keep : rank[i] = Cardinality(UpTo(keep, i))
    OBVIOUS
  <2> QED  BY <2>6, <2>7 DEF places
<1> QED  BY <1>2, <1>3, <1>7, <1>8, <1>9

(* The entries that stay: each of them has one place in the new queue.     *)
Keep(popped) == {i \in Left(popped) : Valid(i)}

Renumbers(popped, n, from) ==
  /\ n \in Nat /\ from \in [1..n -> Keep(popped)]
  /\ StillWaiting(popped) = [k \in 1..n |-> Entry(from[k])]
  /\ \A i \in Keep(popped) : \E k \in 1..n : from[k] = i
  /\ \A k, m \in 1..n : from[k] = from[m] => k = m

LEMMA Staying ==
  ASSUME loginQueueList \in Seq(SQueueData), NEW popped
  PROVE  \E n, from : Renumbers(popped, n, from)
<1> DEFINE keep == Keep(popped)
           n == Cardinality(keep)
           Nth(k) == CHOOSE i \in keep : Cardinality({j \in keep : j <= i}) = k
           from == [k \in 1..n |-> Nth(k)]
<1>1. Len(loginQueueList) \in Nat
  OBVIOUS
<1>2. keep \in SUBSET (1..Len(loginQueueList))
  BY DEF Keep, Left
<1>3. StillWaiting(popped) = [k \in 1..n |-> Entry(Nth(k))]
  BY DEF StillWaiting, Keep
<1> HIDE DEF keep
<1>4. /\ n \in Nat
      /\ \A k \in 1..n : \E i \in keep : Cardinality(UpTo(keep, i)) = k
      /\ \A i \in keep : Cardinality(UpTo(keep, i)) \in 1..n
      /\ \A i, k \in keep :
           Cardinality(UpTo(keep, i)) = Cardinality(UpTo(keep, k)) => i = k
  BY <1>1, <1>2, Numbering
<1>5. \A k \in 1..n : Nth(k) \in keep /\ Cardinality(UpTo(keep, Nth(k))) = k
  BY <1>4 DEF UpTo
<1> HIDE DEF Nth, n
<1>6. from \in [1..n -> keep] /\ \A k \in 1..n : from[k] = Nth(k)
  BY <1>5
<1>7. StillWaiting(popped) = [k \in 1..n |-> Entry(from[k])]
  BY <1>3, <1>6
<1>8. \A i \in keep : \E k \in 1..n : from[k] = i
  <2>1. TAKE i \in keep
  <2> DEFINE k == Cardinality(UpTo(keep, i))
  <2>2. k \in 1..n
    BY <1>4
  <2>3. Nth(k) \in keep /\ Cardinality(UpTo(keep, Nth(k))) = k
    BY <1>5, <2>2
  <2>4. Nth(k) = i
    BY <1>4, <2>3
  <2> QED  BY <1>6, <2>2, <2>4
<1>9. \A k, m \in 1..n : from[k] = from[m] => k = m
  BY <1>5, <1>6
<1>10. Renumbers(popped, n, from)
  BY <1>4, <1>6, <1>7, <1>8, <1>9 DEF keep, Renumbers
<1> QED  BY <1>10

-----------------------------------------------------------------------------
(* The types.                                                              *)
LEMMA EntryType ==
  ASSUME TypeOK, NEW i \in 1..Len(loginQueueList)
  PROVE  /\ Entry(i) \in SQueueData
         /\ Entry(i).dnidClient \in Links /\ Entry(i).account \in Accounts
<1>1. Entry(i) \in SQueueData
  BY DEF TypeOK, Entry
<1> QED  BY <1>1 DEF SQueueData

LEMMA PlacedType ==
  ASSUME TypeOK, NEW as
  PROVE  Placed(as) \in [Accounts -> {"none", "placed", "loading", "playing"}]
BY DEF TypeOK, Placed

LEMMA EndLinkType ==
  ASSUME TypeOK, NEW l \in Links, EndLink(l)
  PROVE  /\ phase' \in [Links -> {"new", "open", "cut", "closed"}]
         /\ account' \in [Links -> Accounts \cup {NoAccount}]
         /\ told' \in [Links -> {"nothing", "wait", "success", "already", "error"}]
BY DEF TypeOK, EndLink

LEMMA MinusType ==
  ASSUME NEW m \in Nat, NEW n \in Nat
  PROVE  Minus(m, n) \in Nat
BY DEF Minus

(* The accounts taken from the list of logins are finitely many.           *)
LEMMA LostType ==
  ASSUME TypeOK, NEW popped
  PROVE  Cardinality(Dropped(popped) \cap playerloginlist) \in Nat
<1> DEFINE gone == {j \in Left(popped) : ~Valid(j)}
           acc == [j \in gone |-> Entry(j).account]
<1>1. Len(loginQueueList) \in Nat
  BY DEF TypeOK
<1>2. IsFiniteSet(1..Len(loginQueueList))
  BY <1>1, FS_Interval
<1>3. gone \in SUBSET (1..Len(loginQueueList))
  BY DEF Left
<1>4. IsFiniteSet(gone)
  BY <1>2, <1>3, FS_Subset
<1>5. acc \in Surjection(gone, Dropped(popped))
  BY DEF Dropped, Surjection
<1>6. IsFiniteSet(Dropped(popped))
  BY <1>4, <1>5, FS_Surjection
<1>7. (Dropped(popped) \cap playerloginlist) \in SUBSET Dropped(popped)
  OBVIOUS
<1>8. IsFiniteSet(Dropped(popped) \cap playerloginlist)
  BY <1>6, <1>7, FS_Subset
<1> QED  BY <1>8, FS_CardinalityType

(* What a tick does, in terms of the entries.                              *)
Called(up) == {i \in Popped(up) : Valid(i)}
Fresh(up) == {i \in Called(up) : Registers(i)}
LinksOf(is) == {Entry(i).dnidClient : i \in is}

LEMMA TickDoes ==
  ASSUME NEW up \in BOOLEAN, Tick(up)
  PROVE  /\ tempLinkContext' =
              [l \in Links |-> IF l \in LinksOf(Fresh(up)) THEN account[l]
                               ELSE tempLinkContext[l]]
         /\ told' = [l \in Links |-> IF l \in LinksOf(Fresh(up))
                                     THEN IF up THEN "success" ELSE "error"
                                     ELSE IF l \in LinksOf(Called(up)) THEN "already"
                                     ELSE told[l]]
         /\ phase' = [l \in Links |-> IF l \in LinksOf(Fresh(up)) /\ ~up THEN "cut"
                                      ELSE phase[l]]
         /\ zone' = Placed({Entry(i).account : i \in Called(up)})
         /\ loginQueueList' = StillWaiting(Popped(up))
         /\ playerloginlist' = playerloginlist
                                 \ (Dropped(Popped(up)) \cap playerloginlist)
         /\ concurrency' = Minus(concurrency,
                                 Cardinality(Dropped(Popped(up)) \cap playerloginlist))
         /\ UNCHANGED <<account, playerCache, complete>>
BY DEF Tick, Called, Fresh, LinksOf

LEMMA CalledEntries ==
  ASSUME NEW up \in BOOLEAN
  PROVE  /\ Called(up) \subseteq 1..Len(loginQueueList)
         /\ Fresh(up) \subseteq Called(up)
         /\ \A i \in Called(up) : Valid(i)
BY DEF Called, Fresh, Popped

LEMMA TypeInit == ASSUME Init PROVE TypeOK
BY QueueAssumption DEF Init, TypeOK

LEMMA TypeTick ==
  ASSUME TypeOK, NEW up \in BOOLEAN, Tick(up)
  PROVE  TypeOK'
<1>1. /\ phase' \in [Links -> {"new", "open", "cut", "closed"}]
      /\ told' \in [Links -> {"nothing", "wait", "success", "already", "error"}]
      /\ tempLinkContext' \in [Links -> Accounts \cup {NoAccount}]
  BY TickDoes DEF TypeOK
<1>2. zone' \in [Accounts -> {"none", "placed", "loading", "playing"}]
  BY TickDoes, PlacedType
<1>3. loginQueueList' \in Seq(SQueueData)
  <2>1. loginQueueList \in Seq(SQueueData)
    BY DEF TypeOK
  <2>2. PICK n, from : Renumbers(Popped(up), n, from)
    BY <2>1, Staying
  <2>3. /\ n \in Nat /\ from \in [1..n -> Keep(Popped(up))]
        /\ StillWaiting(Popped(up)) = [k \in 1..n |-> Entry(from[k])]
    BY <2>2 DEF Renumbers
  <2>4. \A k \in 1..n : from[k] \in 1..Len(loginQueueList)
    BY <2>3 DEF Keep, Left
  <2>5. \A k \in 1..n : Entry(from[k]) \in SQueueData
    BY <2>4, EntryType
  <2>6. [k \in 1..n |-> Entry(from[k])] \in [1..n -> SQueueData]
    BY <2>5
  <2>7. [k \in 1..n |-> Entry(from[k])] \in Seq(SQueueData)
    BY <2>3, <2>6
  <2>8. loginQueueList' = StillWaiting(Popped(up))
    BY TickDoes
  <2> QED  BY <2>3, <2>7, <2>8
<1>4. concurrency' \in Nat
  <2>1. concurrency \in Nat
    BY DEF TypeOK
  <2> QED  BY <2>1, TickDoes, LostType, MinusType
<1>5. playerloginlist' \subseteq Accounts
  BY TickDoes DEF TypeOK
<1>6. UNCHANGED <<account, playerCache, complete>>
  BY TickDoes
<1> QED  BY <1>1, <1>2, <1>3, <1>4, <1>5, <1>6 DEF TypeOK

LEMMA TypeWait ==
  ASSUME TypeOK, NEW l \in Links, Wait(l)
  PROVE  TypeOK'
<1>1. account[l] \in Accounts
  BY DEF TypeOK, Wait, Checking
<1>2. QueueData(l) \in SQueueData
  BY <1>1 DEF QueueData, SQueueData
<1>3. loginQueueList' \in Seq(SQueueData)
  BY <1>2 DEF TypeOK, Wait
<1> QED  BY <1>3 DEF TypeOK, Wait, countVars, zoneVars

LEMMA TypePlayerLogin ==
  ASSUME TypeOK, NEW l \in Links, NEW up \in BOOLEAN, PlayerLogin(l, up)
  PROVE  TypeOK'
<1>1. CASE Known(account[l])
  <2>1. zone' \in [Accounts -> {"none", "placed", "loading", "playing"}]
    BY <1>1, PlacedType DEF PlayerLogin
  <2> QED  BY <1>1, <2>1 DEF TypeOK, PlayerLogin, countVars
<1>2. CASE ~Known(account[l])
  BY <1>2 DEF TypeOK, PlayerLogin, countVars
<1> QED  BY <1>1, <1>2

LEMMA TypeAssign ==
  ASSUME TypeOK, NEW l \in Links, AssignPlayer(l)
  PROVE  TypeOK'
<1>1. EndLink(l)
  BY DEF AssignPlayer
<1>2. tempLinkContext[l] \in Accounts
  BY DEF TypeOK, AssignPlayer
<1>3. /\ playerCache' \subseteq Accounts
      /\ tempLinkContext' \in [Links -> Accounts \cup {NoAccount}]
      /\ zone' \in [Accounts -> {"none", "placed", "loading", "playing"}]
  BY <1>2 DEF TypeOK, AssignPlayer
<1>4. UNCHANGED <<loginQueueList, concurrency, playerloginlist, complete>>
  BY DEF AssignPlayer, countVars
<1>5. /\ phase' \in [Links -> {"new", "open", "cut", "closed"}]
      /\ account' \in [Links -> Accounts \cup {NoAccount}]
      /\ told' \in [Links -> {"nothing", "wait", "success", "already", "error"}]
  BY <1>1, EndLinkType
<1> QED  BY <1>3, <1>4, <1>5 DEF TypeOK

LEMMA TypeLink ==
  ASSUME TypeOK, NEW l \in Links,
         Break(l) \/ Closed(l) \/ \E a \in Accounts : Connect(l, a)
  PROVE  TypeOK'
<1>1. CASE \E a \in Accounts : Connect(l, a)
  BY <1>1 DEF TypeOK, Connect, countVars, zoneVars
<1>2. CASE Break(l) /\ tempLinkContext[l] # NoAccount
  BY <1>2 DEF TypeOK, Break, countVars, zoneVars
<1>3. CASE Break(l) /\ tempLinkContext[l] = NoAccount
  BY <1>3 DEF TypeOK, Break, EndLink, countVars, zoneVars
<1>4. CASE Closed(l)
  BY <1>4 DEF TypeOK, Closed, EndLink, countVars, zoneVars
<1> QED  BY <1>1, <1>2, <1>3, <1>4

LEMMA TypeAccount ==
  ASSUME TypeOK, NEW a \in Accounts,
         \/ SendPlayerData(a) \/ LoginComplete(a)
         \/ \E kind \in Kinds : SetPlayerData(a, kind)
         \/ Leave(a) \/ LosePlayer(a)
  PROVE  TypeOK'
<1>1. CASE SendPlayerData(a)
  BY <1>1 DEF TypeOK, SendPlayerData, linkVars
<1>2. CASE LoginComplete(a)
  <2>1. concurrency' \in Nat
    BY <1>2, MinusType DEF TypeOK, LoginComplete
  <2> QED  BY <1>2, <2>1 DEF TypeOK, LoginComplete, linkVars
<1>3. CASE \E kind \in Kinds : SetPlayerData(a, kind)
  BY <1>3 DEF TypeOK, SetPlayerData, linkVars, countVars
<1>4. CASE Leave(a)
  BY <1>4 DEF TypeOK, Leave, linkVars, countVars
<1>5. CASE LosePlayer(a)
  BY <1>5 DEF TypeOK, LosePlayer, linkVars, countVars
<1> QED  BY <1>1, <1>2, <1>3, <1>4, <1>5

LEMMA TypeNext ==
  ASSUME TypeOK, [Next]_vars
  PROVE  TypeOK'
<1>1. CASE UNCHANGED vars
  BY <1>1 DEF TypeOK, vars, linkVars, countVars, zoneVars
<1>2. ASSUME NEW l \in Links,
             \/ \E a \in Accounts : Connect(l, a)
             \/ Wait(l) \/ Break(l) \/ Closed(l)
             \/ \E up \in BOOLEAN : PlayerLogin(l, up)
             \/ AssignPlayer(l)
      PROVE  TypeOK'
  BY <1>2, TypeLink, TypeWait, TypePlayerLogin, TypeAssign
<1>3. ASSUME NEW up \in BOOLEAN, Tick(up)
      PROVE  TypeOK'
  BY <1>3, TypeTick
<1>4. ASSUME NEW a \in Accounts,
             \/ SendPlayerData(a) \/ LoginComplete(a)
             \/ \E kind \in Kinds : SetPlayerData(a, kind)
             \/ Leave(a) \/ LosePlayer(a)
      PROVE  TypeOK'
  BY <1>4, TypeAccount
<1> QED  BY <1>1, <1>2, <1>3, <1>4 DEF Next

(* The queue, the contexts and the counters keep their types; above all    *)
(* the renumbered queue is again a sequence of entries, and the counter    *)
(* never runs below zero.                                                  *)
THEOREM TypeCorrect == Spec => []TypeOK
BY TypeInit, TypeNext, PTL DEF Spec

-----------------------------------------------------------------------------
(* The entries of the queue and the clients that wait.                     *)
Indices == 1..Len(loginQueueList)

EntryInv ==
  /\ \A i, j \in Indices : Entry(i).dnidClient = Entry(j).dnidClient => i = j
  /\ \A i \in Indices : phase[Entry(i).dnidClient] # "new"
  /\ \A i \in Indices :
       Valid(i) => /\ told[Entry(i).dnidClient] = "wait"
                   /\ account[Entry(i).dnidClient] = Entry(i).account
  /\ \A l \in Links : told[l] = "wait" /\ IsValid(l) => Waits(l)
  /\ \A l \in Links : phase[l] = "new" => told[l] = "nothing"

LEMMA EntryInit == ASSUME Init PROVE EntryInv
<1>1. Len(loginQueueList) = 0
  BY DEF Init
<1>2. Indices = {}
  BY <1>1 DEF Indices
<1>3. \A l \in Links : told[l] = "nothing"
  BY DEF Init
<1> QED  BY <1>2, <1>3 DEF EntryInv

(* Steps that leave the queue alone: links only leave the state of being   *)
(* valid, and no client that waits is told anything or changes its account.*)
LEMMA EntryQuiet ==
  ASSUME TypeOK, EntryInv, loginQueueList' = loginQueueList,
         \A l \in Links : phase'[l] # "new" \/ UNCHANGED <<phase[l], told[l]>>,
         \A l \in Links : phase[l] # "new" => phase'[l] # "new",
         \A l \in Links : phase[l] # "new" /\ phase'[l] = "open" =>
           /\ phase[l] = "open"
           /\ told[l] = "wait" => told'[l] = "wait" /\ account'[l] = account[l],
         \A l \in Links : told'[l] = "wait" /\ phase'[l] = "open" =>
           told[l] = "wait" /\ phase[l] = "open"
  PROVE  EntryInv'
<1>1. /\ Indices' = Indices
      /\ \A i \in Indices : Entry(i)' = Entry(i)
  BY DEF Indices, Entry
<1>2. \A i \in Indices : Entry(i).dnidClient \in Links
  BY EntryType DEF Indices
<1>3. ASSUME NEW i \in Indices
      PROVE  phase'[Entry(i).dnidClient] # "new"
  BY <1>2, <1>3 DEF EntryInv
<1>4. ASSUME NEW i \in Indices, phase'[Entry(i).dnidClient] = "open"
      PROVE  /\ told'[Entry(i).dnidClient] = "wait"
             /\ account'[Entry(i).dnidClient] = Entry(i).account
  <2>1. PICK l \in Links : l = Entry(i).dnidClient
    BY <1>2
  <2>2. phase[l] # "new"
    BY <2>1 DEF EntryInv
  <2>3. phase[l] = "open"
    BY <1>4, <2>1, <2>2
  <2>4. told[l] = "wait" /\ account[l] = Entry(i).account
    BY <2>1, <2>3 DEF EntryInv, Valid, IsValid
  <2> QED  BY <1>4, <2>1, <2>2, <2>4
<1>5. ASSUME NEW l \in Links, told'[l] = "wait", phase'[l] = "open"
      PROVE  \E i \in Indices : Entry(i).dnidClient = l
  <2>1. told[l] = "wait" /\ IsValid(l)
    BY <1>5 DEF IsValid
  <2> QED  BY <2>1 DEF EntryInv, Waits, Indices
<1>6. \A l \in Links : phase'[l] = "new" => told'[l] = "nothing"
  BY DEF EntryInv
<1>7. /\ \A i, j \in Indices' : Entry(i)'.dnidClient = Entry(j)'.dnidClient => i = j
      /\ \A i \in Indices' : phase'[Entry(i)'.dnidClient] # "new"
      /\ \A i \in Indices' : phase'[Entry(i)'.dnidClient] = "open" =>
           /\ told'[Entry(i)'.dnidClient] = "wait"
           /\ account'[Entry(i)'.dnidClient] = Entry(i)'.account
  BY <1>1, <1>3, <1>4 DEF EntryInv
<1>8. \A l \in Links : told'[l] = "wait" /\ phase'[l] = "open" =>
        \E i \in Indices' : Entry(i)'.dnidClient = l
  BY <1>1, <1>5
<1> QED  BY <1>6, <1>7, <1>8 DEF EntryInv, Valid, IsValid, Waits, Indices, Entry

(* A client that must wait is in no entry yet: it would have been told so. *)
LEMMA EntryWait ==
  ASSUME TypeOK, EntryInv, NEW w \in Links, Wait(w)
  PROVE  EntryInv'
<1>1. PICK n \in Nat : n = Len(loginQueueList) /\ loginQueueList \in Seq(SQueueData)
  BY DEF TypeOK
<1>2. /\ loginQueueList' = Append(loginQueueList, QueueData(w))
      /\ told' = [told EXCEPT ![w] = "wait"]
      /\ phase' = phase /\ account' = account
      /\ phase[w] = "open" /\ told[w] = "nothing" /\ account[w] \in Accounts
  BY DEF Wait, Checking, IsValid, TypeOK
<1>3. QueueData(w) \in SQueueData
  BY <1>2 DEF QueueData, SQueueData
<1>4. /\ Len(loginQueueList') = n + 1
      /\ \A i \in 1..n : loginQueueList'[i] = loginQueueList[i]
      /\ loginQueueList'[n + 1] = QueueData(w)
  BY <1>1, <1>2, <1>3
<1>5. Indices' = Indices \cup {n + 1} /\ n + 1 \notin Indices
  BY <1>1, <1>4 DEF Indices
<1>6. \A i \in Indices : Entry(i)' = Entry(i)
  BY <1>1, <1>4 DEF Entry, Indices
<1>7. Entry(n + 1)'.dnidClient = w /\ Entry(n + 1)'.account = account[w]
  BY <1>4 DEF Entry, QueueData
<1>8. \A i \in Indices : Entry(i).dnidClient \in Links /\ Entry(i).dnidClient # w
  <2>1. TAKE i \in Indices
  <2>2. Entry(i).dnidClient \in Links
    BY EntryType DEF Indices
  <2> QED  BY <1>2, <2>2 DEF EntryInv, Valid, IsValid
<1>9. \A l \in Links : told'[l] = IF l = w THEN "wait" ELSE told[l]
  BY <1>2 DEF TypeOK
<1>10. \A i, j \in Indices' : Entry(i)'.dnidClient = Entry(j)'.dnidClient => i = j
  BY <1>5, <1>6, <1>7, <1>8 DEF EntryInv
<1>11. \A i \in Indices' : phase'[Entry(i)'.dnidClient] # "new"
  BY <1>2, <1>5, <1>6, <1>7 DEF EntryInv
<1>12. \A i \in Indices' : phase'[Entry(i)'.dnidClient] = "open" =>
         /\ told'[Entry(i)'.dnidClient] = "wait"
         /\ account'[Entry(i)'.dnidClient] = Entry(i)'.account
  <2>1. TAKE i \in Indices'
  <2>2. CASE i \in Indices
    BY <1>2, <1>6, <1>8, <1>9, <2>2 DEF EntryInv, Valid, IsValid
  <2>3. CASE i = n + 1
    BY <1>2, <1>7, <1>9, <2>3
  <2> QED  BY <1>5, <2>2, <2>3
<1>13. \A l \in Links : told'[l] = "wait" /\ phase'[l] = "open" =>
         \E i \in Indices' : Entry(i)'.dnidClient = l
  <2>1. TAKE l \in Links
  <2>2. CASE l = w
    BY <1>5, <1>7, <2>2
  <2>3. ASSUME l # w, told'[l] = "wait", phase'[l] = "open"
        PROVE  \E i \in Indices' : Entry(i)'.dnidClient = l
    <3>1. \E i \in Indices : Entry(i).dnidClient = l
      BY <1>2, <1>9, <2>3 DEF EntryInv, Waits, IsValid, Indices
    <3> QED  BY <1>5, <1>6, <3>1
  <2> QED  BY <2>2, <2>3
<1>14. \A l \in Links : phase'[l] = "new" => told'[l] = "nothing"
  BY <1>2, <1>9 DEF EntryInv
<1> QED  BY <1>10, <1>11, <1>12, <1>13, <1>14
         DEF EntryInv, Valid, IsValid, Waits, Indices, Entry

(* The tick: the entries that stay are entries of links that it does not   *)
(* touch, and no waiting client is forgotten.                              *)
LEMMA EntryTick ==
  ASSUME TypeOK, EntryInv, NEW up \in BOOLEAN, Tick(up)
  PROVE  EntryInv'
<1>P. PICK popped : popped = Popped(up)
  OBVIOUS
<1> DEFINE keep == Keep(popped)
<1>0. loginQueueList \in Seq(SQueueData)
  BY DEF TypeOK
<1>1. PICK n, from : Renumbers(popped, n, from)
  BY <1>0, Staying
<1> HIDE DEF keep
<1>2. /\ n \in Nat /\ from \in [1..n -> keep]
      /\ StillWaiting(popped) = [k \in 1..n |-> Entry(from[k])]
      /\ \A i \in keep : \E k \in 1..n : from[k] = i
      /\ \A k, m \in 1..n : from[k] = from[m] => k = m
  BY <1>1 DEF Renumbers, keep
<1>3. PICK e : e = [k \in 1..n |-> Entry(from[k])]
  OBVIOUS
<1>4. loginQueueList' = e
  BY <1>P, <1>2, <1>3, TickDoes
<1>5. Len(e) = n /\ \A k \in 1..n : e[k] = Entry(from[k])
  BY <1>2, <1>3
<1>6. /\ Indices' = 1..n
      /\ \A k \in 1..n : Entry(k)' = Entry(from[k])
  BY <1>4, <1>5 DEF Indices, Entry
<1>7. /\ keep \subseteq Indices
      /\ \A i \in keep : Valid(i) /\ i \notin Called(up) /\ Entry(i).dnidClient \in Links
  <2>1. keep \subseteq Indices /\ \A i \in keep : Valid(i) /\ i \notin Called(up)
    BY <1>P DEF keep, Keep, Left, Indices, Called
  <2> QED  BY <2>1, EntryType DEF Indices
<1>8. Called(up) \subseteq Indices /\ Fresh(up) \subseteq Called(up)
  BY CalledEntries DEF Indices
<1>9. /\ \A l \in Links : l \notin LinksOf(Called(up)) =>
             told'[l] = told[l] /\ phase'[l] = phase[l]
      /\ \A l \in Links : l \in LinksOf(Called(up)) => told'[l] # "wait"
      /\ \A l \in Links : phase'[l] = phase[l] \/ phase'[l] = "cut"
      /\ account' = account
  <2>1. LinksOf(Fresh(up)) \subseteq LinksOf(Called(up))
    BY <1>8 DEF LinksOf
  <2> QED  BY <2>1, TickDoes
<1>10. \A i \in keep : Entry(i).dnidClient \notin LinksOf(Called(up))
  <2>1. TAKE i \in keep
  <2>2. \A j \in Called(up) : Entry(j).dnidClient # Entry(i).dnidClient
    BY <1>7, <1>8 DEF EntryInv
  <2> QED  BY <2>2 DEF LinksOf
<1>11. \A k \in 1..n : from[k] \in keep
  BY <1>2
<1>12. \A i, j \in Indices' : Entry(i)'.dnidClient = Entry(j)'.dnidClient => i = j
  <2>1. SUFFICES ASSUME NEW i \in 1..n, NEW j \in 1..n,
                        Entry(from[i]).dnidClient = Entry(from[j]).dnidClient
                 PROVE  i = j
    BY <1>6
  <2>2. from[i] = from[j]
    BY <1>7, <1>11, <2>1 DEF EntryInv
  <2> QED  BY <1>2, <2>2
<1>13. \A k \in Indices' :
         /\ phase'[Entry(k)'.dnidClient] # "new"
         /\ phase'[Entry(k)'.dnidClient] = "open" =>
              /\ told'[Entry(k)'.dnidClient] = "wait"
              /\ account'[Entry(k)'.dnidClient] = Entry(k)'.account
  <2>1. SUFFICES ASSUME NEW i \in keep
                 PROVE  /\ phase'[Entry(i).dnidClient] # "new"
                        /\ phase'[Entry(i).dnidClient] = "open" =>
                             /\ told'[Entry(i).dnidClient] = "wait"
                             /\ account'[Entry(i).dnidClient] = Entry(i).account
    BY <1>6, <1>11
  <2>2. PICK l \in Links : l = Entry(i).dnidClient
    BY <1>7
  <2>3. /\ phase[l] # "new"
        /\ told[l] = "wait" /\ account[l] = Entry(i).account
    BY <1>7, <2>2 DEF EntryInv
  <2>4. told'[l] = told[l] /\ phase'[l] = phase[l] /\ account'[l] = account[l]
    BY <1>9, <1>10, <2>2
  <2> QED  BY <2>2, <2>3, <2>4
<1>14. \A l \in Links : told'[l] = "wait" /\ phase'[l] = "open" =>
         \E k \in Indices' : Entry(k)'.dnidClient = l
  <2>1. SUFFICES ASSUME NEW l \in Links, told'[l] = "wait", phase'[l] = "open"
                 PROVE  \E k \in Indices' : Entry(k)'.dnidClient = l
    OBVIOUS
  <2>2. l \notin LinksOf(Called(up)) /\ told[l] = "wait" /\ phase[l] = "open"
    BY <1>9, <2>1
  <2>3. PICK i \in Indices : Entry(i).dnidClient = l
    BY <2>2 DEF EntryInv, Waits, IsValid, Indices
  <2>4. Valid(i) /\ i \notin Called(up)
    BY <2>2, <2>3 DEF Valid, IsValid, LinksOf
  <2>5. i \in keep
    BY <1>P, <2>3, <2>4 DEF keep, Keep, Left, Called, Indices
  <2>6. PICK k \in 1..n : from[k] = i
    BY <1>2, <2>5
  <2> QED  BY <1>6, <2>3, <2>6
<1>15. \A l \in Links : phase'[l] = "new" => told'[l] = "nothing"
  <2>1. TAKE l \in Links
  <2>2. SUFFICES ASSUME phase'[l] = "new" PROVE told'[l] = "nothing"
    OBVIOUS
  <2>3. phase[l] = "new" /\ told[l] = "nothing"
    BY <1>9, <2>2 DEF EntryInv
  <2>4. l \notin LinksOf(Called(up))
    BY <1>8, <2>3, CalledEntries DEF LinksOf, Valid, IsValid
  <2> QED  BY <1>9, <2>3, <2>4
<1> QED  BY <1>12, <1>13, <1>14, <1>15
         DEF EntryInv, Valid, IsValid, Waits, Indices, Entry

LEMMA EntryNext ==
  ASSUME TypeOK, EntryInv, [Next]_vars
  PROVE  EntryInv'
<1>1. CASE UNCHANGED <<linkVars, loginQueueList>>
  <2>1. UNCHANGED <<phase, account, told, loginQueueList>>
    BY <1>1 DEF linkVars
  <2> QED  BY <2>1, EntryQuiet
<1>2. ASSUME NEW l \in Links, NEW a \in Accounts, Connect(l, a)
      PROVE  EntryInv'
  <2>1. /\ loginQueueList' = loginQueueList /\ told' = told
        /\ phase[l] = "new" /\ told[l] = "nothing"
        /\ \A m \in Links : phase'[m] = IF m = l THEN "open" ELSE phase[m]
        /\ \A m \in Links : m # l => account'[m] = account[m]
    BY <1>2 DEF Connect, TypeOK, EntryInv
  <2> QED  BY <2>1, EntryQuiet
<1>3. ASSUME NEW l \in Links, NEW up \in BOOLEAN, PlayerLogin(l, up)
      PROVE  EntryInv'
  <2>1. /\ loginQueueList' = loginQueueList /\ account' = account
        /\ phase[l] = "open" /\ told[l] = "nothing" /\ told'[l] # "wait"
        /\ phase'[l] \in {"open", "cut"}
        /\ \A m \in Links : m # l => phase'[m] = phase[m] /\ told'[m] = told[m]
    BY <1>3 DEF PlayerLogin, TypeOK, Checking, IsValid
  <2> QED  BY <2>1, EntryQuiet
<1>4. ASSUME NEW l \in Links, phase[l] # "new", phase'[l] \in {"cut", "closed"},
             loginQueueList' = loginQueueList,
             \A m \in Links : m # l =>
               UNCHANGED <<phase[m], told[m], account[m]>>
      PROVE  EntryInv'
  BY <1>4, EntryQuiet
<1>5. ASSUME NEW l \in Links, Break(l) \/ Closed(l) \/ AssignPlayer(l)
      PROVE  EntryInv'
  <2>1. phase[l] # "new" /\ phase'[l] \in {"cut", "closed"}
        /\ loginQueueList' = loginQueueList
        /\ \A m \in Links : m # l =>
             phase'[m] = phase[m] /\ told'[m] = told[m] /\ account'[m] = account[m]
    BY <1>5 DEF Break, Closed, AssignPlayer, EndLink, IsValid, TypeOK
  <2> QED  BY <1>4, <2>1
<1>6. ASSUME NEW a \in Accounts,
             \/ SendPlayerData(a) \/ LoginComplete(a)
             \/ \E kind \in Kinds : SetPlayerData(a, kind)
             \/ Leave(a) \/ LosePlayer(a)
      PROVE  EntryInv'
  BY <1>1, <1>6 DEF SendPlayerData, LoginComplete, SetPlayerData, Leave, LosePlayer
<1>7. CASE UNCHANGED vars
  BY <1>1, <1>7 DEF vars
<1> QED  BY <1>2, <1>3, <1>5, <1>6, <1>7, EntryWait, EntryTick DEF Next

(* A client that was told to wait, and has heard nothing since, is in the  *)
(* queue exactly once while its link is valid: the tick neither drops it   *)
(* nor lets it in without telling it, nor does it wait twice.              *)
THEOREM WaitersAreQueued == Spec => []WaitersQueued
<1>1. ASSUME EntryInv PROVE WaitersQueued
  <2>1. SUFFICES ASSUME NEW l \in Links, told[l] = "wait", IsValid(l)
                 PROVE  Cardinality({i \in Indices : Entry(i).dnidClient = l}) = 1
    BY DEF WaitersQueued, Indices
  <2>2. PICK i \in Indices : Entry(i).dnidClient = l
    BY <1>1, <2>1 DEF EntryInv, Waits, Indices
  <2>3. {j \in Indices : Entry(j).dnidClient = l} = {i}
    BY <1>1, <2>2 DEF EntryInv
  <2> QED  BY <2>3, FS_Singleton
<1>2. Spec => [](TypeOK /\ EntryInv)
  <2>1. Init => TypeOK /\ EntryInv
    BY TypeInit, EntryInit
  <2>2. TypeOK /\ EntryInv /\ [Next]_vars => TypeOK' /\ EntryInv'
    BY TypeNext, EntryNext
  <2> QED  BY <2>1, <2>2, PTL DEF Spec
<1> QED  BY <1>1, <1>2, PTL

-----------------------------------------------------------------------------
(* One login of an account at a time.                                      *)
LEMMA OneLoginInit == ASSUME Init PROVE OneLogin
BY DEF Init, OneLogin

(* What a tick registers was known nowhere, and no two entries that it     *)
(* registers have the same account.                                        *)
LEMMA OneLoginTick ==
  ASSUME TypeOK, EntryInv, OneLogin, NEW up \in BOOLEAN, Tick(up)
  PROVE  OneLogin'
<1>1. /\ tempLinkContext' =
           [l \in Links |-> IF l \in LinksOf(Fresh(up)) THEN account[l]
                            ELSE tempLinkContext[l]]
      /\ playerCache' = playerCache
  BY TickDoes
<1>2. ASSUME NEW l \in LinksOf(Fresh(up))
      PROVE  \E i \in Indices : /\ Entry(i).dnidClient = l /\ Valid(i) /\ Registers(i)
                                /\ Entry(i).account = account[l]
  <2>1. PICK i \in Fresh(up) : Entry(i).dnidClient = l
    BY DEF LinksOf
  <2>2. i \in Indices /\ Valid(i) /\ Registers(i)
    BY CalledEntries DEF Fresh, Indices
  <2> QED  BY <2>1, <2>2 DEF EntryInv
<1>3. ASSUME NEW l \in LinksOf(Fresh(up)), l \in Links
      PROVE  /\ account[l] \notin playerCache
             /\ \A m \in Links : tempLinkContext[m] # account[l]
  BY <1>2 DEF Registers, Known
<1>4. ASSUME NEW l \in LinksOf(Fresh(up)), NEW m \in LinksOf(Fresh(up)),
             account[l] = account[m]
      PROVE  l = m
  <2>1. PICK i \in Indices : /\ Entry(i).dnidClient = l /\ Valid(i) /\ Registers(i)
                             /\ Entry(i).account = account[l]
    BY <1>2
  <2>2. PICK j \in Indices : /\ Entry(j).dnidClient = m /\ Valid(j) /\ Registers(j)
                             /\ Entry(j).account = account[m]
    BY <1>2
  <2>3. ~(i < j) /\ ~(j < i)
    <3>1. i \in 1..(j - 1) \/ ~(i < j)
      BY DEF Indices
    <3>2. j \in 1..(i - 1) \/ ~(j < i)
      BY DEF Indices
    <3> QED  BY <1>4, <2>1, <2>2, <3>1, <3>2 DEF Registers
  <2>4. i = j
    BY <2>3 DEF Indices
  <2> QED  BY <2>1, <2>2, <2>4
<1>5. SUFFICES ASSUME NEW l \in Links, tempLinkContext'[l] # NoAccount
               PROVE  /\ tempLinkContext'[l] \notin playerCache
                      /\ \A m \in Links :
                           tempLinkContext'[m] = tempLinkContext'[l] => m = l
  BY <1>1 DEF OneLogin
<1>6. CASE l \in LinksOf(Fresh(up))
  <2>1. tempLinkContext'[l] = account[l]
    BY <1>1, <1>6
  <2>2. ASSUME NEW m \in Links, tempLinkContext'[m] = account[l]
        PROVE  m = l
    <3>1. m \in LinksOf(Fresh(up))
      BY <1>1, <1>3, <1>6, <2>2
    <3>2. account[m] = account[l]
      BY <1>1, <2>2, <3>1
    <3> QED  BY <1>4, <1>6, <3>1, <3>2
  <2> QED  BY <1>3, <1>6, <2>1, <2>2
<1>7. CASE l \notin LinksOf(Fresh(up))
  <2>1. tempLinkContext'[l] = tempLinkContext[l]
    BY <1>1, <1>7
  <2>2. ASSUME NEW m \in Links, tempLinkContext'[m] = tempLinkContext[l]
        PROVE  m = l
    <3>1. CASE m \in LinksOf(Fresh(up))
      BY <1>1, <1>3, <2>2, <3>1
    <3>2. CASE m \notin LinksOf(Fresh(up))
      BY <1>1, <1>5, <2>1, <2>2, <3>2 DEF OneLogin
    <3> QED  BY <3>1, <3>2
  <2> QED  BY <1>5, <2>1, <2>2 DEF OneLogin
<1> QED  BY <1>6, <1>7

LEMMA OneLoginNext ==
  ASSUME TypeOK, EntryInv, OneLogin, [Next]_vars
  PROVE  OneLogin'
<1>1. ASSUME tempLinkContext' = tempLinkContext, playerCache' \subseteq playerCache
      PROVE  OneLogin'
  BY <1>1 DEF OneLogin
<1>2. ASSUME NEW l \in Links, Wait(l) \/ Break(l) \/ \E a \in Accounts : Connect(l, a)
      PROVE  OneLogin'
  BY <1>1, <1>2 DEF Wait, Break, Connect
<1>3. ASSUME NEW l \in Links, Closed(l)
      PROVE  OneLogin'
  BY <1>3 DEF OneLogin, Closed, TypeOK
<1>4. ASSUME NEW l \in Links, NEW up \in BOOLEAN, PlayerLogin(l, up)
      PROVE  OneLogin'
  <2>1. CASE Known(account[l])
    BY <1>1, <1>4, <2>1 DEF PlayerLogin
  <2>2. CASE ~Known(account[l])
    <3>1. /\ \A m \in Links : tempLinkContext'[m] =
                 IF m = l THEN account[l] ELSE tempLinkContext[m]
          /\ playerCache' = playerCache
      BY <1>4, <2>2 DEF PlayerLogin, TypeOK
    <3>2. /\ account[l] \notin playerCache
          /\ \A m \in Links : tempLinkContext[m] # account[l]
      BY <2>2 DEF Known
    <3> QED  BY <3>1, <3>2 DEF OneLogin
  <2> QED  BY <2>1, <2>2
<1>5. ASSUME NEW l \in Links, AssignPlayer(l)
      PROVE  OneLogin'
  <2>1. /\ \A m \in Links : tempLinkContext'[m] =
               IF m = l THEN NoAccount ELSE tempLinkContext[m]
        /\ playerCache' = playerCache \cup {tempLinkContext[l]}
        /\ tempLinkContext[l] # NoAccount
    BY <1>5 DEF AssignPlayer, TypeOK
  <2> QED  BY <2>1 DEF OneLogin
<1>6. ASSUME NEW a \in Accounts,
             \/ SendPlayerData(a) \/ LoginComplete(a)
             \/ \E kind \in Kinds : SetPlayerData(a, kind)
             \/ Leave(a) \/ LosePlayer(a)
      PROVE  OneLogin'
  BY <1>1, <1>6 DEF SendPlayerData, LoginComplete, SetPlayerData, Leave, LosePlayer
<1>7. CASE UNCHANGED vars
  BY <1>1, <1>7 DEF vars
<1> QED  BY <1>2, <1>3, <1>4, <1>5, <1>6, <1>7, OneLoginTick DEF Next

(* Nobody fetches an account's characters twice: an account is at one link *)
(* at most and not in the game as well, however often it waits and however *)
(* many of its entries one tick lets in.                                   *)
THEOREM OneLoginAtATime == Spec => []OneLogin
<1>1. Init => TypeOK /\ EntryInv /\ OneLogin
  BY TypeInit, EntryInit, OneLoginInit
<1>2. TypeOK /\ EntryInv /\ OneLogin /\ [Next]_vars
        => TypeOK' /\ EntryInv' /\ OneLogin'
  BY TypeNext, EntryNext, OneLoginNext
<1> QED  BY <1>1, <1>2, PTL DEF Spec
=============================================================================
