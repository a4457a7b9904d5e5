--------------------------- MODULE SectionProofs ---------------------------
(***************************************************************************)
(* What holds in Section for any senders, kinds and sizes of messages and  *)
(* of the counter, with any number of lost links and restarts.             *)
(*                                                                         *)
(* Two arguments.  One is about identifiers: whatever is in a buffer was   *)
(* numbered to its identifier, and a process gives the same identifier to  *)
(* every MaxId-th message only.  The other is about order: while no link   *)
(* is lost and no other sender has the kind, the sections of a sender      *)
(* arrive in the order they were made, so that the map holds at most the   *)
(* sections of the message its next section belongs to.                    *)
(***************************************************************************)
EXTENDS Section, TLAPS

(* A message is not the empty place in a buffer.                           *)
LEMMA NoMessage == ASSUME NEW m \in Message PROVE m # <<>>
<1>1. DOMAIN m = {"from", "life", "number", "size"}
  BY DEF Message
<1>2. DOMAIN <<>> = 1..0 /\ "from" \notin 1..0
  OBVIOUS
<1> QED  BY <1>1, <1>2

LEMMA PartsOf ==
  ASSUME NEW buf \in RecvData
  PROVE  /\ Parts(buf) \subseteq Message
         /\ \A m : m \in Parts(buf) <=> m # <<>> /\ \E i \in 1..Len(buf.data) : buf.data[i] = m
<1>1. buf.data \in Seq(Message \cup {<<>>})
  BY DEF RecvData
<1>2. DOMAIN buf.data = 1..Len(buf.data)
  BY <1>1
<1>3. \A m : m \in Parts(buf) <=> m # <<>> /\ \E i \in 1..Len(buf.data) : buf.data[i] = m
  BY <1>2 DEF Parts
<1> QED  BY <1>1, <1>3

LEMMA NothingInNoData == NoData \in RecvData /\ Parts(NoData) = {}
<1>1. <<>> \in Seq(Message \cup {<<>>})
  OBVIOUS
<1>2. NoData \in RecvData
  BY <1>1 DEF NoData, RecvData
<1>3. Len(NoData.data) = 0
  BY DEF NoData
<1> QED  BY <1>2, <1>3, PartsOf

-----------------------------------------------------------------------------
(* Types.                                                                  *)

(* The counter is never 0 when it is used, and stays a byte.               *)
LEMMA CounterType ==
  ASSUME NEW c \in 0..MaxId
  PROVE  /\ Counter(c) \in 1..MaxId /\ NextCount(c) \in 0..MaxId
         /\ Counter(c) < MaxId => NextCount(c) = Counter(c) + 1
         /\ Counter(c) = MaxId => NextCount(c) = 0
<1>1. MaxId \in Nat \ {0} /\ Counter(c) \in 1..MaxId
  BY SectionAssumption DEF Counter
<1>2. \A x \in 0..MaxId : x % (MaxId + 1) = x
  BY <1>1
<1>3. (MaxId + 1) % (MaxId + 1) = 0
  BY <1>1
<1>4. CASE Counter(c) < MaxId
  BY <1>1, <1>2, <1>4 DEF NextCount
<1>5. CASE Counter(c) = MaxId
  BY <1>1, <1>3, <1>5 DEF NextCount
<1> QED  BY <1>1, <1>4, <1>5

(* The message that is sent next, and the identifier it gets.              *)
NewMessage(s, size) ==
  [from |-> s, life |-> life[s], number |-> sent[s] + 1, size |-> size]
NewId(s) == <<KindOf[s], Counter(sendCount[s])>>

LEMMA NewTypes ==
  ASSUME TypeOK, NEW s \in Senders, NEW size \in 1..MaxSize
  PROVE  /\ NewMessage(s, size) \in Message /\ NewId(s) \in Ids /\ size \in Nat \ {0}
         /\ Sections(NewMessage(s, size), NewId(s)) \in Seq(SectionMsg)
         /\ Len(Sections(NewMessage(s, size), NewId(s))) = size
         /\ \A i \in 1..size : Sections(NewMessage(s, size), NewId(s))[i] =
              [id |-> NewId(s), index |-> i - 1, msg |-> NewMessage(s, size)]
<1>1. size \in Nat \ {0}
  BY SectionAssumption
<1>2. NewMessage(s, size) \in Message
  BY <1>1 DEF NewMessage, Message, TypeOK
<1>3. NewId(s) \in Ids
  BY CounterType DEF NewId, Ids, TypeOK
<1>4. NewMessage(s, size).size = size
  BY DEF NewMessage
<1> DEFINE m == NewMessage(s, size)
           id == NewId(s)
<1> HIDE DEF m, id
<1>5. \A i \in 1..size : [id |-> id, index |-> i - 1, msg |-> m] \in SectionMsg
  BY <1>1, <1>2, <1>3 DEF SectionMsg, m, id
<1>6. m.size = size
  BY <1>4 DEF m
<1>7. /\ Sections(m, id) \in Seq(SectionMsg) /\ Len(Sections(m, id)) = size
      /\ \A i \in 1..size : Sections(m, id)[i] = [id |-> id, index |-> i - 1, msg |-> m]
  BY <1>1, <1>5, <1>6 DEF Sections
<1> QED  BY <1>1, <1>2, <1>3, <1>7 DEF m, id

LEMMA SendEffect ==
  ASSUME TypeOK, NEW s \in Senders, NEW size \in 1..MaxSize, Send(s, size)
  PROVE  link' = [link EXCEPT ![s] = @ \o Sections(NewMessage(s, size), NewId(s))]
BY DEF Send, NewMessage, NewId

(* The section that arrives, and the buffer with it.                       *)
LEMMA ArrivalTypes ==
  ASSUME TypeOK, NEW s \in Senders, link[s] # <<>>
  PROVE  /\ Head(link[s]) \in SectionMsg /\ Tail(link[s]) \in Seq(SectionMsg)
         /\ Buffer(Head(link[s])) \in RecvData /\ Buffer(Head(link[s])).count # 0
         /\ Copied(Buffer(Head(link[s])), Head(link[s])) \in RecvData
<1>1. PICK sec \in SectionMsg : sec = Head(link[s])
  BY DEF TypeOK
<1>2. Tail(link[s]) \in Seq(SectionMsg)
  BY DEF TypeOK
<1>3. sec.id \in Ids /\ sec.msg \in Message /\ sec.msg.size \in Nat \ {0}
  BY DEF SectionMsg, Message
<1>4. recvDataMap[sec.id] \in RecvData
  BY <1>3 DEF TypeOK
<1>5. PICK buf : buf = Buffer(sec)
  OBVIOUS
<1>6. buf \in RecvData /\ buf.count # 0
  <2>1. CASE recvDataMap[sec.id].count = 0
    <3>1. buf = [data |-> [i \in 1..sec.msg.size |-> <<>>], count |-> sec.msg.size]
      BY <1>5, <2>1 DEF Buffer
    <3>2. [i \in 1..sec.msg.size |-> <<>>] \in Seq(Message \cup {<<>>})
      BY <1>3
    <3> QED  BY <1>3, <3>1, <3>2 DEF RecvData
  <2>2. CASE recvDataMap[sec.id].count # 0
    BY <1>4, <1>5, <2>2 DEF Buffer
  <2> QED  BY <2>1, <2>2
<1>7. buf.data \in Seq(Message \cup {<<>>}) /\ buf.count \in Nat \ {0}
  BY <1>6 DEF RecvData
<1>8. [i \in DOMAIN buf.data |-> IF i = sec.index + 1 THEN sec.msg ELSE buf.data[i]]
        \in Seq(Message \cup {<<>>})
  BY <1>3, <1>7
<1>9. Copied(buf, sec) \in RecvData
  BY <1>7, <1>8 DEF Copied, RecvData
<1> QED  BY <1>1, <1>2, <1>5, <1>6, <1>9

LEMMA TypeInit == Init => TypeOK
<1> SUFFICES ASSUME Init PROVE TypeOK
  OBVIOUS
<1>1. 0 \in 0..MaxId /\ 0 \in 0..MaxLosses
  BY SectionAssumption
<1>2. link \in [Senders -> Seq(SectionMsg)]
  BY DEF Init
<1> QED  BY <1>1, <1>2, NothingInNoData DEF Init, TypeOK

LEMMA TypeNext == TypeOK /\ [Next]_vars => TypeOK'
<1> SUFFICES ASSUME TypeOK, [Next]_vars PROVE TypeOK'
  OBVIOUS
<1>1. ASSUME NEW s \in Senders, NEW size \in 1..MaxSize, Send(s, size)
      PROVE  TypeOK'
  <2>1. link' \in [Senders -> Seq(SectionMsg)]
    <3>1. PICK q \in Seq(SectionMsg) : q = Sections(NewMessage(s, size), NewId(s))
      BY NewTypes
    <3>2. link' = [link EXCEPT ![s] = @ \o q]
      BY <1>1, <3>1, SendEffect
    <3> QED  BY <3>2 DEF TypeOK
  <2>2. sendCount' \in [Senders -> 0..MaxId]
    BY <1>1, CounterType DEF Send, TypeOK
  <2> QED  BY <1>1, <2>1, <2>2, NothingInNoData DEF Send, TypeOK
<1>2. ASSUME NEW s \in Senders, Receive(s)
      PROVE  TypeOK'
  <2>1. PICK sec \in SectionMsg : sec = Head(link[s])
    BY <1>2, ArrivalTypes DEF Receive
  <2>2. PICK buf \in RecvData : buf = Copied(Buffer(sec), sec)
    BY <1>2, <2>1, ArrivalTypes DEF Receive
  <2>3. \/ /\ delivered' = buf /\ recvDataMap' = [recvDataMap EXCEPT ![sec.id] = NoData]
           /\ got' = [got EXCEPT ![s] = @ + 1]
        \/ /\ delivered' = NoData /\ recvDataMap' = [recvDataMap EXCEPT ![sec.id] = buf]
           /\ got' = got
    BY <1>2, <2>1, <2>2 DEF Receive
  <2>4. delivered' \in RecvData /\ recvDataMap' \in [Ids -> RecvData]
    BY <2>3, NothingInNoData DEF TypeOK
  <2>6. got' \in [Senders -> Nat]
    <3>1. got \in [Senders -> Nat] /\ [got EXCEPT ![s] = @ + 1] \in [Senders -> Nat]
      BY DEF TypeOK
    <3> QED  BY <2>3, <3>1
  <2>5. link' \in [Senders -> Seq(SectionMsg)]
    BY <1>2, ArrivalTypes DEF Receive, TypeOK
  <2> QED  BY <1>2, <2>4, <2>5, <2>6 DEF Receive, TypeOK
<1>3. ASSUME NEW s \in Senders, LoseLink(s) \/ RestartSender(s)
      PROVE  TypeOK'
  <2>1. losses' \in 0..MaxLosses
    BY <1>3, SectionAssumption DEF LoseLink, RestartSender, TypeOK
  <2>2. <<>> \in Seq(SectionMsg) /\ 0 \in 0..MaxId
    BY SectionAssumption
  <2>3. link' \in [Senders -> Seq(SectionMsg)]
    BY <1>3, <2>2 DEF LoseLink, RestartSender, TypeOK
  <2>4. sendCount' \in [Senders -> 0..MaxId]
    BY <1>3, <2>2 DEF LoseLink, RestartSender, TypeOK
  <2>5. life' \in [Senders -> Nat] /\ sent' \in [Senders -> Nat]
    <3>1. /\ life \in [Senders -> Nat] /\ [life EXCEPT ![s] = @ + 1] \in [Senders -> Nat]
          /\ sent \in [Senders -> Nat] /\ [sent EXCEPT ![s] = 0] \in [Senders -> Nat]
      BY DEF TypeOK
    <3> QED  BY <1>3, <3>1 DEF LoseLink, RestartSender
  <2>6. delivered' = NoData /\ UNCHANGED <<recvDataMap, got>>
    BY <1>3 DEF LoseLink, RestartSender
  <2> QED  BY <2>1, <2>3, <2>4, <2>5, <2>6, NothingInNoData DEF TypeOK
<1>4. CASE UNCHANGED vars
  BY <1>4 DEF vars, TypeOK
<1> QED  BY <1>1, <1>2, <1>3, <1>4 DEF Next

(* Counters stay bytes, and every buffer has the places and the number of  *)
(* expected sections of a message.                                         *)
THEOREM TypeCorrect == Spec => []TypeOK
BY TypeInit, TypeNext, PTL DEF Spec

-----------------------------------------------------------------------------
(* Where messages are.                                                     *)

(* m travels under id, or a section of it is in the buffer of id.          *)
Underway(m, id) ==
  \/ \E s \in Senders : \E i \in 1..Len(link[s]) : link[s][i].msg = m /\ link[s][i].id = id
  \/ m \in Parts(recvDataMap[id])

Present(m) == (\E id \in Ids : Underway(m, id)) \/ m \in Parts(delivered)

SentNow(s, size, m, id) == /\ Send(s, size)
                           /\ m = NewMessage(s, size) /\ id = NewId(s)

LEMMA TailOf ==
  ASSUME NEW S, NEW q \in Seq(S), q # <<>>
  PROVE  /\ Len(q) \in Nat \ {0} /\ Len(Tail(q)) = Len(q) - 1 /\ Head(q) = q[1]
         /\ Head(q) \in S /\ Tail(q) \in Seq(S) /\ 1 \in 1..Len(q) /\ Len(q) \in 1..Len(q)
         /\ \A i \in 1..Len(Tail(q)) : Tail(q)[i] = q[i + 1] /\ i + 1 \in 1..Len(q)
OBVIOUS

LEMMA ConcatOf ==
  ASSUME NEW S, NEW q \in Seq(S), NEW p \in Seq(S)
  PROVE  /\ Len(q \o p) = Len(q) + Len(p) /\ Len(q) \in Nat /\ Len(p) \in Nat
         /\ \A i \in 1..Len(q) : (q \o p)[i] = q[i] /\ i \in 1..Len(q \o p)
         /\ \A i \in 1..Len(p) : /\ (q \o p)[Len(q) + i] = p[i]
                                 /\ Len(q) + i \in 1..Len(q \o p)
         /\ \A i \in 1..Len(q \o p) :
              i \in 1..Len(q) \/ (i - Len(q) \in 1..Len(p) /\ (q \o p)[i] = p[i - Len(q)])
OBVIOUS

(* A section adds its own message to the buffer, and nothing else.         *)
LEMMA CopiedParts ==
  ASSUME TypeOK, NEW s \in Senders, link[s] # <<>>,
         NEW m \in Parts(Copied(Buffer(Head(link[s])), Head(link[s])))
  PROVE  m = Head(link[s]).msg \/ m \in Parts(recvDataMap[Head(link[s]).id])
<1>1. PICK sec \in SectionMsg : sec = Head(link[s])
  BY ArrivalTypes
<1>2. PICK buf \in RecvData : buf = Buffer(sec)
  BY <1>1, ArrivalTypes
<1>3. PICK new \in RecvData : new = Copied(buf, sec)
  BY <1>1, <1>2, ArrivalTypes
<1>4. PICK i \in 1..Len(new.data) : new.data[i] = m /\ m # <<>>
  BY <1>1, <1>2, <1>3, PartsOf
<1>5. /\ buf.data \in Seq(Message \cup {<<>>}) /\ new.data \in Seq(Message \cup {<<>>})
      /\ new.data = [j \in DOMAIN buf.data |->
                       IF j = sec.index + 1 THEN sec.msg ELSE buf.data[j]]
  BY <1>3 DEF Copied, RecvData
<1>6. i \in 1..Len(buf.data) /\ (m = sec.msg \/ m = buf.data[i])
  BY <1>4, <1>5
<1>7. CASE recvDataMap[sec.id].count = 0
  <2>1. buf.data = [j \in 1..sec.msg.size |-> <<>>]
    BY <1>2, <1>7 DEF Buffer
  <2>2. i \in 1..sec.msg.size
    <3>1. DOMAIN buf.data = 1..Len(buf.data)
      BY <1>5
    <3> QED  BY <1>6, <2>1, <3>1
  <2> QED  BY <1>1, <1>4, <1>6, <2>1, <2>2
<1>8. CASE recvDataMap[sec.id].count # 0
  <2>1. buf = recvDataMap[sec.id]
    BY <1>2, <1>8 DEF Buffer
  <2>2. m = buf.data[i] => m \in Parts(buf)
    BY <1>4, <1>6, PartsOf
  <2> QED  BY <1>1, <1>6, <2>1, <2>2
<1> QED  BY <1>7, <1>8

(* What a received section does.                                           *)
LEMMA ReceiveEffect ==
  ASSUME TypeOK, NEW s \in Senders, Receive(s)
  PROVE  \E sec \in SectionMsg, buf \in RecvData :
           /\ link[s] # <<>> /\ sec = Head(link[s]) /\ sec = link[s][1]
           /\ buf = Copied(Buffer(sec), sec) /\ sec.id \in Ids
           /\ link' = [link EXCEPT ![s] = Tail(@)]
           /\ Underway(sec.msg, sec.id)
           /\ \A m \in Parts(buf) : Underway(m, sec.id)
           /\ \/ /\ buf.count = 0 /\ delivered' = buf
                 /\ recvDataMap' = [recvDataMap EXCEPT ![sec.id] = NoData]
                 /\ got' = [got EXCEPT ![s] = @ + 1]
              \/ /\ buf.count # 0 /\ delivered' = NoData
                 /\ recvDataMap' = [recvDataMap EXCEPT ![sec.id] = buf]
                 /\ got' = got
           /\ UNCHANGED <<sendCount, life, sent, losses>>
<1>0. link[s] # <<>> /\ link[s] \in Seq(SectionMsg)
  BY DEF Receive, TypeOK
<1>1. PICK sec \in SectionMsg : /\ sec = Head(link[s]) /\ sec = link[s][1]
                                /\ 1 \in 1..Len(link[s])
  BY <1>0, TailOf
<1>2. PICK buf \in RecvData : buf = Copied(Buffer(sec), sec)
  BY <1>0, <1>1, ArrivalTypes
<1>3. Underway(sec.msg, sec.id)
  BY <1>1 DEF Underway
<1>4. \A m \in Parts(buf) : Underway(m, sec.id)
  BY <1>0, <1>1, <1>2, <1>3, CopiedParts DEF Underway
<1>5. sec.id \in Ids
  BY DEF SectionMsg
<1> QED  BY <1>0, <1>1, <1>2, <1>3, <1>4, <1>5 DEF Receive

(* Nothing comes under way but what is sent.                               *)
LEMMA UnderwayStep ==
  ASSUME TypeOK, [Next]_vars, NEW m, NEW id \in Ids, Underway(m, id)'
  PROVE  \/ Underway(m, id)
         \/ \E s \in Senders, size \in 1..MaxSize : SentNow(s, size, m, id)
<1>1. ASSUME NEW s \in Senders, NEW size \in 1..MaxSize, Send(s, size), ~Underway(m, id)
      PROVE  SentNow(s, size, m, id)
  <2>1. PICK p \in Seq(SectionMsg) :
          /\ p = Sections(NewMessage(s, size), NewId(s)) /\ Len(p) = size
          /\ \A i \in 1..size : p[i] =
               [id |-> NewId(s), index |-> i - 1, msg |-> NewMessage(s, size)]
    BY NewTypes
  <2>2. link' = [link EXCEPT ![s] = @ \o p] /\ link \in [Senders -> Seq(SectionMsg)]
    BY <1>1, <2>1, SendEffect DEF TypeOK
  <2>3. recvDataMap' = recvDataMap
    BY <1>1 DEF Send
  <2>4. PICK r \in Senders : \E i \in 1..Len(link'[r]) : link'[r][i].msg = m /\ link'[r][i].id = id
    BY <1>1, <2>3 DEF Underway
  <2>5. PICK i \in 1..Len(link'[r]) : link'[r][i].msg = m /\ link'[r][i].id = id
    BY <2>4
  <2>6. r = s
    BY <1>1, <2>2, <2>5 DEF Underway
  <2>7. link'[s] = link[s] \o p /\ link[s] \in Seq(SectionMsg)
    BY <2>2
  <2>8. i \in 1..Len(link[s]) => link[s][i] = link'[s][i]
    BY <2>1, <2>7, ConcatOf
  <2>9. i \notin 1..Len(link[s])
    BY <1>1, <2>5, <2>6, <2>8 DEF Underway
  <2>10. i - Len(link[s]) \in 1..size /\ link'[s][i] = p[i - Len(link[s])]
    BY <2>1, <2>5, <2>6, <2>7, <2>9, ConcatOf
  <2> QED  BY <1>1, <2>1, <2>5, <2>6, <2>10 DEF SentNow
<1>2. ASSUME NEW s \in Senders, Receive(s)
      PROVE  Underway(m, id)
  <2>1. PICK sec \in SectionMsg, buf \in RecvData :
           /\ link[s] # <<>> /\ sec.id \in Ids
           /\ link' = [link EXCEPT ![s] = Tail(@)]
           /\ \A n \in Parts(buf) : Underway(n, sec.id)
           /\ \/ recvDataMap' = [recvDataMap EXCEPT ![sec.id] = NoData]
              \/ recvDataMap' = [recvDataMap EXCEPT ![sec.id] = buf]
    BY <1>2, ReceiveEffect
  <2>2. CASE m \in Parts(recvDataMap'[id])
    <3>1. \/ recvDataMap'[id] = recvDataMap[id]
          \/ id = sec.id /\ (recvDataMap'[id] = NoData \/ recvDataMap'[id] = buf)
      BY <2>1 DEF TypeOK
    <3> QED  BY <2>1, <2>2, <3>1, NothingInNoData DEF Underway
  <2>3. CASE m \notin Parts(recvDataMap'[id])
    <3>1. PICK r \in Senders :
            \E i \in 1..Len(link'[r]) : link'[r][i].msg = m /\ link'[r][i].id = id
      BY <2>3 DEF Underway
    <3>2. PICK i \in 1..Len(link'[r]) : link'[r][i].msg = m /\ link'[r][i].id = id
      BY <3>1
    <3>3. link[r] \in Seq(SectionMsg) /\ (link'[r] = link[r] \/ (r = s /\ link'[r] = Tail(link[r])))
      BY <2>1 DEF TypeOK
    <3>4. \E j \in 1..Len(link[r]) : link'[r][i] = link[r][j]
      <4>1. CASE link'[r] = link[r]
        BY <3>2, <4>1
      <4>2. CASE r = s /\ link'[r] = Tail(link[r])
        BY <2>1, <3>2, <3>3, <4>2, TailOf
      <4> QED  BY <3>3, <4>1, <4>2
    <3> QED  BY <3>2, <3>4 DEF Underway
  <2> QED  BY <2>2, <2>3
<1>3. ASSUME NEW s \in Senders, LoseLink(s) \/ RestartSender(s)
      PROVE  Underway(m, id)
  <2>1. link' = [link EXCEPT ![s] = <<>>] /\ recvDataMap' = recvDataMap
    BY <1>3 DEF LoseLink, RestartSender
  <2>2. \A r \in Senders : link'[r] = link[r] \/ Len(link'[r]) = 0
    BY <2>1 DEF TypeOK
  <2> QED  BY <2>1, <2>2 DEF Underway
<1>4. CASE UNCHANGED vars
  BY <1>4 DEF vars, Underway
<1> QED  BY <1>1, <1>2, <1>3, <1>4 DEF Next

(* What is handed over was under way, under one identifier.                *)
LEMMA DeliveredStep ==
  ASSUME TypeOK, [Next]_vars
  PROVE  \/ UNCHANGED delivered
         \/ Parts(delivered') = {}
         \/ \E id \in Ids : \A m \in Parts(delivered') : Underway(m, id)
<1>1. ASSUME NEW s \in Senders, Receive(s)
      PROVE  \/ Parts(delivered') = {}
             \/ \E id \in Ids : \A m \in Parts(delivered') : Underway(m, id)
  <2>1. PICK sec \in SectionMsg, buf \in RecvData :
           /\ sec.id \in Ids /\ \A m \in Parts(buf) : Underway(m, sec.id)
           /\ delivered' = buf \/ delivered' = NoData
    BY <1>1, ReceiveEffect
  <2> QED  BY <2>1, NothingInNoData
<1>2. ASSUME NEW s \in Senders,
             (\E size \in 1..MaxSize : Send(s, size)) \/ LoseLink(s) \/ RestartSender(s)
      PROVE  Parts(delivered') = {}
  BY <1>2, NothingInNoData DEF Send, LoseLink, RestartSender
<1> QED  BY <1>1, <1>2 DEF Next, vars

-----------------------------------------------------------------------------
(* Identifiers.  A process numbers its messages from 1, and the counter    *)
(* goes through 1..MaxId again and again.                                  *)
Numbered(m, id) ==
  id[1] = KindOf[m.from] /\ \E k \in Nat : m.number = k * MaxId + id[2]

CountInv ==
  \A s \in Senders : \E k \in Nat : sent[s] + 1 = k * MaxId + Counter(sendCount[s])

IdInv ==
  /\ \A id \in Ids, m \in Message : Underway(m, id) => Numbered(m, id)
  /\ \/ Parts(delivered) = {}
     \/ \E id \in Ids : \A m \in Parts(delivered) : Numbered(m, id)

(* A message is known by its sender, its life and its number.              *)
Earlier(m) == \/ m.life < life[m.from]
              \/ m.life = life[m.from] /\ m.number <= sent[m.from]

PresentInv ==
  /\ \A m \in Message : Present(m) => Earlier(m)
  /\ \A m, n \in Message :
       /\ Present(m) /\ Present(n)
       /\ m.from = n.from /\ m.life = n.life /\ m.number = n.number
       => m = n

LEMMA CountNext ==
  ASSUME TypeOK, CountInv, [Next]_vars
  PROVE  CountInv'
<1>1. ASSUME NEW s \in Senders, NEW size \in 1..MaxSize, Send(s, size), NEW r \in Senders
      PROVE  \E k \in Nat : sent'[r] + 1 = k * MaxId + Counter(sendCount'[r])
  <2>1. PICK k \in Nat : sent[r] + 1 = k * MaxId + Counter(sendCount[r])
    BY DEF CountInv
  <2>2. CASE r # s
    BY <1>1, <2>1, <2>2 DEF Send, TypeOK
  <2>3. CASE r = s
    <3>1. PICK c \in 0..MaxId : c = sendCount[s]
      BY DEF TypeOK
    <3>2. sent'[s] = sent[s] + 1 /\ sendCount'[s] = NextCount(c) /\ sent[s] \in Nat
      BY <1>1, <3>1 DEF Send, TypeOK
    <3>3. /\ Counter(c) \in 1..MaxId /\ MaxId \in Nat \ {0}
          /\ Counter(c) < MaxId => NextCount(c) = Counter(c) + 1
          /\ Counter(c) = MaxId => NextCount(c) = 0
      BY CounterType, SectionAssumption
    <3>4. CASE Counter(c) < MaxId
      <4>1. Counter(NextCount(c)) = Counter(c) + 1
        BY <3>3, <3>4 DEF Counter
      <4>2. PICK x \in Nat : x = k * MaxId
        BY <3>3
      <4>3. sent'[s] + 1 = x + Counter(NextCount(c))
        BY <2>1, <2>3, <3>1, <3>2, <3>3, <4>1, <4>2
      <4> QED  BY <2>3, <3>2, <4>2, <4>3
    <3>5. CASE Counter(c) = MaxId
      <4>1. Counter(NextCount(c)) = 1
        BY <3>3, <3>5 DEF Counter
      <4>2. sent'[s] + 1 = (k + 1) * MaxId + 1
        BY <2>1, <2>3, <3>1, <3>2, <3>3, <3>5
      <4> QED  BY <2>3, <3>2, <4>1, <4>2
    <3> QED  BY <3>3, <3>4, <3>5
  <2> QED  BY <2>2, <2>3
<1>2. ASSUME NEW s \in Senders, RestartSender(s), NEW r \in Senders
      PROVE  \E k \in Nat : sent'[r] + 1 = k * MaxId + Counter(sendCount'[r])
  <2>1. CASE r # s
    BY <1>2, <2>1 DEF RestartSender, CountInv, TypeOK
  <2>2. CASE r = s
    <3>1. sent'[r] = 0 /\ sendCount'[r] = 0
      BY <1>2, <2>2 DEF RestartSender, TypeOK
    <3>2. 0 + 1 = 0 * MaxId + Counter(0)
      BY SectionAssumption DEF Counter
    <3> QED  BY <3>1, <3>2
  <2> QED  BY <2>1, <2>2
<1>3. ASSUME NEW s \in Senders, Receive(s) \/ LoseLink(s)
      PROVE  CountInv'
  BY <1>3 DEF Receive, LoseLink, CountInv
<1>4. CASE UNCHANGED vars
  BY <1>4 DEF vars, CountInv
<1> QED  BY <1>1, <1>2, <1>3, <1>4 DEF Next, CountInv

LEMMA IdNext ==
  ASSUME TypeOK, CountInv, IdInv, [Next]_vars
  PROVE  IdInv'
<1>1. ASSUME NEW m \in Message, NEW id \in Ids, Underway(m, id)'
      PROVE  Numbered(m, id)
  <2>1. CASE Underway(m, id)
    BY <2>1 DEF IdInv
  <2>2. CASE \E s \in Senders, size \in 1..MaxSize : SentNow(s, size, m, id)
    <3>1. PICK s \in Senders, size \in 1..MaxSize : m = NewMessage(s, size) /\ id = NewId(s)
      BY <2>2 DEF SentNow
    <3>2. /\ m.from = s /\ m.number = sent[s] + 1
          /\ id[1] = KindOf[s] /\ id[2] = Counter(sendCount[s])
      BY <3>1 DEF NewMessage, NewId
    <3> QED  BY <3>2 DEF Numbered, CountInv
  <2> QED  BY <1>1, <2>1, <2>2, UnderwayStep
<1>2. delivered \in RecvData /\ delivered' \in RecvData
  BY TypeNext DEF TypeOK
<1>3. \/ Parts(delivered') = {}
      \/ \E id \in Ids : \A m \in Parts(delivered') : Numbered(m, id)
  <2>1. CASE UNCHANGED delivered
    BY <2>1 DEF IdInv
  <2>2. CASE \E id \in Ids : \A m \in Parts(delivered') : Underway(m, id)
    BY <1>2, <2>2, PartsOf DEF IdInv
  <2> QED  BY <2>1, <2>2, DeliveredStep
<1> QED  BY <1>1, <1>3 DEF IdInv

(* What is present was present, or is sent now.                            *)
LEMMA PresentStep ==
  ASSUME TypeOK, [Next]_vars, NEW m, Present(m)'
  PROVE  \/ Present(m)
         \/ \E s \in Senders, size \in 1..MaxSize : Send(s, size) /\ m = NewMessage(s, size)
<1>1. CASE \E id \in Ids : Underway(m, id)'
  BY <1>1, UnderwayStep DEF Present, SentNow
<1>2. CASE m \in Parts(delivered')
  BY <1>2, DeliveredStep DEF Present
<1> QED  BY <1>1, <1>2 DEF Present

LEMMA EarlierStep ==
  ASSUME TypeOK, [Next]_vars, NEW m \in Message, Earlier(m)
  PROVE  Earlier(m)'
<1>1. m.from \in Senders /\ m.life \in Nat /\ m.number \in Nat
  BY DEF Message
<1>2. /\ life[m.from] \in Nat /\ sent[m.from] \in Nat
  BY <1>1 DEF TypeOK
<1>3. ASSUME NEW s \in Senders, NEW size \in 1..MaxSize, Send(s, size)
      PROVE  Earlier(m)'
  <2>1. life' = life /\ (sent'[m.from] = sent[m.from] \/ sent'[m.from] = sent[m.from] + 1)
    BY <1>1, <1>3 DEF Send, TypeOK
  <2> QED  BY <1>1, <1>2, <2>1 DEF Earlier
<1>4. ASSUME NEW s \in Senders, RestartSender(s)
      PROVE  Earlier(m)'
  <2>1. \/ life'[m.from] = life[m.from] /\ sent'[m.from] = sent[m.from]
        \/ life'[m.from] = life[m.from] + 1
    BY <1>1, <1>4 DEF RestartSender, TypeOK
  <2> QED  BY <1>1, <1>2, <2>1 DEF Earlier
<1>5. ASSUME NEW s \in Senders, Receive(s) \/ LoseLink(s)
      PROVE  Earlier(m)'
  BY <1>5 DEF Receive, LoseLink, Earlier
<1>6. CASE UNCHANGED vars
  BY <1>6 DEF vars, Earlier
<1> QED  BY <1>3, <1>4, <1>5, <1>6 DEF Next

LEMMA PresentNext ==
  ASSUME TypeOK, PresentInv, [Next]_vars
  PROVE  PresentInv'
<1> DEFINE New(m) == \E s \in Senders, size \in 1..MaxSize :
                       Send(s, size) /\ m = NewMessage(s, size)
<1>1. ASSUME NEW m \in Message, Present(m)'
      PROVE  Earlier(m)'
  <2>1. CASE Present(m)
    BY <2>1, EarlierStep DEF PresentInv
  <2>2. CASE New(m)
    <3>1. PICK s \in Senders, size \in 1..MaxSize : Send(s, size) /\ m = NewMessage(s, size)
      BY <2>2
    <3>2. m.from = s /\ m.life = life[s] /\ m.number = sent[s] + 1
      BY <3>1 DEF NewMessage
    <3>3. life'[s] = life[s] /\ sent'[s] = sent[s] + 1 /\ sent[s] \in Nat
      BY <3>1 DEF Send, TypeOK
    <3> QED  BY <3>2, <3>3 DEF Earlier
  <2> QED  BY <1>1, <2>1, <2>2, PresentStep
<1>2. ASSUME NEW m \in Message, NEW n \in Message, Present(m), New(n),
             m.from = n.from, m.life = n.life, m.number = n.number
      PROVE  FALSE
  <2>1. PICK s \in Senders : n.from = s /\ n.life = life[s] /\ n.number = sent[s] + 1
    BY <1>2 DEF NewMessage
  <2>2. Earlier(m) /\ sent[s] \in Nat /\ life[s] \in Nat
    BY <1>2 DEF PresentInv, TypeOK
  <2> QED  BY <1>2, <2>1, <2>2 DEF Earlier
<1>3. ASSUME NEW m, NEW n, New(m), New(n), m.from = n.from
      PROVE  m = n
  <2>1. PICK s \in Senders, v \in 1..MaxSize : Send(s, v) /\ m = NewMessage(s, v)
    BY <1>3
  <2>2. PICK r \in Senders, w \in 1..MaxSize : Send(r, w) /\ n = NewMessage(r, w)
    BY <1>3
  <2>3. r = s
    BY <1>3, <2>1, <2>2 DEF NewMessage
  <2>4. v = w
    <3>1. PICK p \in Seq(SectionMsg) : p = Sections(NewMessage(s, v), NewId(s)) /\ Len(p) = v
      BY NewTypes
    <3>2. PICK q \in Seq(SectionMsg) : q = Sections(NewMessage(s, w), NewId(s)) /\ Len(q) = w
      BY NewTypes
    <3>3. link' = [link EXCEPT ![s] = @ \o p] /\ link' = [link EXCEPT ![s] = @ \o q]
      BY <2>1, <2>2, <2>3, <3>1, <3>2, SendEffect
    <3>4. link'[s] = link[s] \o p /\ link'[s] = link[s] \o q /\ link[s] \in Seq(SectionMsg)
      BY <3>3 DEF TypeOK
    <3>5. \A old \in Seq(SectionMsg) :
            /\ Len(old \o p) = Len(old) + Len(p) /\ Len(old) \in Nat
            /\ Len(old \o q) = Len(old) + Len(q)
      OBVIOUS
    <3>6. v \in Nat /\ w \in Nat
      BY NewTypes
    <3>7. PICK old \in Seq(SectionMsg) : old \o p = old \o q
      BY <3>4
    <3>8. Len(old) + Len(p) = Len(old) + Len(q) /\ Len(old) \in Nat
      BY <3>5, <3>7
    <3> QED  BY <3>1, <3>2, <3>6, <3>8
  <2> QED  BY <2>1, <2>2, <2>3, <2>4
<1>4. ASSUME NEW m \in Message, NEW n \in Message, Present(m)', Present(n)',
             m.from = n.from, m.life = n.life, m.number = n.number
      PROVE  m = n
  <2>1. (Present(m) \/ New(m)) /\ (Present(n) \/ New(n))
    BY <1>4, PresentStep
  <2> HIDE DEF New
  <2> QED  BY <1>2, <1>3, <1>4, <2>1 DEF PresentInv
<1> QED  BY <1>1, <1>4 DEF PresentInv

LEMMA StreamsInit == Init => CountInv /\ IdInv /\ PresentInv
<1> SUFFICES ASSUME Init PROVE CountInv /\ IdInv /\ PresentInv
  OBVIOUS
<1>1. \A s \in Senders : 0 + 1 = 0 * MaxId + Counter(0)
  BY SectionAssumption DEF Counter
<1>2. CountInv
  BY <1>1 DEF CountInv, Init
<1>3. \A m, id : id \in Ids => ~Underway(m, id)
  <2>1. \A id \in Ids : Parts(recvDataMap[id]) = {}
    BY NothingInNoData DEF Init
  <2>2. \A s \in Senders : Len(link[s]) = 0
    BY DEF Init
  <2> QED  BY <2>1, <2>2 DEF Underway
<1>4. Parts(delivered) = {}
  BY NothingInNoData DEF Init
<1> QED  BY <1>2, <1>3, <1>4 DEF IdInv, PresentInv, Present

-----------------------------------------------------------------------------
(* The order of the sections.                                              *)

(* Every section on a link is one of a message of the link's sender.       *)
LinkInv ==
  \A s \in Senders : \A i \in 1..Len(link[s]) :
    link[s][i].msg.from = s /\ link[s][i].index < link[s][i].msg.size

(* y is the section after x: of the same message, or the first of the next *)
(* one.                                                                    *)
NextSection(x, y) ==
  \/ /\ x.index + 1 < x.msg.size
     /\ y.msg = x.msg /\ y.id = x.id /\ y.index = x.index + 1
  \/ /\ x.index + 1 = x.msg.size
     /\ y.index = 0 /\ y.msg.number = x.msg.number + 1

InSequence(q) == \A i \in 1..Len(q) : i + 1 \in 1..Len(q) => NextSection(q[i], q[i + 1])

(* The buffer when all sections of the message before sec have arrived.    *)
Partial(sec) ==
  [data |-> [i \in 1..sec.msg.size |-> IF i <= sec.index THEN sec.msg ELSE <<>>],
   count |-> sec.msg.size - sec.index]

(* The next section to arrive from s continues what the map holds of the   *)
(* messages of s, and the last one ends the message sent last.             *)
Begins(s, sec) ==
  /\ sec.msg.number = got[s] + 1
  /\ sec.index > 0 => recvDataMap[sec.id] = Partial(sec)
  /\ \A id \in Ids : id[1] = KindOf[s] /\ (sec.index = 0 \/ id # sec.id) =>
                       recvDataMap[id] = NoData

Ends(s, sec) == sec.index + 1 = sec.msg.size /\ sec.msg.number = sent[s]

Idle(s) == /\ got[s] = sent[s]
           /\ \A id \in Ids : id[1] = KindOf[s] => recvDataMap[id] = NoData

PipeInv(s) ==
  /\ InSequence(link[s])
  /\ link[s] = <<>> => Idle(s)
  /\ link[s] # <<>> => Begins(s, link[s][1]) /\ Ends(s, link[s][Len(link[s])])

LEMMA LinkNext ==
  ASSUME TypeOK, LinkInv, [Next]_vars
  PROVE  LinkInv'
<1> SUFFICES ASSUME NEW r \in Senders, NEW i \in 1..Len(link'[r])
             PROVE  link'[r][i].msg.from = r /\ link'[r][i].index < link'[r][i].msg.size
  BY DEF LinkInv
<1>0. link[r] \in Seq(SectionMsg) /\ link \in [Senders -> Seq(SectionMsg)]
  BY DEF TypeOK
<1>1. ASSUME NEW s \in Senders, NEW size \in 1..MaxSize, Send(s, size)
      PROVE  link'[r][i].msg.from = r /\ link'[r][i].index < link'[r][i].msg.size
  <2>1. PICK p \in Seq(SectionMsg) :
          /\ p = Sections(NewMessage(s, size), NewId(s)) /\ Len(p) = size /\ size \in Nat
          /\ \A j \in 1..size : p[j] =
               [id |-> NewId(s), index |-> j - 1, msg |-> NewMessage(s, size)]
    BY NewTypes
  <2>2. link' = [link EXCEPT ![s] = @ \o p]
    BY <1>1, <2>1, SendEffect
  <2>3. CASE r = s /\ i \notin 1..Len(link[s])
    <3>1. i - Len(link[s]) \in 1..Len(p) /\ link'[s][i] = p[i - Len(link[s])]
      BY <1>0, <2>1, <2>2, <2>3, ConcatOf
    <3>2. PICK j \in 1..size : link'[s][i] = p[j]
      BY <2>1, <3>1
    <3>3. link'[s][i] = [id |-> NewId(s), index |-> j - 1, msg |-> NewMessage(s, size)]
      BY <2>1, <3>2
    <3> QED  BY <2>1, <2>3, <3>3 DEF NewMessage
  <2>4. CASE ~(r = s /\ i \notin 1..Len(link[s]))
    <3>1. i \in 1..Len(link[r]) /\ link'[r][i] = link[r][i]
      BY <1>0, <2>1, <2>2, <2>4, ConcatOf
    <3> QED  BY <3>1 DEF LinkInv
  <2> QED  BY <2>3, <2>4
<1>2. ASSUME NEW s \in Senders, Receive(s)
      PROVE  link'[r][i].msg.from = r /\ link'[r][i].index < link'[r][i].msg.size
  <2>1. link[s] # <<>> /\ (link'[r] = link[r] \/ (r = s /\ link'[r] = Tail(link[r])))
    BY <1>0, <1>2 DEF Receive
  <2>2. CASE link'[r] = link[r]
    BY <2>2 DEF LinkInv
  <2>3. CASE r = s /\ link'[r] = Tail(link[r])
    <3>1. i + 1 \in 1..Len(link[r]) /\ link'[r][i] = link[r][i + 1]
      BY <1>0, <2>1, <2>3, TailOf
    <3> QED  BY <3>1 DEF LinkInv
  <2> QED  BY <2>1, <2>2, <2>3
<1>3. ASSUME NEW s \in Senders, LoseLink(s) \/ RestartSender(s)
      PROVE  link'[r][i].msg.from = r /\ link'[r][i].index < link'[r][i].msg.size
  <2>1. link'[r] = link[r] \/ link'[r] = <<>>
    BY <1>0, <1>3 DEF LoseLink, RestartSender
  <2> QED  BY <2>1 DEF LinkInv
<1>4. CASE UNCHANGED vars
  BY <1>4 DEF vars, LinkInv
<1> QED  BY <1>1, <1>2, <1>3, <1>4 DEF Next

(* A new message continues the sequence.                                   *)
LEMMA PipeSend ==
  ASSUME TypeOK, LinkInv, NEW s \in Senders, NEW size \in 1..MaxSize, Send(s, size), PipeInv(s)
  PROVE  PipeInv(s)'
<1>1. PICK p \in Seq(SectionMsg) :
        /\ p = Sections(NewMessage(s, size), NewId(s)) /\ Len(p) = size /\ size \in Nat \ {0}
        /\ \A j \in 1..size : p[j] =
             [id |-> NewId(s), index |-> j - 1, msg |-> NewMessage(s, size)]
  BY NewTypes
<1>2. link' = [link EXCEPT ![s] = @ \o p]
  BY <1>1, SendEffect
<1>3. PICK q \in Seq(SectionMsg) : q = link[s] /\ link'[s] = q \o p
  BY <1>2 DEF TypeOK
<1>4. PICK r : r = q \o p
  OBVIOUS
<1>5. /\ Len(r) = Len(q) + Len(p) /\ Len(q) \in Nat
      /\ \A i \in 1..Len(q) : r[i] = q[i]
      /\ \A i \in 1..Len(p) : r[Len(q) + i] = p[i]
      /\ \A i \in 1..Len(r) : i \in 1..Len(q) \/ (i - Len(q) \in 1..Len(p) /\ r[i] = p[i - Len(q)])
  BY <1>4, ConcatOf
<1>6. /\ got' = got /\ recvDataMap' = recvDataMap
      /\ sent[s] \in Nat /\ sent'[s] = sent[s] + 1
  BY DEF Send, TypeOK
<1>7. \A j \in 1..size : /\ p[j].index = j - 1 /\ p[j].id = p[1].id
                         /\ p[j].msg = p[1].msg /\ p[j].msg.size = size
                         /\ p[j].msg.number = sent[s] + 1
  <2>1. 1 \in 1..size
    BY <1>1
  <2>2. PICK m : m = NewMessage(s, size)
    OBVIOUS
  <2>3. m.size = size /\ m.number = sent[s] + 1
    BY <2>2 DEF NewMessage
  <2>4. \A j \in 1..size : p[j] = [id |-> NewId(s), index |-> j - 1, msg |-> m]
    BY <1>1, <2>2
  <2>5. \A j \in 1..size : p[j].id = NewId(s) /\ p[j].index = j - 1 /\ p[j].msg = m
    BY <1>1, <2>4
  <2> QED  BY <2>1, <2>3, <2>5
<1>8. InSequence(r)
  <2> SUFFICES ASSUME NEW i \in 1..Len(r), i + 1 \in 1..Len(r)
               PROVE  NextSection(r[i], r[i + 1])
    BY DEF InSequence
  <2>1. CASE i + 1 \in 1..Len(q)
    <3>1. i \in 1..Len(q)
      BY <1>5, <2>1
    <3> QED  BY <1>3, <1>5, <2>1, <3>1 DEF PipeInv, InSequence
  <2>2. CASE i = Len(q)
    <3>1. i \in 1..Len(q) /\ q # <<>> /\ Ends(s, q[Len(q)])
      BY <1>3, <1>5, <2>2 DEF PipeInv
    <3>2. r[i + 1] = p[1] /\ 1 \in 1..size /\ 1 \in 1..Len(p)
      BY <1>1, <1>5, <2>2
    <3>3. p[1].index = 0 /\ p[1].msg.number = sent[s] + 1
      BY <1>7, <3>2
    <3> QED  BY <1>5, <2>2, <3>1, <3>2, <3>3 DEF Ends, NextSection
  <2>3. CASE i > Len(q)
    <3>1. PICK j \in 1..size : j = i - Len(q)
      BY <1>1, <1>5, <2>3
    <3>2. j + 1 \in 1..size /\ i = Len(q) + j /\ i + 1 = Len(q) + (j + 1)
      BY <1>1, <1>5, <3>1
    <3>3. r[i] = p[j] /\ r[i + 1] = p[j + 1]
      BY <1>1, <1>5, <3>2
    <3> QED  BY <1>1, <1>7, <3>1, <3>2, <3>3 DEF NextSection
  <2> QED  BY <1>5, <2>1, <2>2, <2>3
<1>9. Ends(s, r[Len(r)])'
  <2>1. size \in 1..size /\ r[Len(r)] = p[size]
    BY <1>1, <1>5
  <2>2. p[size].index = size - 1 /\ p[size].msg.size = size /\ p[size].msg.number = sent[s] + 1
    BY <1>7, <2>1
  <2> QED  BY <1>1, <1>6, <2>1, <2>2 DEF Ends
<1>10. Begins(s, r[1])'
  <2>1. CASE q = <<>>
    <3>1. r[1] = p[1] /\ 1 \in 1..size
      BY <1>1, <1>5, <2>1
    <3>2. Idle(s)
      BY <1>3, <2>1 DEF PipeInv
    <3> QED  BY <1>6, <1>7, <3>1, <3>2 DEF Begins, Idle
  <2>2. CASE q # <<>>
    <3>1. r[1] = q[1] /\ Begins(s, q[1])
      BY <1>3, <1>5, <2>2 DEF PipeInv
    <3> QED  BY <1>6, <3>1 DEF Begins
  <2> QED  BY <2>1, <2>2
<1>11. r # <<>>
  BY <1>1, <1>5
<1>12. link'[s] = r
  BY <1>3, <1>4
<1> QED  BY <1>8, <1>9, <1>10, <1>11, <1>12 DEF PipeInv

(* The buffer of a section holds the sections before it.                   *)
LEMMA BufferHolds ==
  ASSUME TypeOK, LinkInv, IdInv, NEW s \in Senders, link[s] # <<>>, PipeInv(s),
         NEW sec \in SectionMsg, sec = link[s][1]
  PROVE  /\ sec.msg.from = s /\ sec.id \in Ids /\ sec.id[1] = KindOf[s]
         /\ sec.index \in Nat /\ sec.msg.size \in Nat /\ sec.index < sec.msg.size
         /\ sec.msg.number \in Nat
         /\ Buffer(sec) = Partial(sec)
         /\ Copied(Buffer(sec), sec) =
              [data |-> [i \in 1..sec.msg.size |->
                           IF i <= sec.index + 1 THEN sec.msg ELSE <<>>],
               count |-> sec.msg.size - (sec.index + 1)]
<1>1. 1 \in 1..Len(link[s])
  BY TailOf DEF TypeOK
<1>2. /\ sec.id \in Ids /\ sec.msg \in Message /\ sec.index \in Nat
      /\ sec.msg.size \in Nat /\ sec.msg.number \in Nat
  BY DEF SectionMsg, Message
<1>3. sec.msg.from = s /\ sec.index < sec.msg.size
  BY <1>1 DEF LinkInv
<1>4. sec.id[1] = KindOf[s]
  <2>1. Underway(sec.msg, sec.id)
    BY <1>1 DEF Underway
  <2> QED  BY <1>2, <1>3, <2>1 DEF IdInv, Numbered
<1>5. Begins(s, sec)
  BY DEF PipeInv
<1>6. Buffer(sec) = Partial(sec)
  <2>1. CASE sec.index = 0
    <3>1. recvDataMap[sec.id] = NoData
      BY <1>2, <1>4, <1>5, <2>1 DEF Begins
    <3>2. Buffer(sec) = [data |-> [i \in 1..sec.msg.size |-> <<>>], count |-> sec.msg.size]
      BY <3>1 DEF Buffer, NoData
    <3>3. [i \in 1..sec.msg.size |-> <<>>] =
            [i \in 1..sec.msg.size |-> IF i <= sec.index THEN sec.msg ELSE <<>>]
      BY <1>2, <2>1
    <3>4. sec.msg.size - sec.index = sec.msg.size
      BY <1>2, <2>1
    <3> QED  BY <3>2, <3>3, <3>4 DEF Partial
  <2>2. CASE sec.index > 0
    <3>1. recvDataMap[sec.id] = Partial(sec)
      BY <1>5, <2>2 DEF Begins
    <3>2. Partial(sec).count = sec.msg.size - sec.index
      BY DEF Partial
    <3>3. recvDataMap[sec.id].count # 0
      BY <1>2, <1>3, <3>1, <3>2
    <3> QED  BY <3>1, <3>3 DEF Buffer
  <2> QED  BY <1>2, <2>1, <2>2
<1>7. Copied(Partial(sec), sec) =
        [data |-> [i \in 1..sec.msg.size |-> IF i <= sec.index + 1 THEN sec.msg ELSE <<>>],
         count |-> sec.msg.size - (sec.index + 1)]
  <2>1. /\ Partial(sec).data =
             [i \in 1..sec.msg.size |-> IF i <= sec.index THEN sec.msg ELSE <<>>]
        /\ Partial(sec).count - 1 = sec.msg.size - (sec.index + 1)
    BY <1>2 DEF Partial
  <2>2. [i \in DOMAIN Partial(sec).data |->
           IF i = sec.index + 1 THEN sec.msg ELSE Partial(sec).data[i]] =
        [i \in 1..sec.msg.size |-> IF i <= sec.index + 1 THEN sec.msg ELSE <<>>]
    BY <1>2, <2>1
  <2> QED  BY <2>1, <2>2 DEF Copied
<1> QED  BY <1>2, <1>3, <1>4, <1>6, <1>7

(* The next section of the sender is taken: its message is handed over     *)
(* whole with its last section, and the one after it goes on.              *)
LEMMA PipeReceive ==
  ASSUME TypeOK, LinkInv, IdInv, NEW s \in Senders, Receive(s), PipeInv(s)
  PROVE  /\ PipeInv(s)'
         /\ \/ delivered' = NoData
            \/ \E m \in Message : /\ delivered'.data = [i \in 1..m.size |-> m]
                                  /\ m.number = got'[s] /\ m.from = s
<1>1. PICK sec \in SectionMsg, buf \in RecvData :
        /\ link[s] # <<>> /\ sec = link[s][1]
        /\ buf = Copied(Buffer(sec), sec)
        /\ link' = [link EXCEPT ![s] = Tail(@)]
        /\ \/ /\ buf.count = 0 /\ delivered' = buf
              /\ recvDataMap' = [recvDataMap EXCEPT ![sec.id] = NoData]
              /\ got' = [got EXCEPT ![s] = @ + 1]
           \/ /\ buf.count # 0 /\ delivered' = NoData
              /\ recvDataMap' = [recvDataMap EXCEPT ![sec.id] = buf]
              /\ got' = got
        /\ UNCHANGED <<sendCount, life, sent, losses>>
  BY ReceiveEffect
<1>2. PICK q \in Seq(SectionMsg) : q = link[s] /\ link'[s] = Tail(q) /\ q # <<>> /\ sec = q[1]
  BY <1>1 DEF TypeOK
<1>3. /\ sec.msg.from = s /\ sec.id \in Ids /\ sec.id[1] = KindOf[s]
      /\ sec.index \in Nat /\ sec.msg.size \in Nat /\ sec.index < sec.msg.size
      /\ sec.msg.number \in Nat
      /\ buf = [data |-> [i \in 1..sec.msg.size |->
                            IF i <= sec.index + 1 THEN sec.msg ELSE <<>>],
                count |-> sec.msg.size - (sec.index + 1)]
  BY <1>1, BufferHolds
<1>0. sec.msg \in Message
  BY DEF SectionMsg
<1>4. InSequence(q) /\ Begins(s, q[1]) /\ Ends(s, q[Len(q)])
  BY <1>2 DEF PipeInv
<1>5. /\ Len(q) \in Nat \ {0} /\ Len(Tail(q)) = Len(q) - 1 /\ 1 \in 1..Len(q)
      /\ \A i \in 1..Len(Tail(q)) : Tail(q)[i] = q[i + 1] /\ i + 1 \in 1..Len(q)
  BY <1>2, TailOf
<1>6. InSequence(Tail(q))
  <2> SUFFICES ASSUME NEW i \in 1..Len(Tail(q)), i + 1 \in 1..Len(Tail(q))
               PROVE  NextSection(Tail(q)[i], Tail(q)[i + 1])
    BY DEF InSequence
  <2>1. i + 1 \in 1..Len(q) /\ (i + 1) + 1 \in 1..Len(q)
    BY <1>5
  <2>2. Tail(q)[i] = q[i + 1] /\ Tail(q)[i + 1] = q[(i + 1) + 1]
    BY <1>5
  <2> QED  BY <1>4, <2>1, <2>2 DEF InSequence
<1>7. ASSUME Tail(q) # <<>>
      PROVE  PipeInv(s)'
  <2>1. /\ Len(q) > 1 /\ Tail(q)[1] = q[2] /\ Tail(q)[Len(Tail(q))] = q[Len(q)]
        /\ NextSection(sec, q[2])
    <3>1. Len(Tail(q)) > 0
      BY <1>7, <1>5
    <3>2. 1 \in 1..Len(Tail(q)) /\ Len(Tail(q)) \in 1..Len(Tail(q)) /\ 1 + 1 \in 1..Len(q)
      BY <1>5, <3>1
    <3>3. Tail(q)[1] = q[1 + 1] /\ Tail(q)[Len(Tail(q))] = q[Len(Tail(q)) + 1]
      BY <1>5, <3>2
    <3>4. NextSection(q[1], q[1 + 1])
      BY <1>4, <1>5, <3>2 DEF InSequence
    <3> QED  BY <1>2, <1>5, <3>1, <3>3, <3>4
  <2>2. Ends(s, Tail(q)[Len(Tail(q))])'
    BY <1>1, <1>4, <2>1 DEF Ends
  <2>3. PICK y : y = q[2]
    OBVIOUS
  <2>4. Begins(s, y)'
    <3>1. CASE sec.index + 1 = sec.msg.size
      <4>1. buf.count = 0
        BY <1>3, <3>1
      <4>2. y.index = 0 /\ y.msg.number = got'[s] + 1
        BY <1>1, <1>2, <1>3, <1>4, <2>1, <2>3, <3>1, <4>1 DEF NextSection, Begins, TypeOK
      <4>3. ASSUME NEW id \in Ids, id[1] = KindOf[s]
            PROVE  recvDataMap'[id] = NoData
        BY <1>1, <1>2, <1>3, <1>4, <4>1, <4>3 DEF Begins, TypeOK
      <4> QED  BY <4>2, <4>3 DEF Begins
    <3>2. CASE sec.index + 1 # sec.msg.size
      <4>1. buf.count # 0
        BY <1>3, <3>2
      <4>2. y.msg = sec.msg /\ y.id = sec.id /\ y.index = sec.index + 1
        BY <1>3, <2>1, <2>3, <3>2 DEF NextSection
      <4>3. y.msg.number = got'[s] + 1
        BY <1>1, <1>2, <1>4, <4>1, <4>2 DEF Begins
      <4>4. recvDataMap'[y.id] = Partial(y)
        BY <1>1, <1>3, <4>1, <4>2 DEF Partial, TypeOK
      <4>5. ASSUME NEW id \in Ids, id[1] = KindOf[s], id # y.id
            PROVE  recvDataMap'[id] = NoData
        BY <1>1, <1>2, <1>3, <1>4, <4>1, <4>2, <4>5 DEF Begins, TypeOK
      <4>6. y.index # 0
        BY <1>3, <4>2
      <4> QED  BY <4>3, <4>4, <4>5, <4>6 DEF Begins
    <3> QED  BY <3>1, <3>2
  <2>5. PICK r : r = Tail(q)
    OBVIOUS
  <2>6. /\ InSequence(r) /\ r # <<>> /\ link'[s] = r
        /\ Begins(s, r[1])' /\ Ends(s, r[Len(r)])'
    BY <1>2, <1>6, <1>7, <2>1, <2>2, <2>3, <2>4, <2>5
  <2> QED  BY <2>6 DEF PipeInv
<1>8. ASSUME Tail(q) = <<>>
      PROVE  PipeInv(s)'
  <2>1. Len(q) = 1
    BY <1>5, <1>8
  <2>2. sec.index + 1 = sec.msg.size /\ sec.msg.number = sent[s]
    BY <1>2, <1>4, <2>1 DEF Ends
  <2>3. buf.count = 0
    BY <1>3, <2>2
  <2>4. got'[s] = sent'[s]
    BY <1>1, <1>2, <1>4, <2>2, <2>3 DEF Begins, TypeOK
  <2>5. ASSUME NEW id \in Ids, id[1] = KindOf[s]
        PROVE  recvDataMap'[id] = NoData
    BY <1>1, <1>2, <1>3, <1>4, <2>3, <2>5 DEF Begins, TypeOK
  <2>6. InSequence(link'[s]) /\ link'[s] = <<>> /\ Idle(s)'
    BY <1>2, <1>6, <1>8, <2>4, <2>5 DEF Idle
  <2> QED  BY <2>6 DEF PipeInv
<1>9. \/ delivered' = NoData
      \/ \E m \in Message : /\ delivered'.data = [i \in 1..m.size |-> m]
                            /\ m.number = got'[s] /\ m.from = s
  <2>1. CASE buf.count # 0
    BY <1>1, <2>1
  <2>2. CASE buf.count = 0
    <3>1. sec.index + 1 = sec.msg.size
      BY <1>3, <2>2
    <3>2. buf.data = [i \in 1..sec.msg.size |-> sec.msg]
      <4>1. \A i \in 1..sec.msg.size : i <= sec.index + 1
        BY <1>3, <3>1
      <4> QED  BY <1>3, <4>1
    <3>3. sec.msg.number = got'[s]
      BY <1>1, <1>2, <1>4, <2>2 DEF Begins, TypeOK
    <3> QED  BY <1>0, <1>1, <1>3, <2>2, <3>2, <3>3
  <2> QED  BY <2>1, <2>2
<1> QED  BY <1>7, <1>8, <1>9

(* The other senders do not disturb a sender that alone has its kind.      *)
LEMMA PipeOther ==
  ASSUME TypeOK, LinkInv, IdInv, NEW s \in Senders, OwnKind(s), PipeInv(s),
         NEW r \in Senders, r # s,
         Receive(r) \/ \E size \in 1..MaxSize : Send(r, size)
  PROVE  PipeInv(s)'
<1>1. link'[s] = link[s] /\ got'[s] = got[s] /\ sent'[s] = sent[s]
  BY DEF Receive, Send, TypeOK
<1>2. \A id \in Ids : id[1] = KindOf[s] => recvDataMap'[id] = recvDataMap[id]
  <2>1. CASE \E size \in 1..MaxSize : Send(r, size)
    BY <2>1 DEF Send
  <2>2. CASE Receive(r)
    <3>1. PICK sec \in SectionMsg, buf \in RecvData :
            /\ sec.id \in Ids /\ sec = link[r][1] /\ link[r] # <<>>
            /\ Underway(sec.msg, sec.id)
            /\ \/ recvDataMap' = [recvDataMap EXCEPT ![sec.id] = NoData]
               \/ recvDataMap' = [recvDataMap EXCEPT ![sec.id] = buf]
      BY <2>2, ReceiveEffect
    <3>2. sec.msg.from = r
      <4>1. 1 \in 1..Len(link[r])
        BY <3>1, TailOf DEF TypeOK
      <4> QED  BY <3>1, <4>1 DEF LinkInv
    <3>3. sec.msg \in Message
      BY DEF SectionMsg
    <3>4. sec.id[1] # KindOf[s]
      BY <3>1, <3>2, <3>3 DEF IdInv, Numbered, OwnKind
    <3> QED  BY <3>1, <3>4 DEF TypeOK
  <2> QED  BY <2>1, <2>2
<1>3. PICK q : q = link[s] /\ q \in Seq(SectionMsg) /\ link'[s] = q
  BY <1>1 DEF TypeOK
<1>4. CASE q = <<>>
  <2>1. InSequence(q) /\ Idle(s)'
    BY <1>1, <1>2, <1>3, <1>4 DEF PipeInv, Idle
  <2> QED  BY <1>3, <1>4, <2>1 DEF PipeInv
<1>5. CASE q # <<>>
  <2>1. InSequence(q) /\ Begins(s, q[1]) /\ Ends(s, q[Len(q)])
    BY <1>3, <1>5 DEF PipeInv
  <2>2. Ends(s, q[Len(q)])'
    BY <1>1, <2>1 DEF Ends
  <2>3. Begins(s, q[1])'
    <3>1. q[1].index > 0 => q[1].id \in Ids /\ q[1].id[1] = KindOf[s]
      <4>1. q[1] \in SectionMsg
        BY <1>3, <1>5, TailOf
      <4> QED  BY <1>3, <1>5, <4>1, BufferHolds
    <3>2. /\ q[1].msg.number = got[s] + 1
          /\ q[1].index > 0 => recvDataMap[q[1].id] = Partial(q[1])
          /\ \A id \in Ids : id[1] = KindOf[s] /\ (q[1].index = 0 \/ id # q[1].id) =>
                               recvDataMap[id] = NoData
      BY <2>1 DEF Begins
    <3> QED  BY <1>1, <1>2, <3>1, <3>2 DEF Begins
  <2> QED  BY <1>3, <1>5, <2>1, <2>2, <2>3 DEF PipeInv
<1> QED  BY <1>4, <1>5

StreamInv == losses = 0 => \A s \in Senders : OwnKind(s) => PipeInv(s)

LEMMA StreamInit == Init => StreamInv /\ LinkInv /\ WholeMessages
<1> SUFFICES ASSUME Init PROVE StreamInv /\ LinkInv /\ WholeMessages
  OBVIOUS
<1>1. \A s \in Senders : link[s] = <<>> /\ Len(link[s]) = 0 /\ Idle(s)
  BY DEF Init, Idle
<1>2. Parts(delivered) = {}
  BY NothingInNoData DEF Init
<1> QED  BY <1>1, <1>2 DEF StreamInv, PipeInv, InSequence, LinkInv, WholeMessages

LEMMA StreamNext ==
  ASSUME TypeOK, LinkInv, IdInv, StreamInv, [Next]_vars
  PROVE  StreamInv'
<1> SUFFICES ASSUME losses' = 0, NEW s \in Senders, OwnKind(s)
             PROVE  PipeInv(s)'
  BY DEF StreamInv, OwnKind
<1>1. ASSUME NEW r \in Senders, LoseLink(r) \/ RestartSender(r)
      PROVE  FALSE
  BY <1>1 DEF LoseLink, RestartSender, TypeOK
<1>2. ASSUME NEW r \in Senders, Receive(r) \/ \E size \in 1..MaxSize : Send(r, size)
      PROVE  PipeInv(s)'
  <2>1. PipeInv(s)
    BY <1>2 DEF StreamInv, Receive, Send
  <2> QED  BY <1>2, <2>1, PipeSend, PipeReceive, PipeOther
<1>3. CASE UNCHANGED vars
  BY <1>3 DEF vars, StreamInv, PipeInv, Idle, Begins, Ends
<1> QED  BY <1>1, <1>2, <1>3 DEF Next

(* What a step hands over is a message as it was sent.                     *)
LEMMA WholeNext ==
  ASSUME TypeOK, LinkInv, IdInv, IdInv', StreamInv, WholeMessages, [Next]_vars
  PROVE  WholeMessages'
<1> SUFFICES ASSUME NEW s \in Senders, losses' = 0, OwnKind(s), NEW m \in Parts(delivered'),
                    m.from = s
             PROVE  delivered'.data = [i \in 1..m.size |-> m] /\ m.number = got'[s]
  BY DEF WholeMessages, OwnKind
<1>0. delivered' \in RecvData
  BY TypeNext DEF TypeOK
<1>1. ASSUME NEW r \in Senders, Receive(r)
      PROVE  delivered'.data = [i \in 1..m.size |-> m] /\ m.number = got'[s]
  <2>1. CASE r = s
    <3>1. PipeInv(s)
      BY <1>1 DEF StreamInv, Receive
    <3>2. PICK n \in Message : delivered'.data = [i \in 1..n.size |-> n] /\ n.number = got'[s]
      BY <1>1, <2>1, <3>1, PipeReceive, NothingInNoData
    <3>3. PICK j \in 1..Len(delivered'.data) : delivered'.data[j] = m
      BY <1>0, PartsOf
    <3>4. n.size \in Nat
      BY DEF Message
    <3>5. m = n
      BY <3>2, <3>3, <3>4
    <3> QED  BY <3>2, <3>5
  <2>2. CASE r # s
    <3>1. PICK sec \in SectionMsg, buf \in RecvData :
            /\ sec.id \in Ids /\ sec = link[r][1] /\ link[r] # <<>>
            /\ \A n \in Parts(buf) : Underway(n, sec.id)
            /\ Underway(sec.msg, sec.id)
            /\ delivered' = buf \/ delivered' = NoData
      BY <1>1, ReceiveEffect
    <3>2. 1 \in 1..Len(link[r])
      BY <3>1, TailOf DEF TypeOK
    <3>3. sec.msg.from = r /\ sec.msg \in Message
      BY <3>1, <3>2 DEF LinkInv, SectionMsg
    <3>4. m \in Message /\ Underway(m, sec.id)
      BY <1>0, <3>1, PartsOf, NothingInNoData
    <3>5. KindOf[m.from] = KindOf[r]
      BY <3>1, <3>3, <3>4 DEF IdInv, Numbered
    <3> QED  BY <2>2, <3>5 DEF OwnKind
  <2> QED  BY <2>1, <2>2
<1>2. ASSUME NEW r \in Senders,
             (\E size \in 1..MaxSize : Send(r, size)) \/ LoseLink(r) \/ RestartSender(r)
      PROVE  FALSE
  BY <1>2, NothingInNoData DEF Send, LoseLink, RestartSender
<1>3. CASE UNCHANGED vars
  BY <1>3 DEF vars, WholeMessages
<1> QED  BY <1>1, <1>2, <1>3 DEF Next

SectionInv == /\ TypeOK /\ CountInv /\ IdInv /\ PresentInv
              /\ LinkInv /\ StreamInv /\ WholeMessages

LEMMA Invariant == Spec => []SectionInv
<1>1. Init => SectionInv
  BY TypeInit, StreamsInit, StreamInit DEF SectionInv
<1>2. SectionInv /\ [Next]_vars => SectionInv'
  <2> SUFFICES ASSUME SectionInv, [Next]_vars PROVE SectionInv'
    OBVIOUS
  <2>1. TypeOK /\ CountInv /\ IdInv /\ PresentInv /\ LinkInv /\ StreamInv /\ WholeMessages
    BY DEF SectionInv
  <2> QED
    BY <2>1, TypeNext, CountNext, IdNext, PresentNext, LinkNext, StreamNext, WholeNext
       DEF SectionInv
<1> QED  BY <1>1, <1>2, PTL DEF Spec

-----------------------------------------------------------------------------
(* As long as no link is lost, what is handed to the program is a message  *)
(* as it was sent, complete, and the messages of a sender that alone has   *)
(* its kind come one by one, however often the counter has come round.     *)
THEOREM MessagesAreWhole == Spec => []WholeMessages
BY Invariant, PTL DEF SectionInv

(* As long as no link is lost, a sender whose sections have all arrived    *)
(* has had every message handed over, and no buffer of its kind is left.   *)
THEOREM NothingIsLeft == Spec => []NothingLeft
<1>1. SectionInv => NothingLeft
  BY DEF SectionInv, StreamInv, NothingLeft, PipeInv, Idle
<1> QED  BY <1>1, Invariant, PTL

(* Two numbers of one residue are the same or MaxId apart.                 *)
LEMMA FarApart ==
  ASSUME NEW c \in Ids, NEW m \in Message, NEW n \in Message,
         Numbered(m, c), Numbered(n, c), m.number # n.number, m.life = n.life
  PROVE  Reused(m, n)
<1>1. PICK j \in Nat, k \in Nat : /\ m.number = j * MaxId + c[2]
                                  /\ n.number = k * MaxId + c[2]
  BY DEF Numbered
<1>2. MaxId \in Nat /\ c[2] \in Nat
  BY SectionAssumption DEF Ids
<1>3. \A x, y \in Nat : x > y => x * MaxId + c[2] >= y * MaxId + c[2] + MaxId
  BY <1>2
<1>4. j # k
  BY <1>1
<1> QED  BY <1>1, <1>3, <1>4 DEF Reused

(* In the map and in what is handed over, the sections of one message of a *)
(* sender are not mixed with those of another.                             *)
LEMMA OwnUnmixed ==
  ASSUME SectionInv, losses = 0, NEW s \in Senders, OwnKind(s),
         NEW buf, buf = delivered \/ \E id \in Ids : buf = recvDataMap[id],
         NEW m \in Parts(buf), NEW n \in Parts(buf), m.from = s, n.from = s
  PROVE  m = n
<1>0. TypeOK /\ IdInv /\ PipeInv(s) /\ WholeMessages
  BY DEF SectionInv, StreamInv
<1>1. CASE buf = delivered
  <2>1. buf \in RecvData /\ delivered.data = [i \in 1..m.size |-> m]
    BY <1>0, <1>1 DEF TypeOK, WholeMessages
  <2>2. PICK j \in 1..Len(delivered.data) : delivered.data[j] = n
    BY <1>1, <2>1, PartsOf
  <2>3. m \in Message
    BY <2>1, PartsOf
  <2>4. m.size \in Nat
    BY <2>3 DEF Message
  <2> QED  BY <2>1, <2>2, <2>4
<1>2. ASSUME NEW id \in Ids, buf = recvDataMap[id]
      PROVE  m = n
  <2>1. buf \in RecvData
    BY <1>0, <1>2 DEF TypeOK
  <2>2. m \in Message /\ n \in Message /\ id[1] = KindOf[s]
    BY <1>0, <1>2, <2>1, PartsOf DEF IdInv, Numbered, Underway
  <2>3. buf # NoData
    BY NothingInNoData
  <2>4. link[s] # <<>>
    BY <1>0, <1>2, <2>2, <2>3 DEF PipeInv, Idle
  <2>5. PICK sec \in SectionMsg : sec = link[s][1]
    BY <1>0, <2>4, TailOf DEF TypeOK
  <2>6. buf = Partial(sec)
    <3>1. sec.index \in Nat
      BY DEF SectionMsg
    <3> QED  BY <1>0, <1>2, <2>2, <2>3, <2>4, <2>5, <3>1 DEF PipeInv, Begins
  <2>7. \A p \in Parts(buf) : p = sec.msg
    <3>1. sec.msg.size \in Nat
      BY DEF SectionMsg, Message
    <3>2. buf.data = [i \in 1..sec.msg.size |-> IF i <= sec.index THEN sec.msg ELSE <<>>]
      BY <2>6 DEF Partial
    <3> QED  BY <2>1, <3>1, <3>2, PartsOf
  <2> QED  BY <2>7
<1> QED  BY <1>1, <1>2

(* Sections of two messages are put together only if the messages come     *)
(* from two senders of one kind, or if the identifier of a message that    *)
(* was cut off came again: never by the wrap-around of the counter alone.  *)
THEOREM OnlyReuseMixesMessages == Spec => []OnlyReuseMixes
<1>1. SectionInv => OnlyReuseMixes
  <2> SUFFICES ASSUME SectionInv, NEW buf,
                      buf = delivered \/ \E id \in Ids : buf = recvDataMap[id],
                      NEW m \in Parts(buf), NEW n \in Parts(buf), m # n
               PROVE  \/ m.from # n.from /\ KindOf[m.from] = KindOf[n.from]
                      \/ /\ m.from = n.from /\ Reused(m, n)
                         /\ losses > 0 \/ ~OwnKind(m.from)
    BY DEF OnlyReuseMixes
  <2>0. TypeOK /\ IdInv /\ PresentInv
    BY DEF SectionInv
  <2>1. buf \in RecvData
    BY <2>0 DEF TypeOK
  <2>2. m \in Message /\ n \in Message
    BY <2>1, PartsOf
  <2>3. Present(m) /\ Present(n)
    BY DEF Present, Underway
  <2>4. PICK id \in Ids : Numbered(m, id) /\ Numbered(n, id)
    <3>1. CASE buf = delivered
      BY <2>0, <3>1 DEF IdInv
    <3>2. CASE \E id \in Ids : buf = recvDataMap[id]
      <4>1. PICK id \in Ids : buf = recvDataMap[id]
        BY <3>2
      <4> QED  BY <2>0, <2>2, <4>1 DEF IdInv, Underway
    <3> QED  BY <3>1, <3>2
  <2>5. CASE m.from # n.from
    BY <2>4, <2>5 DEF Numbered
  <2>6. CASE m.from = n.from
    <3>1. Reused(m, n)
      <4>1. m.life = n.life => m.number # n.number
        BY <2>0, <2>2, <2>3, <2>6 DEF PresentInv
      <4>2. CASE m.life = n.life
        BY <2>2, <2>4, <4>1, <4>2, FarApart
      <4>3. CASE m.life # n.life
        BY <4>3 DEF Reused
      <4> QED  BY <4>2, <4>3
    <3>2. m.from \in Senders
      BY <2>2 DEF Message
    <3>3. losses = 0 => ~OwnKind(m.from)
      BY <2>6, <3>2, OwnUnmixed
    <3>4. losses \in Nat
      BY <2>0 DEF TypeOK
    <3> QED  BY <2>6, <3>1, <3>3, <3>4
  <2> QED  BY <2>5, <2>6
<1> QED  BY <1>1, Invariant, PTL
=============================================================================
