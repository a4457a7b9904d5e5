------------------------------ MODULE Section ------------------------------
(***************************************************************************)
(* Sectioned messages (NETWORKMODULE/SectionMsgs.h).  A message that is    *)
(* larger than one packet is divided into sections; every section carries  *)
(* the identifier of its message, its index and the number of sections.    *)
(* The receiving process has ONE map from identifiers to the messages it   *)
(* is putting together, whichever link a section came by.                  *)
(*                                                                         *)
(* An identifier is the kind of the sending server (m_id) and one byte of  *)
(* a counter that skips 0.  Senders of one kind (all zone servers are      *)
(* REGIONSERVER, all login servers LOGINSERVER) draw from the same         *)
(* identifiers.  Links are ordered; a lost link loses what is in flight.   *)
(*                                                                         *)
(* The content of a message is its identity: who sent it, in which life of *)
(* the process, and its number in that life.                               *)
(***************************************************************************)
EXTENDS Naturals, Sequences

CONSTANTS Senders,      \* the processes that send to this receiver
          KindOf,       \* KindOf[s]: m_id of sender s
          MaxId,        \* the largest counter in an identifier: 255, a BYTE
          MaxSize,      \* bound: sections of a message
          MaxSent,      \* bound: messages a process sends in one life
          MaxFlight,    \* bound: sections in flight on a link
          MaxLosses     \* bound: lost links and restarts

ASSUME SectionAssumption ==
  /\ MaxId \in Nat \ {0} /\ MaxSize \in Nat \ {0}
  /\ MaxSent \in Nat /\ MaxFlight \in Nat /\ MaxLosses \in Nat

Message == [from : Senders, life : Nat, number : Nat, size : Nat \ {0}]
Ids == {KindOf[s] : s \in Senders} \X (1..MaxId)

(* struct SSectionMsg: wId, byIndex, and byCount, which is msg.size here.  *)
SectionMsg == [id : Ids, index : Nat, msg : Message]

(* struct RecvData: what has been copied into the buffer, index by index,  *)
(* and how many sections are still expected; 0 is no entry in the map.     *)
RecvData == [data : Seq(Message \cup {<<>>}), count : Nat]
NoData == [data |-> <<>>, count |-> 0]

VARIABLES
  sendCount,    \* m_sendCount of every sender
  life,         \* how often a sender was started again
  sent,         \* messages sent in this life
  link,         \* link[s]: sections on their way from s
  recvDataMap,  \* identifier -> RecvData
  delivered,    \* the buffer the last step handed to the program, or NoData
  got,          \* got[s]: buffers handed over by a section from s
  losses        \* lost links and restarts so far

vars == <<sendCount, life, sent, link, recvDataMap, delivered, got, losses>>

TypeOK ==
  /\ sendCount \in [Senders -> 0..MaxId]
  /\ life \in [Senders -> Nat]
  /\ sent \in [Senders -> Nat]
  /\ link \in [Senders -> Seq(SectionMsg)]
  /\ recvDataMap \in [Ids -> RecvData]
  /\ delivered \in RecvData
  /\ got \in [Senders -> Nat]
  /\ losses \in 0..MaxLosses

Init ==
  /\ sendCount = [s \in Senders |-> 0]
  /\ life = [s \in Senders |-> 0]
  /\ sent = [s \in Senders |-> 0]
  /\ link = [s \in Senders |-> <<>>]
  /\ recvDataMap = [i \in Ids |-> NoData]
  /\ delivered = NoData
  /\ got = [s \in Senders |-> 0]
  /\ losses = 0

-----------------------------------------------------------------------------
(* devideMessage with id = 0: the counter skips 0, and is a byte.          *)
Counter(c) == IF c = 0 THEN 1 ELSE c
NextCountWide(c) == Counter(c) + 1              \* deviation: not a byte
NextCountStuck(c) == Counter(c)                 \* deviation: no increment
NextCount(c) == (Counter(c) + 1) % (MaxId + 1)

SectionsOwnId(m, id) ==                         \* deviation: id not passed on
  [i \in 1..m.size |-> [id |-> <<id[1], 1 + ((id[2] + i - 2) % MaxId)>>,
                        index |-> i - 1, msg |-> m]]
Sections(m, id) ==
  [i \in 1..m.size |-> [id |-> id, index |-> i - 1, msg |-> m]]

(* sendMessageWithSection: all sections of a message, one after the other. *)
Send(s, size) ==
  /\ sent[s] < MaxSent /\ Len(link[s]) + size <= MaxFlight
  /\ LET m  == [from |-> s, life |-> life[s], number |-> sent[s] + 1, size |-> size]
         id == <<KindOf[s], Counter(sendCount[s])>>
     IN link' = [link EXCEPT ![s] = @ \o Sections(m, id)]
  /\ sendCount' = [sendCount EXCEPT ![s] = NextCount(@)]
  /\ sent' = [sent EXCEPT ![s] = @ + 1]
  /\ delivered' = NoData
  /\ UNCHANGED <<life, recvDataMap, got, losses>>

(* The buffer a section is copied into: the entry of its identifier,       *)
(* allocated for the first section that arrives.                           *)
BufferOneMore(sec) ==                           \* deviation: off by one
  IF recvDataMap[sec.id].count = 0
  THEN [data |-> [i \in 1..sec.msg.size |-> <<>>], count |-> sec.msg.size + 1]
  ELSE recvDataMap[sec.id]
Buffer(sec) ==
  IF recvDataMap[sec.id].count = 0
  THEN [data |-> [i \in 1..sec.msg.size |-> <<>>], count |-> sec.msg.size]
  ELSE recvDataMap[sec.id]

(* memcpy at byIndex; a copy past the end of the buffer leaves the buffer  *)
(* itself as it was.                                                       *)
CopiedFromOne(buf, sec) ==                      \* deviation: index from 1
  [data |-> [i \in DOMAIN buf.data |->
               IF i = sec.index THEN sec.msg ELSE buf.data[i]],
   count |-> buf.count - 1]
Copied(buf, sec) ==
  [data |-> [i \in DOMAIN buf.data |->
               IF i = sec.index + 1 THEN sec.msg ELSE buf.data[i]],
   count |-> buf.count - 1]

(* recvMessageWithSection and, when it returns a message, the handling of  *)
(* the message and popMessage.                                             *)
Receive(s) ==
  /\ link[s] # <<>>
  /\ LET sec == Head(link[s])
         buf == Copied(Buffer(sec), sec)
     IN IF buf.count = 0
        THEN /\ delivered' = buf
             /\ recvDataMap' = [recvDataMap EXCEPT ![sec.id] = NoData]
             /\ got' = [got EXCEPT ![s] = @ + 1]
        ELSE /\ delivered' = NoData
             /\ recvDataMap' = [recvDataMap EXCEPT ![sec.id] = buf]
             /\ UNCHANGED got
  /\ link' = [link EXCEPT ![s] = Tail(@)]
  /\ UNCHANGED <<sendCount, life, sent, losses>>

(* The link of s breaks and comes up again: nobody clears the map.         *)
LoseLink(s) ==
  /\ losses < MaxLosses
  /\ losses' = losses + 1
  /\ link' = [link EXCEPT ![s] = <<>>]
  /\ delivered' = NoData
  /\ UNCHANGED <<sendCount, life, sent, recvDataMap, got>>

(* The process s is started again: its counter starts at 0 as well.        *)
RestartSender(s) ==
  /\ losses < MaxLosses
  /\ losses' = losses + 1
  /\ life' = [life EXCEPT ![s] = @ + 1]
  /\ sendCount' = [sendCount EXCEPT ![s] = 0]
  /\ sent' = [sent EXCEPT ![s] = 0]
  /\ link' = [link EXCEPT ![s] = <<>>]
  /\ delivered' = NoData
  /\ UNCHANGED <<recvDataMap, got>>

Next == \E s \in Senders :
  \/ \E size \in 1..MaxSize : Send(s, size)
  \/ Receive(s)
  \/ LoseLink(s)
  \/ RestartSender(s)

(* The receiving loop takes every section that has arrived.                *)
Spec == Init /\ [][Next]_vars /\ \A s \in Senders : WF_vars(Receive(s))

-----------------------------------------------------------------------------
(* What a buffer has been filled with.                                     *)
Parts(buf) == {buf.data[i] : i \in DOMAIN buf.data} \ {<<>>}

(* No other sender has the kind of s.                                      *)
OwnKind(s) == \A r \in Senders : KindOf[r] = KindOf[s] => r = s

(* Two messages of one process get the same identifier only when the       *)
(* counter came round between them or the process was started again.       *)
Reused(m, n) ==
  \/ m.life # n.life
  \/ m.number >= n.number + MaxId
  \/ n.number >= m.number + MaxId

(* Hazard SectionMsgs.h:122.  The wrap-around of the counter is harmless   *)
(* by itself.  Sections of two messages are put together only if the       *)
(* messages come from two senders of one kind, or if the identifier of a   *)
(* message that was cut off came again: cut off by a lost link, or by the  *)
(* sections of another sender of the kind.  The partial message stays in   *)
(* the map until then.                                                     *)
OnlyReuseMixes ==
  \A buf \in {recvDataMap[i] : i \in Ids} \cup {delivered} :
    \A m, n \in Parts(buf) :
      m # n => \/ m.from # n.from /\ KindOf[m.from] = KindOf[n.from]
               \/ /\ m.from = n.from /\ Reused(m, n)
                  /\ losses > 0 \/ ~OwnKind(m.from)

(* Hazard DMainApp.cpp:388.  As long as no link is lost, what is handed to *)
(* the program is a message as it was sent, complete, and the messages of  *)
(* a sender come one by one in the order they were sent, however often the *)
(* counter has come round.                                                 *)
WholeMessages ==
  \A s \in Senders :
    losses = 0 /\ OwnKind(s) =>
      \A m \in Parts(delivered) :
        m.from = s =>
          /\ delivered.data = [i \in 1..m.size |-> m]
          /\ m.number = got[s]

(* Hazard SectionMsgs.h:122.  As long as no link is lost, a sender whose   *)
(* sections have all arrived has had every message handed over, and no     *)
(* buffer of its kind is left in the map.                                  *)
NothingLeft ==
  \A s \in Senders :
    losses = 0 /\ OwnKind(s) /\ link[s] = <<>> =>
      /\ got[s] = sent[s]
      /\ \A i \in Ids : i[1] = KindOf[s] => recvDataMap[i] = NoData

(* Every message that is sent is handed over, unless a link is lost or     *)
(* another sender has the kind: the receiving loop goes on, and no section *)
(* waits for a later message.                                              *)
Arrives ==
  \A s \in Senders : \A n \in 1..MaxSent :
    sent[s] = n /\ losses = 0 /\ OwnKind(s) ~> got[s] >= n \/ losses > 0
=============================================================================
