---------------------------- MODULE FTPClientProofs ----------------------------
(***************************************************************************)
(* Theorems about FTPClient for any sessions, any sizes of data and any    *)
(* server: which reply the client takes for which command; and, for any    *)
(* session that uploads one file over a data connection of its own, that   *)
(* FTPClient implements Upload and keeps its types, whatever the server    *)
(* answers and whenever the session ends.                                  *)
(***************************************************************************)
EXTENDS FTPClient, SequenceTheorems, TLAPS

-----------------------------------------------------------------------------
(* Types of the control connection *)

Codes   == {0, 150, 220, 226, 250, 426, 550}
Replies == [for : Nat, code : Codes] \cup [for : Nat, code : {227}, port : Nat]

ControlTypes ==
    /\ session \in Sessions
    /\ at \in Nat \ {0}
    /\ commands \in Seq([op : Commands, for : Nat])
    /\ replies \in Seq(Replies) /\ response \in Seq(Replies)
    /\ line \in {"open", "closed", "reset"}
    /\ port \in Nat
    /\ transfer \in [kind : {"none", "LIST", "STOR"}, on : Nat, left : Int, for : Nat]

\* The pieces of a reply are replies to the same operation.  Only those to PASV
\* have a port, the same or an incomplete one, and if the first piece has it as a
\* whole the second has none.
LEMMA CutFacts ==
    ASSUME NEW r \in Replies, NEW cut \in Cuts(r)
    PROVE  /\ cut[1] \in Replies /\ cut[2] \in Replies
           /\ cut[1].for = r.for /\ cut[2].for = r.for
           /\ cut[1].code = 227 => r.code = 227 /\ cut[1].port \in {0, r.port}
           /\ cut[2].code = 227 => r.code = 227 /\ cut[2].port \in {0, r.port}
           /\ cut[1].code = 227 /\ cut[1].port # 0 => cut[2].code # 227
  <1>1. r.for \in Nat
    BY DEF Replies
  <1>2. Part(r) \in Replies /\ Part(r).for = r.for /\ Part(r).code # 227
    BY <1>1 DEF Part, Reply, Replies, Codes
  <1>3. CASE r.code = 227
    <2>1. r \in [for : Nat, code : {227}, port : Nat]
      BY <1>3 DEF Replies, Codes
    <2>2. /\ PortCut(r) \in [for : Nat, code : {227}, port : Nat]
          /\ PortCut(r).for = r.for /\ PortCut(r).port = 0
      BY <2>1 DEF PortCut
    <2>3. PortCut(r) \in Replies
      BY <2>2 DEF Replies
    <2>4. \/ cut = <<r, Part(r)>> \/ cut = <<PortCut(r), Part(r)>>
          \/ cut = <<PortCut(r), PortCut(r)>> \/ cut = <<Part(r), r>>
      BY <1>3 DEF Cuts
    <2> QED
      BY <1>2, <1>3, <2>2, <2>3, <2>4
  <1>4. CASE r.code # 227
    <2>1. cut = <<Part(r), Part(r)>>
      BY <1>4 DEF Cuts
    <2> QED
      BY <1>2, <2>1
  <1> QED
    BY <1>3, <1>4

\* What a recv returns and what it leaves.
TakenWhole(n, head) ==
    /\ head = replies[n]
    /\ Len(replies') = Len(replies) - n
    /\ \A i \in 1..(Len(replies) - n) : replies'[i] = replies[n + i]

TakenInPart(n, head, rest) ==
    /\ session.cuts
    /\ <<head, rest>> \in Cuts(replies[n])
    /\ Len(replies') = Len(replies) - n + 1 /\ replies'[1] = rest
    /\ \A i \in 1..(Len(replies) - n) : replies'[i + 1] = replies[n + i]

LEMMA ReceiveFacts ==
    ASSUME ControlTypes, Receive
    PROVE  /\ response' \in Seq(Replies) /\ replies' \in Seq(Replies)
           /\ \E n \in 1..Len(replies), head \in Replies :
                 /\ Len(response') = n /\ response'[n] = head
                 /\ \A i \in 1..(n - 1) : response'[i] = replies[i]
                 /\ TakenWhole(n, head) \/ \E rest \in Replies : TakenInPart(n, head, rest)
  <1>0. replies \in Seq(Replies) /\ Len(replies) \in Nat
    BY DEF ControlTypes
  <1>1. PICK n \in 1..Len(replies) :
           \/ response' = Received(n, replies[n]) /\ replies' = Unread(n)
           \/ /\ session.cuts
              /\ \E cut \in Cuts(replies[n]) :
                    response' = Received(n, cut[1]) /\ replies' = <<cut[2]>> \o Unread(n)
    BY DEF Receive
  <1>2. /\ replies[n] \in Replies
        /\ SubSeq(replies, 1, n - 1) \in Seq(Replies) /\ Len(SubSeq(replies, 1, n - 1)) = n - 1
        /\ \A i \in 1..(n - 1) : SubSeq(replies, 1, n - 1)[i] = replies[i]
    BY <1>0
  <1>3. /\ Unread(n) \in Seq(Replies) /\ Len(Unread(n)) = Len(replies) - n
        /\ \A i \in 1..(Len(replies) - n) : Unread(n)[i] = replies[n + i]
    BY <1>0 DEF Unread
  <1>4. ASSUME NEW head \in Replies, response' = Received(n, head)
        PROVE  /\ response' \in Seq(Replies)
               /\ Len(response') = n /\ response'[n] = head
               /\ \A i \in 1..(n - 1) : response'[i] = replies[i]
    BY <1>2, <1>4, AppendProperties DEF Received
  <1>5. CASE response' = Received(n, replies[n]) /\ replies' = Unread(n)
    BY <1>2, <1>3, <1>4, <1>5 DEF TakenWhole
  <1>6. ASSUME session.cuts, NEW cut \in Cuts(replies[n]),
               response' = Received(n, cut[1]), replies' = <<cut[2]>> \o Unread(n)
        PROVE  /\ cut[1] \in Replies /\ cut[2] \in Replies
               /\ replies' \in Seq(Replies) /\ TakenInPart(n, cut[1], cut[2])
    <2>1. cut[1] \in Replies /\ cut[2] \in Replies
      BY <1>2, CutFacts
    <2>2. cut = <<cut[1], cut[2]>>
      BY DEF Cuts
    <2>3. <<cut[2]>> \in Seq(Replies) /\ Len(<<cut[2]>>) = 1 /\ <<cut[2]>>[1] = cut[2]
      BY <2>1
    <2>4. /\ replies' \in Seq(Replies) /\ Len(replies') = 1 + Len(Unread(n))
          /\ \A i \in 1..1 : replies'[i] = <<cut[2]>>[i]
          /\ \A i \in 1..(1 + Len(Unread(n))) : i > 1 => replies'[i] = Unread(n)[i - 1]
      BY <1>3, <1>6, <2>3, ConcatProperties
    <2>5. ASSUME NEW i \in 1..(Len(replies) - n) PROVE replies'[i + 1] = replies[n + i]
      <3>1. i + 1 \in 1..(1 + Len(Unread(n))) /\ i + 1 > 1 /\ (i + 1) - 1 = i
        BY <1>0, <1>3
      <3> QED
        BY <1>3, <2>4, <3>1
    <2>6. replies'[1] = cut[2]
      BY <2>3, <2>4
    <2>7. <<cut[1], cut[2]>> \in Cuts(replies[n])
      BY <1>6, <2>2
    <2>8. Len(replies') = Len(replies) - n + 1
      BY <1>0, <1>3, <2>4
    <2> QED
      BY <1>6, <2>1, <2>4, <2>5, <2>6, <2>7, <2>8 DEF TakenInPart
  <1> QED
    BY <1>1, <1>2, <1>3, <1>4, <1>5, <1>6

\* The end of a connection, by the client's closing of its channel or by a drop.
LEMMA CloseFacts ==
    ASSUME CloseChannel
    PROVE  \/ /\ ~Broken /\ UNCHANGED <<commands, line, transfer, replies>>
              /\ shut' = [shut EXCEPT ![channel] = @ \cup {"client"}]
           \/ /\ Broken /\ line' = "reset" /\ commands' = <<>> /\ replies' = <<>>
              /\ transfer' = NoTransfer
              /\ shut' = [p \in DOMAIN shut |->
                             [shut EXCEPT ![channel] = @ \cup {"client"}][p] \cup {"server"}]
  BY DEF CloseChannel, Sever

LEMMA DropFacts ==
    ASSUME Drop
    PROVE  /\ session.fault \in {"drops", "aborts"} /\ UNCHANGED <<client, replies, wire, port, stored>>
           /\ line = "open" /\ line' \in {"closed", "reset"}
           /\ commands' = <<>> /\ transfer' = NoTransfer
           /\ shut' = [p \in DOMAIN shut |-> shut[p] \cup {"server"}]
  BY DEF Drop, Sever

\* Every step keeps them.
LEMMA ControlTypesStep == ControlTypes /\ [Next]_vars => ControlTypes'
  <1> SUFFICES ASSUME ControlTypes, [Next]_vars PROVE ControlTypes'
    OBVIOUS
  <1> USE DEF ControlTypes, client, server
  <1>1. CASE SendCommand
    <2>1. [op |-> Op, for |-> at] \in [op : Commands, for : Nat]
      BY <1>1 DEF SendCommand
    <2>2. commands' \in Seq([op : Commands, for : Nat])
      BY <1>1, <2>1, AppendProperties DEF SendCommand
    <2> QED
      BY <1>1, <2>2 DEF SendCommand
  <1>2. CASE Receive
    <2>1. response' \in Seq(Replies) /\ replies' \in Seq(Replies)
      BY <1>2, ReceiveFacts
    <2> QED
      BY <1>2, <2>1 DEF Receive, AfterReceive, Advance
  <1>3. CASE ReceiveClosed \/ ReceiveFails \/ CrashOnResponse
    BY <1>3 DEF ReceiveClosed, ReceiveFails, CrashOnResponse, AfterReceive, Advance
  <1>3a. CASE ConnectChannel \/ SendFails
    <2>1. /\ CloseChannel /\ (Advance \/ UNCHANGED at)
          /\ UNCHANGED <<session, response, port>>
      BY <1>3a DEF ConnectChannel, SendFails
    <2>2. at' \in Nat \ {0}
      BY <2>1 DEF Advance
    <2>3. /\ <<>> \in Seq([op : Commands, for : Nat]) /\ <<>> \in Seq(Replies)
          /\ NoTransfer \in [kind : {"none", "LIST", "STOR"}, on : Nat, left : Int, for : Nat]
      BY DEF NoTransfer
    <2> QED
      BY <2>1, <2>2, <2>3, CloseFacts
  <1>4. CASE ReadData \/ SendData \/ SendUnit \/ EndSend \/ Delete \/ Exit
    BY <1>4 DEF ReadData, SendData, SendUnit, EndSend, Delete, Exit, Advance
  <1>5. ASSUME NEW op \in Commands, Takes(op)
        PROVE  /\ commands' \in Seq([op : Commands, for : Nat])
               /\ Head(commands) \in [op : Commands, for : Nat]
    <2>1. commands # <<>> /\ commands' = Tail(commands)
      BY <1>5 DEF Takes
    <2> QED
      BY <2>1, HeadTailProperties
  <1>6. ASSUME NEW r \in Replies, Answer(r) PROVE replies' \in Seq(Replies)
    BY <1>6 DEF Answer
  <1>7. CASE ServeCommand
    <2>1. Reply(Head(commands).for, 250) \in Replies
      BY <1>5, <1>7 DEF ServeCommand, Commands, Reply, Replies, Codes
    <2> QED
      BY <1>5, <1>6, <1>7, <2>1 DEF ServeCommand, Commands
  <1>8. CASE ServePasv
    <2>1. [for |-> Head(commands).for, code |-> 227, port |-> port + 1] \in Replies
      BY <1>5, <1>8 DEF ServePasv, Commands, Replies
    <2> QED
      BY <1>5, <1>6, <1>8, <2>1 DEF ServePasv, Commands
  <1>9. ASSUME NEW op \in {"LIST", "STOR"}, ServeTransfer(op) PROVE ControlTypes'
    <2>1. /\ Reply(Head(commands).for, 150) \in Replies
          /\ Reply(Head(commands).for, 550) \in Replies
          /\ Head(commands).for \in Nat
      BY <1>5, <1>9 DEF ServeTransfer, Commands, Reply, Replies, Codes
    <2>2. replies' \in Seq(Replies)
      BY <1>6, <1>9, <2>1 DEF ServeTransfer
    <2>3. Size(op) \in Int
      BY SessionsAssumption DEF Size, Session
    <2>4. transfer' \in [kind : {"none", "LIST", "STOR"}, on : Nat, left : Int, for : Nat]
      BY <1>9, <2>1, <2>3 DEF ServeTransfer
    <2> QED
      BY <1>5, <1>9, <2>2, <2>4 DEF ServeTransfer, Commands
  <1>10. CASE WriteListing \/ ReadFile
    <2>1. transfer' \in [kind : {"none", "LIST", "STOR"}, on : Nat, left : Int, for : Nat]
      BY <1>10 DEF WriteListing, ReadFile
    <2> QED
      BY <1>10, <2>1 DEF WriteListing, ReadFile
  <1>11. CASE EndTransfer
    <2>1. Reply(transfer.for, IF transfer.left = 0 THEN 226 ELSE 426) \in Replies
      BY DEF Reply, Replies, Codes
    <2> QED
      BY <1>6, <1>11, <2>1 DEF EndTransfer, NoTransfer
  <1>12. CASE Drop
    BY <1>12, DropFacts DEF NoTransfer
  <1>13. CASE UNCHANGED vars
    BY <1>13 DEF vars
  <1> QED
    BY <1>1, <1>2, <1>3, <1>3a, <1>4, <1>7, <1>8, <1>9, <1>10, <1>11, <1>12, <1>13
       DEF Next, Client, Server

-----------------------------------------------------------------------------
(* The port of PASV *)

Ended == phase \in {"deleted", "crashed", "thrown", "terminated"}

PasvCommands == {i \in DOMAIN commands : commands[i].op = "PASV"}
PortReplies  == {i \in DOMAIN replies : replies[i].code = 227}

NoPasv == PasvCommands = {} /\ PortReplies = {}

\* The one PASV in progress waits for the server, or its reply for the client.
OnePasv ==
    /\ PasvCommands = {} \/ PortReplies = {}
    /\ \A i, j \in PasvCommands : i = j
    /\ \A i, j \in PortReplies : i = j
    /\ \A i \in PortReplies : replies[i].port = port /\ port > 0

\* A PASV whose port the client misses, or gets a part of, ends the session, so
\* every port of an earlier PASV has been read when the next is sent.
PasvInv ==
    \/ Ended
    \/ /\ phase = "recv" /\ Op = "PASV" => OnePasv
       /\ phase \in {"call", "sending", "end"} \/ (phase = "recv" /\ Op # "PASV") => NoPasv
       /\ phase = "connect" /\ PasvReplies # {} =>
             /\ PasvCommands = {} /\ port > 0
             /\ \A i, j \in PasvReplies : i = j
             /\ \A i \in PasvReplies : response[i].port \in {0, port}
             /\ (\E i \in PasvReplies : response[i].port # 0) => PortReplies = {}

\* The port the client takes is that of a reply in the response; if it is a
\* complete one, nothing of PASV is on its way.
LEMMA PortTaken ==
    ASSUME ControlTypes, PasvInv, phase = "connect", PasvReplies # {}
    PROVE  /\ PasvPort \in {0, port} /\ port > 0
           /\ PasvPort = port => NoPasv
  <1>1. /\ PasvCommands = {} /\ port > 0 /\ port \in Nat
        /\ \A i, j \in PasvReplies : i = j
        /\ \A i \in PasvReplies : i \in Nat /\ response[i].port \in {0, port}
        /\ (\E i \in PasvReplies : response[i].port # 0) => PortReplies = {}
    BY DEF ControlTypes, PasvInv, Ended, PasvReplies
  <1>2. PICK i \in PasvReplies : \A j \in PasvReplies : i <= j
    BY <1>1
  <1>3. (CHOOSE k \in PasvReplies : \A j \in PasvReplies : k <= j) = i
    BY <1>1, <1>2
  <1>4. PasvPort = response[i].port
    BY <1>3 DEF PasvPort
  <1> QED
    BY <1>1, <1>4 DEF NoPasv

\* The client's steps.
LEMMA PasvSend == ControlTypes /\ PasvInv /\ SendCommand => PasvInv'
  <1> SUFFICES ASSUME ControlTypes, PasvInv, SendCommand PROVE PasvInv'
    OBVIOUS
  <1>1. NoPasv /\ phase' = "recv" /\ Op' = Op
    BY DEF PasvInv, SendCommand, Ended, Op
  <1>2. PortReplies' = {}
    BY <1>1 DEF NoPasv, PortReplies, SendCommand, server
  <1>3. CASE commands' = commands
    <2>1. PasvCommands' = {}
      BY <1>1, <1>3 DEF NoPasv, PasvCommands
    <2> QED
      BY <1>1, <1>2, <2>1 DEF PasvInv, OnePasv, NoPasv
  <1>4. CASE commands' = Append(commands, [op |-> Op, for |-> at])
    <2>1. [op |-> Op, for |-> at] \in [op : Commands, for : Nat]
      BY DEF SendCommand, ControlTypes
    <2>2. /\ Len(commands') = Len(commands) + 1
          /\ \A i \in 1..Len(commands) : commands'[i] = commands[i]
          /\ commands'[Len(commands) + 1] = [op |-> Op, for |-> at]
      BY <1>4, <2>1, AppendProperties DEF ControlTypes
    <2>3. Len(commands) \in Nat /\ DOMAIN commands = 1..Len(commands)
          /\ DOMAIN commands' = 1..(Len(commands) + 1)
      BY <1>4, <2>1, <2>2, AppendProperties, LenProperties DEF ControlTypes
    <2>4. PasvCommands' = IF Op = "PASV" THEN {Len(commands) + 1} ELSE {}
      BY <1>1, <2>2, <2>3 DEF NoPasv, PasvCommands
    <2> QED
      BY <1>1, <1>2, <2>4 DEF PasvInv, OnePasv, NoPasv
  <1> QED
    BY <1>3, <1>4 DEF SendCommand

LEMMA PasvReceive == ControlTypes /\ PasvInv /\ Receive => PasvInv'
  <1> SUFFICES ASSUME ControlTypes, PasvInv, Receive PROVE PasvInv'
    OBVIOUS
  <1>1. PICK n \in 1..Len(replies), head \in Replies :
           /\ Len(response') = n /\ response'[n] = head
           /\ \A i \in 1..(n - 1) : response'[i] = replies[i]
           /\ TakenWhole(n, head) \/ \E rest \in Replies : TakenInPart(n, head, rest)
    BY ReceiveFacts
  <1>2. /\ Len(replies) \in Nat /\ DOMAIN replies = 1..Len(replies)
        /\ DOMAIN response' = 1..n /\ DOMAIN replies' = 1..Len(replies')
        /\ replies[n] \in Replies
    BY <1>1, ReceiveFacts, LenProperties DEF ControlTypes
  <1>3. PasvCommands' = PasvCommands /\ port' = port
    BY DEF Receive, PasvCommands, server
  <1>4. head.code = 227 => n \in PortReplies /\ head.port \in {0, replies[n].port}
    <2>1. CASE TakenWhole(n, head)
      BY <1>2, <2>1 DEF TakenWhole, PortReplies
    <2>2. ASSUME NEW rest \in Replies, TakenInPart(n, head, rest)
          PROVE  head.code = 227 => n \in PortReplies /\ head.port \in {0, replies[n].port}
      BY <1>2, <2>2, CutFacts DEF TakenInPart, PortReplies
    <2> QED
      BY <1>1, <2>1, <2>2
  <1>5. \A i \in PasvReplies' : i \in PortReplies /\ i \in 1..n
                                /\ response'[i].port \in {0, replies[i].port}
    <2>1. ASSUME NEW i \in PasvReplies'
          PROVE  i \in PortReplies /\ response'[i].port \in {0, replies[i].port}
      <3>1. i \in 1..n /\ response'[i].code = 227
        BY <1>2 DEF PasvReplies
      <3>2. CASE i = n
        BY <1>1, <1>4, <3>1, <3>2
      <3>3. CASE i # n
        <4>1. i \in 1..(n - 1) /\ i \in DOMAIN replies
          BY <1>2, <3>1, <3>3
        <4> QED
          BY <1>1, <3>1, <4>1 DEF PortReplies
      <3> QED
        BY <3>2, <3>3
    <2> QED
      BY <1>2, <2>1 DEF PasvReplies
  \* What is left of PASV was there before, behind what has been read.
  <1>6. ASSUME PortReplies' # {}
        PROVE  \/ \E j \in PortReplies : j > n
               \/ n \in PortReplies /\ (head.code = 227 => head.port = 0)
    <2>1. PICK i \in PortReplies' : i \in 1..Len(replies') /\ replies'[i].code = 227
      BY <1>2, <1>6 DEF PortReplies
    <2>2. CASE TakenWhole(n, head)
      <3>1. n + i \in 1..Len(replies) /\ n + i > n /\ replies'[i] = replies[n + i]
        BY <1>2, <2>1, <2>2 DEF TakenWhole
      <3> QED
        BY <1>2, <2>1, <3>1 DEF PortReplies
    <2>3. ASSUME NEW rest \in Replies, TakenInPart(n, head, rest)
          PROVE  \/ \E j \in PortReplies : j > n
                 \/ n \in PortReplies /\ (head.code = 227 => head.port = 0)
      <3>1. CASE i = 1
        <4>1. rest.code = 227
          BY <2>1, <2>3, <3>1 DEF TakenInPart
        <4>2. replies[n].code = 227 /\ (head.code = 227 => head.port = 0)
          BY <1>2, <2>3, <4>1, CutFacts DEF TakenInPart
        <4> QED
          BY <1>2, <4>2 DEF PortReplies
      <3>2. CASE i # 1
        <4>1. i - 1 \in 1..(Len(replies) - n) /\ (i - 1) + 1 = i
          BY <1>2, <2>1, <2>3, <3>2 DEF TakenInPart
        <4>2. replies'[i] = replies[n + (i - 1)]
          BY <2>3, <4>1 DEF TakenInPart
        <4>3. n + (i - 1) \in PortReplies /\ n + (i - 1) > n
          BY <1>2, <2>1, <4>1, <4>2 DEF PortReplies
        <4> QED
          BY <4>3
      <3> QED
        BY <3>1, <3>2
    <2> QED
      BY <1>1, <2>2, <2>3
  <1>7. CASE Op = "PASV"
    <2>1. OnePasv /\ phase' = "connect"
      BY <1>7 DEF PasvInv, Receive, Ended, AfterReceive
    <2>2. ASSUME NEW k \in PasvReplies'
          PROVE  /\ PasvCommands' = {} /\ port' > 0
                 /\ \A i, j \in PasvReplies' : i = j
                 /\ \A i \in PasvReplies' : response'[i].port \in {0, port'}
      BY <1>3, <1>5, <2>1 DEF OnePasv
    <2>3. ASSUME NEW k \in PasvReplies', response'[k].port # 0, PortReplies' # {} PROVE FALSE
      <3>1. k \in PortReplies /\ k \in 1..n
        BY <1>5, <2>3
      <3>2. \A j \in PortReplies : ~(j > n)
        BY <1>2, <2>1, <3>1 DEF OnePasv
      <3>3. n \in PortReplies /\ (head.code = 227 => head.port = 0)
        BY <1>6, <2>3, <3>2
      <3>4. k = n
        BY <2>1, <3>1, <3>3 DEF OnePasv
      <3>5. response'[n].code = 227
        BY <3>4 DEF PasvReplies
      <3> QED
        BY <1>1, <2>3, <3>3, <3>4, <3>5
    <2> QED
      BY <2>1, <2>2, <2>3 DEF PasvInv
  <1>8. CASE Op # "PASV"
    <2>1. NoPasv /\ phase' \in {"call", "end"}
      BY <1>8 DEF PasvInv, Receive, Ended, AfterReceive, Advance
    <2>2. PortReplies' = {}
      BY <1>6, <2>1 DEF NoPasv
    <2> QED
      BY <1>3, <2>1, <2>2 DEF PasvInv, NoPasv
  <1> QED
    BY <1>7, <1>8

LEMMA PasvOther ==
    ASSUME ControlTypes, PasvInv,
           \/ ReceiveClosed \/ ReceiveFails \/ CrashOnResponse
           \/ ReadData \/ SendData \/ SendUnit \/ EndSend \/ Delete \/ Exit
    PROVE  PasvInv'
  <1>1. PasvCommands' = PasvCommands /\ PortReplies' = PortReplies
    BY DEF ReceiveClosed, ReceiveFails, CrashOnResponse, ReadData, SendData,
           SendUnit, EndSend, Delete, Exit, PasvCommands, PortReplies
  <1>2. NoPasv' <=> NoPasv
    BY <1>1 DEF NoPasv
  <1>3. CASE ReceiveClosed
    BY <1>2, <1>3
       DEF ReceiveClosed, PasvInv, Ended, AfterReceive, Advance, PasvReplies
  <1>4. CASE ReceiveFails \/ CrashOnResponse
    BY <1>4 DEF ReceiveFails, CrashOnResponse, PasvInv, Ended
  <1>5. CASE ReadData \/ SendData \/ SendUnit \/ EndSend
    BY <1>2, <1>5 DEF ReadData, SendData, SendUnit, EndSend, PasvInv, Ended, Advance
  <1>6. CASE Delete \/ Exit
    BY <1>6 DEF Delete, Exit, client, PasvInv, Ended
  <1> QED
    BY <1>3, <1>4, <1>5, <1>6

\* Nor do the steps that close the data channel bring a PASV back.
LEMMA PasvCloses ==
    ASSUME ControlTypes, PasvInv, ConnectChannel \/ SendFails
    PROVE  PasvInv'
  <1>1. NoPasv => NoPasv'
    <2>1. CloseChannel
      BY DEF ConnectChannel, SendFails
    <2>2. \/ commands' = commands /\ replies' = replies
          \/ commands' = <<>> /\ replies' = <<>>
      BY <2>1, CloseFacts
    <2> QED
      BY <2>2 DEF NoPasv, PasvCommands, PortReplies
  <1>2. CASE ConnectChannel
    <2>1. phase = "connect" /\ PasvReplies # {}
      BY <1>2 DEF ConnectChannel
    <2>2. CASE PasvPort = port /\ Advance
      <3>1. NoPasv' /\ phase' \in {"call", "end"}
        BY <1>1, <2>1, <2>2, PortTaken DEF Advance
      <3> QED
        BY <3>1 DEF PasvInv
    <2>3. CASE phase' = "thrown"
      BY <2>3 DEF PasvInv, Ended
    <2> QED
      BY <1>2, <2>2, <2>3 DEF ConnectChannel
  <1>3. CASE SendFails
    <2>1. NoPasv /\ phase' \in {"call", "end"}
      BY <1>3 DEF SendFails, PasvInv, Ended, Advance
    <2> QED
      BY <1>1, <2>1 DEF PasvInv
  <1> QED
    BY <1>2, <1>3

\* The server's steps change what is waiting, and nothing of the client.
LEMMA PasvServer ==
    ASSUME ControlTypes, PasvInv, UNCHANGED client,
           PasvCommands = {} => /\ PasvCommands' = {} /\ port' = port
                                /\ PortReplies = {} => PortReplies' = {},
           OnePasv => OnePasv'
    PROVE  PasvInv'
  <1>1. /\ phase' = phase /\ Op' = Op /\ Ended' = Ended /\ response' = response
        /\ PasvReplies' = PasvReplies
    BY DEF client, Op, Ended, PasvReplies
  <1>2. NoPasv => NoPasv'
    BY DEF NoPasv
  <1> QED
    BY <1>1, <1>2 DEF PasvInv

\* A command is taken and another reply than that of PASV given.
LEMMA AnsweredOther ==
    ASSUME ControlTypes, NEW op \in Commands \ {"PASV"}, Takes(op), NEW r \in Replies,
           r.code # 227, Answer(r), port' = port
    PROVE  /\ PasvCommands = {} => /\ PasvCommands' = {}
                                   /\ PortReplies = {} => PortReplies' = {}
           /\ OnePasv => OnePasv'
  <1>1. /\ Len(commands) \in Nat /\ DOMAIN commands = 1..Len(commands)
        /\ DOMAIN commands' = 1..(Len(commands) - 1)
        /\ \A i \in DOMAIN commands' : commands'[i] = commands[i + 1]
    BY HeadTailProperties, LenProperties DEF ControlTypes, Takes
  <1>2. \A i \in PasvCommands' : i + 1 \in PasvCommands
    BY <1>1 DEF PasvCommands
  <1>3. PortReplies' = PortReplies /\ \A i \in PortReplies : replies'[i] = replies[i]
    BY DEF ControlTypes, Answer, PortReplies
  <1> QED
    BY <1>1, <1>2, <1>3 DEF OnePasv, PasvCommands

LEMMA PasvServes ==
    ASSUME ControlTypes, ServePasv
    PROVE  PasvCommands # {} /\ (OnePasv => OnePasv')
  <1>1. /\ Len(commands) \in Nat /\ DOMAIN commands = 1..Len(commands)
        /\ Len(commands) > 0 /\ commands[1].op = "PASV"
        /\ DOMAIN commands' = 1..(Len(commands) - 1)
        /\ \A i \in DOMAIN commands' : commands'[i] = commands[i + 1]
    BY HeadTailProperties, LenProperties, EmptySeq DEF ControlTypes, ServePasv, Takes
  <1>2. 1 \in PasvCommands /\ \A i \in PasvCommands' : i + 1 \in PasvCommands
    BY <1>1 DEF PasvCommands
  <1>3. ASSUME OnePasv PROVE OnePasv'
    <2> DEFINE r == [for |-> Head(commands).for, code |-> 227, port |-> port + 1]
    <2>1. PortReplies = {} /\ PasvCommands' = {}
      BY <1>1, <1>2, <1>3 DEF OnePasv, PasvCommands
    <2>2. Head(commands) \in [op : Commands, for : Nat]
      BY HeadTailProperties DEF ControlTypes, ServePasv, Takes
    <2>3. r \in Replies /\ r.port = port + 1
      BY <2>2 DEF ControlTypes, Replies
    <2>4. replies' = Append(replies, r)
      BY DEF ServePasv, Answer
    <2>5. /\ DOMAIN replies' = 1..(Len(replies) + 1)
          /\ replies'[Len(replies) + 1] = r
          /\ \A i \in 1..Len(replies) : replies'[i] = replies[i]
      BY <2>3, <2>4, AppendProperties DEF ControlTypes
    <2>6. Len(replies) \in Nat /\ DOMAIN replies = 1..Len(replies)
      BY LenProperties DEF ControlTypes
    <2>7. PortReplies' \subseteq {Len(replies) + 1}
      BY <2>1, <2>5, <2>6 DEF PortReplies
    <2>8. port' = port + 1 /\ port + 1 > 0
      BY DEF ServePasv, ControlTypes
    <2> QED
      BY <2>1, <2>3, <2>5, <2>7, <2>8 DEF OnePasv
  <1> QED
    BY <1>2, <1>3

LEMMA PasvStep == ControlTypes /\ PasvInv /\ [Next]_vars => PasvInv'
  <1> SUFFICES ASSUME ControlTypes, PasvInv, [Next]_vars PROVE PasvInv'
    OBVIOUS
  <1>1. CASE Client
    BY <1>1, PasvSend, PasvReceive, PasvOther, PasvCloses DEF Client
  <1>2. CASE ServeCommand
    <2>1. /\ Takes("CMD") /\ "CMD" \in Commands \ {"PASV"}
          /\ Answer(Reply(Head(commands).for, 250)) /\ port' = port
      BY <1>2 DEF ServeCommand, server, Commands
    <2>2. Head(commands) \in [op : Commands, for : Nat]
      BY <2>1, HeadTailProperties DEF Takes, ControlTypes
    <2>3. Reply(Head(commands).for, 250) \in Replies /\ Reply(Head(commands).for, 250).code # 227
      BY <2>2 DEF Reply, Replies, Codes
    <2> QED
      BY <1>2, <2>1, <2>3, AnsweredOther, PasvServer DEF ServeCommand
  <1>3. CASE ServePasv
    BY <1>3, PasvServes, PasvServer DEF ServePasv
  <1>4. ASSUME NEW op \in {"LIST", "STOR"}, ServeTransfer(op) PROVE PasvInv'
    <2>1. /\ Takes(op) /\ op \in Commands \ {"PASV"} /\ port' = port
          /\ \/ Answer(Reply(Head(commands).for, 150))
             \/ Answer(Reply(Head(commands).for, 550))
      BY <1>4 DEF ServeTransfer, Commands
    <2>2. Head(commands) \in [op : Commands, for : Nat]
      BY <2>1, HeadTailProperties DEF Takes, ControlTypes
    <2>3. /\ Reply(Head(commands).for, 150) \in Replies
          /\ Reply(Head(commands).for, 150).code # 227
          /\ Reply(Head(commands).for, 550) \in Replies
          /\ Reply(Head(commands).for, 550).code # 227
      BY <2>2 DEF Reply, Replies, Codes
    <2> QED
      BY <1>4, <2>1, <2>3, AnsweredOther, PasvServer DEF ServeTransfer
  <1>5. CASE WriteListing \/ ReadFile
    BY <1>5, PasvServer DEF WriteListing, ReadFile, NoPasv, OnePasv, PasvCommands, PortReplies
  <1>6. CASE EndTransfer
    <2> DEFINE r == Reply(transfer.for, IF transfer.left = 0 THEN 226 ELSE 426)
    <2>1. r \in Replies /\ r.code # 227
      BY DEF Reply, Replies, Codes, ControlTypes
    <2>2. PortReplies' = PortReplies /\ \A i \in PortReplies : replies'[i] = replies[i]
      BY <1>6, <2>1 DEF EndTransfer, ControlTypes, Answer, PortReplies
    <2> QED
      BY <1>6, <2>2, PasvServer DEF EndTransfer, NoPasv, OnePasv, PasvCommands
  <1>7. CASE Drop
    <2>1. PasvCommands' = {} /\ PortReplies' = PortReplies /\ UNCHANGED <<client, port, replies>>
      BY <1>7, DropFacts DEF PasvCommands, PortReplies
    <2> QED
      BY <2>1, PasvServer DEF NoPasv, OnePasv
  <1>8. CASE UNCHANGED vars
    BY <1>8, PasvServer DEF vars, NoPasv, OnePasv, PasvCommands, PortReplies, server
  <1> QED
    BY <1>1, <1>2, <1>3, <1>4, <1>5, <1>6, <1>7, <1>8 DEF Next, Server

LEMMA ControlTypesInit == Init => ControlTypes
  <1> SUFFICES ASSUME Init PROVE ControlTypes
    OBVIOUS
  <1>1. Reply(1, 220) \in Replies
    BY DEF Reply, Replies, Codes
  <1>2. replies \in Seq(Replies) /\ response \in Seq(Replies)
    BY <1>1 DEF Init
  <1> QED
    BY <1>2 DEF Init, ControlTypes, NoTransfer

\* For any session with any server, replies out of step or in pieces and dropped
\* connections included: request_new_data_channel never connects to the port of
\* an earlier PASV.
THEOREM CurrentPort == Spec => []PasvPortIsCurrent
  <1>1. Init => PasvInv
    BY DEF Init, PasvInv, OnePasv, NoPasv, PasvCommands, PortReplies, Reply, Ended
  <1>2. ControlTypes /\ PasvInv => PasvPortIsCurrent
    BY PortTaken DEF PasvPortIsCurrent
  <1> QED
    BY <1>1, <1>2, ControlTypesInit, ControlTypesStep, PasvStep, PTL DEF Spec

-----------------------------------------------------------------------------
(* Client and server in step *)

\* The operations that have been sent to the server.
Asked == IF phase \in {"recv", "connect"} THEN at ELSE at - 1
Calm  == \A i \in 1..Asked : program[i] \notin {"LIST", "STOR"}
Quiet == ~session.cuts /\ Calm

\* While the client waits, its one command is with the server, or the reply with
\* the client, or the server has gone.
Waiting ==
    \/ commands = <<>> /\ Len(replies) = 1 /\ replies[1].for = at
    \/ /\ Len(commands) = 1 /\ commands[1] = [op |-> Op, for |-> at]
       /\ replies = <<>> /\ line = "open"
    \/ commands = <<>> /\ replies = <<>> /\ line # "open"

AnswerIsOwn == \/ Len(response) = 1 /\ response[1].for = Answered
               \/ response = <<>> /\ line # "open"

StepInv ==
    /\ phase = "connect" => Op = "PASV"
    /\ phase = "sending" => Op = "send"
    /\ ~Ended /\ Quiet =>
          /\ transfer.kind = "none"
          /\ phase = "recv" => Waiting
          /\ phase # "recv" => commands = <<>> /\ replies = <<>>
          /\ HasAnswer => AnswerIsOwn

\* A server's step leaves the client where it is.
LEMMA StepServer ==
    ASSUME ControlTypes, StepInv, UNCHANGED client, line # "open" => line' # "open",
           transfer.kind = "none" /\ phase = "recv" /\ Op \notin {"LIST", "STOR"} /\ Waiting
              => transfer'.kind = "none" /\ Waiting',
           transfer.kind = "none" /\ commands = <<>> /\ replies = <<>>
              => transfer'.kind = "none" /\ commands' = <<>> /\ replies' = <<>>
    PROVE  StepInv'
  <1>1. /\ phase' = phase /\ Op' = Op /\ Ended' = Ended /\ HasAnswer' = HasAnswer
        /\ Answered' = Answered /\ response' = response /\ Asked' = Asked /\ Quiet' = Quiet
    BY DEF client, Op, Ended, HasAnswer, Answered, Asked, Quiet, Calm
  <1>2. ASSUME ~Ended, Quiet
        PROVE  /\ transfer'.kind = "none"
               /\ phase = "recv" => Waiting'
               /\ phase # "recv" => commands' = <<>> /\ replies' = <<>>
    <2>1. phase = "recv" => Op \notin {"LIST", "STOR"}
      BY <1>2 DEF Quiet, Calm, Asked, Op, ControlTypes
    <2> QED
      BY <1>2, <2>1 DEF StepInv
  <1>3. ASSUME ~Ended, Quiet, HasAnswer PROVE AnswerIsOwn'
    <2>1. AnswerIsOwn
      BY <1>3 DEF StepInv
    <2> QED
      BY <1>1, <2>1 DEF AnswerIsOwn
  <1> QED
    BY <1>1, <1>2, <1>3 DEF StepInv

LEMMA StepServes ==
    ASSUME ControlTypes, StepInv, line = "open", NEW op \in Commands, Takes(op),
           UNCHANGED <<client, line>>, NEW r \in Replies, Answer(r), r.for = Head(commands).for,
           op \notin {"LIST", "STOR"} => transfer' = transfer
    PROVE  StepInv'
  <1>1. /\ Len(commands) \in Nat /\ Len(commands) > 0 /\ Head(commands) = commands[1]
        /\ Len(commands') = Len(commands) - 1 /\ commands[1].op = op
        /\ commands' \in Seq([op : Commands, for : Nat])
    BY HeadTailProperties, EmptySeq DEF ControlTypes, Takes
  <1>2. Len(replies') = Len(replies) + 1 /\ replies'[Len(replies) + 1] = r
    BY AppendProperties DEF ControlTypes, Answer
  <1>3. ASSUME phase = "recv", Op \notin {"LIST", "STOR"}, Waiting
        PROVE  transfer' = transfer /\ Waiting'
    <2>1. Len(commands) = 1 /\ commands[1] = [op |-> Op, for |-> at] /\ replies = <<>>
      BY <1>1, <1>3, EmptySeq DEF Waiting
    <2>2. op = Op /\ r.for = at /\ Len(replies) = 0
      BY <1>1, <2>1
    <2>3. commands' = <<>>
      BY <1>1, <2>1, EmptySeq
    <2>4. at' = at
      BY DEF client
    <2> QED
      BY <1>2, <1>3, <2>2, <2>3, <2>4 DEF Waiting
  <1> QED
    BY <1>1, <1>3, StepServer DEF Takes

LEMMA StepClient == ControlTypes /\ StepInv /\ Client => StepInv'
  <1> SUFFICES ASSUME ControlTypes, StepInv, Client PROVE StepInv'
    OBVIOUS
  <1>1. session' = session /\ program' = program
    BY DEF Client, SendCommand, Receive, ReceiveClosed, ReceiveFails, CrashOnResponse,
           ConnectChannel, ReadData, SendData, SendUnit, EndSend, SendFails, Delete, Exit, client
  <1>2. at \in Nat \ {0}
    BY DEF ControlTypes
  <1>3. CASE SendCommand
    <2>1. /\ phase = "call" /\ phase' = "recv" /\ at' = at /\ Op' = Op /\ Op \in Commands
          /\ replies' = replies /\ transfer' = transfer /\ ~Ended
      BY <1>3 DEF SendCommand, Op, server, Ended
    <2>2. ASSUME Quiet' PROVE transfer'.kind = "none" /\ Waiting'
      <3>1. Quiet
        BY <1>1, <1>2, <2>1, <2>2 DEF Quiet, Calm, Asked
      <3>2. transfer.kind = "none" /\ commands = <<>> /\ replies = <<>>
        BY <2>1, <3>1 DEF StepInv
      <3>3. CASE line = "open"
        <4>1. commands' = <<[op |-> Op, for |-> at]>> /\ line' = "open"
          BY <1>3, <3>2, <3>3 DEF SendCommand
        <4>2. Len(commands') = 1 /\ commands'[1] = [op |-> Op, for |-> at]
          BY <4>1
        <4> QED
          BY <2>1, <3>2, <4>1, <4>2 DEF Waiting
      <3>4. CASE line # "open"
        BY <1>3, <2>1, <3>2, <3>4 DEF SendCommand, Waiting
      <3> QED
        BY <3>3, <3>4
    <2> QED
      BY <2>1, <2>2 DEF StepInv, HasAnswer
  <1>4. ASSUME AfterReceive, phase = "recv", line' = line, transfer' = transfer,
               Quiet => commands' = <<>> /\ replies' = <<>>,
               Quiet => \/ Len(response') = 1 /\ response'[1].for = at
                        \/ response' = <<>> /\ line # "open"
        PROVE  StepInv'
    <2>1. /\ phase' \in {"connect", "call", "end"} /\ Asked' = at /\ Answered' = at
          /\ phase' = "connect" => Op' = "PASV"
      BY <1>1, <1>2, <1>4 DEF AfterReceive, Advance, Asked, Answered, Op
    <2>2. Quiet' => Quiet /\ ~Ended
      BY <1>1, <1>4, <2>1 DEF Quiet, Calm, Asked, Ended
    <2> QED
      BY <1>4, <2>1, <2>2 DEF StepInv, AnswerIsOwn
  <1>5. CASE Receive
    <2>1. PICK n \in 1..Len(replies), head \in Replies :
             /\ Len(response') = n /\ response'[n] = head
             /\ TakenWhole(n, head) \/ \E rest \in Replies : TakenInPart(n, head, rest)
      BY <1>5, ReceiveFacts
    <2>2. ASSUME Quiet
          PROVE  /\ commands' = <<>> /\ replies' = <<>>
                 /\ Len(response') = 1 /\ response'[1].for = at
      <3>1. Waiting /\ Len(replies) # 0
        BY <1>5, <2>1, <2>2 DEF Receive, StepInv, Ended
      <3>2. commands = <<>> /\ Len(replies) = 1 /\ replies[1].for = at
        BY <3>1, EmptySeq DEF Waiting
      <3>a. n = 1
        BY <2>1, <3>2
      <3>b. TakenWhole(n, head)
        BY <2>1, <2>2 DEF TakenInPart, Quiet
      <3>3. n = 1 /\ TakenWhole(n, head)
        BY <3>a, <3>b
      <3>4. Len(response') = 1 /\ response'[1] = replies[1] /\ Len(replies') = 0
        BY <2>1, <3>2, <3>3 DEF TakenWhole
      <3>5. replies' = <<>>
        BY <1>5, <3>4, ReceiveFacts, EmptySeq
      <3> QED
        BY <1>5, <3>2, <3>4, <3>5 DEF Receive
    <2> QED
      BY <1>4, <1>5, <2>2 DEF Receive, server
  <1>6. CASE ReceiveClosed
    <2>1. Quiet => commands = <<>>
      BY <1>6 DEF ReceiveClosed, StepInv, Ended, Waiting
    <2> QED
      BY <1>4, <1>6, <2>1 DEF ReceiveClosed, server
  <1>7. CASE ReceiveFails \/ CrashOnResponse \/ Delete \/ Exit
    BY <1>7 DEF ReceiveFails, CrashOnResponse, Delete, Exit, StepInv, Ended, client
  <1>8. ASSUME phase \in {"call", "connect", "sending"}, Advance, Op \notin Commands \ {"PASV"},
               commands' \in {commands, <<>>}, replies' \in {replies, <<>>},
               transfer' \in {transfer, NoTransfer}
        PROVE  StepInv'
    <2>1. phase' \in {"call", "end"} /\ at' = at + 1 /\ Asked' = at /\ ~HasAnswer'
      BY <1>1, <1>2, <1>8 DEF Advance, Asked, HasAnswer, Op
    <2>2. Quiet' => Quiet
      BY <1>1, <1>2, <2>1 DEF Quiet, Calm, Asked
    <2> QED
      BY <1>8, <2>1, <2>2 DEF StepInv, Ended, NoTransfer
  <1>9. CASE ConnectChannel
    <2>1. phase = "connect" /\ Op = "PASV"
      BY <1>9 DEF ConnectChannel, StepInv
    <2>2. CASE Advance
      BY <1>8, <1>9, <2>1, <2>2, CloseFacts DEF ConnectChannel
    <2>3. CASE phase' = "thrown"
      BY <2>3 DEF StepInv, Ended
    <2> QED
      BY <1>9, <2>2, <2>3 DEF ConnectChannel
  <1>10. CASE ReadData
    BY <1>8, <1>10 DEF ReadData, server, Commands
  <1>11. CASE EndSend \/ SendFails
    <2>1. phase = "sending" /\ Advance /\ Op \notin Commands
      BY <1>11 DEF EndSend, SendFails, Commands, StepInv
    <2>2. CASE EndSend
      BY <1>8, <2>1, <2>2 DEF EndSend, server
    <2>3. CASE SendFails
      BY <1>8, <2>1, <2>3, CloseFacts DEF SendFails
    <2> QED
      BY <1>11, <2>2, <2>3
  <1>12. CASE SendData \/ SendUnit
    <2>1. /\ phase \in {"call", "sending"} /\ phase' = "sending" /\ Op' = Op /\ Op = "send"
          /\ Quiet' = Quiet /\ UNCHANGED <<commands, replies, transfer>>
      BY <1>1, <1>12 DEF SendData, SendUnit, Op, Quiet, Calm, Asked, server, StepInv
    <2> QED
      BY <2>1 DEF StepInv, Ended, HasAnswer
  <1> QED
    BY <1>3, <1>5, <1>6, <1>7, <1>9, <1>10, <1>11, <1>12 DEF Client

LEMMA StepStep == ControlTypes /\ StepInv /\ [Next]_vars => StepInv'
  <1> SUFFICES ASSUME ControlTypes, StepInv, [Next]_vars PROVE StepInv'
    OBVIOUS
  <1>1. ASSUME NEW op \in Commands, Takes(op) PROVE Head(commands) \in [op : Commands, for : Nat]
    BY <1>1, HeadTailProperties DEF Takes, ControlTypes
  <1>2. CASE ServeCommand /\ line = "open"
    <2>1. /\ "CMD" \in Commands /\ Takes("CMD") /\ UNCHANGED <<client, line>>
          /\ Answer(Reply(Head(commands).for, 250)) /\ transfer' = transfer
      BY <1>2 DEF ServeCommand, Commands, server
    <2>2. /\ Reply(Head(commands).for, 250) \in Replies
          /\ Reply(Head(commands).for, 250).for = Head(commands).for
      BY <1>1, <2>1 DEF Reply, Replies, Codes
    <2> QED
      BY <1>2, <2>1, <2>2, StepServes
  <1>3. CASE ServePasv /\ line = "open"
    <2> DEFINE r == [for |-> Head(commands).for, code |-> 227, port |-> port + 1]
    <2>1. /\ "PASV" \in Commands /\ Takes("PASV") /\ UNCHANGED <<client, line>>
          /\ Answer(r) /\ transfer' = transfer
      BY <1>3 DEF ServePasv, Commands
    <2>2. r \in Replies /\ r.for = Head(commands).for
      BY <1>1, <2>1 DEF ControlTypes, Replies
    <2> HIDE DEF r
    <2> QED
      BY <1>3, <2>1, <2>2, StepServes
  <1>4. ASSUME NEW op \in {"LIST", "STOR"}, ServeTransfer(op), line = "open" PROVE StepInv'
    <2>1. op \in Commands /\ Takes(op) /\ UNCHANGED <<client, line>>
      BY <1>4 DEF ServeTransfer, Commands
    <2>2. ASSUME NEW code \in {150, 550}, Answer(Reply(Head(commands).for, code)) PROVE StepInv'
      <3>1. /\ Reply(Head(commands).for, code) \in Replies
            /\ Reply(Head(commands).for, code).for = Head(commands).for
        BY <1>1, <2>1 DEF Reply, Replies, Codes
      <3> QED
        BY <1>4, <2>1, <2>2, <3>1, StepServes
    <2> QED
      BY <1>4, <2>2 DEF ServeTransfer
  <1>5. CASE WriteListing \/ ReadFile
    <2>1. transfer.kind # "none" /\ UNCHANGED <<client, commands, replies, line>>
      BY <1>5 DEF WriteListing, ReadFile
    <2> QED
      BY <2>1, StepServer
  <1>6. CASE EndTransfer
    <2>1. transfer.kind # "none" /\ UNCHANGED <<client, line>>
      BY <1>6 DEF EndTransfer, Busy
    <2> QED
      BY <2>1, StepServer
  <1>7. CASE Drop
    <2>1. /\ commands' = <<>> /\ line' # "open" /\ transfer'.kind = "none"
          /\ UNCHANGED <<client, replies>>
      BY <1>7, DropFacts DEF NoTransfer
    <2>2. Waiting => Waiting'
      BY <2>1 DEF Waiting, client
    <2> QED
      BY <2>1, <2>2, StepServer
  <1>8. CASE UNCHANGED vars
    <2>1. UNCHANGED <<client, commands, replies, line, transfer>>
      BY <1>8 DEF vars, server
    <2>2. Waiting => Waiting'
      BY <2>1 DEF Waiting, client, Op
    <2> QED
      BY <2>1, <2>2, StepServer
  <1> QED
    BY <1>2, <1>3, <1>4, <1>5, <1>6, <1>7, <1>8, StepClient DEF Next, Server

\* The newest of the commands and replies under way, a part of stream, is for
\* operation k.
Newest(k, stream) ==
    IF commands = <<>> THEN stream # <<>> /\ stream[Len(stream)].for = k
                       ELSE commands[Len(commands)].for = k

\* The stream of replies from the last one that has been read.
Stream == IF replies = <<>> THEN response ELSE replies

\* However many replies the client lags behind, the newest is for the last command.
LagInv ==
    ~Ended /\ Calm =>
       /\ transfer.kind = "none"
       /\ \A i \in 1..Len(commands) : commands[i].op \notin {"LIST", "STOR"}
       /\ line = "open" => /\ phase = "recv" => Newest(at, replies)
                           /\ HasAnswer => response # <<>> /\ Newest(Answered, Stream)

\* Taking a command and answering it.
LEMMA LagServes ==
    ASSUME ControlTypes, LagInv, line = "open", NEW op \in Commands, Takes(op),
           UNCHANGED <<client, line>>, NEW r \in Replies, Answer(r), r.for = Head(commands).for,
           op \notin {"LIST", "STOR"} => transfer' = transfer
    PROVE  LagInv'
  <1>1. /\ Len(commands) \in Nat /\ Len(commands) > 0 /\ commands # <<>>
        /\ Head(commands) = commands[1] /\ commands[1].op = op
        /\ Len(commands') = Len(commands) - 1
        /\ \A i \in 1..(Len(commands) - 1) : commands'[i] = commands[i + 1]
        /\ commands' \in Seq([op : Commands, for : Nat])
    BY HeadTailProperties, EmptySeq DEF ControlTypes, Takes
  <1>2. /\ Len(replies') = Len(replies) + 1 /\ replies'[Len(replies')] = r /\ replies' # <<>>
    BY AppendProperties, EmptySeq DEF ControlTypes, Answer
  <1>3. /\ phase' = phase /\ at' = at /\ Ended' = Ended /\ HasAnswer' = HasAnswer
        /\ Answered' = Answered /\ response' = response /\ Calm' = Calm
    BY DEF client, Ended, HasAnswer, Answered, Asked, Calm
  <1>4. ASSUME NEW k, NEW stream, Newest(k, stream)
        PROVE  IF commands' = <<>> THEN replies' # <<>> /\ replies'[Len(replies')].for = k
                                   ELSE commands'[Len(commands')].for = k
    <2>1. commands[Len(commands)].for = k
      BY <1>1, <1>4 DEF Newest
    <2>2. CASE Len(commands) = 1
      <3>1. commands' = <<>>
        BY <1>1, <2>2, EmptySeq
      <3>2. r.for = k
        BY <1>1, <2>1, <2>2
      <3> QED
        BY <1>2, <3>1, <3>2
    <2>3. CASE Len(commands) # 1
      <3>1. /\ commands' # <<>> /\ Len(commands) - 1 \in 1..(Len(commands) - 1)
            /\ (Len(commands) - 1) + 1 = Len(commands)
        BY <1>1, <2>3, EmptySeq
      <3>2. commands'[Len(commands')] = commands[Len(commands)]
        BY <1>1, <3>1
      <3> QED
        BY <2>1, <3>1, <3>2
    <2> QED
      BY <2>2, <2>3
  <1>5. ASSUME ~Ended, Calm PROVE transfer'.kind = "none"
    BY <1>1, <1>5 DEF LagInv
  <1>6. ASSUME ~Ended, Calm, NEW i \in 1..Len(commands')
        PROVE  commands'[i].op \notin {"LIST", "STOR"}
    <2>1. i \in 1..(Len(commands) - 1) /\ i + 1 \in 1..Len(commands)
      BY <1>1
    <2> QED
      BY <1>1, <1>6, <2>1 DEF LagInv
  <1>7. ASSUME ~Ended, Calm
        PROVE  /\ phase = "recv" => Newest(at, replies)'
               /\ HasAnswer => response # <<>> /\ Newest(Answered, replies)'
    <2>1. /\ phase = "recv" => Newest(at, replies)
          /\ HasAnswer => response # <<>> /\ Newest(Answered, Stream)
      BY <1>7 DEF LagInv
    <2>2. ASSUME phase = "recv" PROVE Newest(at, replies)'
      <3>1. IF commands' = <<>> THEN replies' # <<>> /\ replies'[Len(replies')].for = at
                                ELSE commands'[Len(commands')].for = at
        BY <1>4, <2>1, <2>2
      <3> QED
        BY <1>3, <3>1 DEF Newest
    <2>3. ASSUME HasAnswer PROVE Newest(Answered, replies)'
      <3>1. IF commands' = <<>> THEN replies' # <<>> /\ replies'[Len(replies')].for = Answered
                                ELSE commands'[Len(commands')].for = Answered
        BY <1>4, <2>1, <2>3
      <3> QED
        BY <1>3, <3>1 DEF Newest
    <2> QED
      BY <2>1, <2>2, <2>3
  <1>8. Stream' = replies'
    BY <1>2 DEF Stream
  <1> QED
    BY <1>3, <1>5, <1>6, <1>7, <1>8 DEF LagInv, Newest

\* The client's steps.
LEMMA LagClient == ControlTypes /\ StepInv /\ LagInv /\ Client => LagInv'
  <1> SUFFICES ASSUME ControlTypes, StepInv, LagInv, Client PROVE LagInv'
    OBVIOUS
  <1>1. session' = session /\ program' = program /\ at \in Nat \ {0}
    BY DEF Client, SendCommand, Receive, ReceiveClosed, ReceiveFails, CrashOnResponse,
           ConnectChannel, ReadData, SendData, SendUnit, EndSend, SendFails, Delete, Exit, client,
           ControlTypes
  <1>2. CASE SendCommand
    <2>1. /\ phase = "call" /\ phase' = "recv" /\ at' = at /\ Op' = Op /\ Op \in Commands
          /\ replies' = replies /\ transfer' = transfer /\ ~Ended
      BY <1>2 DEF SendCommand, Op, server, Ended
    <2>2. Calm' => Calm /\ Op \notin {"LIST", "STOR"}
      BY <1>1, <2>1 DEF Calm, Asked, Op
    <2>3. CASE line = "open"
      <3>1. [op |-> Op, for |-> at] \in [op : Commands, for : Nat]
        BY <1>1, <2>1
      <3>2. /\ commands' = Append(commands, [op |-> Op, for |-> at]) /\ Len(commands) \in Nat
            /\ Len(commands') = Len(commands) + 1 /\ commands' # <<>>
            /\ commands'[Len(commands')] = [op |-> Op, for |-> at]
            /\ \A i \in 1..Len(commands) : commands'[i] = commands[i]
        BY <1>2, <2>3, <3>1, AppendProperties, LenProperties, EmptySeq
           DEF SendCommand, ControlTypes
      <3>3. Newest(at, replies)'
        BY <2>1, <3>2 DEF Newest
      <3>4. Calm' => \A i \in 1..Len(commands') : commands'[i].op \notin {"LIST", "STOR"}
        <4>1. SUFFICES ASSUME Calm', NEW i \in 1..Len(commands')
                       PROVE  commands'[i].op \notin {"LIST", "STOR"}
          OBVIOUS
        <4>2. CASE i = Len(commands')
          BY <2>2, <3>2, <4>1, <4>2
        <4>3. CASE i # Len(commands')
          <5>1. i \in 1..Len(commands)
            BY <3>2, <4>3
          <5> QED
            BY <2>1, <2>2, <3>2, <4>1, <5>1 DEF LagInv
        <4> QED
          BY <4>2, <4>3
      <3> QED
        BY <2>1, <2>2, <3>3, <3>4 DEF LagInv, HasAnswer, Newest
    <2>4. CASE line # "open"
      <3>1. line' # "open" /\ commands' = commands
        BY <1>2, <2>4 DEF SendCommand
      <3> QED
        BY <2>1, <2>2, <3>1 DEF LagInv
    <2> QED
      BY <2>3, <2>4
  <1>3. ASSUME AfterReceive, phase = "recv"
        PROVE  /\ phase' # "recv" /\ Asked' = at /\ Answered' = at /\ (Calm' => Calm /\ ~Ended)
    BY <1>1, <1>3 DEF AfterReceive, Advance, Asked, Answered, Calm, Ended
  <1>4. CASE Receive
    <2>0. /\ AfterReceive /\ phase = "recv" /\ UNCHANGED <<commands, line, transfer>>
      BY <1>4 DEF Receive, server
    <2>1. PICK n \in 1..Len(replies), head \in Replies :
             /\ Len(response') = n /\ response'[n] = head
             /\ TakenWhole(n, head) \/ \E rest \in Replies : TakenInPart(n, head, rest)
      BY <1>4, ReceiveFacts
    <2>2. Len(replies) \in Nat /\ replies[n] \in Replies /\ replies # <<>> /\ n \in Nat
      BY <2>1, LenProperties, EmptySeq DEF ControlTypes
    <2>3. /\ response' \in Seq(Replies) /\ replies' \in Seq(Replies)
          /\ response' # <<>> /\ Len(replies') \in Nat
          /\ replies' = <<>> <=> Len(replies') = 0
      BY <1>4, <2>1, ReceiveFacts, LenProperties, EmptySeq
    \* The last reply keeps its place, or the piece of it that is left.
    <2>4. Stream' # <<>> /\ Stream'[Len(Stream')].for = replies[Len(replies)].for
      <3>1. CASE TakenWhole(n, head)
        <4>1. CASE n = Len(replies)
          BY <2>1, <2>2, <2>3, <3>1, <4>1 DEF TakenWhole, Stream
        <4>2. CASE n # Len(replies)
          <5>1. Len(replies) - n \in 1..(Len(replies) - n) /\ n + (Len(replies) - n) = Len(replies)
            BY <2>2, <4>2
          <5>2. /\ Len(replies') = Len(replies) - n
                /\ replies'[Len(replies) - n] = replies[n + (Len(replies) - n)]
            BY <3>1, <5>1 DEF TakenWhole
          <5>0. Len(replies) - n # 0
            BY <2>2, <4>2
          <5>a. Len(replies') # 0
            BY <5>0, <5>2
          <5>b. replies'[Len(replies')] = replies[Len(replies)]
            BY <5>1, <5>2
          <5>3. replies' # <<>> /\ replies'[Len(replies')] = replies[Len(replies)]
            BY <2>3, <5>a, <5>b
          <5> QED
            BY <5>3 DEF Stream
        <4> QED
          BY <4>1, <4>2
      <3>2. ASSUME NEW rest \in Replies, TakenInPart(n, head, rest)
            PROVE  Stream' # <<>> /\ Stream'[Len(Stream')].for = replies[Len(replies)].for
        <4>0. Stream' = replies' /\ Len(replies') = Len(replies) - n + 1 /\ replies' # <<>>
          BY <2>2, <2>3, <3>2 DEF TakenInPart, Stream
        <4>1. CASE n = Len(replies)
          <5>1. rest.for = replies[n].for
            BY <2>2, <3>2, CutFacts DEF TakenInPart
          <5>2. Len(replies') = 1 /\ replies'[1] = rest
            BY <2>2, <3>2, <4>0, <4>1 DEF TakenInPart
          <5> QED
            BY <4>0, <4>1, <5>1, <5>2
        <4>2. CASE n # Len(replies)
          <5>1. Len(replies) - n \in 1..(Len(replies) - n) /\ n + (Len(replies) - n) = Len(replies)
            BY <2>2, <4>2
          <5> QED
            BY <3>2, <4>0, <5>1 DEF TakenInPart
        <4> QED
          BY <4>1, <4>2
      <3> QED
        BY <2>1, <3>1, <3>2
    <2>5. ASSUME ~Ended, Calm, line = "open" PROVE Newest(Answered, Stream)'
      <3>1. Answered' = at
        BY <1>3, <2>0
      <3>2. IF commands' = <<>> THEN Stream' # <<>> /\ Stream'[Len(Stream')].for = at
                                ELSE commands'[Len(commands')].for = at
        <4>1. Newest(at, replies)
          BY <2>0, <2>5 DEF LagInv
        <4> QED
          BY <2>0, <2>2, <2>4, <4>1 DEF Newest
      <3> QED
        BY <3>1, <3>2 DEF Newest
    <2> QED
      BY <1>3, <2>0, <2>3, <2>5 DEF LagInv
  <1>5. CASE ReceiveClosed
    <2>1. /\ AfterReceive /\ phase = "recv" /\ UNCHANGED <<commands, line, transfer>>
          /\ line # "open"
      BY <1>5 DEF ReceiveClosed, server
    <2> QED
      BY <1>3, <2>1 DEF LagInv
  <1>6. CASE ReceiveFails \/ CrashOnResponse \/ Delete \/ Exit
    BY <1>6 DEF ReceiveFails, CrashOnResponse, Delete, Exit, LagInv, Ended, client
  <1>7. ASSUME phase \in {"call", "connect", "sending"}, Advance, Op \notin Commands \ {"PASV"},
               commands' \in {commands, <<>>}, transfer' \in {transfer, NoTransfer}
        PROVE  LagInv'
    <2>1. phase' \in {"call", "end"} /\ at' = at + 1 /\ Asked' = at /\ ~HasAnswer' /\ ~Ended
      BY <1>1, <1>7 DEF Advance, Asked, HasAnswer, Op, Ended
    <2>2. Calm' => Calm
      BY <1>1, <1>7, <2>1 DEF Calm, Asked
    <2>3. 1..Len(<<>>) = {}
      OBVIOUS
    <2> QED
      BY <1>7, <2>1, <2>2, <2>3 DEF LagInv, NoTransfer
  <1>8. CASE ConnectChannel
    <2>1. phase = "connect" /\ Op = "PASV"
      BY <1>8 DEF ConnectChannel, StepInv
    <2>2. CASE Advance
      BY <1>7, <1>8, <2>1, <2>2, CloseFacts DEF ConnectChannel
    <2>3. CASE phase' = "thrown"
      BY <2>3 DEF LagInv, Ended
    <2> QED
      BY <1>8, <2>2, <2>3 DEF ConnectChannel
  <1>9. CASE ReadData
    BY <1>7, <1>9 DEF ReadData, server, Commands
  <1>10. CASE EndSend \/ SendFails
    <2>1. phase = "sending" /\ Advance /\ Op \notin Commands
      BY <1>10 DEF EndSend, SendFails, Commands, StepInv
    <2>2. CASE EndSend
      BY <1>7, <2>1, <2>2 DEF EndSend, server
    <2>3. CASE SendFails
      BY <1>7, <2>1, <2>3, CloseFacts DEF SendFails
    <2> QED
      BY <1>10, <2>2, <2>3
  <1>11. CASE SendData \/ SendUnit
    <2>1. /\ phase \in {"call", "sending"} /\ phase' = "sending" /\ Calm' = Calm
          /\ UNCHANGED <<commands, transfer>>
      BY <1>1, <1>11 DEF SendData, SendUnit, Calm, Asked, server
    <2> QED
      BY <2>1 DEF LagInv, Ended, HasAnswer
  <1> QED
    BY <1>2, <1>4, <1>5, <1>6, <1>8, <1>9, <1>10, <1>11 DEF Client

LEMMA LagStep == ControlTypes /\ StepInv /\ LagInv /\ [Next]_vars => LagInv'
  <1> SUFFICES ASSUME ControlTypes, StepInv, LagInv, [Next]_vars PROVE LagInv'
    OBVIOUS
  <1>1. ASSUME NEW op \in Commands, Takes(op) PROVE Head(commands) \in [op : Commands, for : Nat]
    BY <1>1, HeadTailProperties DEF Takes, ControlTypes
  <1>2. ASSUME NEW op \in Commands, NEW code \in Codes, Takes(op), line = "open",
               UNCHANGED <<client, line>>, Answer(Reply(Head(commands).for, code)),
               op \notin {"LIST", "STOR"} => transfer' = transfer
        PROVE  LagInv'
    <2>1. /\ Reply(Head(commands).for, code) \in Replies
          /\ Reply(Head(commands).for, code).for = Head(commands).for
      BY <1>1, <1>2 DEF Reply, Replies
    <2> QED
      BY <1>2, <2>1, LagServes
  <1>3. CASE ServeCommand /\ line = "open"
    BY <1>2, <1>3 DEF ServeCommand, server, Commands, Codes
  <1>4. CASE ServePasv /\ line = "open"
    <2> DEFINE r == [for |-> Head(commands).for, code |-> 227, port |-> port + 1]
    <2>1. /\ "PASV" \in Commands /\ Takes("PASV") /\ UNCHANGED <<client, line>>
          /\ Answer(r) /\ transfer' = transfer
      BY <1>4 DEF ServePasv, Commands
    <2>2. r \in Replies /\ r.for = Head(commands).for
      BY <1>1, <2>1 DEF ControlTypes, Replies
    <2> HIDE DEF r
    <2> QED
      BY <1>4, <2>1, <2>2, LagServes
  <1>5. ASSUME NEW op \in {"LIST", "STOR"}, ServeTransfer(op), line = "open" PROVE LagInv'
    BY <1>2, <1>5 DEF ServeTransfer, Commands, Codes
  <1>6. CASE WriteListing \/ ReadFile \/ EndTransfer
    <2>1. transfer.kind # "none" /\ UNCHANGED client
      BY <1>6 DEF WriteListing, ReadFile, EndTransfer, Busy
    <2> QED
      BY <2>1 DEF LagInv, client, Ended, Calm, Asked
  <1>7. CASE Drop
    <2>1. commands' = <<>> /\ line' # "open" /\ transfer'.kind = "none" /\ 1..Len(commands') = {}
      BY <1>7, DropFacts DEF NoTransfer
    <2> QED
      BY <2>1 DEF LagInv
  <1>8. CASE UNCHANGED vars
    BY <1>8 DEF vars, client, server, LagInv, Ended, Calm, Asked, HasAnswer, Answered, Newest,
                Stream
  <1> QED
    BY <1>3, <1>4, <1>5, <1>6, <1>7, <1>8, LagClient DEF Next, Server

\* For any session with any server, one that drops it included: up to the first
\* transfer each command returns its own reply, alone, or an empty one; and when
\* replies arrive in pieces, the end of the newest is still to come or is what
\* was read last.
THEOREM InStep == Spec => []InStepUntilTransfer
  <1>1. Init => StepInv /\ LagInv
    <2> SUFFICES ASSUME Init PROVE StepInv /\ LagInv
      OBVIOUS
    <2>1. Waiting
      BY DEF Init, Waiting, Reply
    <2>2. Newest(at, replies)
      BY DEF Init, Newest, Reply
    <2> QED
      BY <2>1, <2>2 DEF Init, StepInv, LagInv, NoTransfer, HasAnswer
  <1>2. ControlTypes /\ StepInv /\ LagInv => InStepUntilTransfer
    <2> SUFFICES ASSUME ControlTypes, StepInv, LagInv, HasAnswer,
                        \A i \in 1..Answered : program[i] \notin {"LIST", "STOR"}
                 PROVE  /\ ~session.cuts => AnswerIsOwn
                        /\ line = "open" =>
                              /\ response # <<>>
                              /\ commands = <<>> => Last(response \o replies).for = Answered
      BY DEF InStepUntilTransfer, AnswerIsOwn
    <2>1. ~Ended /\ Asked = Answered /\ Calm
      BY DEF HasAnswer, Ended, Asked, Answered, Calm
    <2>2. ~session.cuts => AnswerIsOwn
      BY <2>1 DEF StepInv, Quiet
    <2>3. line = "open" => response # <<>>
      BY <2>1 DEF LagInv
    <2>4. ASSUME line = "open", commands = <<>> PROVE Last(response \o replies).for = Answered
      <3>1. /\ response # <<>> /\ Stream # <<>> /\ Stream[Len(Stream)].for = Answered
        BY <2>1, <2>4 DEF LagInv, Newest
      <3>2. /\ response \in Seq(Replies) /\ replies \in Seq(Replies)
            /\ Len(response) \in Nat /\ Len(replies) \in Nat
            /\ response = <<>> <=> Len(response) = 0
            /\ replies = <<>> <=> Len(replies) = 0
        BY LenProperties, EmptySeq DEF ControlTypes
      <3>3. /\ Len(response \o replies) = Len(response) + Len(replies)
            /\ \A i \in 1..(Len(response) + Len(replies)) :
                  (response \o replies)[i] = IF i <= Len(response) THEN response[i]
                                             ELSE replies[i - Len(response)]
        BY <3>2
      <3>4. Last(response \o replies) = Stream[Len(Stream)]
        <4>1. CASE replies = <<>>
          BY <3>1, <3>2, <3>3, <4>1 DEF Last, Stream
        <4>2. CASE replies # <<>>
          <5>1. /\ Len(response) + Len(replies) \in 1..(Len(response) + Len(replies))
                /\ ~(Len(response) + Len(replies) <= Len(response))
                /\ (Len(response) + Len(replies)) - Len(response) = Len(replies)
            BY <3>2, <4>2
          <5> QED
            BY <3>3, <4>2, <5>1 DEF Last, Stream
        <4> QED
          BY <4>1, <4>2
      <3> QED
        BY <3>1, <3>4
    <2> QED
      BY <2>2, <2>3, <2>4
  <1> QED
    BY <1>1, <1>2, ControlTypesInit, ControlTypesStep, StepStep, LagStep, PTL DEF Spec


-----------------------------------------------------------------------------
(* One upload: the inductive invariant *)

Program ==
    /\ Len(program) \in Nat /\ DOMAIN program = 1..Len(program)
    /\ UploadsOnce(program)

\* Where the client may be.
Places ==
    /\ phase \in {"call", "recv", "connect", "sending", "end"} \/ Ended
    /\ phase \in {"call", "recv", "connect", "sending"} => at <= Len(program)
    /\ phase = "end" => at = Len(program) + 1
    /\ phase = "recv" => Op # "send"
    /\ phase = "connect" => Op = "PASV"
    /\ phase = "sending" => Op = "send"
    /\ line # "open" => session.fault # "none"

\* The commands on their way are in the order of the program, and the last of
\* them is the one the client waits for.  Each PASV gets a port of its own.
Queue ==
    /\ port <= Len(program)
    /\ \A i \in 1..Len(commands) : port < commands[i].for /\ commands[i].for <= Len(program)
    /\ \A i, j \in 1..Len(commands) : i < j => commands[i].for < commands[j].for
    /\ phase \in {"call", "sending"} =>
          port < at /\ \A i \in 1..Len(commands) : commands[i].for < at
    /\ phase \in {"recv", "connect"} => port <= at
    /\ phase \in {"recv", "connect"} /\ commands # <<>> =>
          commands[Len(commands)].for = at /\ commands[Len(commands)].op = Op
    /\ line # "open" => commands = <<>>

\* Connections to ports that are still to come have not been used.
Ports ==
    /\ wire \in [0..Len(program) -> Nat]
    /\ shut \in [0..Len(program) -> SUBSET {"client", "server"}]
    /\ channel \in 0..port /\ transfer.on \in 0..port
    /\ \A p \in 0..Len(program) :
          p > port => wire[p] = 0 /\ (session.fault = "none" => shut[p] = {})

Fresh(p) ==
    /\ wire[p] = 0
    /\ transfer.kind = "none" \/ transfer.on # p
    /\ session.fault = "none" => shut[p] = {}

\* The port of a PASV that has been served is fresh until the next command.
Opens ==
    /\ phase \in {"recv", "connect"} /\ Op = "PASV" /\ commands = <<>> /\ line = "open" =>
          Fresh(port) /\ channel # port
    /\ phase = "call" /\ Op = "STOR" =>
          /\ commands = <<>> /\ channel = port
          /\ line = "open" => Fresh(port)

StorToCome == \A u \in DOMAIN program :
                 program[u] = "STOR" => u >= at /\ (u = at => phase = "call")
SendToCome == \A u \in DOMAIN program :
                 program[u] = "send" => u >= at /\ (u = at => phase # "sending")

StorQueued == \E i \in 1..Len(commands) : commands[i].op = "STOR"

\* What the server has stored and what is under way to it has been sent.
Stores ==
    /\ stored \in Int /\ sent \in Nat
    /\ StorToCome => stored = -1 /\ transfer.kind # "STOR" /\ ~StorQueued
    /\ \A i \in 1..Len(commands) : commands[i].op = "STOR" => i = 1
    /\ StorQueued => /\ stored = -1 /\ transfer.kind # "STOR" /\ wire[port] <= sent
                     /\ transfer.kind = "none" \/ transfer.on # port
    /\ transfer.kind = "STOR" => stored >= 0 /\ stored + wire[transfer.on] <= sent

\* From its PASV to the end of its send nobody closes the channel of an upload, so
\* that no send fails and the channel is closed once.
Sends ==
    /\ SendToCome => sent = 0
    /\ session.fault = "none" =>
          /\ ~Ended => ~Broken
          /\ \/ phase \in {"call", "recv"} /\ Op = "STOR"
             \/ phase \in {"call", "sending"} /\ Op = "send"
             => /\ \A i \in 1..Len(commands) : commands[i].op = "STOR"
                /\ shut[channel] = {}
                /\ transfer.kind # "LIST" \/ transfer.on # channel
          /\ (\E u \in DOMAIN program : program[u] = "send" /\ u < at) => sent = FileSize

UploadInv == Program /\ Places /\ Queue /\ Ports /\ Opens /\ Stores /\ Sends

-----------------------------------------------------------------------------
(* The client's steps *)

\* The program stays what it is.
LEMMA ProgramKept == Program /\ program' = program => Program'
  BY DEF Program

\* The commands on their way are a finite sequence.
LEMMA Bounds ==
    ASSUME ControlTypes
    PROVE  /\ Len(commands) \in Nat /\ DOMAIN commands = 1..Len(commands)
           /\ commands = <<>> <=> Len(commands) = 0
           /\ at \in Nat \ {0} /\ port \in Nat
  <1>1. commands \in Seq([op : Commands, for : Nat])
    BY DEF ControlTypes
  <1>2. Len(commands) \in Nat /\ DOMAIN commands = 1..Len(commands)
    BY <1>1, LenProperties
  <1>3. commands = <<>> <=> Len(commands) = 0
    BY <1>1, EmptySeq
  <1> QED
    BY <1>2, <1>3 DEF ControlTypes

\* Each of them is a command and knows its place in the program.
LEMMA CommandTypes ==
    ASSUME ControlTypes, NEW i \in 1..Len(commands)
    PROVE  commands[i].op \in Commands /\ commands[i].for \in Nat
  <1>1. commands[i] \in [op : Commands, for : Nat]
    BY ElementOfSeq DEF ControlTypes
  <1> QED
    BY <1>1

\* What the operation before an upload's is.
LEMMA NextOp ==
    ASSUME ControlTypes, Program, Advance, program' = program, at <= Len(program),
           phase' = "call"
    PROVE  /\ at + 1 \in 1..Len(program) /\ Op' = program[at + 1]
           /\ Op' = "STOR" => Op = "PASV"
           /\ Op' = "send" => Op = "STOR"
  <1>1. at + 1 \in DOMAIN program /\ (at + 1) - 1 = at
    BY Bounds DEF Program, Advance
  <1>2. Op' = program[at + 1]
    BY DEF Op, Advance
  <1> QED
    BY <1>1, <1>2 DEF Program, UploadsOnce, Op

\* When an operation is over, every command on its way has been sent before.
LEMMA QueueAdvance ==
    ASSUME ControlTypes, Queue, phase \in {"call", "recv", "connect", "sending"}, Advance,
           UNCHANGED <<program, commands, port, line>>
    PROVE  Queue'
  <1> USE Bounds
  <1>1. port <= at
    BY DEF Queue
  <1>2. ASSUME NEW i \in 1..Len(commands) PROVE commands[i].for <= at
    <2>1. commands[i].for \in Nat
      BY CommandTypes
    <2>2. CASE phase \in {"call", "sending"}
      BY <2>1, <2>2 DEF Queue
    <2>3. CASE phase \in {"recv", "connect"}
      BY <2>1, <2>3 DEF Queue
    <2> QED
      BY <2>2, <2>3
  <1>3. ASSUME NEW i \in 1..Len(commands) PROVE commands[i].for < at + 1
    <2>1. commands[i].for \in Nat
      BY CommandTypes
    <2> QED
      BY <1>2, <2>1
  <1> QED
    BY <1>1, <1>3 DEF Queue, Advance

\* Units move on the client's channel only.
LEMMA WireChange ==
    ASSUME ControlTypes, Queue, Ports, Program, NEW n \in Nat, wire' = [wire EXCEPT ![channel] = n]
    PROVE  /\ wire' \in [0..Len(program) -> Nat] /\ wire'[channel] = n
           /\ channel \in 0..Len(program) /\ channel <= port
           /\ \A p \in 0..Len(program) : p # channel => wire'[p] = wire[p]
  <1>1. channel \in 0..Len(program) /\ channel <= port
    BY Bounds DEF Queue, Ports, Program
  <1> QED
    BY <1>1 DEF Ports

\* An operation other than a PASV is over; the client may have read data.
LEMMA UploadAdvance ==
    ASSUME ControlTypes, UploadInv, phase \in {"call", "recv", "sending"}, Op # "PASV", Advance,
           UNCHANGED <<session, program, channel, sent, commands, line, shut, server>>,
           wire' \in [0..Len(program) -> Nat], \A p \in 0..Len(program) : wire'[p] <= wire[p],
           Op = "STOR" => phase = "recv",
           Op = "send" /\ session.fault = "none" => sent = FileSize
    PROVE  UploadInv'
  <1> USE Bounds DEF server
  <1>0. phase' = "call" => (Op' = "STOR" => Op = "PASV") /\ (Op' = "send" => Op = "STOR")
    BY NextOp DEF UploadInv, Places
  <1>a. at <= Len(program) /\ at' = at + 1 /\ phase' \in {"call", "end"}
    BY DEF UploadInv, Places, Advance
  <1>1. Program'
    BY ProgramKept DEF UploadInv
  <1>2. Places'
    BY DEF UploadInv, Program, Places, Advance, Ended
  <1>3. Queue'
    BY QueueAdvance DEF UploadInv
  <1>4. Ports'
    <2>1. \A p \in 0..Len(program) : wire[p] \in Nat /\ wire'[p] \in Nat
      BY DEF UploadInv, Ports
    <2>2. \A p \in 0..Len(program) : wire[p] = 0 => wire'[p] = 0
      BY <2>1
    <2> QED
      BY <2>2 DEF UploadInv, Ports
  <1>5. Opens'
    BY <1>0, <1>a DEF Opens
  <1>6. Stores'
    <2>1. StorToCome' => StorToCome
      BY <1>a DEF StorToCome
    <2>2. StorQueued' <=> StorQueued
      BY DEF StorQueued
    <2>3. /\ port \in 0..Len(program) /\ transfer.on \in 0..Len(program)
          /\ wire \in [0..Len(program) -> Nat]
      BY DEF UploadInv, Queue, Ports, Program
    <2>4. wire[port] <= sent => wire'[port] <= sent
      BY <2>3 DEF UploadInv, Stores
    <2>5. stored + wire[transfer.on] <= sent => stored + wire'[transfer.on] <= sent
      BY <2>3 DEF UploadInv, Stores
    <2> QED
      BY <2>1, <2>2, <2>4, <2>5 DEF UploadInv, Stores
  <1>7. Sends'
    <2>1. SendToCome' => SendToCome
      BY <1>a DEF SendToCome
    <2>2. \A u \in DOMAIN program : program[u] = "send" /\ u < at + 1 => Op = "send" \/ u < at
      BY DEF UploadInv, Program, Op
    <2>3. Broken' = Broken /\ ~Ended
      BY DEF Broken, Ended
    <2> QED
      BY <1>0, <1>a, <2>1, <2>2, <2>3 DEF UploadInv, Sends
  <1> QED
    BY <1>1, <1>2, <1>3, <1>4, <1>5, <1>6, <1>7 DEF UploadInv

\* A recv on the control connection.
LEMMA UploadReceive ==
    ASSUME ControlTypes, UploadInv, Receive \/ ReceiveClosed
    PROVE  UploadInv'
  <1> USE Bounds DEF server
  <1>0. /\ phase = "recv" /\ AfterReceive
        /\ UNCHANGED <<session, program, channel, sent, commands, line, wire, shut, server>>
    BY DEF Receive, ReceiveClosed
  <1>1. CASE Op # "PASV"
    <2>1. wire \in [0..Len(program) -> Nat] /\ Op # "send"
      BY <1>0 DEF UploadInv, Ports, Places
    <2>2. wire' \in [0..Len(program) -> Nat] /\ \A p \in 0..Len(program) : wire'[p] <= wire[p]
      BY <1>0, <2>1
    <2> QED
      BY <1>0, <1>1, <2>1, <2>2, UploadAdvance DEF AfterReceive
  <1>2. CASE Op = "PASV"
    <2>0. phase' = "connect" /\ at' = at /\ Op' = Op
      BY <1>0, <1>2 DEF AfterReceive, Op
    <2>1. Program' /\ Places' /\ Queue' /\ Ports'
      BY <1>0, <1>2, <2>0 DEF UploadInv, Program, Places, Queue, Ports, Ended
    <2>2. Opens'
      BY <1>0, <1>2, <2>0 DEF UploadInv, Opens, Fresh
    <2>3. Stores'
      BY <1>0, <2>0 DEF UploadInv, Stores, StorToCome, StorQueued
    <2>4. Sends'
      BY <1>0, <1>2, <2>0 DEF UploadInv, Sends, SendToCome, Broken, Ended
    <2> QED
      BY <2>1, <2>2, <2>3, <2>4 DEF UploadInv
  <1> QED
    BY <1>1, <1>2

\* read_data, or the end of send_data.
LEMMA UploadData ==
    ASSUME ControlTypes, UploadInv, ReadData \/ EndSend
    PROVE  UploadInv'
  <1> USE Bounds DEF server
  <1>0. /\ phase \in {"call", "sending"} /\ Op \in {"read", "send"} /\ Advance
        /\ UNCHANGED <<session, program, channel, sent, commands, line, shut, server>>
    BY DEF ReadData, EndSend, UploadInv, Places
  <1>1. wire' \in [0..Len(program) -> Nat] /\ \A p \in 0..Len(program) : wire'[p] <= wire[p]
    <2>1. CASE EndSend
      <3>1. wire' = wire /\ wire \in [0..Len(program) -> Nat]
        BY <2>1 DEF EndSend, UploadInv, Ports
      <3> QED
        BY <3>1
    <2>2. CASE ReadData
      <3>1. PICK n \in 0..wire[channel] : wire' = [wire EXCEPT ![channel] = @ - n]
        BY <2>2 DEF ReadData
      <3>2. /\ channel \in 0..Len(program) /\ wire \in [0..Len(program) -> Nat]
        BY DEF UploadInv, Queue, Ports, Program
      <3>3. wire[channel] \in Nat /\ wire[channel] - n \in Nat /\ wire[channel] - n <= wire[channel]
        BY <3>2
      <3>4. \A p \in 0..Len(program) : wire[p] \in Nat /\ wire[p] <= wire[p]
        BY <3>2
      <3> QED
        BY <3>1, <3>2, <3>3, <3>4
    <2> QED
      BY <2>1, <2>2
  <1>2. Op = "send" /\ session.fault = "none" => sent = FileSize
    BY <1>0 DEF ReadData, EndSend, UploadInv, Sends
  <1> QED
    BY <1>0, <1>1, <1>2, UploadAdvance

\* What closing the channel does to the connections.
LEMMA CloseChanges ==
    ASSUME ControlTypes, UploadInv, CloseChannel
    PROVE  /\ shut' \in [0..Len(program) -> SUBSET {"client", "server"}]
           /\ \/ /\ ~Broken /\ UNCHANGED <<commands, line, transfer>>
                 /\ \A p \in 0..Len(program) : p # channel => shut'[p] = shut[p]
              \/ Broken /\ line' = "reset" /\ commands' = <<>> /\ transfer' = NoTransfer
  <1> USE Bounds
  <1>1. /\ channel \in 0..Len(program)
        /\ shut \in [0..Len(program) -> SUBSET {"client", "server"}]
    BY DEF UploadInv, Queue, Ports, Program
  <1> DEFINE closed == [shut EXCEPT ![channel] = @ \cup {"client"}]
  <1>2. /\ closed \in [0..Len(program) -> SUBSET {"client", "server"}]
        /\ \A p \in 0..Len(program) : p # channel => closed[p] = shut[p]
    BY <1>1
  <1>3. CASE ~Broken
    <2>1. shut' = closed /\ UNCHANGED <<commands, line, transfer>>
      BY <1>3, CloseFacts
    <2> QED
      BY <1>2, <1>3, <2>1
  <1>4. CASE Broken
    <2>1. /\ line' = "reset" /\ commands' = <<>> /\ transfer' = NoTransfer
          /\ shut' = [p \in DOMAIN shut |-> closed[p] \cup {"server"}]
      BY <1>4, CloseFacts
    <2>2. DOMAIN shut = 0..Len(program)
      BY <1>1
    <2>3. shut' \in [0..Len(program) -> SUBSET {"client", "server"}]
      <3>1. ASSUME NEW p \in 0..Len(program)
            PROVE  closed[p] \cup {"server"} \in SUBSET {"client", "server"}
        BY <1>2
      <3> HIDE DEF closed
      <3> QED
        BY <2>1, <2>2, <3>1
    <2> QED
      BY <1>4, <2>1, <2>3
  <1> QED
    BY <1>3, <1>4

\* send_data fails: the server was at fault, or it would not have closed.
LEMMA UploadSendFails ==
    ASSUME ControlTypes, UploadInv, SendFails
    PROVE  UploadInv'
  <1> USE Bounds
  <1>0. /\ phase = "sending" /\ Op = "send" /\ Advance /\ CloseChannel
        /\ UNCHANGED <<session, program, channel, sent, wire, port, stored>>
        /\ "server" \in shut[channel] \/ Broken
    BY DEF SendFails, UploadInv, Places
  <1>a. at <= Len(program) /\ at' = at + 1 /\ phase' \in {"call", "end"}
    BY <1>0 DEF UploadInv, Places, Advance
  <1>1. session.fault # "none"
    BY <1>0 DEF UploadInv, Sends, Broken
  <1>2. /\ shut' \in [0..Len(program) -> SUBSET {"client", "server"}]
        /\ \/ UNCHANGED <<commands, line, transfer>>
           \/ line' = "reset" /\ commands' = <<>> /\ transfer' = NoTransfer
    BY <1>0, CloseChanges
  <1>3. phase' = "call" => Op' # "STOR"
    BY <1>0, <1>a, NextOp DEF UploadInv
  <1>4. Program'
    BY <1>0, ProgramKept DEF UploadInv
  <1>5. Places'
    BY <1>0, <1>1, <1>a DEF UploadInv, Program, Places, Advance, Ended
  <1>6. port < at /\ \A i \in 1..Len(commands) : commands[i].for < at
    BY <1>0 DEF UploadInv, Queue
  <1>7. Queue'
    <2>1. CASE UNCHANGED <<commands, line>>
      BY <1>0, <2>1, QueueAdvance DEF UploadInv
    <2>2. CASE line' = "reset" /\ commands' = <<>>
      <3>1. 1..Len(commands') = {}
        BY <2>2
      <3> QED
        BY <1>0, <1>a, <1>6, <2>2, <3>1 DEF UploadInv, Queue
    <2> QED
      BY <1>2, <2>1, <2>2
  <1>8. Ports'
    BY <1>0, <1>1, <1>2 DEF UploadInv, Ports, NoTransfer
  <1>9. Opens'
    BY <1>3, <1>a DEF Opens
  <1>10. Stores'
    <2>1. StorToCome' => StorToCome
      BY <1>0, <1>a DEF StorToCome
    <2>2. CASE UNCHANGED <<commands, transfer>>
      <3>1. StorQueued' <=> StorQueued
        BY <2>2 DEF StorQueued
      <3> QED
        BY <1>0, <2>1, <2>2, <3>1 DEF UploadInv, Stores
    <2>3. CASE commands' = <<>> /\ transfer' = NoTransfer
      <3>1. 1..Len(commands') = {} /\ ~StorQueued'
        BY <2>3 DEF StorQueued
      <3> QED
        BY <1>0, <2>1, <2>3, <3>1 DEF UploadInv, Stores, NoTransfer
    <2> QED
      BY <1>2, <2>2, <2>3
  <1>11. Sends'
    <2>1. SendToCome' => SendToCome
      BY <1>0, <1>a DEF SendToCome
    <2> QED
      BY <1>0, <1>1, <2>1 DEF UploadInv, Sends
  <1> QED
    BY <1>4, <1>5, <1>7, <1>8, <1>9, <1>10, <1>11 DEF UploadInv

\* The client stops, or closes its channel after that.
LEMMA UploadEnds ==
    ASSUME ControlTypes, UploadInv, ReceiveFails \/ CrashOnResponse \/ Delete \/ Exit
    PROVE  UploadInv'
  <1> USE Bounds DEF server
  <1>0. /\ Ended' /\ UNCHANGED <<session, program, at, channel, sent, commands, line, wire, server>>
        /\ shut' = shut \/ shut' = [shut EXCEPT ![channel] = @ \cup {"client"}]
        /\ Op' = Op /\ phase # "sending"
    BY DEF ReceiveFails, CrashOnResponse, Delete, Exit, Ended, client, Op
  <1>1. Program' /\ Places' /\ Queue'
    BY <1>0 DEF UploadInv, Program, Places, Queue, Ended
  <1>2. Ports'
    <2>1. /\ channel \in 0..Len(program) /\ channel <= port /\ channel \in Nat
          /\ shut \in [0..Len(program) -> SUBSET {"client", "server"}]
      BY DEF UploadInv, Queue, Ports, Program
    <2>2. /\ shut' \in [0..Len(program) -> SUBSET {"client", "server"}]
          /\ \A p \in 0..Len(program) : p # channel => shut'[p] = shut[p]
      BY <1>0, <2>1
    <2>3. \A p \in 0..Len(program) : p > port => p # channel
      BY <2>1
    <2> QED
      BY <1>0, <2>2, <2>3 DEF UploadInv, Ports
  <1>3. Opens'
    BY <1>0 DEF Opens, Ended
  <1>4. Stores'
    <2>1. StorToCome' => StorToCome
      BY <1>0 DEF StorToCome, Ended
    <2> QED
      BY <1>0, <2>1 DEF UploadInv, Stores, StorQueued
  <1>5. Sends'
    <2>1. SendToCome' => SendToCome
      BY <1>0 DEF SendToCome
    <2> QED
      BY <1>0, <2>1 DEF UploadInv, Sends, Ended
  <1> QED
    BY <1>1, <1>2, <1>3, <1>4, <1>5 DEF UploadInv

\* send_data begins.
LEMMA UploadSendData ==
    ASSUME ControlTypes, UploadInv, SendData
    PROVE  UploadInv' /\ sent' = sent
  <1> USE Bounds DEF server
  <1>0. /\ phase = "call" /\ Op = "send" /\ phase' = "sending" /\ sent' = 0 /\ Op' = Op
        /\ UNCHANGED <<session, program, at, channel, commands, line, wire, shut, server>>
    BY DEF SendData, Op
  <1>1. Program' /\ Places' /\ Queue' /\ Ports' /\ Opens'
    BY <1>0 DEF UploadInv, Program, Places, Queue, Ports, Opens, Ended
  <1>2. SendToCome
    BY <1>0 DEF UploadInv, Program, UploadsOnce, Places, SendToCome, Op
  <1>3. sent = 0
    BY <1>2 DEF UploadInv, Sends
  <1>4. Stores'
    <2>1. StorToCome' => StorToCome
      BY <1>0 DEF StorToCome
    <2> QED
      BY <1>0, <1>3, <2>1 DEF UploadInv, Stores, StorQueued
  <1>5. Sends'
    BY <1>0, <1>3 DEF UploadInv, Sends, Broken, Ended
  <1> QED
    BY <1>0, <1>1, <1>3, <1>4, <1>5 DEF UploadInv

\* A unit more has been sent.
LEMMA UploadSendUnit ==
    ASSUME ControlTypes, UploadInv, SendUnit
    PROVE  UploadInv'
  <1> USE Bounds DEF server
  <1>0. /\ phase = "sending" /\ Op = "send" /\ sent' = sent + 1 /\ Op' = Op
        /\ wire' = [wire EXCEPT ![channel] = @ + 1]
        /\ UNCHANGED <<session, program, at, phase, channel, commands, line, shut, server>>
    BY DEF SendUnit, Op, UploadInv, Places
  <1>1. Program' /\ Places' /\ Queue' /\ Opens'
    BY <1>0 DEF UploadInv, Program, Places, Queue, Opens, Ended
  <1>2. /\ channel \in 0..Len(program) /\ channel <= port /\ channel \in Nat
        /\ wire \in [0..Len(program) -> Nat]
        /\ port \in 0..Len(program) /\ transfer.on \in 0..Len(program) /\ transfer.on <= port
    BY DEF UploadInv, Queue, Ports, Program
  <1>3. /\ wire' \in [0..Len(program) -> Nat] /\ wire'[channel] = wire[channel] + 1
        /\ \A p \in 0..Len(program) : p # channel => wire'[p] = wire[p]
    BY <1>0, <1>2
  <1>4. \A p \in 0..Len(program) : wire[p] \in Nat /\ wire'[p] \in Nat /\ wire'[p] <= wire[p] + 1
    BY <1>2, <1>3
  <1>5. Ports'
    BY <1>0, <1>2, <1>3 DEF UploadInv, Ports
  <1>6. Stores'
    <2>1. StorToCome' => StorToCome
      BY <1>0 DEF StorToCome
    <2>2. stored \in Int /\ sent \in Nat
      BY DEF UploadInv, Stores
    <2>3. wire[port] <= sent => wire'[port] <= sent + 1
      BY <1>2, <1>4, <2>2
    <2>4. stored + wire[transfer.on] <= sent => stored + wire'[transfer.on] <= sent + 1
      <3>1. ASSUME NEW v \in Nat, NEW w \in Nat, w <= v + 1, stored + v <= sent
            PROVE  stored + w <= sent + 1
        BY <2>2, <3>1
      <3> QED
        BY <1>2, <1>4, <3>1
    <2> QED
      BY <1>0, <2>1, <2>2, <2>3, <2>4 DEF UploadInv, Stores, StorQueued
  <1>7. Sends'
    <2>1. at \in DOMAIN program
      BY <1>0 DEF UploadInv, Program, Places
    <2>2. ~SendToCome'
      BY <1>0, <2>1 DEF SendToCome, Op
    <2>3. ~\E u \in DOMAIN program : program[u] = "send" /\ u < at
      BY <1>0, <2>1 DEF UploadInv, Program, UploadsOnce, Op
    <2> QED
      BY <1>0, <2>2, <2>3 DEF UploadInv, Sends, Broken, Ended
  <1> QED
    BY <1>1, <1>5, <1>6, <1>7 DEF UploadInv

\* A STOR is sent right after its PASV, with nothing else on its way.
LEMMA UploadSendCommand ==
    ASSUME ControlTypes, UploadInv, SendCommand
    PROVE  UploadInv'
  <1> USE Bounds DEF server
  <1>0. /\ phase = "call" /\ Op \in Commands /\ phase' = "recv" /\ Op' = Op
        /\ line = "open" <=> line' = "open"
        /\ UNCHANGED <<session, program, at, channel, sent, wire, shut, server>>
    BY DEF SendCommand, Op, ControlTypes
  <1>1. Program' /\ Places' /\ Ports'
    BY <1>0 DEF UploadInv, Program, Places, Ports, Ended, Commands
  <1>2. at \in DOMAIN program /\ at <= Len(program)
    BY <1>0 DEF UploadInv, Places, Program
  <1>3. Op = "STOR" => commands = <<>> /\ StorToCome
    BY <1>0, <1>2 DEF UploadInv, Opens, Program, UploadsOnce, StorToCome, Op
  <1>4. (StorToCome' => StorToCome /\ Op # "STOR") /\ (SendToCome' => SendToCome)
    BY <1>0, <1>2 DEF StorToCome, SendToCome, Op
  <1>7. Broken' = Broken /\ ~Ended
    BY <1>0 DEF Broken, Ended
  <1>5. CASE line # "open"
    <2>1. commands = <<>> /\ commands' = <<>> /\ line' # "open"
      BY <1>0, <1>5 DEF SendCommand, UploadInv, Queue
    <2>2. ~StorQueued /\ ~StorQueued' /\ 1..Len(commands) = {}
      BY <2>1 DEF StorQueued
    <2>3. Queue'
      BY <1>0, <2>1 DEF UploadInv, Queue
    <2>4. Opens'
      BY <1>0, <2>1 DEF Opens
    <2>5. Stores'
      BY <1>0, <1>4, <2>1, <2>2 DEF UploadInv, Stores
    <2>6. session.fault # "none"
      BY <1>5 DEF UploadInv, Places
    <2>7. Sends'
      BY <1>0, <1>4, <2>6 DEF UploadInv, Sends
    <2> QED
      BY <1>1, <2>3, <2>4, <2>5, <2>7 DEF UploadInv
  <1>6. CASE line = "open"
    <2>1. [op |-> Op, for |-> at] \in [op : Commands, for : Nat]
      BY <1>0
    <2>2. commands' = Append(commands, [op |-> Op, for |-> at])
      BY <1>6 DEF SendCommand
    <2>3. /\ Len(commands') = Len(commands) + 1
          /\ \A i \in 1..Len(commands) : commands'[i] = commands[i]
          /\ commands'[Len(commands) + 1] = [op |-> Op, for |-> at]
      BY <2>1, <2>2, AppendProperties DEF ControlTypes
    <2>4. commands' # <<>> /\ line' = "open"
      BY <1>0, <1>6, <2>3
    <2>5. Queue'
      <3>1. /\ port <= Len(program) /\ port < at
            /\ \A i \in 1..Len(commands) : port < commands[i].for /\ commands[i].for < at
            /\ \A i, j \in 1..Len(commands) : i < j => commands[i].for < commands[j].for
        BY <1>0 DEF UploadInv, Queue
      <3>2. ASSUME NEW i \in 1..(Len(commands) + 1)
            PROVE  port < commands'[i].for /\ commands'[i].for <= at
        <4>1. CASE i = Len(commands) + 1
          BY <2>3, <3>1, <4>1
        <4>2. CASE i \in 1..Len(commands)
          <5>1. commands[i].for \in Nat
            BY <4>2, CommandTypes
          <5> QED
            BY <2>3, <3>1, <4>2, <5>1
        <4> QED
          BY <4>1, <4>2
      <3>3. ASSUME NEW i \in 1..(Len(commands) + 1), NEW j \in 1..(Len(commands) + 1), i < j
            PROVE  commands'[i].for < commands'[j].for
        <4>1. i \in 1..Len(commands)
          BY <3>3
        <4>2. CASE j = Len(commands) + 1
          BY <2>3, <3>1, <4>1, <4>2
        <4>3. CASE j \in 1..Len(commands)
          BY <2>3, <3>1, <3>3, <4>1, <4>3
        <4> QED
          BY <4>2, <4>3
      <3>4. \A i \in 1..(Len(commands) + 1) :
               port < commands'[i].for /\ commands'[i].for <= Len(program)
        <4>1. ASSUME NEW i \in 1..(Len(commands) + 1) PROVE commands'[i].for \in Nat
          BY <2>3, CommandTypes
        <4> QED
          BY <1>2, <3>2, <4>1 DEF UploadInv, Program
      <3>5. commands'[Len(commands')].for = at /\ commands'[Len(commands')].op = Op
        BY <2>3
      <3> QED
        BY <1>0, <2>3, <2>4, <3>1, <3>3, <3>4, <3>5 DEF Queue
    <2>6. Opens'
      BY <1>0, <2>4 DEF Opens
    <2>7. \A i \in 1..Len(commands') : commands'[i].op = "STOR" => i = 1
      <3>1. CASE Op = "STOR"
        BY <1>3, <2>3, <3>1
      <3>2. CASE Op # "STOR"
        BY <2>3, <3>2 DEF UploadInv, Stores
      <3> QED
        BY <3>1, <3>2
    <2>8. CASE Op = "STOR"
      <3>1. stored = -1 /\ transfer.kind # "STOR" /\ channel = port /\ Fresh(port) /\ sent \in Nat
        BY <1>0, <1>3, <1>6, <2>8 DEF UploadInv, Opens, Stores
      <3>2. Stores'
        BY <1>0, <1>4, <2>7, <2>8, <3>1 DEF Stores, Fresh
      <3>3. \A i \in 1..Len(commands') : commands'[i].op = "STOR"
        BY <1>3, <2>3, <2>8
      <3>4. Sends'
        BY <1>0, <1>4, <1>7, <3>1, <3>3 DEF UploadInv, Sends, Fresh
      <3> QED
        BY <1>1, <2>5, <2>6, <3>2, <3>4 DEF UploadInv
    <2>9. CASE Op # "STOR"
      <3>1. StorQueued' => StorQueued
        BY <2>3, <2>9 DEF StorQueued
      <3>2. Stores'
        BY <1>0, <1>4, <2>7, <3>1 DEF UploadInv, Stores
      <3>3. Sends'
        BY <1>0, <1>4, <1>7, <2>9 DEF UploadInv, Sends, Commands
      <3> QED
        BY <1>1, <2>5, <2>6, <3>2, <3>3 DEF UploadInv
    <2> QED
      BY <2>8, <2>9
  <1> QED
    BY <1>5, <1>6

\* A channel is opened, to a port nobody has used, or the client stops.
LEMMA UploadConnect ==
    ASSUME ControlTypes, UploadInv, PasvInv, ConnectChannel
    PROVE  UploadInv'
  <1> USE Bounds
  <1>0. /\ phase = "connect" /\ Op = "PASV" /\ PasvReplies # {} /\ CloseChannel
        /\ UNCHANGED <<session, program, sent, wire, port, stored>>
    BY DEF ConnectChannel, UploadInv, Places
  <1>1. /\ port \in 0..Len(program) /\ channel \in 0..port /\ transfer.on \in 0..port
    BY DEF UploadInv, Queue, Ports
  <1>2. /\ shut' \in [0..Len(program) -> SUBSET {"client", "server"}]
        /\ \/ /\ ~Broken /\ UNCHANGED <<commands, line, transfer>>
              /\ \A p \in 0..Len(program) : p # channel => shut'[p] = shut[p]
           \/ Broken /\ line' = "reset" /\ commands' = <<>> /\ transfer' = NoTransfer
    BY <1>0, CloseChanges
  <1>3. session.fault = "none" => ~Broken
    BY <1>0 DEF UploadInv, Sends, Ended
  <1>4. Program'
    BY <1>0, ProgramKept DEF UploadInv
  <1>a. transfer'.on \in 0..port
    BY <1>1, <1>2 DEF NoTransfer
  <1>b. /\ wire \in [0..Len(program) -> Nat]
        /\ \A p \in 0..Len(program) :
              p > port => wire[p] = 0 /\ (session.fault = "none" => shut'[p] = {})
    <2>1. /\ wire \in [0..Len(program) -> Nat]
          /\ \A p \in 0..Len(program) :
                p > port => wire[p] = 0 /\ (session.fault = "none" => shut[p] = {})
      BY DEF UploadInv, Ports
    <2>2. ASSUME NEW p \in 0..Len(program), p > port, session.fault = "none"
          PROVE  shut'[p] = shut[p]
      <3>1. p # channel
        BY <1>1, <2>2
      <3> QED
        BY <1>2, <1>3, <2>2, <3>1
    <2> QED
      BY <2>1, <2>2
  <1>c. ASSUME StorToCome' => StorToCome PROVE Stores'
    <2>1. CASE UNCHANGED <<commands, transfer>>
      <3>1. StorQueued' <=> StorQueued
        BY <2>1 DEF StorQueued
      <3> QED
        BY <1>0, <1>c, <2>1, <3>1 DEF UploadInv, Stores
    <2>2. CASE commands' = <<>> /\ transfer' = NoTransfer
      <3>1. 1..Len(commands') = {} /\ ~StorQueued'
        BY <2>2 DEF StorQueued
      <3> QED
        BY <1>0, <1>c, <2>2, <3>1 DEF UploadInv, Stores, NoTransfer
    <2> QED
      BY <1>2, <2>1, <2>2
  <1>5. CASE channel' = PasvPort /\ PasvPort = port /\ line = "open" /\ Advance
    <2>0. at' = at + 1 /\ phase' \in {"call", "end"} /\ channel' = port /\ at <= Len(program)
      BY <1>0, <1>5 DEF Advance, UploadInv, Places
    <2>1. commands = <<>>
      <3>1. ASSUME commands # <<>> PROVE FALSE
        <4>1. Len(commands) \in DOMAIN commands /\ commands[Len(commands)].op = "PASV"
          BY <1>0, <3>1 DEF UploadInv, Queue
        <4>2. NoPasv
          BY <1>0, <1>5, PortTaken
        <4> QED
          BY <4>1, <4>2 DEF NoPasv, PasvCommands
      <3> QED
        BY <3>1
    <2>2. Fresh(port) /\ channel # port
      BY <1>0, <1>5, <2>1 DEF UploadInv, Opens
    <2>3. session.fault = "none" => shut'[port] = {}
      BY <1>1, <1>2, <1>3, <2>2 DEF Fresh
    <2>4. line' # "open" => session.fault # "none"
      BY <1>2, <1>3, <1>5
    <2>5. Places'
      BY <1>0, <1>5, <2>0, <2>4 DEF UploadInv, Program, Places, Advance, Ended
    <2>6. commands' = <<>> /\ 1..Len(commands') = {}
      BY <1>2, <2>1
    <2>7. Queue'
      BY <1>0, <1>1, <2>0, <2>6 DEF UploadInv, Queue
    <2>8. Ports'
      BY <1>0, <1>1, <1>2, <1>a, <1>b, <2>0 DEF Ports
    <2>9. line' = "open" => transfer' = transfer
      BY <1>2
    <2>10. Opens'
      BY <1>0, <2>0, <2>2, <2>3, <2>6, <2>9 DEF Opens, Fresh
    <2>11. (StorToCome' => StorToCome) /\ (SendToCome' => SendToCome)
      BY <1>0, <2>0 DEF StorToCome, SendToCome
    <2>12. Sends'
      <3>1. ~(phase' \in {"call", "sending"} /\ Op' = "send")
        <4>1. phase' = "call" => (Op' = "send" => Op = "STOR")
          BY <1>0, <1>5, <2>0, NextOp DEF UploadInv
        <4> QED
          BY <1>0, <2>0, <4>1
      <3>2. \A u \in DOMAIN program : program[u] = "send" /\ u < at + 1 => u < at
        BY <1>0 DEF UploadInv, Program, Op
      <3>3. session.fault = "none" => ~Broken'
        BY <2>0, <2>3 DEF Broken
      <3>4. session.fault = "none" => transfer' = transfer
        BY <1>2, <1>3
      <3> QED
        BY <1>0, <2>0, <2>2, <2>3, <2>6, <2>11, <3>1, <3>2, <3>3, <3>4 DEF UploadInv, Sends, Fresh
    <2> QED
      BY <1>4, <1>c, <2>5, <2>7, <2>8, <2>10, <2>11, <2>12 DEF UploadInv
  <1>6. CASE channel' = 0 /\ phase' = "thrown" /\ at' = at
    <2>1. line' # "open" => session.fault # "none"
      BY <1>2, <1>3 DEF UploadInv, Places
    <2>2. Places' /\ Opens'
      BY <1>0, <1>6, <2>1 DEF UploadInv, Places, Opens, Ended
    <2>3. Queue'
      <3>1. CASE UNCHANGED <<commands, line>>
        BY <1>0, <1>6, <3>1 DEF UploadInv, Queue
      <3>2. CASE commands' = <<>>
        <4>1. 1..Len(commands') = {}
          BY <3>2
        <4> QED
          BY <1>0, <1>6, <3>2, <4>1 DEF UploadInv, Queue
      <3> QED
        BY <1>2, <3>1, <3>2
    <2>4. Ports'
      BY <1>0, <1>1, <1>2, <1>6, <1>a, <1>b DEF Ports
    <2>5. (StorToCome' => StorToCome) /\ (SendToCome' => SendToCome)
      BY <1>0, <1>6 DEF StorToCome, SendToCome
    <2>6. Sends'
      BY <1>0, <1>6, <2>5 DEF UploadInv, Sends, Ended
    <2> QED
      BY <1>4, <1>c, <2>2, <2>3, <2>4, <2>5, <2>6 DEF UploadInv
  <1> QED
    BY <1>5, <1>6 DEF ConnectChannel

-----------------------------------------------------------------------------
(* The server's steps *)

\* They leave the client as it is.
ClientRests == UNCHANGED client

LEMMA RestFacts ==
    ASSUME ClientRests
    PROVE  /\ UNCHANGED <<session, program, at, phase, channel, sent>> /\ Op' = Op
           /\ Ended' = Ended /\ StorToCome' = StorToCome /\ SendToCome' = SendToCome
           /\ Program' = Program
  BY DEF ClientRests, client, Op, Ended, StorToCome, SendToCome, Program

\* What taking the first command does to the queue.
LEMMA TakenFacts ==
    ASSUME ControlTypes, NEW op, Takes(op)
    PROVE  /\ Len(commands) > 0 /\ commands # <<>> /\ commands[1].op = op
           /\ Len(commands') = Len(commands) - 1 /\ DOMAIN commands' = 1..(Len(commands) - 1)
           /\ \A i \in 1..(Len(commands) - 1) : commands'[i] = commands[i + 1]
           /\ commands' = <<>> <=> Len(commands) = 1
           /\ Head(commands) = commands[1]
  <1>1. commands # <<>> /\ commands' = Tail(commands) /\ Head(commands).op = op
    BY DEF Takes
  <1>2. commands \in Seq([op : Commands, for : Nat])
    BY DEF ControlTypes
  <1>3. /\ commands' \in Seq([op : Commands, for : Nat]) /\ Len(commands') = Len(commands) - 1
        /\ \A i \in 1..(Len(commands) - 1) : commands'[i] = commands[i + 1]
        /\ Head(commands) = commands[1]
    BY <1>1, <1>2, HeadTailProperties
  <1>4. DOMAIN commands' = 1..Len(commands')
    BY <1>3, LenProperties
  <1>5. commands' = <<>> <=> Len(commands') = 0
    BY <1>3, EmptySeq
  <1> QED
    BY <1>1, <1>3, <1>4, <1>5, Bounds

\* A command is taken: what is left waiting is in order, and not an upload.
LEMMA TakenQueue ==
    ASSUME ControlTypes, UploadInv, line = "open", NEW op, Takes(op), ClientRests, line' = line,
           port' = IF op = "PASV" THEN port + 1 ELSE port
    PROVE  /\ Queue' /\ ~StorQueued' /\ port' <= Len(program)
           /\ commands' = <<>> /\ phase \in {"recv", "connect"} => Op = op
           /\ \A i \in 1..Len(commands') : commands'[i].op # "STOR"
  <1> USE Bounds
  <1>a. /\ UNCHANGED <<session, program, at, phase, channel, sent>> /\ Op' = Op
        /\ Ended' = Ended /\ StorToCome' = StorToCome /\ SendToCome' = SendToCome
    BY RestFacts
  <1>b. /\ Len(commands) > 0 /\ commands # <<>> /\ commands[1].op = op
        /\ Len(commands') = Len(commands) - 1 /\ DOMAIN commands' = 1..(Len(commands) - 1)
        /\ \A i \in 1..(Len(commands) - 1) : commands'[i] = commands[i + 1]
        /\ commands' = <<>> <=> Len(commands) = 1
    BY TakenFacts
  <1> USE <1>a, <1>b
  <1>1. \A i \in 1..(Len(commands) - 1) :
           i + 1 \in 1..Len(commands) /\ commands'[i] = commands[i + 1]
    OBVIOUS
  <1>2. \A i \in 1..Len(commands) : commands[i].for \in Nat
    BY CommandTypes
  <1>3. commands[1].for \in Nat /\ port < commands[1].for /\ commands[1].for <= Len(program)
    BY <1>2 DEF UploadInv, Queue
  <1>4. /\ port' \in Nat /\ port' <= commands[1].for /\ port' <= Len(program)
    BY <1>3 DEF UploadInv, Program
  <1>5. ASSUME NEW i \in 1..(Len(commands) - 1)
        PROVE  port' < commands'[i].for /\ commands'[i].for <= Len(program)
    <2>1. i + 1 \in 1..Len(commands) /\ commands'[i] = commands[i + 1] /\ 1 < i + 1
      BY <1>1
    <2>2. commands[1].for < commands[i + 1].for /\ commands[i + 1].for <= Len(program)
      BY <2>1 DEF UploadInv, Queue
    <2>3. commands[i + 1].for \in Nat
      BY <1>2, <2>1
    <2> QED
      BY <1>3, <1>4, <2>1, <2>2, <2>3
  <1>6. ASSUME NEW i \in 1..(Len(commands) - 1), NEW j \in 1..(Len(commands) - 1), i < j
        PROVE  commands'[i].for < commands'[j].for
    <2>1. i + 1 \in 1..Len(commands) /\ j + 1 \in 1..Len(commands) /\ i + 1 < j + 1
      BY <1>6
    <2>2. commands[i + 1].for < commands[j + 1].for
      BY <2>1 DEF UploadInv, Queue
    <2> QED
      BY <1>1, <2>2
  <1>7. phase \in {"call", "sending"} =>
           port' < at /\ \A i \in 1..(Len(commands) - 1) : commands'[i].for < at
    <2>1. SUFFICES ASSUME phase \in {"call", "sending"}
                   PROVE  port' < at /\ \A i \in 1..(Len(commands) - 1) : commands'[i].for < at
      OBVIOUS
    <2>2. \A i \in 1..Len(commands) : commands[i].for < at
      BY <2>1 DEF UploadInv, Queue
    <2>3. commands[1].for < at
      BY <2>2
    <2> QED
      BY <1>1, <1>3, <1>4, <2>2, <2>3
  <1>8. phase \in {"recv", "connect"} =>
           commands[Len(commands)].for = at /\ commands[Len(commands)].op = Op
    BY DEF UploadInv, Queue
  <1>9. phase \in {"recv", "connect"} => port' <= at
    <2>1. CASE Len(commands) = 1
      BY <1>4, <1>8, <2>1
    <2>2. CASE Len(commands) # 1
      <3>1. 1 < Len(commands) /\ 1 \in 1..Len(commands) /\ Len(commands) \in 1..Len(commands)
        BY <2>2
      <3>2. commands[1].for < commands[Len(commands)].for
        BY <3>1 DEF UploadInv, Queue
      <3> QED
        BY <1>3, <1>4, <1>8, <3>2
    <2> QED
      BY <2>1, <2>2
  <1>10. phase \in {"recv", "connect"} /\ commands' # <<>> =>
            commands'[Len(commands')].for = at /\ commands'[Len(commands')].op = Op
    <2>1. commands' # <<>> =>
             Len(commands') \in 1..(Len(commands) - 1) /\ Len(commands') + 1 = Len(commands)
      OBVIOUS
    <2> QED
      BY <1>1, <1>8, <2>1
  <1>11. Queue'
    BY <1>4, <1>5, <1>6, <1>7, <1>9, <1>10 DEF Queue
  <1>12. \A i \in 1..Len(commands') : commands'[i].op # "STOR"
    BY <1>1 DEF UploadInv, Stores
  <1>13. commands' = <<>> /\ phase \in {"recv", "connect"} => Op = op
    BY <1>8
  <1> QED
    BY <1>4, <1>11, <1>12, <1>13 DEF StorQueued

\* What a command leaves of an upload's channel.
LEMMA TakenSends ==
    ASSUME ControlTypes, UploadInv, NEW op, Takes(op), ClientRests,
           session.fault = "none" => shut' = shut,
           op # "LIST" => transfer' = transfer \/ transfer'.kind # "LIST"
    PROVE  Sends'
  <1> USE Bounds
  <1>a. /\ UNCHANGED <<session, program, at, phase, channel, sent>> /\ Op' = Op
        /\ Ended' = Ended /\ StorToCome' = StorToCome /\ SendToCome' = SendToCome
    BY RestFacts
  <1>b. /\ Len(commands) > 0 /\ commands # <<>> /\ commands[1].op = op
        /\ Len(commands') = Len(commands) - 1 /\ DOMAIN commands' = 1..(Len(commands) - 1)
        /\ \A i \in 1..(Len(commands) - 1) : commands'[i] = commands[i + 1]
        /\ commands' = <<>> <=> Len(commands) = 1
    BY TakenFacts
  <1> USE <1>a, <1>b
  <1>1. ASSUME session.fault = "none",
               \/ phase \in {"call", "recv"} /\ Op = "STOR"
               \/ phase \in {"call", "sending"} /\ Op = "send"
        PROVE  /\ \A i \in 1..Len(commands') : commands'[i].op = "STOR"
               /\ shut'[channel] = {}
               /\ transfer'.kind # "LIST" \/ transfer'.on # channel
    <2>1. /\ \A i \in 1..Len(commands) : commands[i].op = "STOR"
          /\ shut[channel] = {}
          /\ transfer.kind # "LIST" \/ transfer.on # channel
      BY <1>1 DEF UploadInv, Sends
    <2>2. op = "STOR"
      BY <2>1
    <2>3. \A i \in 1..(Len(commands) - 1) : i + 1 \in 1..Len(commands)
      OBVIOUS
    <2>4. \A i \in 1..Len(commands') : commands'[i].op = "STOR"
      BY <2>1, <2>3
    <2>5. transfer'.kind # "LIST" \/ transfer'.on # channel
      BY <2>1, <2>2
    <2>6. shut'[channel] = {}
      BY <1>1, <2>1
    <2> QED
      BY <2>4, <2>5, <2>6
  <1>2. session.fault = "none" => Broken' = Broken
    BY DEF Broken
  <1> QED
    BY <1>1, <1>2 DEF UploadInv, Sends

\* Any other command changes nothing but the queue.
LEMMA UploadServeCommand ==
    ASSUME ControlTypes, UploadInv, line = "open", ServeCommand
    PROVE  UploadInv'
  <1> USE Bounds DEF server
  <1>0. /\ Takes("CMD") /\ ClientRests
        /\ UNCHANGED <<line, wire, shut, port, transfer, stored>>
    BY DEF ServeCommand, ClientRests
  <1>1. /\ Queue' /\ ~StorQueued' /\ \A i \in 1..Len(commands') : commands'[i].op # "STOR"
        /\ commands' = <<>> /\ phase \in {"recv", "connect"} => Op = "CMD"
    BY <1>0, TakenQueue
  <1>2. Program' /\ Places' /\ Ports'
    BY <1>0, RestFacts DEF UploadInv, Places, Ports
  <1>3. Opens'
    BY <1>0, <1>1, RestFacts, TakenFacts DEF UploadInv, Opens
  <1>4. Stores'
    BY <1>0, <1>1, RestFacts DEF UploadInv, Stores
  <1>5. Sends'
    BY <1>0, TakenSends
  <1> QED
    BY <1>1, <1>2, <1>3, <1>4, <1>5 DEF UploadInv

\* PASV: the new port is one that nobody has used.
LEMMA UploadServePasv ==
    ASSUME ControlTypes, UploadInv, line = "open", ServePasv
    PROVE  UploadInv'
  <1> USE Bounds DEF server
  <1>0. /\ Takes("PASV") /\ ClientRests /\ port' = port + 1
        /\ UNCHANGED <<line, wire, shut, transfer, stored>>
    BY DEF ServePasv, ClientRests
  <1>1. /\ Queue' /\ ~StorQueued' /\ \A i \in 1..Len(commands') : commands'[i].op # "STOR"
        /\ port' <= Len(program)
    BY <1>0, TakenQueue
  <1>2. Program' /\ Places'
    BY <1>0, RestFacts DEF UploadInv, Places
  <1>3. channel \in 0..port /\ transfer.on \in 0..port
    BY DEF UploadInv, Ports
  <1>4. Ports'
    <2>1. channel \in 0..(port + 1) /\ transfer.on \in 0..(port + 1)
      BY <1>3
    <2>2. \A p \in 0..Len(program) : p > port + 1 => p > port
      OBVIOUS
    <2> QED
      BY <1>0, <2>1, <2>2, RestFacts DEF UploadInv, Ports
  <1>5. Opens'
    <2>1. port + 1 \in 0..Len(program) /\ port + 1 > port
      BY <1>0, <1>1
    <2>2. wire[port + 1] = 0 /\ (session.fault = "none" => shut[port + 1] = {})
      BY <2>1 DEF UploadInv, Ports
    <2>3. transfer.on # port + 1 /\ channel # port + 1
      BY <1>3
    <2>4. phase = "call" /\ Op = "STOR" => FALSE
      BY <1>0, TakenFacts DEF UploadInv, Opens
    <2> QED
      BY <1>0, <2>2, <2>3, <2>4, RestFacts DEF Opens, Fresh
  <1>6. Stores'
    BY <1>0, <1>1, RestFacts DEF UploadInv, Stores
  <1>7. Sends'
    BY <1>0, TakenSends
  <1> QED
    BY <1>1, <1>2, <1>4, <1>5, <1>6, <1>7 DEF UploadInv

\* STOR: the server creates the file, on the port the client is connected to.
LEMMA UploadServeTransfer ==
    ASSUME ControlTypes, UploadInv, line = "open", NEW op \in {"LIST", "STOR"}, ServeTransfer(op)
    PROVE  UploadInv'
  <1> USE Bounds DEF server
  <1>0. /\ Takes(op) /\ ClientRests /\ UNCHANGED <<line, wire, port>>
    BY DEF ServeTransfer, ClientRests
  <1>1. /\ Queue' /\ ~StorQueued' /\ \A i \in 1..Len(commands') : commands'[i].op # "STOR"
        /\ commands' = <<>> /\ phase \in {"recv", "connect"} => Op = op
    BY <1>0, TakenQueue
  <1>2. Program' /\ Places'
    BY <1>0, RestFacts DEF UploadInv, Places
  <1>3. Opens'
    <2>1. phase \in {"recv", "connect"} /\ Op = "PASV" => commands' # <<>>
      BY <1>1
    <2>2. ~(phase = "call" /\ Op = "STOR")
      BY <1>0, TakenFacts DEF UploadInv, Opens
    <2> QED
      BY <1>0, <2>1, <2>2, RestFacts DEF Opens
  <1>4. port \in 0..Len(program) /\ port \in 0..port
    BY DEF UploadInv, Queue, Program
  <1>5. CASE /\ transfer' = [kind |-> op, on |-> port, left |-> Size(op),
                            for |-> Head(commands).for]
             /\ stored' = IF op = "STOR" THEN 0 ELSE stored
             /\ shut' = shut
    <2>1. transfer'.kind = op /\ transfer'.on = port
      BY <1>5
    <2>2. Ports'
      BY <1>0, <1>4, <1>5, <2>1, RestFacts DEF UploadInv, Ports
    <2>3. Stores'
      <3>1. CASE op = "STOR"
        <4>0. commands[1].op = op /\ Len(commands) > 0
          BY <1>0, TakenFacts
        <4>1. StorQueued
          BY <3>1, <4>0 DEF StorQueued
        <4>2. wire[port] <= sent /\ ~StorToCome
          BY <4>1 DEF UploadInv, Stores
        <4>3. wire[port] \in Nat /\ sent \in Nat
          BY <1>4 DEF UploadInv, Ports, Stores
        <4> QED
          BY <1>0, <1>1, <1>5, <2>1, <3>1, <4>2, <4>3, RestFacts DEF Stores
      <3>2. CASE op = "LIST"
        BY <1>0, <1>1, <1>5, <2>1, <3>2, RestFacts DEF UploadInv, Stores
      <3> QED
        BY <3>1, <3>2
    <2>4. Sends'
      BY <1>0, <1>5, <2>1, TakenSends
    <2> QED
      BY <1>1, <1>2, <1>3, <2>2, <2>3, <2>4 DEF UploadInv
  <1>6. CASE /\ session.fault = "refuses" /\ shut' = [shut EXCEPT ![port] = @ \cup {"server"}]
             /\ UNCHANGED <<transfer, stored>>
    <2>1. /\ shut' \in [0..Len(program) -> SUBSET {"client", "server"}]
      BY <1>4, <1>6 DEF UploadInv, Ports
    <2>2. Ports'
      BY <1>0, <1>6, <2>1, RestFacts DEF UploadInv, Ports
    <2>3. Stores'
      BY <1>0, <1>1, <1>6, RestFacts DEF UploadInv, Stores
    <2>4. Sends'
      BY <1>0, <1>6, TakenSends
    <2> QED
      BY <1>1, <1>2, <1>3, <2>2, <2>3, <2>4 DEF UploadInv
  <1> QED
    BY <1>5, <1>6 DEF ServeTransfer

\* A listing goes to another channel than an upload comes from.
LEMMA UploadWriteListing ==
    ASSUME ControlTypes, UploadInv, WriteListing
    PROVE  UploadInv'
  <1> USE Bounds DEF server
  <1>0. /\ ClientRests /\ UNCHANGED <<commands, line, shut, port, stored>>
        /\ transfer.kind = "LIST" /\ wire' = [wire EXCEPT ![transfer.on] = @ + 1]
    BY DEF WriteListing, ClientRests
  <1>1. transfer'.kind = transfer.kind /\ transfer'.on = transfer.on
    BY DEF WriteListing, ControlTypes
  <1>2. /\ transfer.on \in 0..Len(program) /\ transfer.on <= port /\ port \in 0..Len(program)
        /\ wire \in [0..Len(program) -> Nat]
    BY DEF UploadInv, Queue, Ports, Program
  <1>3. /\ wire' \in [0..Len(program) -> Nat]
        /\ \A p \in 0..Len(program) : p # transfer.on => wire'[p] = wire[p]
    BY <1>0, <1>2
  <1>4. Program' /\ Places' /\ Queue'
    BY <1>0, RestFacts DEF UploadInv, Places, Queue
  <1>5. Ports'
    BY <1>0, <1>1, <1>2, <1>3, RestFacts DEF UploadInv, Ports
  <1>6. Opens'
    BY <1>0, <1>1, <1>2, <1>3, RestFacts DEF UploadInv, Opens, Fresh
  <1>7. Stores'
    BY <1>0, <1>1, <1>2, <1>3, RestFacts DEF UploadInv, Stores, StorQueued
  <1>8. Sends'
    BY <1>0, <1>1, RestFacts DEF UploadInv, Sends, Broken
  <1> QED
    BY <1>4, <1>5, <1>6, <1>7, <1>8 DEF UploadInv

\* What is stored has been sent.
LEMMA UploadReadFile ==
    ASSUME ControlTypes, UploadInv, ReadFile
    PROVE  UploadInv' /\ stored < sent
  <1> USE Bounds DEF server
  <1>0. /\ ClientRests /\ UNCHANGED <<commands, line, shut, port, transfer>>
        /\ transfer.kind = "STOR" /\ wire[transfer.on] > 0 /\ stored' = stored + 1
        /\ wire' = [wire EXCEPT ![transfer.on] = @ - 1]
    BY DEF ReadFile, ClientRests
  <1>2. /\ transfer.on \in 0..Len(program) /\ transfer.on <= port /\ port \in 0..Len(program)
        /\ wire \in [0..Len(program) -> Nat]
    BY DEF UploadInv, Queue, Ports, Program
  <1>3. /\ wire' \in [0..Len(program) -> Nat] /\ wire'[transfer.on] = wire[transfer.on] - 1
        /\ \A p \in 0..Len(program) : p # transfer.on => wire'[p] = wire[p]
    BY <1>0, <1>2
  <1>4. Program' /\ Places' /\ Queue'
    BY <1>0, RestFacts DEF UploadInv, Places, Queue
  <1>5. Ports'
    BY <1>0, <1>2, <1>3, RestFacts DEF UploadInv, Ports
  <1>6. Opens'
    BY <1>0, <1>2, <1>3, RestFacts DEF UploadInv, Opens, Fresh
  <1>7. /\ stored \in Int /\ sent \in Nat /\ stored >= 0 /\ stored + wire[transfer.on] <= sent
        /\ ~StorToCome /\ ~StorQueued
    BY <1>0 DEF UploadInv, Stores
  <1>8. wire[transfer.on] \in Nat
    BY <1>2
  <1>9. /\ stored' \in Int /\ stored' >= 0
        /\ stored' + wire'[transfer.on] <= sent /\ stored < sent
    BY <1>0, <1>3, <1>7, <1>8
  <1>10. Stores'
    BY <1>0, <1>7, <1>9, RestFacts DEF UploadInv, Stores, StorQueued
  <1>11. Sends'
    BY <1>0, RestFacts DEF UploadInv, Sends, Broken
  <1> QED
    BY <1>4, <1>5, <1>6, <1>9, <1>10, <1>11 DEF UploadInv

\* The server does not close the channel of an upload before the client.
LEMMA UploadEndTransfer ==
    ASSUME ControlTypes, UploadInv, EndTransfer
    PROVE  UploadInv'
  <1> USE Bounds DEF server
  <1>0. /\ ClientRests /\ UNCHANGED <<commands, line, wire, port, stored>>
        /\ transfer.kind \in {"LIST", "STOR"} /\ transfer'.kind = "none" /\ transfer'.on = 0
        /\ transfer.kind = "STOR" => "client" \in shut[transfer.on]
        /\ shut' = [shut EXCEPT ![transfer.on] = @ \cup {"server"}]
    BY DEF EndTransfer, ClientRests, NoTransfer
  <1>1. /\ transfer.on \in 0..Len(program) /\ transfer.on <= port /\ port \in 0..Len(program)
        /\ channel \in 0..Len(program) /\ shut \in [0..Len(program) -> SUBSET {"client", "server"}]
    BY DEF UploadInv, Queue, Ports, Program
  <1>2. /\ shut' \in [0..Len(program) -> SUBSET {"client", "server"}]
        /\ \A p \in 0..Len(program) : p # transfer.on => shut'[p] = shut[p]
    BY <1>0, <1>1
  <1>3. Program' /\ Places' /\ Queue'
    BY <1>0, RestFacts DEF UploadInv, Places, Queue
  <1>4. Ports'
    <2>1. \A p \in 0..Len(program) : p > port => p # transfer.on
      BY <1>1
    <2> QED
      BY <1>0, <1>1, <1>2, <2>1, RestFacts DEF UploadInv, Ports
  <1>5. Opens'
    BY <1>0, <1>1, <1>2, RestFacts DEF UploadInv, Opens, Fresh
  <1>6. Stores'
    BY <1>0, RestFacts DEF UploadInv, Stores, StorQueued
  <1>7. Sends'
    <2>1. Broken' = Broken
      BY <1>0, <1>1, RestFacts DEF Broken
    <2> QED
      BY <1>0, <1>1, <1>2, <2>1, RestFacts DEF UploadInv, Sends
  <1> QED
    BY <1>3, <1>4, <1>5, <1>6, <1>7 DEF UploadInv

\* The session is dropped with all its connections.
LEMMA UploadDrop ==
    ASSUME ControlTypes, UploadInv, Drop
    PROVE  UploadInv'
  <1> USE Bounds DEF server
  <1>0. /\ ClientRests /\ UNCHANGED <<wire, port, stored>>
        /\ session.fault # "none" /\ line' # "open" /\ commands' = <<>>
        /\ transfer'.kind = "none" /\ transfer'.on = 0
        /\ shut' = [p \in DOMAIN shut |-> shut[p] \cup {"server"}]
    BY DropFacts DEF ClientRests, NoTransfer
  <1>1. /\ shut' \in [0..Len(program) -> SUBSET {"client", "server"}]
    BY <1>0 DEF UploadInv, Ports
  <1>2. 1..Len(commands') = {} /\ port <= Len(program)
    BY <1>0 DEF UploadInv, Queue
  <1>3. Program' /\ Places'
    BY <1>0, RestFacts DEF UploadInv, Places
  <1>4. Queue'
    BY <1>0, <1>2, RestFacts DEF UploadInv, Queue
  <1>5. Ports'
    BY <1>0, <1>1, RestFacts DEF UploadInv, Ports
  <1>6. Opens'
    BY <1>0, RestFacts DEF UploadInv, Opens
  <1>7. Stores'
    BY <1>0, <1>2, RestFacts DEF UploadInv, Stores, StorQueued
  <1>8. Sends'
    BY <1>0, RestFacts DEF UploadInv, Sends
  <1> QED
    BY <1>3, <1>4, <1>5, <1>6, <1>7, <1>8 DEF UploadInv

-----------------------------------------------------------------------------
(* The invariant holds, and the refinement *)

\* The invariant holds at first and after every step.
LEMMA UploadInit == OneUpload /\ Init => UploadInv
  <1> SUFFICES ASSUME OneUpload, Init PROVE UploadInv
    OBVIOUS
  <1>1. Login \in Seq(Operations \cup {"welcome"}) /\ Len(Login) = 3 /\ Login[1] = "welcome"
    BY DEF Login, Operations
  <1>2. session.program \in Seq(Operations \cup {"welcome"})
    <2>1. session.program \in Seq(Operations)
      BY SessionsAssumption DEF Init, Session
    <2> QED
      BY <2>1
  <1>3. /\ program \in Seq(Operations \cup {"welcome"})
        /\ Len(program) = 3 + Len(session.program) /\ program[1] = "welcome"
    <2>1. program = Login \o session.program
      BY DEF Init
    <2> HIDE DEF Login
    <2>2. /\ program \in Seq(Operations \cup {"welcome"})
          /\ Len(program) = Len(Login) + Len(session.program)
          /\ \A i \in 1..Len(Login) : program[i] = Login[i]
      <3>1. LET S == Operations \cup {"welcome"}
            IN  \A s1, s2 \in Seq(S) :
                   /\ s1 \o s2 \in Seq(S)
                   /\ Len(s1 \o s2) = Len(s1) + Len(s2)
                   /\ \A i \in 1..Len(s1) : (s1 \o s2)[i] = s1[i]
        BY ConcatProperties
      <3> QED
        BY <1>1, <1>2, <2>1, <3>1
    <2> QED
      BY <1>1, <2>2
  <1>4. Len(session.program) \in Nat /\ Len(program) \in Nat /\ DOMAIN program = 1..Len(program)
    BY <1>2, <1>3, LenProperties
  <1>5. Program
    BY <1>4 DEF OneUpload, Init, Program
  <1>6. at = 1 /\ 1 \in 1..Len(program) /\ phase = "recv" /\ Op = "welcome"
    BY <1>3, <1>4 DEF Init, Op
  <1>7. commands = <<>> /\ Len(commands) = 0 /\ 1..Len(commands) = {} /\ line = "open"
    BY DEF Init
  <1>8. Places
    BY <1>6, <1>7 DEF Places
  <1>9. Queue
    BY <1>4, <1>6, <1>7 DEF Init, Queue
  <1>10. Ports
    BY <1>4 DEF Init, Ports, MaxPort, NoTransfer
  <1>11. Opens
    BY <1>6 DEF Opens
  <1>12. Stores
    BY <1>7 DEF Init, Stores, StorQueued, NoTransfer
  <1>13. Sends
    <2>1. \A u \in DOMAIN program : ~(u < 1)
      BY <1>4
    <2>2. ~Broken
      BY <1>4 DEF Init, Broken, MaxPort
    <2> QED
      BY <1>6, <2>1, <2>2 DEF Init, Sends
  <1> QED
    BY <1>5, <1>8, <1>9, <1>10, <1>11, <1>12, <1>13 DEF UploadInv

LEMMA UploadStep == ControlTypes /\ UploadInv /\ PasvInv /\ [Next]_vars => UploadInv'
  <1> SUFFICES ASSUME ControlTypes, UploadInv, PasvInv, [Next]_vars PROVE UploadInv'
    OBVIOUS
  <1>1. CASE Client
    BY <1>1, UploadSendCommand, UploadReceive, UploadEnds, UploadConnect, UploadData,
       UploadSendData, UploadSendUnit, UploadSendFails DEF Client
  <1>2. CASE Server
    BY <1>2, UploadServeCommand, UploadServePasv, UploadServeTransfer, UploadWriteListing,
       UploadReadFile, UploadEndTransfer DEF Server
  <1>3. CASE Drop
    BY <1>3, UploadDrop
  <1>4. CASE UNCHANGED vars
    BY <1>4 DEF vars, client, server, UploadInv, Program, Places, Queue, Ports, Opens, Fresh,
                Stores, StorToCome, StorQueued, Sends, SendToCome, Op, Ended, Broken
  <1> QED
    BY <1>1, <1>2, <1>3, <1>4 DEF Next

\* What the abstract specification sees of a step.
LEMMA Stutters ==
    ASSUME UNCHANGED <<session, phase, sent, stored>>
    PROVE  UNCHANGED Uploading!vars
  BY DEF Uploading!vars

\* A client's step that neither sends data nor ends the session.
LEMMA GoesOn ==
    ASSUME phase \in {"call", "recv", "connect", "sending"},
           phase' \in {"call", "recv", "connect", "sending", "end"},
           UNCHANGED <<session, sent, stored>>
    PROVE  UNCHANGED Uploading!vars
  BY DEF Uploading!vars

\* A client's step that ends the session with an exception or a crash.
LEMMA Fails ==
    ASSUME phase \in {"call", "recv", "connect", "sending"},
           phase' \in {"crashed", "thrown", "terminated"},
           UNCHANGED <<session, sent, stored>>
    PROVE  Uploading!Fail
  BY DEF Uploading!Fail

\* Every step is one of the abstract specification, or a stutter.
LEMMA UploadRefines ==
    ASSUME ControlTypes, UploadInv, [Next]_vars
    PROVE  [Uploading!Next]_(Uploading!vars)
  <1> USE DEF server, client
  <1>1. CASE SendCommand
    BY <1>1, GoesOn DEF SendCommand
  <1>2. CASE Receive \/ ReceiveClosed
    <2>1. /\ phase = "recv" /\ phase' \in {"call", "connect", "end"}
          /\ UNCHANGED <<session, sent, stored>>
      BY <1>2 DEF Receive, ReceiveClosed, AfterReceive, Advance
    <2> QED
      BY <2>1, GoesOn
  <1>3. CASE ReceiveFails \/ CrashOnResponse
    <2>1. /\ phase \in {"call", "recv", "connect"} /\ phase' \in {"terminated", "crashed"}
          /\ UNCHANGED <<session, sent, stored>>
      BY <1>3 DEF ReceiveFails, CrashOnResponse
    <2> QED
      BY <2>1, Fails DEF Uploading!Next
  <1>4. CASE ConnectChannel
    <2>1. /\ phase = "connect" /\ phase' \in {"call", "end", "thrown"}
          /\ UNCHANGED <<session, sent, stored>>
      BY <1>4 DEF ConnectChannel, Advance
    <2>2. UNCHANGED Uploading!vars \/ Uploading!Fail
      BY <2>1, GoesOn, Fails
    <2> QED
      BY <2>2 DEF Uploading!Next
  <1>5. CASE ReadData \/ EndSend \/ SendFails
    <2>1. /\ phase \in {"call", "sending"} /\ phase' \in {"call", "end"}
          /\ UNCHANGED <<session, sent, stored>>
      BY <1>5 DEF ReadData, EndSend, SendFails, Advance
    <2> QED
      BY <2>1, GoesOn
  <1>6. CASE SendData
    <2>1. phase = "call" /\ phase' = "sending" /\ sent' = sent /\ UNCHANGED <<session, stored>>
      BY <1>6, UploadSendData DEF SendData
    <2> QED
      BY <2>1, GoesOn
  <1>7. CASE SendUnit
    <2>1. /\ phase = "sending" /\ phase' = phase /\ sent < FileSize /\ sent' = sent + 1
          /\ UNCHANGED <<session, stored>>
      BY <1>7 DEF SendUnit
    <2> QED
      BY <2>1 DEF Uploading!Next, Uploading!Send
  <1>8. CASE Delete
    <2>1. phase = "end" /\ phase' = "deleted" /\ UNCHANGED <<session, sent, stored>>
      BY <1>8 DEF Delete
    <2>2. session.fault = "none" => sent = FileSize
      <3>1. PICK u \in DOMAIN program : program[u] = "send"
        BY DEF UploadInv, Program, UploadsOnce
      <3>2. u < at
        BY <2>1, <3>1 DEF UploadInv, Program, Places
      <3> QED
        BY <3>1, <3>2 DEF UploadInv, Sends
    <2> QED
      BY <2>1, <2>2 DEF Uploading!Next, Uploading!Finish
  <1>9. CASE ReadFile
    <2>1. stored < sent /\ stored' = stored + 1 /\ UNCHANGED <<session, phase, sent>>
      BY <1>9, UploadReadFile DEF ReadFile
    <2> QED
      BY <2>1 DEF Uploading!Next, Uploading!Store
  <1>10. ASSUME NEW op \in {"LIST", "STOR"}, ServeTransfer(op)
         PROVE  [Uploading!Next]_(Uploading!vars)
    <2>1. UNCHANGED <<session, phase, sent>> /\ Takes(op)
      BY <1>10 DEF ServeTransfer
    <2>2. CASE stored' = stored
      BY <2>1, <2>2, Stutters
    <2>3. CASE op = "STOR" /\ stored' = 0
      <3>1. commands[1].op = "STOR" /\ 1 \in 1..Len(commands)
        <4>1. commands[1].op = op /\ Len(commands) > 0
          BY <2>1, TakenFacts
        <4> QED
          BY <2>3, <4>1, Bounds
      <3>2. stored = -1 /\ sent \in Nat
        BY <3>1 DEF UploadInv, Stores, StorQueued
      <3>3. stored < sent /\ stored' = stored + 1
        BY <2>3, <3>2
      <3> QED
        BY <2>1, <3>3 DEF Uploading!Next, Uploading!Store
    <2> QED
      BY <1>10, <2>2, <2>3 DEF ServeTransfer
  <1>11. CASE Exit \/ ServeCommand \/ ServePasv \/ WriteListing \/ EndTransfer \/ Drop
              \/ UNCHANGED vars
    <2>1. UNCHANGED <<session, phase, sent, stored>>
      BY <1>11 DEF Exit, ServeCommand, ServePasv, WriteListing, EndTransfer, Drop, vars
    <2> QED
      BY <2>1, Stutters
  <1> QED
    BY <1>1, <1>2, <1>3, <1>4, <1>5, <1>6, <1>7, <1>8, <1>9, <1>10, <1>11
       DEF Next, Client, Server

\* For any sessions that upload one file each, with any server, file size and
\* splitting of data and replies: what is stored is at any time a prefix of what
\* has been sent, and a session that ends with delete has sent the whole file
\* unless the server was at fault.
THEOREM UploadIsKept == OneUpload => (Spec => UploadAsPromised)
  <1> SUFFICES ASSUME OneUpload PROVE Spec => UploadAsPromised
    OBVIOUS
  <1>1. Init => Uploading!Init
    BY SizesAssumption DEF Init, Uploading!Init
  <1>2. Init => PasvInv
    BY DEF Init, PasvInv, OnePasv, NoPasv, PasvCommands, PortReplies, Reply, Ended
  <1>3. Init => UploadInv
    BY UploadInit
  <1> QED
    BY <1>1, <1>2, <1>3, ControlTypesInit, ControlTypesStep, PasvStep, UploadStep, UploadRefines,
       PTL DEF Spec, UploadAsPromised, Uploading!Spec

-----------------------------------------------------------------------------
(* Types *)

\* What TypeOK says beyond ControlTypes and UploadInv.
Sizes ==
    /\ program \in Seq(Operations \cup {"welcome"})
    /\ at \in 1..Len(program) \/ (at = Len(program) + 1 /\ phase \in {"end", "deleted"})
    /\ sent <= FileSize /\ stored \in -1..FileSize
    /\ \A p \in 0..Len(program) : wire[p] <= Buffer
    /\ transfer.left \in Nat
    /\ transfer.kind # "none" => transfer.for \in DOMAIN program
    /\ \A i \in DOMAIN replies : replies[i].for \in DOMAIN program
    /\ \A i \in DOMAIN response : response[i].for \in DOMAIN program

\* A step between operations leaves all sizes.
LEMMA SizesMove ==
    ASSUME ControlTypes, UploadInv, Sizes, phase = "end" => at' = at /\ phase' = "deleted",
           phase \in {"call", "recv", "connect", "sending", "end"},
           Advance \/ at' = at,
           phase' \in {"deleted", "end"} => Advance \/ phase = "end",
           UNCHANGED <<program, stored>>, transfer' \in {transfer, NoTransfer},
           sent' <= FileSize, \A p \in 0..Len(program) : wire'[p] <= Buffer,
           \A i \in DOMAIN replies' : replies'[i].for \in DOMAIN program,
           \A i \in DOMAIN response' : response'[i].for \in DOMAIN program
    PROVE  Sizes'
  <1> USE Bounds
  <1>1. Len(program) \in Nat /\ (phase # "end" => at \in 1..Len(program))
    BY DEF UploadInv, Program, Places
  <1>2. at' \in 1..Len(program) \/ (at' = Len(program) + 1 /\ phase' \in {"end", "deleted"})
    BY <1>1 DEF Advance, Sizes
  <1>3. transfer'.left \in Nat /\ (transfer'.kind # "none" => transfer'.for \in DOMAIN program)
    BY DEF Sizes, NoTransfer
  <1> QED
    BY <1>2, <1>3 DEF Sizes

\* The client's steps.
LEMMA SizesClient ==
    ASSUME ControlTypes, UploadInv, Sizes, Client
    PROVE  Sizes'
  <1> USE Bounds DEF server
  <1>1. /\ Len(program) \in Nat /\ wire \in [0..Len(program) -> Nat] /\ channel \in 0..Len(program)
        /\ sent \in Nat /\ sent <= FileSize /\ FileSize \in Nat /\ Buffer \in Nat
        /\ \A p \in 0..Len(program) : wire[p] <= Buffer
        /\ DOMAIN response \subseteq Nat
    BY SizesAssumption DEF UploadInv, Program, Queue, Ports, Stores, Sizes, ControlTypes
  <1>2. CASE Receive
    <2>1. PICK n \in 1..Len(replies), head \in Replies :
             /\ Len(response') = n /\ response'[n] = head
             /\ \A i \in 1..(n - 1) : response'[i] = replies[i]
             /\ TakenWhole(n, head) \/ \E rest \in Replies : TakenInPart(n, head, rest)
      BY <1>2, ReceiveFacts
    <2>2. /\ Len(replies) \in Nat /\ DOMAIN replies = 1..Len(replies)
          /\ DOMAIN response' = 1..n /\ DOMAIN replies' = 1..Len(replies')
          /\ replies[n] \in Replies /\ replies[n].for \in DOMAIN program
      BY <1>2, <2>1, ReceiveFacts, LenProperties DEF ControlTypes, Sizes
    <2>3. /\ head.for \in DOMAIN program
          /\ \A i \in DOMAIN replies' : replies'[i].for \in DOMAIN program
      <3>1. CASE TakenWhole(n, head)
        <4>1. ASSUME NEW i \in DOMAIN replies' PROVE replies'[i].for \in DOMAIN program
          <5>1. n + i \in DOMAIN replies /\ replies'[i] = replies[n + i]
            BY <2>2, <3>1 DEF TakenWhole
          <5> QED
            BY <5>1 DEF Sizes
        <4> QED
          BY <2>2, <3>1, <4>1 DEF TakenWhole
      <3>2. ASSUME NEW rest \in Replies, TakenInPart(n, head, rest)
            PROVE  /\ head.for \in DOMAIN program
                   /\ \A i \in DOMAIN replies' : replies'[i].for \in DOMAIN program
        <4>1. head.for = replies[n].for /\ rest.for = replies[n].for
          BY <2>2, <3>2, CutFacts DEF TakenInPart
        <4>2. ASSUME NEW i \in DOMAIN replies', i # 1 PROVE replies'[i].for \in DOMAIN program
          <5>1. i - 1 \in 1..(Len(replies) - n) /\ (i - 1) + 1 = i
            BY <2>2, <3>2, <4>2 DEF TakenInPart
          <5>2. replies'[i] = replies[n + (i - 1)]
            BY <3>2, <5>1 DEF TakenInPart
          <5>3. n + (i - 1) \in DOMAIN replies
            BY <2>2, <5>1
          <5> QED
            BY <5>2, <5>3 DEF Sizes
        <4>3. replies'[1].for \in DOMAIN program
          BY <2>2, <3>2, <4>1 DEF TakenInPart
        <4> QED
          BY <2>2, <4>1, <4>2, <4>3
      <3> QED
        BY <2>1, <3>1, <3>2
    <2>4. ASSUME NEW i \in DOMAIN response' PROVE response'[i].for \in DOMAIN program
      <3>1. CASE i = n
        BY <2>1, <2>3, <3>1
      <3>2. CASE i # n
        <4>1. i \in 1..(n - 1) /\ i \in DOMAIN replies
          BY <2>2, <3>2
        <4> QED
          BY <2>1, <4>1 DEF Sizes
      <3> QED
        BY <3>1, <3>2
    <2>5. /\ phase = "recv" /\ (Advance \/ (at' = at /\ phase' = "connect"))
          /\ UNCHANGED <<program, transfer, stored, sent, wire>>
      BY <1>2 DEF Receive, AfterReceive
    <2> QED
      BY <1>1, <2>3, <2>4, <2>5, SizesMove
  <1>3. CASE ReceiveClosed
    <2>1. /\ phase = "recv" /\ (Advance \/ (at' = at /\ phase' = "connect"))
          /\ response' = <<>> /\ UNCHANGED <<program, transfer, stored, sent, wire, replies>>
      BY <1>3 DEF ReceiveClosed, AfterReceive
    <2> QED
      BY <1>1, <2>1, SizesMove DEF Sizes
  <1>4. CASE SendCommand \/ ReceiveFails \/ CrashOnResponse \/ SendData
    <2>1. /\ phase \in {"call", "recv", "connect"} /\ at' = at
          /\ phase' \in {"recv", "terminated", "crashed", "sending"}
          /\ sent' \in {sent, 0}
          /\ UNCHANGED <<program, transfer, stored, wire, replies, response>>
      BY <1>4 DEF SendCommand, ReceiveFails, CrashOnResponse, SendData
    <2>2. sent' <= FileSize
      BY <1>1, <2>1
    <2> QED
      BY <1>1, <2>1, <2>2, SizesMove DEF Sizes
  <1>5. CASE ConnectChannel \/ EndSend \/ SendFails
    <2>1. /\ phase \in {"connect", "sending"} /\ (Advance \/ (at' = at /\ phase' = "thrown"))
          /\ UNCHANGED <<program, stored, sent, wire, response>>
      BY <1>5 DEF ConnectChannel, EndSend, SendFails
    <2>2. replies' \in {replies, <<>>} /\ transfer' \in {transfer, NoTransfer}
      BY <1>5, CloseFacts DEF ConnectChannel, EndSend, SendFails
    <2>3. \A i \in DOMAIN replies' : replies'[i].for \in DOMAIN program
      BY <2>2 DEF Sizes
    <2> QED
      BY <1>1, <2>1, <2>2, <2>3, SizesMove DEF Sizes
  <1>6. CASE ReadData
    <2>1. /\ phase = "call" /\ Advance
          /\ UNCHANGED <<program, transfer, stored, sent, replies, response>>
      BY <1>6 DEF ReadData
    <2>2. PICK n \in 0..wire[channel] : wire' = [wire EXCEPT ![channel] = @ - n]
      BY <1>6 DEF ReadData
    <2>3. wire[channel] - n <= Buffer
      <3>1. wire[channel] \in Nat /\ wire[channel] <= Buffer
        BY <1>1
      <3> QED
        BY <1>1, <3>1
    <2>4. \A p \in 0..Len(program) : wire'[p] <= Buffer
      BY <1>1, <2>2, <2>3
    <2> QED
      BY <1>1, <2>1, <2>4, SizesMove DEF Sizes
  <1>7. CASE SendUnit
    <2>1. /\ phase = "sending" /\ at' = at /\ phase' = phase /\ sent < FileSize /\ sent' = sent + 1
          /\ wire[channel] < Buffer /\ wire' = [wire EXCEPT ![channel] = @ + 1]
          /\ UNCHANGED <<program, transfer, stored, replies, response>>
      BY <1>7 DEF SendUnit
    <2>2. sent' <= FileSize
      BY <1>1, <2>1
    <2>3. wire[channel] + 1 <= Buffer
      <3>1. wire[channel] \in Nat
        BY <1>1
      <3> QED
        BY <1>1, <2>1, <3>1
    <2>4. \A p \in 0..Len(program) : wire'[p] <= Buffer
      BY <1>1, <2>1, <2>3
    <2> QED
      BY <1>1, <2>1, <2>2, <2>4, SizesMove DEF Sizes
  <1>8. CASE Delete
    <2>1. /\ phase = "end" /\ at' = at /\ phase' = "deleted"
          /\ UNCHANGED <<program, transfer, stored, sent, wire, replies, response>>
      BY <1>8 DEF Delete
    <2> QED
      BY <1>1, <2>1, SizesMove DEF Sizes
  <1>9. CASE Exit
    BY <1>9 DEF Exit, client, Sizes
  <1> QED
    BY <1>2, <1>3, <1>4, <1>5, <1>6, <1>7, <1>8, <1>9 DEF Client

\* A reply goes to an operation of the program.
LEMMA SizesAnswer ==
    ASSUME ControlTypes, Sizes, NEW r \in Replies, Answer(r), r.for \in DOMAIN program
    PROVE  \A i \in DOMAIN replies' : replies'[i].for \in DOMAIN program
  <1>1. /\ Len(replies) \in Nat /\ DOMAIN replies = 1..Len(replies)
        /\ DOMAIN replies' = 1..(Len(replies) + 1) /\ replies'[Len(replies) + 1] = r
        /\ \A i \in 1..Len(replies) : replies'[i] = replies[i]
    BY AppendProperties, LenProperties DEF ControlTypes, Answer
  <1> QED
    BY <1>1 DEF Sizes

\* The server's steps.
LEMMA SizesServer ==
    ASSUME ControlTypes, UploadInv, Sizes, line = "open", Server \/ Drop
    PROVE  Sizes'
  <1> USE Bounds
  <1>1. /\ Len(program) \in Nat /\ DOMAIN program = 1..Len(program)
        /\ wire \in [0..Len(program) -> Nat] /\ transfer.on \in 0..Len(program)
        /\ sent \in Nat /\ sent <= FileSize /\ FileSize \in Nat /\ Buffer \in Nat
        /\ stored \in -1..FileSize /\ \A p \in 0..Len(program) : wire[p] <= Buffer
    BY SizesAssumption DEF UploadInv, Program, Queue, Ports, Stores, Sizes
  <1>2. ASSUME NEW op, Takes(op)
        PROVE  Head(commands).for \in DOMAIN program /\ Head(commands).for \in Nat
    <2>1. Head(commands) = commands[1] /\ 1 \in 1..Len(commands)
      <3>1. commands # <<>> /\ commands \in Seq([op : Commands, for : Nat])
        BY <1>2 DEF Takes, ControlTypes
      <3>2. Head(commands) = commands[1]
        BY <3>1, HeadTailProperties
      <3> QED
        BY <3>1, <3>2
    <2>2. /\ commands[1].for \in Nat /\ port < commands[1].for
          /\ commands[1].for <= Len(program)
      BY <2>1, CommandTypes DEF UploadInv, Queue
    <2> QED
      BY <1>1, <2>1, <2>2
  <1>3. ASSUME NEW r \in Replies, Answer(r), r.for \in DOMAIN program, UNCHANGED client,
               wire' = wire, stored' \in {stored, 0}, transfer'.left \in Nat,
               transfer'.kind # "none" => transfer'.for \in DOMAIN program
        PROVE  Sizes'
    <2>1. \A i \in DOMAIN replies' : replies'[i].for \in DOMAIN program
      BY <1>3, SizesAnswer
    <2>2. stored' \in -1..FileSize
      BY <1>1, <1>3
    <2>3. UNCHANGED <<program, at, phase, sent, response>>
      BY <1>3 DEF client
    <2> QED
      BY <1>3, <2>1, <2>2, <2>3 DEF Sizes
  <1>4. CASE ServeCommand
    <2> DEFINE r == Reply(Head(commands).for, 250)
    <2>1. r \in Replies /\ r.for \in DOMAIN program
      BY <1>2, <1>4 DEF ServeCommand, Reply, Replies, Codes
    <2>2. /\ Answer(r) /\ UNCHANGED <<client, wire, transfer, stored>>
      BY <1>4 DEF ServeCommand, server
    <2>3. transfer'.left \in Nat /\ (transfer'.kind # "none" => transfer'.for \in DOMAIN program)
      BY <2>2 DEF Sizes
    <2> HIDE DEF r
    <2> QED
      BY <1>3, <2>1, <2>2, <2>3
  <1>5. CASE ServePasv
    <2> DEFINE r == [for |-> Head(commands).for, code |-> 227, port |-> port + 1]
    <2>1. r \in Replies /\ r.for \in DOMAIN program
      BY <1>2, <1>5 DEF ServePasv, Replies
    <2>2. /\ Answer(r) /\ UNCHANGED <<client, wire, transfer, stored>>
      BY <1>5 DEF ServePasv
    <2>3. transfer'.left \in Nat /\ (transfer'.kind # "none" => transfer'.for \in DOMAIN program)
      BY <2>2 DEF Sizes
    <2> HIDE DEF r
    <2> QED
      BY <1>3, <2>1, <2>2, <2>3
  <1>6. ASSUME NEW op \in {"LIST", "STOR"}, ServeTransfer(op) PROVE Sizes'
    <2>1. Takes(op) /\ UNCHANGED <<client, wire>> /\ stored' \in {stored, 0}
      BY <1>6 DEF ServeTransfer
    <2>2. Head(commands).for \in DOMAIN program /\ Head(commands).for \in Nat
      BY <1>2, <2>1
    <2>3. Size(op) \in Nat
      BY SessionsAssumption DEF Size, Session, ControlTypes
    <2>4. transfer'.left \in Nat /\ (transfer'.kind # "none" => transfer'.for \in DOMAIN program)
      BY <1>6, <2>2, <2>3 DEF ServeTransfer, Sizes
    <2>5. ASSUME NEW code \in {150, 550}, Answer(Reply(Head(commands).for, code)) PROVE Sizes'
      <3>1. /\ Reply(Head(commands).for, code) \in Replies
            /\ Reply(Head(commands).for, code).for = Head(commands).for
        BY <2>2 DEF Reply, Replies, Codes
      <3> QED
        BY <1>3, <2>1, <2>2, <2>4, <2>5, <3>1
    <2> QED
      BY <1>6, <2>5 DEF ServeTransfer
  <1>7. CASE WriteListing
    <2>1. /\ UNCHANGED <<client, replies, stored>> /\ transfer.left > 0
          /\ wire[transfer.on] < Buffer /\ wire' = [wire EXCEPT ![transfer.on] = @ + 1]
          /\ transfer'.left = transfer.left - 1 /\ transfer'.kind = transfer.kind
          /\ transfer'.for = transfer.for
      BY <1>7 DEF WriteListing, ControlTypes
    <2>2. wire[transfer.on] + 1 <= Buffer
      <3>1. wire[transfer.on] \in Nat
        BY <1>1
      <3> QED
        BY <1>1, <2>1, <3>1
    <2>3. \A p \in 0..Len(program) : wire'[p] <= Buffer
      BY <1>1, <2>1, <2>2
    <2>4. transfer'.left \in Nat
      BY <2>1 DEF Sizes
    <2>5. UNCHANGED <<program, at, phase, sent, response>>
      BY <2>1 DEF client
    <2> QED
      BY <2>1, <2>3, <2>4, <2>5 DEF Sizes
  <1>8. CASE ReadFile
    <2>1. /\ UNCHANGED <<client, replies, transfer>> /\ stored' = stored + 1
          /\ wire[transfer.on] > 0 /\ wire' = [wire EXCEPT ![transfer.on] = @ - 1]
      BY <1>8 DEF ReadFile
    <2>2. wire[transfer.on] - 1 <= Buffer
      <3>1. wire[transfer.on] \in Nat /\ wire[transfer.on] <= Buffer
        BY <1>1
      <3> QED
        BY <1>1, <3>1
    <2>3. \A p \in 0..Len(program) : wire'[p] <= Buffer
      BY <1>1, <2>1, <2>2
    <2>4. stored < sent
      BY <1>8, UploadReadFile
    <2>5. stored' \in -1..FileSize
      BY <1>1, <2>1, <2>4
    <2>6. UNCHANGED <<program, at, phase, sent, response>>
      BY <2>1 DEF client
    <2> QED
      BY <2>1, <2>3, <2>5, <2>6 DEF Sizes
  <1>9. CASE EndTransfer
    <2> DEFINE r == Reply(transfer.for, IF transfer.left = 0 THEN 226 ELSE 426)
    <2>1. r \in Replies /\ r.for \in DOMAIN program
      BY <1>9 DEF EndTransfer, Busy, Reply, Replies, Codes, ControlTypes, Sizes
    <2>2. /\ Answer(r) /\ UNCHANGED <<client, wire, stored>>
          /\ transfer'.left = 0 /\ transfer'.kind = "none"
      BY <1>9 DEF EndTransfer, NoTransfer
    <2> HIDE DEF r
    <2> QED
      BY <1>3, <2>1, <2>2
  <1>10. CASE Drop
    <2>1. /\ UNCHANGED <<program, at, phase, sent, response, replies, wire, stored>>
          /\ transfer'.left = 0 /\ transfer'.kind = "none"
      BY <1>10, DropFacts DEF NoTransfer, client
    <2> QED
      BY <2>1 DEF Sizes
  <1> QED
    BY <1>4, <1>5, <1>6, <1>7, <1>8, <1>9, <1>10 DEF Server

\* They hold at first.
LEMMA SizesInit == OneUpload /\ Init => Sizes
  <1> SUFFICES ASSUME OneUpload, Init PROVE Sizes
    OBVIOUS
  <1>1. /\ Len(program) \in Nat /\ DOMAIN program = 1..Len(program) /\ 1 \in 1..Len(program)
    BY UploadInit DEF UploadInv, Program, Places, Init
  <1>2. program \in Seq(Operations \cup {"welcome"})
    <2>1. session.program \in Seq(Operations)
      BY SessionsAssumption DEF Init, Session
    <2>2. session.program \in Seq(Operations \cup {"welcome"})
      BY <2>1
    <2>3. Login \in Seq(Operations \cup {"welcome"})
      BY DEF Login, Operations
    <2>4. program = Login \o session.program
      BY DEF Init
    <2> HIDE DEF Login
    <2> QED
      BY <2>2, <2>3, <2>4, ConcatProperties
  <1>3. \A i \in DOMAIN replies : replies[i].for = 1
    BY DEF Init, Reply
  <1> QED
    BY <1>1, <1>2, <1>3, SizesAssumption DEF Init, Sizes, NoTransfer, MaxPort

\* For any sessions that upload one file each: every variable keeps its type, and
\* neither the client nor the server ever gets past the end of the program, of
\* the file, or of what a connection holds.
THEOREM TypeCorrect == OneUpload => (Spec => []TypeOK)
  <1> SUFFICES ASSUME OneUpload PROVE Spec => []TypeOK
    OBVIOUS
  <1>1. Init => PasvInv
    BY DEF Init, PasvInv, OnePasv, NoPasv, PasvCommands, PortReplies, Reply, Ended
  <1>2. Init => UploadInv /\ Sizes
    BY UploadInit, SizesInit
  <1>3. ControlTypes /\ UploadInv /\ Sizes /\ [Next]_vars => Sizes'
    <2> SUFFICES ASSUME ControlTypes, UploadInv, Sizes, [Next]_vars PROVE Sizes'
      OBVIOUS
    <2>1. CASE Client
      BY <2>1, SizesClient
    <2>2. CASE Server \/ Drop
      <3>1. line = "open"
        BY <2>2 DEF Server, Drop
      <3> QED
        BY <2>2, <3>1, SizesServer
    <2>3. CASE UNCHANGED vars
      BY <2>3 DEF vars, client, server, Sizes
    <2> QED
      BY <2>1, <2>2, <2>3 DEF Next
  <1>4. ControlTypes /\ UploadInv /\ Sizes => TypeOK
    <2> SUFFICES ASSUME ControlTypes, UploadInv, Sizes PROVE TypeOK
      OBVIOUS
    <2> USE Bounds
    <2>1. Len(program) \in Nat /\ DOMAIN program = 1..Len(program) /\ MaxPort = Len(program)
      BY DEF UploadInv, Program, MaxPort
    <2>2. /\ channel \in 0..MaxPort /\ port \in 0..MaxPort /\ transfer.on \in 0..MaxPort
          /\ shut \in [0..MaxPort -> SUBSET {"client", "server"}]
      BY <2>1 DEF UploadInv, Queue, Ports
    <2>3. wire \in [0..MaxPort -> 0..Buffer]
      <3>1. wire \in [0..MaxPort -> Nat] /\ \A p \in 0..MaxPort : wire[p] <= Buffer
        BY <2>1 DEF UploadInv, Ports, Sizes
      <3>2. \A p \in 0..MaxPort : wire[p] \in 0..Buffer
        BY <3>1, SizesAssumption
      <3> QED
        BY <3>1, <3>2
    <2>4. commands \in Seq([op : Commands, for : DOMAIN program])
      <3>1. ASSUME NEW i \in 1..Len(commands)
            PROVE  commands[i] \in [op : Commands, for : DOMAIN program]
        <4>1. commands[i] \in [op : Commands, for : Nat]
          BY ElementOfSeq DEF ControlTypes
        <4>2. commands[i].for \in Nat /\ port < commands[i].for /\ commands[i].for <= Len(program)
          BY CommandTypes DEF UploadInv, Queue
        <4>3. commands[i].for \in DOMAIN program
          BY <2>1, <4>2
        <4> QED
          BY <4>1, <4>3
      <3>2. commands \in [1..Len(commands) -> [op : Commands, for : DOMAIN program]]
        BY <3>1, LenProperties DEF ControlTypes
      <3>3. ASSUME NEW S, NEW n \in Nat, NEW c \in [1..n -> S] PROVE c \in Seq(S)
        BY SeqDef
      <3> QED
        BY <2>1, <3>2, <3>3
    <2>5. transfer \in [kind : {"none", "LIST", "STOR"}, on : 0..MaxPort, left : Nat, for : Nat]
      BY <2>2 DEF ControlTypes, Sizes
    <2>6. \A stream \in {response, replies} : \A i \in DOMAIN stream :
             /\ stream[i].for \in DOMAIN program
             /\ stream[i].code \in {0, 150, 220, 226, 227, 250, 426, 550}
      <3>1. ASSUME NEW stream \in Seq(Replies), NEW i \in DOMAIN stream
            PROVE  stream[i].code \in {0, 150, 220, 226, 227, 250, 426, 550}
        <4>1. stream[i] \in Replies
          BY <3>1
        <4> QED
          BY <4>1 DEF Replies, Codes
      <3> QED
        BY <3>1 DEF ControlTypes, Sizes
    <2>7. sent \in 0..FileSize
      BY SizesAssumption DEF UploadInv, Stores, Sizes
    <2> QED
      BY <2>1, <2>2, <2>3, <2>4, <2>5, <2>6, <2>7
         DEF TypeOK, ControlTypes, UploadInv, Places, Ended, Sizes
  <1> QED
    BY <1>1, <1>2, <1>3, <1>4, ControlTypesInit, ControlTypesStep, PasvStep, UploadStep,
       PTL DEF Spec
================================================================================
