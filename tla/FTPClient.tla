------------------------------ MODULE FTPClient ------------------------------
(***************************************************************************)
(* The class FTP_client of FTPClient.h and FTPClient.cpp in a session with *)
(* an FTP server.  A program calls the client's operations one by one; the *)
(* server runs beside it.  The control connection is a stream: a recv      *)
(* returns any nonempty part of what the server has sent, and may cut a    *)
(* reply in two.  Every execute_command does one recv, whatever the        *)
(* command.  The server may also close the connection, or the connection   *)
(* may be reset.                                                           *)
(*                                                                         *)
(* The server is external: RFC 959 as far as the client depends on it.     *)
(***************************************************************************)
EXTENDS Integers, SequencesExt

CONSTANTS
    Sessions,    \* sessions: what the user calls, with which server
    FileSize,    \* units of data STOR sends
    RecvSize,    \* units one recv returns at most (DEFAULT_BUFLEN)
    Buffer       \* units the data connection holds between the two sides

\* "PASV" stands for request_new_data_channel, "LIST" and "STOR" for
\* execute_command with that command, "CMD" for any other command.
Operations == {"CMD", "PASV", "LIST", "STOR", "read", "send"}
Commands   == {"CMD", "PASV", "LIST", "STOR"}

\* cuts: a reply may arrive in pieces, one of several lines or any other;
\* listing: units of data LIST gives; sequential: the server takes no command
\* during a transfer; fault: it may refuse a transfer or a data connection, drop
\* the session, or abort it when the client closes without QUIT.
Session == [program : Seq(Operations), cuts : BOOLEAN, listing : Nat,
            sequential : BOOLEAN, fault : {"none", "refuses", "drops", "aborts"}]

ASSUME SessionsAssumption == Sessions \subseteq Session
ASSUME SizesAssumption == FileSize \in Nat /\ RecvSize \in Nat \ {0} /\ Buffer \in Nat \ {0}

VARIABLES
    session,    \* the session
    program,    \* its operations, login included
    at,         \* the operation in progress
    phase,      \* where it is: call, recv, connect or sending; or how it ended
    response,   \* what the last recv on the control connection returned
    channel,    \* port of data_channel, 0 for nullptr
    sent,       \* units send_data has sent
    commands,   \* the control connection to the server
    replies,    \* the control connection from the server
    line,       \* the control connection: open, closed by the server, or reset
    port,       \* the server's data port of the last PASV, 0 for none
    wire,       \* wire[p]: units in flight on data connection p
    shut,       \* shut[p]: who has closed data connection p
    transfer,   \* the transfer the server is engaged in
    stored      \* units of the file the server has stored, or -1

client == <<session, program, at, phase, response, channel, sent>>
server == <<port, transfer, stored>>
vars == <<client, commands, replies, line, wire, shut, server>>

MaxPort == Len(program)
NoTransfer == [kind |-> "none", on |-> 0, left |-> 0, for |-> 0]

\* A reply: the operation it answers and the reply code; that of PASV has a port.
Reply(for, code) == [for |-> for, code |-> code]

\* A part of a reply without the commas of a port; and one with some of them, or
\* with a number cut short: 0 is for a port that is not complete.
Part(r) == Reply(r.for, 0)
PortCut(r) == [r EXCEPT !.port = 0]

\* The two pieces of a reply: one to PASV is cut behind its port, within the last
\* number, between the commas, or in front of them.
Cuts(r) ==
    IF r.code = 227
    THEN {<<r, Part(r)>>, <<PortCut(r), Part(r)>>, <<PortCut(r), PortCut(r)>>, <<Part(r), r>>}
    ELSE {<<Part(r), Part(r)>>}

-----------------------------------------------------------------------------
\* login() is a receive and two commands; then the user's operations.
Login == <<"welcome", "CMD", "CMD">>
Op == program[at]

Init ==
    /\ session \in Sessions
    /\ program = Login \o session.program
    /\ replies = <<Reply(1, 220)>>
    /\ at = 1 /\ phase = "recv"
    /\ response = <<>> /\ channel = 0 /\ sent = 0
    /\ commands = <<>> /\ line = "open"
    /\ port = 0
    /\ wire = [p \in 0..MaxPort |-> 0]
    /\ shut = [p \in 0..MaxPort |-> {}]
    /\ transfer = NoTransfer /\ stored = -1

-----------------------------------------------------------------------------
(* The client *)

\* The control connection ends with all the session's data connections.
Sever(how, closed) ==
    /\ line' = how
    /\ commands' = <<>> /\ transfer' = NoTransfer
    /\ shut' = [p \in DOMAIN closed |-> closed[p] \cup {"server"}]

\* The operation is over; the mutant does not see the end of the session.
Advance_NoEnd == at' = at + 1 /\ phase' = "call"
Advance == /\ at' = at + 1
           /\ phase' = IF at = Len(program) THEN "end" ELSE "call"

\* execute_command, also of request_new_data_channel: send, then receive.  After
\* the server has closed, what is sent is answered by a reset, soon or later; on
\* a connection that is reset the send fails, which is ignored.
SendCommand ==
    /\ phase = "call" /\ Op \in Commands
    /\ commands' = IF line = "open" THEN Append(commands, [op |-> Op, for |-> at]) ELSE commands
    /\ line' \in IF line = "closed" THEN {"closed", "reset"} ELSE {line}
    /\ phase' = "recv"
    /\ UNCHANGED <<session, program, at, response, channel, sent, replies, wire, shut, server>>

\* One recv may return the first n replies; the mutant waits for the final
\* reply of a transfer.
ReceiveReady_Final(n) ==
    /\ n \in 1..Len(replies)
    /\ Op \in {"LIST", "STOR"} => replies[n].code # 150
ReceiveReady(n) == n \in 1..Len(replies)

\* What it returns if the n-th gives head; the mutant keeps what an earlier recv
\* left in the buffer.
Received_NotCleared(n, head) == response \o Append(SubSeq(replies, 1, n - 1), head)
Received(n, head) == Append(SubSeq(replies, 1, n - 1), head)

Unread(n) == SubSeq(replies, n + 1, Len(replies))

AfterReceive == IF Op = "PASV" THEN phase' = "connect" /\ UNCHANGED at ELSE Advance

Receive ==
    /\ phase = "recv"
    /\ \E n \in 1..Len(replies) :
          /\ ReceiveReady(n)
          /\ \/ response' = Received(n, replies[n]) /\ replies' = Unread(n)
             \/ /\ session.cuts
                /\ \E cut \in Cuts(replies[n]) :
                      response' = Received(n, cut[1]) /\ replies' = <<cut[2]>> \o Unread(n)
    /\ AfterReceive
    /\ UNCHANGED <<session, program, channel, sent, commands, line, wire, shut, server>>

\* recv returns 0: receive returns an empty text, and the session goes on.
ReceiveClosed ==
    /\ phase = "recv" /\ line = "closed" /\ replies = <<>>
    /\ response' = <<>>
    /\ AfterReceive
    /\ UNCHANGED <<session, program, channel, sent, commands, replies, line, wire, shut, server>>

\* A send on the data channel has failed and has closed its socket.
Broken == "client" \in shut[channel]

\* recv returns -1, on the control connection, on a data channel that went with
\* it or on a broken one: the string from recvbuf to recvbuf - 1 throws a
\* length_error.
ReceiveFails ==
    /\ \/ phase = "recv" /\ line = "reset"
       \/ phase = "call" /\ Op = "read" /\ (line = "reset" \/ Broken)
    /\ phase' = "terminated"
    /\ UNCHANGED <<session, program, at, response, channel, sent, commands, replies, line,
                   wire, shut, server>>

\* The port is parsed from the response: the first with commas in it.
PasvReplies == {i \in DOMAIN response : response[i].code = 227}
PasvPort == response[CHOOSE i \in PasvReplies : \A j \in PasvReplies : i <= j].port

\* Not enough commas: split[4] or split[5] is past the end of the vector; or no
\* number behind one: stoi throws.
CrashOnResponse ==
    /\ phase = "connect" /\ (PasvReplies # {} => PasvPort = 0)
    /\ phase' = "crashed"
    /\ UNCHANGED <<session, program, at, response, channel, sent, commands, replies, line, wire, shut, server>>

\* closesocket and WSACleanup for the data channel.  After a send that failed
\* they are done for the second time: it is the last WSACleanup, and the control
\* connection is gone.
CloseChannel ==
    LET closed == [shut EXCEPT ![channel] = @ \cup {"client"}] IN
    IF Broken THEN Sever("reset", closed) /\ replies' = <<>>
              ELSE shut' = closed /\ UNCHANGED <<commands, line, transfer, replies>>

\* The old channel is deleted, the new one connected, or the constructor of
\* Win_socket throws.
ConnectChannel ==
    /\ phase = "connect" /\ PasvReplies # {}
    /\ CloseChannel
    /\ \/ /\ PasvPort = port /\ line = "open"
          /\ channel' = PasvPort /\ Advance
       \/ /\ PasvPort # port \/ session.fault = "refuses" \/ line # "open" \/ Broken
          /\ channel' = 0 /\ phase' = "thrown" /\ UNCHANGED at
    /\ UNCHANGED <<session, program, response, sent, wire, port, stored>>

\* read_data: one recv on the data channel, 0 units when the server has closed.
ReadData ==
    /\ phase = "call" /\ Op = "read" /\ ~Broken
    /\ wire[channel] > 0 \/ "server" \in shut[channel]
    /\ \E n \in 0..wire[channel] :
          /\ n <= RecvSize
          /\ wire[channel] > 0 => n > 0
          /\ wire' = [wire EXCEPT ![channel] = @ - n]
    /\ Advance
    /\ UNCHANGED <<session, program, response, channel, sent, commands, replies, line, shut, server>>

\* send_data: one blocking send of the whole text.
SendData ==
    /\ phase = "call" /\ Op = "send"
    /\ sent' = 0
    /\ phase' = "sending"
    /\ UNCHANGED <<session, program, at, response, channel, commands, replies, line, wire, shut, server>>

SendUnit ==
    /\ phase = "sending" /\ sent < FileSize /\ ~Broken
    /\ wire[channel] < Buffer
    /\ wire' = [wire EXCEPT ![channel] = @ + 1]
    /\ sent' = sent + 1
    /\ UNCHANGED <<session, program, at, phase, response, channel, commands, replies, line, shut, server>>

\* All is sent; the mutant takes a send of a part of the text for the whole.
EndSend_Partly ==
    /\ phase = "sending" /\ sent > 0 /\ ~Broken
    /\ Advance
    /\ UNCHANGED <<session, program, response, channel, sent, commands, replies, line, wire, shut, server>>

EndSend ==
    /\ phase = "sending" /\ sent = FileSize /\ ~Broken
    /\ Advance
    /\ UNCHANGED <<session, program, response, channel, sent, commands, replies, line, wire, shut, server>>

\* The send fails, because the server has closed, or an earlier send the socket.
\* It closes the socket and returns -1, which send_data ignores.
SendFails ==
    /\ phase = "sending" /\ ("server" \in shut[channel] \/ Broken)
    /\ CloseChannel
    /\ Advance
    /\ UNCHANGED <<session, program, response, channel, sent, wire, port, stored>>

\* delete ftp: the data channel is closed, then the control connection.
Delete ==
    /\ phase = "end"
    /\ shut' = [shut EXCEPT ![channel] = @ \cup {"client"}]
    /\ phase' = "deleted"
    /\ UNCHANGED <<session, program, at, response, channel, sent, commands, replies, line, wire, server>>

\* After an exception or a crash the system closes what is open.
Exit ==
    /\ phase \in {"crashed", "thrown", "terminated"} /\ "client" \notin shut[channel]
    /\ shut' = [shut EXCEPT ![channel] = @ \cup {"client"}]
    /\ UNCHANGED <<client, commands, replies, line, wire, server>>

Client == \/ SendCommand \/ Receive \/ ReceiveClosed \/ ReceiveFails
          \/ CrashOnResponse \/ ConnectChannel
          \/ ReadData \/ SendData \/ SendUnit \/ EndSend \/ SendFails \/ Delete \/ Exit

-----------------------------------------------------------------------------
(* The server *)

Answer(reply) == replies' = Append(replies, reply)

Busy == transfer.kind # "none"

\* The next command the server is ready to take.
Takes(op) == /\ commands # <<>> /\ Head(commands).op = op
             /\ Busy => ~session.sequential /\ op \notin {"LIST", "STOR"}
             /\ commands' = Tail(commands)

ServeCommand ==
    /\ Takes("CMD")
    /\ Answer(Reply(Head(commands).for, 250))
    /\ UNCHANGED <<client, line, wire, shut, server>>

\* PASV opens a new port and forgets the one before.
ServePasv ==
    /\ Takes("PASV")
    /\ port' = port + 1
    /\ Answer([for |-> Head(commands).for, code |-> 227, port |-> port + 1])
    /\ UNCHANGED <<client, line, wire, shut, transfer, stored>>

Size(op) == IF op = "LIST" THEN session.listing ELSE 0

ServeTransfer(op) ==
    /\ Takes(op)
    /\ \/ /\ Answer(Reply(Head(commands).for, 150))
          /\ transfer' = [kind |-> op, on |-> port, left |-> Size(op), for |-> Head(commands).for]
          /\ stored' = IF op = "STOR" THEN 0 ELSE stored
          /\ UNCHANGED shut
       \/ /\ session.fault = "refuses"
          /\ Answer(Reply(Head(commands).for, 550))
          /\ shut' = [shut EXCEPT ![port] = @ \cup {"server"}]
          /\ UNCHANGED <<transfer, stored>>
    /\ UNCHANGED <<client, line, wire, port>>

\* Data of a listing is written as far as the connection holds it.
WriteListing ==
    /\ transfer.kind = "LIST" /\ transfer.left > 0
    /\ wire[transfer.on] < Buffer /\ "client" \notin shut[transfer.on]
    /\ wire' = [wire EXCEPT ![transfer.on] = @ + 1]
    /\ transfer' = [transfer EXCEPT !.left = @ - 1]
    /\ UNCHANGED <<client, commands, replies, line, shut, port, stored>>

ReadFile ==
    /\ transfer.kind = "STOR" /\ wire[transfer.on] > 0
    /\ wire' = [wire EXCEPT ![transfer.on] = @ - 1]
    /\ stored' = stored + 1
    /\ UNCHANGED <<client, commands, replies, line, shut, port, transfer>>

\* The transfer ends: 226 when all is written or the client has closed after
\* its file, 426 when the client closed a listing too early.
EndTransfer ==
    /\ Busy
    /\ \/ transfer.kind = "LIST" /\ (transfer.left = 0 \/ "client" \in shut[transfer.on])
       \/ transfer.kind = "STOR" /\ wire[transfer.on] = 0 /\ "client" \in shut[transfer.on]
    /\ Answer(Reply(transfer.for, IF transfer.left = 0 THEN 226 ELSE 426))
    /\ shut' = [shut EXCEPT ![transfer.on] = @ \cup {"server"}]
    /\ transfer' = NoTransfer
    /\ UNCHANGED <<client, commands, line, wire, port, stored>>

Over == phase \in {"deleted", "crashed", "thrown", "terminated"}

\* The server or the network ends the session, at any time, or when the client
\* has closed the control connection without QUIT.
Drop ==
    /\ session.fault = "drops" \/ (session.fault = "aborts" /\ Over)
    /\ line = "open"
    /\ \E how \in {"closed", "reset"} : Sever(how, shut)
    /\ UNCHANGED <<client, replies, wire, port, stored>>

Server ==
    /\ line = "open"
    /\ \/ ServeCommand \/ ServePasv \/ \E op \in {"LIST", "STOR"} : ServeTransfer(op)
       \/ WriteListing \/ ReadFile \/ EndTransfer

-----------------------------------------------------------------------------
Next == Client \/ Server \/ Drop \/ (Over /\ UNCHANGED vars)

Spec == Init /\ [][Next]_vars

\* Both processes run; a recv or send that can return does.
FairSpec == Spec /\ WF_vars(Client) /\ WF_vars(Server)

-----------------------------------------------------------------------------
(* Properties *)

\* Every variable keeps its type, and a session that goes on has an operation.
TypeOK ==
    /\ session \in Sessions
    /\ program \in Seq(Operations \cup {"welcome"})
    /\ phase \in {"call", "recv", "connect", "sending", "end",
                 "deleted", "crashed", "thrown", "terminated"}
    /\ line \in {"open", "closed", "reset"}
    /\ at \in 1..Len(program) \/ (at = Len(program) + 1 /\ phase \in {"end", "deleted"})
    /\ \A stream \in {response, replies} : \A i \in DOMAIN stream :
          /\ stream[i].for \in DOMAIN program
          /\ stream[i].code \in {0, 150, 220, 226, 227, 250, 426, 550}
    /\ commands \in Seq([op : Commands, for : DOMAIN program])
    /\ channel \in 0..MaxPort /\ port \in 0..MaxPort
    /\ sent \in 0..FileSize
    /\ wire \in [0..MaxPort -> 0..Buffer]
    /\ shut \in [0..MaxPort -> SUBSET {"client", "server"}]
    /\ transfer \in [kind : {"none", "LIST", "STOR"}, on : 0..MaxPort, left : Nat, for : Nat]
    /\ stored \in -1..FileSize

\* The operation whose reply was read last, while no other is in progress.
Answered == IF phase = "connect" THEN at ELSE at - 1
HasAnswer == \/ phase = "connect"
             \/ phase = "call" /\ at > 1 /\ program[at - 1] \in Commands \ {"PASV"}

\* However far the replies lag behind the commands and wherever they are cut,
\* request_new_data_channel never goes to the port of an earlier PASV: the
\* response it parses has the current port, a part of it, or none.
PasvPortIsCurrent ==
    phase = "connect" /\ PasvReplies # {} => PasvPort \in {0, port}

\* Up to the first LIST or STOR only a reply that arrives in pieces can bring
\* client and server out of step.  Without one each command returns its own reply,
\* alone, or an empty one when the server has closed the connection.  With one
\* the commands return the pieces of earlier replies, but the connection neither
\* loses nor repeats a reply: the end of the reply to the last command is still
\* to come, or is the last that was read, and then they are in step again.
InStepUntilTransfer ==
    /\ HasAnswer
    /\ \A i \in 1..Answered : program[i] \notin {"LIST", "STOR"}
    => /\ ~session.cuts => \/ Len(response) = 1 /\ response[1].for = Answered
                           \/ response = <<>> /\ line # "open"
       /\ line = "open" => /\ response # <<>>
                           /\ commands = <<>> => Last(response \o replies).for = Answered

\* A sequential server waits for the client to take the data of a listing or to
\* close the channel of an upload, the client for the reply to its next command.
ChannelStandoff ==
    /\ phase = "recv" /\ replies = <<>> /\ session.sequential /\ Busy
    /\ "client" \notin shut[transfer.on]
    /\ IF transfer.kind = "LIST" THEN transfer.left > 0 /\ wire[transfer.on] = Buffer
                                 ELSE wire[transfer.on] = 0

\* A session ends, be it with an exception, unless it ends up in that one
\* standoff: nothing else makes either side wait for ever, a server that drops
\* the session at any point included.
SessionEnds == <>Over \/ <>[]ChannelStandoff

\* If a session whose last transfer is an upload ends with delete, a server that
\* refuses nothing ends up with the whole file, although nobody waited for it,
\* unless it takes the end of the connection without QUIT for an abort.
FileArrives ==
    /\ phase = "deleted" /\ session.fault \in {"none", "aborts"}
    /\ "STOR" \in Range(program)
    ~> stored = FileSize \/ (session.fault = "aborts" /\ line # "open")

\* Whatever becomes of the session - replies out of step, a dropped connection
\* whose end is taken for a reply, a crash - what is stored is a prefix of the
\* file, and only the server's fault makes delete follow an incomplete send.
Uploading == INSTANCE Upload WITH
                 size     <- FileSize,
                 outcome  <- CASE phase = "deleted" -> "done"
                               [] phase \in {"crashed", "thrown", "terminated"} -> "failed"
                               [] OTHER -> "running",
                 reliable <- session.fault = "none"

UploadAsPromised == Uploading!Spec

\* A program that uploads one file, to the port of a PASV right before.
UploadsOnce(p) ==
    /\ \A u \in DOMAIN p : p[u] = "STOR" => u > 1 /\ p[u - 1] = "PASV"
    /\ \A u \in DOMAIN p : p[u] = "send" => u > 1 /\ p[u - 1] = "STOR"
    /\ \A u, v \in DOMAIN p : p[u] = p[v] /\ p[u] \in {"STOR", "send"} => u = v
    /\ \E u \in DOMAIN p : p[u] = "send"

OneUpload == \A s \in Sessions : UploadsOnce(Login \o s.program)

-----------------------------------------------------------------------------
(* What FTPClient.h says, and the code does not do *)

\* "reads the response and calculates the port number" (FTPClient.h:48): the
\* response read after PASV has the port number.
PasvResponseHasPort == phase = "connect" => PasvReplies # {}
=============================================================================
