----------------------------- MODULE EventLoop ------------------------------
(***************************************************************************)
(* The server loop of ftpd.c: one thread that polls every control and data *)
(* connection, then handles the entries of that poll one after the other,  *)
(* in table order, and the clients that act meanwhile.                     *)
(*                                                                         *)
(* One action is one stretch of the loop between two system calls whose    *)
(* outcome another process decides: the poll, the accept of a control      *)
(* connection, the read of one command line with the command's execution,  *)
(* the end of a control entry, a delayed command, the wait for a data      *)
(* connection, a data entry.  `polls' are the entries of the last poll     *)
(* still to be handled, with the handle and the events the poll recorded:  *)
(* between the poll and the handling, memory and handles may change.       *)
(***************************************************************************)
EXTENDS ServerMemory

CONSTANTS
  MaxInbox,     \* bound: lines of a client not yet read by the server
  MaxBacklog,   \* bound: clients waiting to be accepted
  LowestFirst,  \* the system gives out the lowest free handle, or any
  Faults        \* what may go wrong, see AllFaults

\* "bind"      no port of MIN_USRPORT .. MAX_USRPORT can be bound
\* "handles"   socket() and accept() find no free handle
\* "abort"     a client that waits in a backlog gives up before accept()
\* "crowd"     more clients connect than there are session slots
\* "pipeline"  a client sends lines before the replies of the last one
\* "slow"      a client takes its replies late or in parts
\* "hangup"    a client closes its control connection without QUIT
\* "cut"       a client closes a data connection the server is sending on
\* "wild"      the pointer that a failed second stage of RETR or STOR has not set
\*             names a channel of another session
AllFaults == {"bind", "handles", "abort", "crowd", "pipeline", "slow", "hangup", "cut", "wild"}

ASSUME BoundsAssumption == MaxInbox \in Nat \ {0} /\ MaxBacklog \in Nat \ {0}
ASSUME LowestFirstAssumption == LowestFirst \in BOOLEAN
ASSUME FaultsAssumption == Faults \subseteq AllFaults

VARIABLES
  pc,        \* where the server is
  polls,     \* the entries of this pass that are still to be handled
  server,    \* its memory
  backlog    \* clients waiting on the control port

vars == <<pc, polls, server, backlog>>

\* The entry of the control connection of u, and that of channel <<u, d>>.
ControlSlot == -1
Entries ==
  [user : Users, slot : Slots \cup {ControlSlot},
   fd : Handles, revents : SUBSET {"IN", "OUT", "HUP"}]

\* listener      about to handle the entry of the control port
\* sweep         about to handle the next entry; with none left, at the top of
\*               server_loop or blocked in its WSAPoll
\* recv, flush   inside ftpd_user_recv, or behind it, of a control entry
\* accept        blocked in ftpd_user_make_dataconn, called by a delayed command
\* acceptInRecv  the same, called from ftpd_user_recv
\* crashed       undefined behaviour took the process down
Places == {"listener", "sweep", "recv", "flush", "accept", "acceptInRecv", "crashed"}

TypeOK ==
  /\ pc \in Places
  /\ polls \subseteq Entries
  /\ server \in Memories
  /\ backlog \in 0 .. MaxBacklog

Init ==
  /\ pc = "sweep"
  /\ polls = {}
  /\ server = ZeroMemory
  /\ backlog = 0

\* The entry handled now.
Current(e) ==
  /\ e \in polls
  /\ \A f \in polls : e.user < f.user \/ (e.user = f.user /\ e.slot <= f.slot)

\* Control goes on at `back'; back at the sweep the entry is done.
Resume(e, back) ==
  /\ pc' = back
  /\ polls' = IF back = "sweep" THEN polls \ {e} ELSE polls

\* What socket() and accept() may return.
NewSocket(m, s) ==
  \/ s \in Free(m) /\ (LowestFirst => \A t \in Free(m) : s <= t)
  \/ s = INVALID_SOCKET /\ Free(m) = {} /\ "handles" \in Faults

-----------------------------------------------------------------------------
\* The poll of one pass.

Peer(m, s) == IF s \in Sockets THEN m.sock[s] ELSE Closed

\* `ready' are the connections that can be written, or uploads that have data.
ControlEvents(m, u, ready) ==
  LET p == Peer(m, m.user[u].control) IN
  (IF p.in # <<>> THEN {"IN"} ELSE {})
    \cup (IF p.hup THEN {"HUP"} ELSE {})
    \cup (IF m.user[u].sendbuf /\ <<u, ControlSlot>> \in ready THEN {"OUT"} ELSE {})

DataEvents(m, u, d, ready) ==
  (IF <<u, d>> \notin ready THEN {} ELSE
     IF m.dc[<<u, d>>].mode = "RECV_FP" THEN {"IN"} ELSE {"OUT"})
    \cup (IF Peer(m, m.dc[<<u, d>>].conn).hup THEN {"HUP"} ELSE {})

Connected(m) == {c \in m.dataslots : c[1] \in m.userslots /\ m.dc[c].type = "CONNECTED"}

Snapshot(m, ready) ==
  {[user |-> u, slot |-> ControlSlot, fd |-> m.user[u].control,
    revents |-> ControlEvents(m, u, ready)] : u \in m.userslots}
  \cup
  {[user |-> c[1], slot |-> c[2], fd |-> m.dc[c].conn,
    revents |-> DataEvents(m, c[1], c[2], ready)] : c \in Connected(m)}

\* A control connection takes data at any time, unless the client is slow.
Readiness(m) ==
  LET controls == m.userslots \X {ControlSlot} IN
  {x \cup y : x \in IF "slow" \in Faults THEN SUBSET controls ELSE {controls},
             y \in SUBSET Connected(m)}

\* WSAPoll returns once an entry has an event, an invalid handle (POLLNVAL)
\* being one.  An entry of a data connection without events does nothing and is
\* dropped here; that of a control connection is kept.
Poll ==
  /\ pc = "sweep" /\ polls = {}
  /\ \E ready \in Readiness(server) :
       LET snap == Snapshot(server, ready) IN
       /\ \/ backlog > 0
          \/ \E e \in snap : e.revents # {} \/ e.fd \notin Sockets
       /\ polls' = {e \in snap : e.slot = ControlSlot \/ e.revents # {}}
  /\ pc' = IF backlog > 0 THEN "listener" ELSE "sweep"
  /\ UNCHANGED <<server, backlog>>

\* accept() on the control port fails when the client is gone or no handle is
\* left, and the session is opened all the same.
Accepted(s) ==
  \/ backlog > 0 /\ NewSocket(server, s)
  \/ backlog = 0 /\ s = INVALID_SOCKET

Listener ==
  /\ pc = "listener"
  /\ \E s \in Sockets \cup {INVALID_SOCKET}, u \in Users :
       /\ Accepted(s)
       /\ FirstFreeUser(server, u)
       /\ server' = OpenSession(server, u, s)
       /\ backlog' = IF s \in Sockets THEN backlog - 1 ELSE backlog
  /\ pc' = "sweep"
  /\ UNCHANGED polls

\* With every slot taken, `user' is used without having been set: whatever it
\* happens to point to is initialised.
ListenerFull ==
  /\ pc = "listener" /\ Faults \cap {"crowd", "handles"} # {}
  /\ UsersFull(server)
  /\ \E s \in Sockets \cup {INVALID_SOCKET} :
       /\ Accepted(s)
       /\ backlog' = IF s \in Sockets THEN backlog - 1 ELSE backlog
       /\ \/ pc' = "crashed" /\ UNCHANGED server
          \/ pc' = "sweep" /\ \E u \in Users : server' = OpenSession(server, u, s)
  /\ UNCHANGED polls

-----------------------------------------------------------------------------
\* ftpd_user_exec_command, with memory m when it is called.

ExecReply(e, m, back) ==
  /\ server' = Reply(m, e.user)
  /\ Resume(e, back)

ExecQuit(e, m, back) ==
  /\ server' = Disconnect(m, e.user)
  /\ Resume(e, back)

\* PORT: 200, or 425 when the table is full.
ExecPort(e, m, back) ==
  /\ \/ /\ SlotsFull(m, e.user)
        /\ server' = Reply(m, e.user)
     \/ \E d \in Slots, s \in Sockets \cup {INVALID_SOCKET} :
          /\ FirstFreeSlot(m, e.user, d)
          /\ NewSocket(m, s)
          /\ server' = Reply(OpenActive(m, e.user, d, s), e.user)
  /\ Resume(e, back)

\* PASV: 227, or 425 when the table is full or no port can be bound.
ExecPasv(e, m, back) ==
  /\ \/ /\ SlotsFull(m, e.user)
        /\ server' = Reply(m, e.user)
     \/ \E d \in Slots, s \in Sockets \cup {INVALID_SOCKET} :
          /\ FirstFreeSlot(m, e.user, d)
          /\ NewSocket(m, s)
          /\ \/ /\ s \in Sockets
                /\ server' = Reply(OpenPassive(m, e.user, d, s), e.user)
             \/ /\ s = INVALID_SOCKET \/ "bind" \in Faults
                /\ server' = Reply(FailPassive(m, e.user, d, s), e.user)
  /\ Resume(e, back)

\* First stage of LIST, MLSD, RETR, STOR and APPE: 150, and the command is to be
\* executed again.
ExecFirstStage(e, m, cmd, back) ==
  /\ server' = [m EXCEPT !.user[e.user] = [@ EXCEPT !.sendbuf = TRUE, !.dlcommand = 1, !.command = cmd]]
  /\ Resume(e, back)

\* A second stage whose data connection failed: make_dataconn has closed the
\* channel.  RETR and STOR then close the channel an uninitialised pointer
\* points to, which closes a channel of the session or of one behind it in the
\* table, or ends the process, as it does for a session before it, whose bit is
\* looked for far outside the memory.
StageFails(e, m, cmd, back) ==
  LET u == e.user
      c == DataClose(m, u, m.user[u].lastdc)
  IN \/ /\ cmd = "LIST"
        /\ server' = Refuse(c, u)
        /\ Resume(e, back)
     \/ /\ cmd # "LIST"
        /\ \E d \in Slots : server' = Refuse(DataClose(c, u, d), u)
        /\ Resume(e, back)
     \/ /\ cmd # "LIST" /\ "wild" \in Faults
        /\ \E x \in Channels : x[1] > u /\ server' = Refuse(WildClose(c, u, x), u)
        /\ Resume(e, back)
     \/ /\ cmd # "LIST"
        /\ pc' = "crashed"
        /\ UNCHANGED <<server, polls>>

\* Second stage on an active channel: connect() to the client, which may refuse.
ExecConnect(e, m, cmd, back) ==
  LET u == e.user
      c == <<u, m.user[u].lastdc>>
      s == m.dc[c].conn
  IN /\ m.dc[c].type = "ACTIVE"
     /\ \/ /\ Peer(m, s).kind = "idle"
           /\ server' = Begin(Establish(m, u, c[2], s), u, cmd)
           /\ Resume(e, back)
        \/ StageFails(e, m, cmd, back)

\* Second stage on a channel that is already connected: nothing to connect.
ExecConnected(e, m, cmd, back) ==
  /\ m.dc[<<e.user, m.user[e.user].lastdc>>].type = "CONNECTED"
  /\ server' = Begin(m, e.user, cmd)
  /\ Resume(e, back)

\* Second stage on a passive channel: WSAPoll on its socket, without a timeout.
ExecWait(e, m, back) ==
  /\ m.dc[<<e.user, m.user[e.user].lastdc>>].type = "PASSIVE"
  /\ server' = m
  /\ pc' = IF back = "sweep" THEN "accept" ELSE "acceptInRecv"
  /\ UNCHANGED polls

Exec(e, m, cmd, back) ==
  LET delayed == m.user[e.user].dlcommand = 1 IN
  \/ cmd \in {"NOOP", "RETR", "STOR"} /\ (delayed => cmd = "NOOP") /\ ExecReply(e, m, back)
  \/ cmd = "QUIT" /\ ExecQuit(e, m, back)
  \/ cmd = "PORT" /\ ExecPort(e, m, back)
  \/ cmd = "PASV" /\ ExecPasv(e, m, back)
  \/ cmd \in Transfers /\ ~delayed /\ ExecFirstStage(e, m, cmd, back)
  \/ cmd \in Transfers /\ delayed /\ ExecConnect(e, m, cmd, back)
  \/ cmd \in Transfers /\ delayed /\ ExecConnected(e, m, cmd, back)
  \/ cmd \in Transfers /\ delayed /\ ExecWait(e, m, back)

-----------------------------------------------------------------------------
\* A control entry of a session without a delayed command.

\* A control entry of a session without a delayed command is being handled, and
\* its read is due.
Reading(e) ==
  /\ Current(e) /\ e.slot = ControlSlot
  /\ \/ pc = "recv"
     \/ pc = "sweep" /\ server.user[e.user].dlcommand = 0 /\ "IN" \in e.revents

\* The text a delayed command is parsed from again is overwritten by every
\* byte read since; once no command is delayed it is not read any more.
Overwrite(m, u, cmd) ==
  IF m.user[u].dlcommand = 1 THEN [m EXCEPT !.user[u].command = cmd] ELSE m

Take(m, s) == [m EXCEPT !.sock[s].in = Tail(@)]

\* One turn of the loop of ftpd_user_recv, which reads on after each command.
RecvLine ==
  /\ \E e \in polls :
       LET s == server.user[e.user].control
           line == Head(server.sock[s].in)
           m == Take(server, s)
       IN /\ Reading(e)
          /\ s \in Sockets /\ server.sock[s].in # <<>>
          /\ \/ /\ line \in AllCommands
                /\ Exec(e, Overwrite(m, e.user, line), line, "recv")
             \/ /\ line = "PART"
                /\ \E text \in Commands : server' = Overwrite(m, e.user, text)
                /\ Resume(e, "recv")
             \/ /\ line = "BLANK"
                /\ server' = m /\ Resume(e, "flush")
             \/ /\ line = "LONG"
                /\ server' = Disconnect(m, e.user) /\ Resume(e, "flush")
  /\ UNCHANGED backlog

\* ftpd_user_recv is over, or was not called: recv() finds nothing.
ReadOver(e) ==
  /\ Current(e) /\ e.slot = ControlSlot
  /\ \/ pc = "flush"
     \/ pc = "recv" /\ Peer(server, server.user[e.user].control).in = <<>>
     \/ /\ pc = "sweep" /\ server.user[e.user].dlcommand = 0
        /\ "IN" \in e.revents => Peer(server, server.user[e.user].control).in = <<>>

\* Mutant: send whatever the poll said.
SentEagerly(m, e, more) == [m EXCEPT !.user[e.user].sendbuf = @ /\ more]

\* ftpd_user_send: everything goes out, or a part of it.
Partly == IF "slow" \in Faults THEN BOOLEAN ELSE {FALSE}
Sent(m, e, more) ==
  IF "OUT" \in e.revents THEN [m EXCEPT !.user[e.user].sendbuf = @ /\ more] ELSE m

\* Mutant: only the session's own wish ends it.
FlushIgnoresHup ==
  /\ \E e \in polls, more \in Partly :
       LET m == Sent(server, e, more) IN
       /\ ReadOver(e)
       /\ server' = IF m.user[e.user].disconnected THEN CloseSession(m, e.user) ELSE m
       /\ Resume(e, "sweep")
  /\ UNCHANGED backlog

\* The rest of a control entry: send what was polled as writable, then close
\* the session if the peer is gone or the session asked for it.
Flush ==
  /\ \E e \in polls, more \in Partly :
       LET m == Sent(server, e, more)
           over == "HUP" \in e.revents \/ m.user[e.user].disconnected
       IN /\ ReadOver(e)
          /\ \/ /\ server' = IF over THEN CloseSession(m, e.user) ELSE m
                /\ Resume(e, "sweep")
             \/ /\ over /\ UseAfterFree(m, e.user)
                /\ pc' = "crashed" /\ UNCHANGED <<server, polls>>
  /\ UNCHANGED backlog

\* Mutant: the delayed command comes before the send.
DelayedUnsent ==
  /\ pc = "sweep"
  /\ \E e \in polls :
       /\ Current(e) /\ e.slot = ControlSlot
       /\ server.user[e.user].dlcommand = 1
       /\ Exec(e, server, server.user[e.user].command, "sweep")
  /\ UNCHANGED backlog

\* A control entry of a session with a delayed command: send what was polled as
\* writable, then execute command[] again, whatever the events are.
Delayed ==
  /\ pc = "sweep"
  /\ \E e \in polls, more \in Partly :
       /\ Current(e) /\ e.slot = ControlSlot
       /\ server.user[e.user].dlcommand = 1
       /\ Exec(e, Sent(server, e, more), server.user[e.user].command, "sweep")
  /\ UNCHANGED backlog

\* Mutant: an error of the listening socket does not end the wait.
AcceptDataNoError ==
  /\ pc \in {"accept", "acceptInRecv"}
  /\ \E e \in polls, s \in Sockets :
       LET u == e.user
           d == server.user[u].lastdc
           l == Peer(server, server.dc[<<u, d>>].lconn)
       IN /\ Current(e) /\ l.kind = "knocked" /\ ~l.hup /\ NewSocket(server, s)
          /\ server' = Begin(Establish(server, u, d, s), u, server.user[u].command)
          /\ Resume(e, IF pc = "accept" THEN "sweep" ELSE "recv")
  /\ UNCHANGED backlog

\* The end of the wait for a data connection: a client knocked, or the listening
\* socket reports an error.
AcceptData ==
  /\ pc \in {"accept", "acceptInRecv"}
  /\ \E e \in polls :
       LET u == e.user
           d == server.user[u].lastdc
           cmd == server.user[u].command
           back == IF pc = "accept" THEN "sweep" ELSE "recv"
           l == Peer(server, server.dc[<<u, d>>].lconn)
       IN /\ Current(e)
          /\ \/ /\ l.kind = "knocked" /\ ~l.hup
                /\ \E s \in Sockets :
                     /\ NewSocket(server, s)
                     /\ server' = Begin(Establish(server, u, d, s), u, cmd)
                /\ Resume(e, back)
             \/ /\ \/ l.hup \/ l.kind \notin {"listen", "knocked"}
                   \/ l.kind = "knocked" /\ Free(server) = {} /\ "handles" \in Faults
                /\ StageFails(e, server, cmd, back)
  /\ UNCHANGED backlog

-----------------------------------------------------------------------------
\* A data entry.  Each of the three tests uses what the poll recorded; the
\* channel is looked up again each time.

\* ftpd_data_recv: a read of nothing closes the channel.
AfterRecv(m, e, eof) ==
  IF "IN" \in e.revents /\ eof THEN DataClose(m, e.user, e.slot) ELSE m

\* ftpd_data_send: behind the last block, the event callback and the close.
AfterSend(m, e, last) ==
  IF "OUT" \in e.revents /\ last
  THEN DataClose(IF m.dc[<<e.user, e.slot>>].event THEN Reply(m, e.user) ELSE m, e.user, e.slot)
  ELSE m

AfterHup(m, e) == IF "HUP" \in e.revents THEN DataClose(m, e.user, e.slot) ELSE m

\* recv() finds the end of the stream only when the peer is gone; a handle that
\* is not connected fails.
MayEnd(m, e) ==
  LET p == Peer(m, m.dc[<<e.user, e.slot>>].conn) IN p.hup \/ p.kind # "data"

ProcessData ==
  /\ pc = "sweep"
  /\ \E e \in polls, eof \in BOOLEAN, last \in BOOLEAN :
       /\ Current(e) /\ e.slot # ControlSlot
       /\ eof => "IN" \in e.revents /\ MayEnd(server, e)
       /\ last => "OUT" \in e.revents
       /\ server' = AfterHup(AfterSend(AfterRecv(server, e, eof), e, last), e)
       /\ Resume(e, "sweep")
  /\ UNCHANGED backlog

-----------------------------------------------------------------------------
\* Clients and the network.

\* Without "crowd", never more clients than there are free slots.
Connect ==
  /\ backlog < MaxBacklog
  /\ "crowd" \in Faults \/ backlog < Cardinality(Users \ server.userslots)
  /\ backlog' = backlog + 1
  /\ UNCHANGED <<pc, polls, server>>

GiveUp ==
  /\ "abort" \in Faults /\ backlog > 0
  /\ backlog' = backlog - 1
  /\ UNCHANGED <<pc, polls, server>>

\* A client that does not pipeline waits for the reply of its last command, and
\* for the end of its transfer.
AwaitsReply(s) ==
  \/ server.sock[s].in # <<>>
  \/ \E u \in server.userslots :
       /\ server.user[u].control = s
       /\ \/ server.user[u].sendbuf \/ server.user[u].dlcommand = 1
          \/ \E c \in Connected(server) : c[1] = u

ClientSend(s) ==
  /\ server.sock[s].kind = "control" /\ ~server.sock[s].hup
  /\ Len(server.sock[s].in) < MaxInbox
  /\ \E line \in Commands \cup (IF "pipeline" \in Faults THEN {"LONG", "BLANK", "PART"} ELSE {}) :
       /\ "pipeline" \in Faults \/ ~AwaitsReply(s)
       /\ server' = [server EXCEPT !.sock[s].in = Append(@, line)]
  /\ UNCHANGED <<pc, polls, backlog>>

\* A client closes its end of a connection; that is how it ends an upload.
Uploading(s) ==
  \E c \in Connected(server) : server.dc[c].conn = s /\ server.dc[c].mode = "RECV_FP"

ClientClose(s) ==
  /\ \/ server.sock[s].kind = "control" /\ "hangup" \in Faults
     \/ server.sock[s].kind = "data" /\ ("cut" \in Faults \/ Uploading(s))
  /\ ~server.sock[s].hup
  /\ server' = [server EXCEPT !.sock[s].hup = TRUE]
  /\ UNCHANGED <<pc, polls, backlog>>

\* A client connects to a passive port, and may give up before it is accepted.
Knock(s) ==
  /\ server.sock[s].kind = "listen"
  /\ server' = [server EXCEPT !.sock[s].kind = "knocked"]
  /\ UNCHANGED <<pc, polls, backlog>>

KnockGivenUp(s) ==
  /\ "abort" \in Faults
  /\ server.sock[s].kind = "knocked" /\ ~server.sock[s].hup
  /\ server' = [server EXCEPT !.sock[s].hup = TRUE]
  /\ UNCHANGED <<pc, polls, backlog>>

-----------------------------------------------------------------------------
Server ==
  \/ Poll \/ Listener \/ ListenerFull
  \/ RecvLine \/ Flush \/ Delayed \/ AcceptData \/ ProcessData

Clients ==
  \/ Connect \/ GiveUp
  \/ \E s \in Sockets : ClientSend(s) \/ ClientClose(s) \/ Knock(s) \/ KnockGivenUp(s)

Next == Server \/ Clients

Spec == Init /\ [][Next]_vars

\* The operating system keeps running the one thread of the server, and a client
\* that was told 227 connects to that port.
KnockAny == \E s \in Sockets : Knock(s)

FairSpec == Spec /\ WF_vars(Server)
FairSpecKnocking == FairSpec /\ WF_vars(KnockAny)
=============================================================================
