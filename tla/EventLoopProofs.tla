-------------------------- MODULE EventLoopProofs ---------------------------
(***************************************************************************)
(* The server loop keeps its types: whatever the sizes of the tables, the  *)
(* handles, the faults and the bounds, no step takes a slot number, an     *)
(* entry of a poll or a place in the code out of its domain.  One lemma    *)
(* per function on the memory, and one per action.                         *)
(***************************************************************************)
EXTENDS EventLoop, TLAPS

\* Every function on the memory keeps it a memory: no slot number, handle, mode or
\* callback ever leaves its domain.

\* The all-zero records are records: a memset leaves a value of the type.
LEMMA ZeroTyped == ZeroUser \in UserRecords /\ ZeroData \in DataRecords
<1>1. 0 \in Slots
  BY ChannelsAssumption DEF Slots
<1>2. ZeroUser \in UserRecords
  BY <1>1 DEF ZeroUser, UserRecords, Handles
<1>3. ZeroData \in DataRecords
  BY DEF ZeroData, DataRecords, Handles
<1>4. QED
  BY <1>2, <1>3

\* Closed and freshly opened handles are entries of the socket table.
LEMMA SockTyped ==
  /\ Closed \in SocketRecords
  /\ \A k \in {"idle", "listen", "control", "data"} : Opened(k) \in SocketRecords
<1>1. <<>> \in Seq(Lines)
  OBVIOUS
<1>2. QED
  BY <1>1 DEF Closed, Opened, SocketRecords

\* Changes of a session record that the code makes.
LEMMA UserChangeTyped ==
  ASSUME NEW r \in UserRecords
  PROVE  /\ [r EXCEPT !.sendbuf = TRUE] \in UserRecords
         /\ [r EXCEPT !.sendbuf = TRUE, !.disconnected = TRUE] \in UserRecords
         /\ [r EXCEPT !.sendbuf = TRUE, !.dlcommand = 0, !.command = NoCommand] \in UserRecords
         /\ [r EXCEPT !.dlcommand = 0, !.command = NoCommand] \in UserRecords
         /\ \A d \in Slots : [r EXCEPT !.lastdc = d] \in UserRecords
         /\ \A s \in Handles : [ZeroUser EXCEPT !.control = s, !.sendbuf = TRUE] \in UserRecords
<1>1. [r EXCEPT !.sendbuf = TRUE] \in UserRecords
  BY DEF UserRecords
<1>2. [r EXCEPT !.sendbuf = TRUE, !.disconnected = TRUE] \in UserRecords
  BY DEF UserRecords
<1>3. [r EXCEPT !.sendbuf = TRUE, !.dlcommand = 0, !.command = NoCommand] \in UserRecords
  BY DEF UserRecords
<1>4. [r EXCEPT !.dlcommand = 0, !.command = NoCommand] \in UserRecords
  BY DEF UserRecords
<1>5. \A d \in Slots : [r EXCEPT !.lastdc = d] \in UserRecords
  BY DEF UserRecords
<1>6. \A s \in Handles : [ZeroUser EXCEPT !.control = s, !.sendbuf = TRUE] \in UserRecords
  BY ZeroTyped DEF UserRecords
<1>7. QED
  BY <1>1, <1>2, <1>3, <1>4, <1>5, <1>6

\* Changes of a channel record that the code makes.
LEMMA DataChangeTyped ==
  ASSUME NEW r \in DataRecords, NEW s \in Handles
  PROVE  /\ [r EXCEPT !.conn = s, !.lconn = NoSocket, !.type = "ACTIVE",
                      !.event = FALSE, !.close = FALSE] \in DataRecords
         /\ [r EXCEPT !.conn = NoSocket, !.lconn = s, !.type = "PASSIVE",
                      !.event = FALSE, !.close = FALSE] \in DataRecords
         /\ [r EXCEPT !.conn = NoSocket, !.lconn = s] \in DataRecords
         /\ [r EXCEPT !.conn = s, !.type = "CONNECTED"] \in DataRecords
         /\ [r EXCEPT !.type = "CONNECTED", !.mode = "SEND", !.event = TRUE] \in DataRecords
         /\ [r EXCEPT !.type = "CONNECTED", !.mode = "SEND_FP", !.event = TRUE] \in DataRecords
         /\ [r EXCEPT !.type = "CONNECTED", !.mode = "RECV_FP", !.close = TRUE] \in DataRecords
<1>1. [r EXCEPT !.conn = s, !.lconn = NoSocket, !.type = "ACTIVE",
                !.event = FALSE, !.close = FALSE] \in DataRecords
  BY DEF DataRecords, Handles
<1>2. [r EXCEPT !.conn = NoSocket, !.lconn = s, !.type = "PASSIVE",
                !.event = FALSE, !.close = FALSE] \in DataRecords
  BY DEF DataRecords, Handles
<1>3. [r EXCEPT !.conn = NoSocket, !.lconn = s] \in DataRecords
  BY DEF DataRecords, Handles
<1>4. [r EXCEPT !.conn = s, !.type = "CONNECTED"] \in DataRecords
  BY DEF DataRecords
<1>5. [r EXCEPT !.type = "CONNECTED", !.mode = "SEND", !.event = TRUE] \in DataRecords
  BY DEF DataRecords
<1>6. [r EXCEPT !.type = "CONNECTED", !.mode = "SEND_FP", !.event = TRUE] \in DataRecords
  BY DEF DataRecords
<1>7. [r EXCEPT !.type = "CONNECTED", !.mode = "RECV_FP", !.close = TRUE] \in DataRecords
  BY DEF DataRecords
<1>8. QED
  BY <1>1, <1>2, <1>3, <1>4, <1>5, <1>6, <1>7

\* Closing handles keeps the memory a memory.
LEMMA CloseSocketsTyped ==
  ASSUME NEW m \in Memories, NEW S
  PROVE  CloseSockets(m, S) \in Memories
  BY SockTyped DEF CloseSockets, Memories

\* A reply, a disconnect and a refused transfer change only the session's record.
LEMMA ReplyTyped ==
  ASSUME NEW m \in Memories, NEW u \in Users
  PROVE  /\ Reply(m, u) \in Memories
         /\ Disconnect(m, u) \in Memories
         /\ Refuse(m, u) \in Memories
<1>1. m.user[u] \in UserRecords
  BY DEF Memories
<1>2. Reply(m, u) \in Memories
  BY <1>1, UserChangeTyped DEF Reply, Memories
<1>3. Disconnect(m, u) \in Memories
  BY <1>1, UserChangeTyped DEF Disconnect, Memories
<1>4. Refuse(m, u) \in Memories
  BY <1>1, UserChangeTyped DEF Refuse, Memories
<1>5. QED
  BY <1>2, <1>3, <1>4

\* Opening a session.
LEMMA OpenSessionTyped ==
  ASSUME NEW m \in Memories, NEW u \in Users, NEW s \in Handles
  PROVE  OpenSession(m, u, s) \in Memories
<1>1. m.user[u] \in UserRecords
  BY DEF Memories
<1>2. [ZeroUser EXCEPT !.control = s, !.sendbuf = TRUE] \in UserRecords
  BY <1>1, UserChangeTyped
<1>3. [c \in Channels |-> IF c[1] = u THEN ZeroData ELSE m.dc[c]] \in [Channels -> DataRecords]
  BY ZeroTyped DEF Memories
<1>4. [t \in Sockets |-> IF t = s THEN Opened("control") ELSE m.sock[t]] \in [Sockets -> SocketRecords]
  BY SockTyped DEF Memories
<1>5. QED
  BY <1>2, <1>3, <1>4 DEF OpenSession, Memories

\* PORT and PASV, the latter with and without a bound port.
LEMMA OpenChannelTyped ==
  ASSUME NEW m \in Memories, NEW u \in Users, NEW d \in Slots, NEW s \in Handles
  PROVE  /\ OpenActive(m, u, d, s) \in Memories
         /\ OpenPassive(m, u, d, s) \in Memories
         /\ FailPassive(m, u, d, s) \in Memories
<1>1. <<u, d>> \in Channels
  BY DEF Channels
<1>2. m.user[u] \in UserRecords /\ m.dc[<<u, d>>] \in DataRecords
  BY <1>1 DEF Memories
<1>3. \A k \in {"idle", "listen"} :
        [t \in Sockets |-> IF t = s THEN Opened(k) ELSE m.sock[t]] \in [Sockets -> SocketRecords]
  BY SockTyped DEF Memories
<1>4. OpenActive(m, u, d, s) \in Memories
  BY <1>1, <1>2, <1>3, UserChangeTyped, DataChangeTyped DEF OpenActive, Memories
<1>5. OpenPassive(m, u, d, s) \in Memories
  BY <1>1, <1>2, <1>3, UserChangeTyped, DataChangeTyped DEF OpenPassive, Memories
<1>6. FailPassive(m, u, d, s) \in Memories
  BY <1>1, <1>2, DataChangeTyped DEF FailPassive, Memories
<1>7. QED
  BY <1>4, <1>5, <1>6

\* Closing a channel.
LEMMA DataCloseTyped ==
  ASSUME NEW m \in Memories, NEW u \in Users, NEW d \in Slots
  PROVE  DataClose(m, u, d) \in Memories
<1> DEFINE c == m.dc[<<u, d>>]
           called == IF c.close THEN Reply(m, u) ELSE m
           closed == CloseSockets(called, {c.conn, c.lconn})
<1>1. closed \in Memories
  BY ReplyTyped, CloseSocketsTyped
<1>2. <<u, d>> \in Channels
  BY DEF Channels
<1>3. DataClose(m, u, d) = [closed EXCEPT !.dc[<<u, d>>] = ZeroData, !.dataslots = @ \ {<<u, d>>}]
  BY DEF DataClose
<1>4. ASSUME NEW n \in Memories
      PROVE  [n EXCEPT !.dc[<<u, d>>] = ZeroData, !.dataslots = @ \ {<<u, d>>}] \in Memories
  BY <1>2, ZeroTyped DEF Memories
<1> HIDE DEF c, called, closed
<1>5. QED
  BY <1>1, <1>3, <1>4

\* Closing a channel of another session.
LEMMA WildCloseTyped ==
  ASSUME NEW m \in Memories, NEW u \in Users, NEW x \in Channels
  PROVE  WildClose(m, u, x) \in Memories
<1> DEFINE c == m.dc[x]
           called == IF c.close THEN Reply(m, u) ELSE m
           closed == CloseSockets(called, {c.conn, c.lconn})
<1>1. closed \in Memories
  BY ReplyTyped, CloseSocketsTyped
<1>2. WildClose(m, u, x) = [closed EXCEPT !.dc[x] = ZeroData]
  BY DEF WildClose
<1>3. ASSUME NEW n \in Memories
      PROVE  [n EXCEPT !.dc[x] = ZeroData] \in Memories
  BY <1>3, ZeroTyped DEF Memories
<1> HIDE DEF c, called, closed
<1>4. QED
  BY <1>1, <1>2, <1>3

\* Closing a session.
LEMMA CloseSessionTyped ==
  ASSUME NEW m \in Memories, NEW u \in Users
  PROVE  CloseSession(m, u) \in Memories
<1>1. CloseSockets(m, Holdings(m, u)) \in Memories
  BY CloseSocketsTyped
<1>2. ASSUME NEW n \in Memories PROVE ClearSession(n, u) \in Memories
  BY <1>2, ZeroTyped DEF ClearSession, Memories
<1>3. QED
  BY <1>1, <1>2 DEF CloseSession

\* A data connection.
LEMMA EstablishTyped ==
  ASSUME NEW m \in Memories, NEW u \in Users, NEW d \in Slots, NEW s \in Handles
  PROVE  Establish(m, u, d, s) \in Memories
<1> DEFINE l == m.dc[<<u, d>>].lconn
           f == [t \in Sockets |->
                   CASE t = s -> Opened("data")
                     [] t # s /\ t = l -> [m.sock[t] EXCEPT !.kind = "listen"]
                     [] OTHER -> m.sock[t]]
<1>1. <<u, d>> \in Channels
  BY DEF Channels
<1>2. [m.dc[<<u, d>>] EXCEPT !.conn = s, !.type = "CONNECTED"] \in DataRecords
  BY <1>1, DataChangeTyped DEF Memories
<1>3. \A t \in Sockets : m.sock[t] \in SocketRecords
  BY DEF Memories
<1>4. \A t \in Sockets : [m.sock[t] EXCEPT !.kind = "listen"] \in SocketRecords
  BY <1>3 DEF SocketRecords
<1>5. f \in [Sockets -> SocketRecords]
  BY <1>3, <1>4, SockTyped
<1>6. QED
  BY <1>1, <1>2, <1>5 DEF Establish, Memories

\* The start of a transfer.
LEMMA BeginTyped ==
  ASSUME NEW m \in Memories, NEW u \in Users, NEW cmd
  PROVE  Begin(m, u, cmd) \in Memories
<1> DEFINE c == <<u, m.user[u].lastdc>>
<1>1. m.user[u] \in UserRecords
  BY DEF Memories
<1>2. c \in Channels /\ m.dc[c] \in DataRecords
  BY <1>1 DEF Memories, UserRecords, Channels
<1>3. [m.user[u] EXCEPT !.dlcommand = 0, !.command = NoCommand] \in UserRecords
  BY <1>1, UserChangeTyped
<1>4. 0 \in Handles
  BY DEF Handles, NoSocket
<1>5. Begun(m.dc[c], cmd) \in DataRecords
  BY <1>2, <1>4, DataChangeTyped DEF Begun
<1>6. QED
  BY <1>2, <1>3, <1>5 DEF Begin, Memories

-----------------------------------------------------------------------------
\* The steps of the loop.

\* What socket() and accept() return is a handle.
LEMMA NewSocketTyped ==
  /\ Sockets \cup {INVALID_SOCKET} \subseteq Handles
  /\ \A m, s : NewSocket(m, s) => s \in Handles
  BY DEF NewSocket, Free, Handles

\* A place to go back to is a place, and the entries left are entries.
LEMMA ResumeTyped ==
  ASSUME TypeOK, NEW e \in polls, NEW back \in Places, Resume(e, back)
  PROVE  pc' \in Places /\ polls' \subseteq Entries
  BY DEF TypeOK, Resume

\* Reading a line, overwriting the command and sending keep the memory a memory.
LEMMA LineTyped ==
  ASSUME NEW m \in Memories
  PROVE  /\ \A s \in Sockets : m.sock[s].in # <<>> =>
              Take(m, s) \in Memories /\ Head(m.sock[s].in) \in Lines
         /\ \A u \in Users, cmd \in AllCommands : Overwrite(m, u, cmd) \in Memories
         /\ \A e \in Entries, more \in BOOLEAN : Sent(m, e, more) \in Memories
<1>1. ASSUME NEW s \in Sockets, m.sock[s].in # <<>>
      PROVE  Take(m, s) \in Memories /\ Head(m.sock[s].in) \in Lines
  <2>1. m.sock[s] \in SocketRecords
    BY DEF Memories
  <2>2. Tail(m.sock[s].in) \in Seq(Lines) /\ Head(m.sock[s].in) \in Lines
    BY <1>1, <2>1 DEF SocketRecords
  <2>3. [m.sock[s] EXCEPT !.in = Tail(@)] \in SocketRecords
    BY <2>1, <2>2 DEF SocketRecords
  <2>4. QED
    BY <2>2, <2>3 DEF Take, Memories
<1>2. ASSUME NEW u \in Users, NEW cmd \in AllCommands
      PROVE  Overwrite(m, u, cmd) \in Memories
  <2>1. m.user[u] \in UserRecords
    BY DEF Memories
  <2>2. [m.user[u] EXCEPT !.command = cmd] \in UserRecords
    BY <2>1 DEF UserRecords
  <2>3. QED
    BY <2>2 DEF Overwrite, Memories
<1>3. ASSUME NEW e \in Entries, NEW more \in BOOLEAN
      PROVE  Sent(m, e, more) \in Memories
  <2>1. e.user \in Users /\ m.user[e.user] \in UserRecords
    BY DEF Memories, Entries
  <2>2. [m.user[e.user] EXCEPT !.sendbuf = @ /\ more] \in UserRecords
    BY <2>1 DEF UserRecords
  <2>3. QED
    BY <2>1, <2>2 DEF Sent, Memories
<1>4. QED
  BY <1>1, <1>2, <1>3

\* A second stage that fails closes channels and refuses the transfer.
LEMMA StageFailsTyped ==
  ASSUME TypeOK, NEW e \in polls, NEW m \in Memories, NEW cmd, NEW back \in Places,
         StageFails(e, m, cmd, back)
  PROVE  pc' \in Places /\ polls' \subseteq Entries /\ server' \in Memories
<1> DEFINE u == e.user
           c == DataClose(m, u, m.user[u].lastdc)
<1>1. u \in Users /\ m.user[u].lastdc \in Slots
  BY DEF TypeOK, Entries, Memories, UserRecords
<1>2. c \in Memories
  BY <1>1, DataCloseTyped
<1>3. /\ \A d \in Slots : DataClose(c, u, d) \in Memories
      /\ \A x \in Channels : WildClose(c, u, x) \in Memories
  BY <1>1, <1>2, DataCloseTyped, WildCloseTyped
<1>4. \A n \in Memories : Refuse(n, u) \in Memories
  BY <1>1, ReplyTyped
<1> HIDE DEF c, u
<1>5. CASE cmd = "LIST" /\ server' = Refuse(c, u) /\ Resume(e, back)
  BY <1>2, <1>4, <1>5, ResumeTyped
<1>6. CASE (\E d \in Slots : server' = Refuse(DataClose(c, u, d), u)) /\ Resume(e, back)
  BY <1>3, <1>4, <1>6, ResumeTyped
<1>7. CASE (\E x \in Channels : server' = Refuse(WildClose(c, u, x), u)) /\ Resume(e, back)
  BY <1>3, <1>4, <1>7, ResumeTyped
<1>8. CASE pc' = "crashed" /\ UNCHANGED <<server, polls>>
  BY <1>8 DEF TypeOK, Places
<1>9. QED
  BY <1>5, <1>6, <1>7, <1>8 DEF StageFails, c, u

\* Executing a command, with memory m when it begins.
LEMMA ExecTyped ==
  ASSUME TypeOK, NEW e \in polls, NEW m \in Memories, NEW cmd, NEW back \in {"sweep", "recv"},
         Exec(e, m, cmd, back)
  PROVE  pc' \in Places /\ polls' \subseteq Entries /\ server' \in Memories
<1> DEFINE u == e.user
           d0 == m.user[u].lastdc
<1>1. e \in Entries /\ u \in Users /\ d0 \in Slots
  BY DEF TypeOK, Entries, Memories, UserRecords
<1>2. back \in Places
  BY DEF Places
<1>3. \A n \in Memories : Reply(n, u) \in Memories /\ Disconnect(n, u) \in Memories
  BY <1>1, ReplyTyped
<1>4. CASE ExecReply(e, m, back)
  BY <1>2, <1>3, <1>4, ResumeTyped DEF ExecReply
<1>5. CASE ExecQuit(e, m, back)
  BY <1>2, <1>3, <1>5, ResumeTyped DEF ExecQuit
<1>6. \A d \in Slots, s \in Sockets \cup {INVALID_SOCKET} :
        /\ OpenActive(m, u, d, s) \in Memories
        /\ OpenPassive(m, u, d, s) \in Memories
        /\ FailPassive(m, u, d, s) \in Memories
  BY <1>1, NewSocketTyped, OpenChannelTyped
<1>7. CASE ExecPort(e, m, back)
  BY <1>2, <1>3, <1>6, <1>7, ResumeTyped DEF ExecPort
<1>8. CASE ExecPasv(e, m, back)
  BY <1>2, <1>3, <1>6, <1>8, ResumeTyped DEF ExecPasv
<1>9. CASE cmd \in Transfers /\ ExecFirstStage(e, m, cmd, back)
  <2>1. m.user[u] \in UserRecords
    BY <1>1 DEF Memories
  <2>2. [m.user[u] EXCEPT !.sendbuf = TRUE, !.dlcommand = 1, !.command = cmd] \in UserRecords
    BY <1>9, <2>1 DEF UserRecords, Transfers, AllCommands
  <2>3. server' \in Memories
    BY <1>1, <1>9, <2>2 DEF ExecFirstStage, Memories
  <2>4. QED
    BY <1>2, <1>9, <2>3, ResumeTyped DEF ExecFirstStage
<1>10. \A n \in Memories : Begin(n, u, cmd) \in Memories
  BY <1>1, BeginTyped
<1>11. CASE ExecConnect(e, m, cmd, back)
  <2>1. m.dc[<<u, d0>>].conn \in Handles
    BY <1>1 DEF Memories, DataRecords, Channels
  <2>2. Establish(m, u, d0, m.dc[<<u, d0>>].conn) \in Memories
    BY <1>1, <2>1, EstablishTyped
  <2>3. CASE StageFails(e, m, cmd, back)
    BY <1>2, <2>3, StageFailsTyped
  <2>4. CASE server' = Begin(Establish(m, u, d0, m.dc[<<u, d0>>].conn), u, cmd) /\ Resume(e, back)
    BY <1>2, <1>10, <2>2, <2>4, ResumeTyped
  <2>5. QED
    BY <1>11, <2>3, <2>4 DEF ExecConnect
<1>12. CASE ExecConnected(e, m, cmd, back)
  BY <1>2, <1>10, <1>12, ResumeTyped DEF ExecConnected
<1>13. CASE ExecWait(e, m, back)
  BY <1>13 DEF ExecWait, TypeOK, Places
<1>14. QED
  BY <1>4, <1>5, <1>7, <1>8, <1>9, <1>11, <1>12, <1>13 DEF Exec

\* The entries of a poll are entries.
LEMMA PollTyped ==
  ASSUME TypeOK, Poll
  PROVE  TypeOK'
<1>1. ASSUME NEW ready PROVE Snapshot(server, ready) \subseteq Entries
  <2>1. ASSUME NEW u \in server.userslots
        PROVE  [user |-> u, slot |-> ControlSlot, fd |-> server.user[u].control,
                revents |-> ControlEvents(server, u, ready)] \in Entries
    <3>1. u \in Users /\ server.user[u].control \in Handles
      BY DEF TypeOK, Memories, UserRecords
    <3>2. ControlEvents(server, u, ready) \subseteq {"IN", "OUT", "HUP"}
      BY DEF ControlEvents
    <3>3. QED
      BY <3>1, <3>2 DEF Entries
  <2>2. ASSUME NEW c \in Connected(server)
        PROVE  [user |-> c[1], slot |-> c[2], fd |-> server.dc[c].conn,
                revents |-> DataEvents(server, c[1], c[2], ready)] \in Entries
    <3>1. c \in Channels
      BY DEF TypeOK, Memories, Connected
    <3>2. c[1] \in Users /\ c[2] \in Slots
      BY <3>1 DEF Channels
    <3>3. server.dc[c].conn \in Handles
      BY <3>1 DEF TypeOK, Memories, DataRecords
    <3>4. DataEvents(server, c[1], c[2], ready) \subseteq {"IN", "OUT", "HUP"}
      BY DEF DataEvents
    <3>5. QED
      BY <3>2, <3>3, <3>4 DEF Entries
  <2>3. QED
    BY <2>1, <2>2 DEF Snapshot
<1>2. polls' \subseteq Entries
  BY <1>1 DEF Poll
<1>3. QED
  BY <1>2 DEF Poll, TypeOK, Places

\* Accepting a client, with and without a free slot.
LEMMA ListenerTyped ==
  ASSUME TypeOK, Listener \/ ListenerFull
  PROVE  TypeOK'
<1>1. ASSUME NEW s, Accepted(s)
      PROVE  /\ s \in Handles
             /\ (IF s \in Sockets THEN backlog - 1 ELSE backlog) \in 0 .. MaxBacklog
  <2>1. INVALID_SOCKET \notin Sockets /\ MaxBacklog \in Nat
    BY SocketsAssumption, BoundsAssumption DEF INVALID_SOCKET
  <2>2. s \in Handles
    BY <1>1, NewSocketTyped DEF Accepted
  <2>3. QED
    BY <1>1, <2>1, <2>2 DEF Accepted, TypeOK
<1>2. \A u \in Users, s \in Handles : OpenSession(server, u, s) \in Memories
  BY OpenSessionTyped DEF TypeOK
<1>3. CASE Listener
  BY <1>1, <1>2, <1>3 DEF Listener, TypeOK, Places
<1>4. CASE ListenerFull
  BY <1>1, <1>2, <1>4 DEF ListenerFull, TypeOK, Places
<1>5. QED
  BY <1>3, <1>4

\* Reading a command line.
LEMMA RecvLineTyped ==
  ASSUME TypeOK, RecvLine
  PROVE  TypeOK'
<1>1. PICK e \in polls :
        LET s == server.user[e.user].control
            line == Head(server.sock[s].in)
            m == Take(server, s)
        IN /\ Reading(e)
           /\ s \in Sockets /\ server.sock[s].in # <<>>
           /\ \/ /\ line \in AllCommands
                 /\ Exec(e, Overwrite(m, e.user, line), line, "recv")
              \/ /\ line = "PART"
                 /\ \E text \in Commands : server' = Overwrite(m, e.user, text)
                 /\ Resume(e, "recv")
              \/ /\ line = "BLANK"
                 /\ server' = m /\ Resume(e, "flush")
              \/ /\ line = "LONG"
                 /\ server' = Disconnect(m, e.user) /\ Resume(e, "flush")
  BY DEF RecvLine
<1> DEFINE s == server.user[e.user].control
           line == Head(server.sock[s].in)
           m == Take(server, s)
<1>2. e.user \in Users
  BY DEF TypeOK, Entries
<1>3. m \in Memories
  BY <1>1, LineTyped DEF TypeOK
<1>4. \A cmd \in AllCommands : Overwrite(m, e.user, cmd) \in Memories
  BY <1>2, <1>3, LineTyped
<1>5. Disconnect(m, e.user) \in Memories
  BY <1>2, <1>3, ReplyTyped
<1>6. "recv" \in Places /\ "flush" \in Places /\ backlog' = backlog
  BY DEF Places, RecvLine
<1> HIDE DEF m, line, s
<1>7. CASE line \in AllCommands /\ Exec(e, Overwrite(m, e.user, line), line, "recv")
  <2>1. Overwrite(m, e.user, line) \in Memories
    BY <1>4, <1>7
  <2>2. QED
    BY <1>6, <1>7, <2>1, ExecTyped DEF TypeOK
<1>8. CASE (\E text \in Commands : server' = Overwrite(m, e.user, text)) /\ Resume(e, "recv")
  <2>1. server' \in Memories
    BY <1>4, <1>8, CommandsAssumption
  <2>2. QED
    BY <1>6, <1>8, <2>1, ResumeTyped DEF TypeOK
<1>9. CASE server' = m /\ Resume(e, "flush")
  BY <1>3, <1>6, <1>9, ResumeTyped DEF TypeOK
<1>10. CASE server' = Disconnect(m, e.user) /\ Resume(e, "flush")
  BY <1>5, <1>6, <1>10, ResumeTyped DEF TypeOK
<1>11. QED
  BY <1>1, <1>7, <1>8, <1>9, <1>10 DEF m, line, s

\* The end of a control entry.
LEMMA FlushTyped ==
  ASSUME TypeOK, Flush
  PROVE  TypeOK'
<1>1. PICK e \in polls, more \in Partly :
        LET m == Sent(server, e, more)
            over == "HUP" \in e.revents \/ m.user[e.user].disconnected
        IN /\ ReadOver(e)
           /\ \/ /\ server' = IF over THEN CloseSession(m, e.user) ELSE m
                 /\ Resume(e, "sweep")
              \/ /\ over /\ UseAfterFree(m, e.user)
                 /\ pc' = "crashed" /\ UNCHANGED <<server, polls>>
  BY DEF Flush
<1> DEFINE m == Sent(server, e, more)
<1>2. e \in Entries /\ e.user \in Users /\ more \in BOOLEAN
  BY DEF TypeOK, Entries, Partly
<1>3. m \in Memories
  BY <1>2, LineTyped DEF TypeOK
<1>4. CloseSession(m, e.user) \in Memories
  BY <1>2, <1>3, CloseSessionTyped
<1>5. "sweep" \in Places /\ "crashed" \in Places /\ backlog' = backlog
  BY DEF Places, Flush
<1> HIDE DEF m
<1>6. CASE server' \in {m, CloseSession(m, e.user)} /\ Resume(e, "sweep")
  BY <1>3, <1>4, <1>5, <1>6, ResumeTyped DEF TypeOK
<1>7. CASE pc' = "crashed" /\ UNCHANGED <<server, polls>>
  BY <1>5, <1>7 DEF TypeOK
<1>8. QED
  BY <1>1, <1>6, <1>7 DEF m

\* A delayed command.
LEMMA DelayedTyped ==
  ASSUME TypeOK, Delayed
  PROVE  TypeOK'
<1>1. PICK e \in polls, more \in Partly :
        Exec(e, Sent(server, e, more), server.user[e.user].command, "sweep")
  BY DEF Delayed
<1>2. Sent(server, e, more) \in Memories
  BY LineTyped DEF TypeOK, Partly
<1>3. QED
  BY <1>1, <1>2, ExecTyped DEF TypeOK, Delayed

\* The end of a wait for a data connection.
LEMMA AcceptDataTyped ==
  ASSUME TypeOK, AcceptData
  PROVE  TypeOK'
<1> DEFINE back == IF pc = "accept" THEN "sweep" ELSE "recv"
<1>1. back \in Places /\ backlog' = backlog
  BY DEF Places, AcceptData
<1>2. PICK e \in polls :
        LET u == e.user
            d == server.user[u].lastdc
            cmd == server.user[u].command
        IN \/ /\ \E s \in Sockets :
                   server' = Begin(Establish(server, u, d, s), u, cmd)
              /\ Resume(e, back)
           \/ StageFails(e, server, cmd, back)
  BY DEF AcceptData
<1> DEFINE u == e.user
           d == server.user[u].lastdc
           cmd == server.user[u].command
<1>3. u \in Users /\ d \in Slots
  BY DEF TypeOK, Entries, Memories, UserRecords
<1>4. \A s \in Sockets : Begin(Establish(server, u, d, s), u, cmd) \in Memories
  BY <1>3, EstablishTyped, BeginTyped DEF TypeOK, Handles
<1>5. CASE (\E s \in Sockets : server' = Begin(Establish(server, u, d, s), u, cmd)) /\ Resume(e, back)
  <2>1. server' \in Memories
    BY <1>4, <1>5
  <2>2. QED
    BY <1>1, <1>5, <2>1, ResumeTyped DEF TypeOK
<1>6. CASE StageFails(e, server, cmd, back)
  BY <1>1, <1>6, StageFailsTyped DEF TypeOK
<1>7. QED
  BY <1>2, <1>5, <1>6

\* An entry of a data connection.
LEMMA ProcessDataTyped ==
  ASSUME TypeOK, ProcessData
  PROVE  TypeOK'
<1>1. PICK e \in polls, eof \in BOOLEAN, last \in BOOLEAN :
        /\ e.slot # ControlSlot
        /\ server' = AfterHup(AfterSend(AfterRecv(server, e, eof), e, last), e)
        /\ Resume(e, "sweep")
  BY DEF ProcessData
<1>2. e.user \in Users /\ e.slot \in Slots
  BY <1>1 DEF TypeOK, Entries
<1>3. \A n \in Memories : DataClose(n, e.user, e.slot) \in Memories /\ Reply(n, e.user) \in Memories
  BY <1>2, DataCloseTyped, ReplyTyped
<1>4. AfterRecv(server, e, eof) \in Memories
  BY <1>3 DEF AfterRecv, TypeOK
<1>5. \A n \in Memories : AfterSend(n, e, last) \in Memories /\ AfterHup(n, e) \in Memories
  BY <1>3 DEF AfterSend, AfterHup
<1>6. server' \in Memories
  BY <1>1, <1>4, <1>5
<1>7. QED
  BY <1>1, <1>6, ResumeTyped DEF TypeOK, ProcessData, Places

\* What a client does to a handle.
LEMMA ClientsTyped ==
  ASSUME TypeOK, Clients
  PROVE  TypeOK'
<1>1. CASE Connect \/ GiveUp
  BY <1>1, BoundsAssumption DEF Connect, GiveUp, TypeOK
<1>2. ASSUME NEW s \in Sockets, NEW r \in SocketRecords
      PROVE  [server EXCEPT !.sock[s] = r] \in Memories
  BY <1>2 DEF TypeOK, Memories
<1>3. \A s \in Sockets : server.sock[s] \in SocketRecords
  BY DEF TypeOK, Memories
<1>4. ASSUME NEW s \in Sockets, ClientSend(s) PROVE TypeOK'
  <2>1. PICK line \in Commands \cup {"LONG", "BLANK", "PART"} :
          server' = [server EXCEPT !.sock[s].in = Append(@, line)]
    BY <1>4 DEF ClientSend
  <2>2. line \in Lines
    BY CommandsAssumption DEF Lines
  <2>3. server.sock[s].in \in Seq(Lines)
    BY <1>3 DEF SocketRecords
  <2>4. Append(server.sock[s].in, line) \in Seq(Lines)
    BY <2>2, <2>3
  <2>5. [server.sock[s] EXCEPT !.in = Append(@, line)] \in SocketRecords
    BY <1>3, <2>4 DEF SocketRecords
  <2>6. server' \in Memories
    BY <1>2, <2>1, <2>5
  <2>7. QED
    BY <1>4, <2>6 DEF ClientSend, TypeOK
<1>5. ASSUME NEW s \in Sockets, ClientClose(s) \/ Knock(s) \/ KnockGivenUp(s) PROVE TypeOK'
  <2>1. /\ [server.sock[s] EXCEPT !.hup = TRUE] \in SocketRecords
        /\ [server.sock[s] EXCEPT !.kind = "knocked"] \in SocketRecords
    BY <1>3 DEF SocketRecords
  <2>2. server' \in Memories
    BY <1>2, <1>5, <2>1 DEF ClientClose, Knock, KnockGivenUp
  <2>3. QED
    BY <1>5, <2>2 DEF ClientClose, Knock, KnockGivenUp, TypeOK
<1>6. QED
  BY <1>1, <1>4, <1>5 DEF Clients

\* The loop starts with empty tables of the right types.
LEMMA InitTyped == Init => TypeOK
<1>1. ZeroMemory \in Memories
  BY ZeroTyped, SockTyped DEF ZeroMemory, Memories
<1>2. QED
  BY <1>1, BoundsAssumption DEF Init, TypeOK, Places

\* No run of the server loop leaves the types: for all sizes of the tables, all
\* sets of handles and commands, and all faults.
THEOREM TypeCorrect == Spec => []TypeOK
<1>1. Init => TypeOK
  BY InitTyped
<1>2. TypeOK /\ [Next]_vars => TypeOK'
  <2>1. SUFFICES ASSUME TypeOK, [Next]_vars PROVE TypeOK'
    OBVIOUS
  <2>2. CASE Server
    BY <2>1, <2>2, PollTyped, ListenerTyped, RecvLineTyped, FlushTyped, DelayedTyped,
       AcceptDataTyped, ProcessDataTyped DEF Server
  <2>3. CASE Clients
    BY <2>1, <2>3, ClientsTyped
  <2>4. CASE UNCHANGED vars
    BY <2>1, <2>4 DEF vars, TypeOK
  <2>5. QED
    BY <2>1, <2>2, <2>3, <2>4 DEF Next
<1>3. QED
  BY <1>1, <1>2, PTL DEF Spec
=============================================================================
