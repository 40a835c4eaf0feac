---------------------------- MODULE ServerMemory ----------------------------
(***************************************************************************)
(* The memory of ftpd.c: the global `server' (session table, data-channel  *)
(* tables) together with the sockets the operating system holds for the    *)
(* process, and the functions of ftpd.c that open and close sessions and   *)
(* data channels.  A C function that changes this memory is an operator    *)
(* from memories to memories, so a handler that calls several of them in   *)
(* sequence is their composition, in the order of the code.                *)
(*                                                                         *)
(* A memory is a record                                                    *)
(*   userslots   the sessions whose bit is set in server.userslots         *)
(*   user        server.user[], one record per session slot                *)
(*   dataslots   the channels <<u, d>> whose bit is set in dataslots of u  *)
(*   dc          server.user[u].data[d], one record per channel            *)
(*   sock        the socket handles, as the operating system sees them     *)
(*                                                                         *)
(* Abstracted: a send buffer is present or not (its bytes are in           *)
(* SendBuffer); a command line is a member of Commands or one of three     *)
(* shapes of line; files, paths and directories are left out.              *)
(***************************************************************************)
EXTENDS Integers, Sequences, FiniteSets

CONSTANTS
  MAX_USERS,          \* session slots
  MAX_DATACHANNELS,   \* data channels of one session
  Sockets,            \* the handles the operating system can give out
  Commands            \* the command lines clients send

\* The kinds of command line the event loop tells apart.  "NOOP" stands for
\* every command that only replies: the refused and failed ones too.
AllCommands == {"LIST", "RETR", "STOR", "PORT", "PASV", "QUIT", "NOOP"}

ASSUME UsersAssumption == MAX_USERS \in Nat \ {0}
ASSUME ChannelsAssumption == MAX_DATACHANNELS \in Nat \ {0}
ASSUME SocketsAssumption == Sockets \subseteq Nat \ {0}
ASSUME CommandsAssumption == Commands \subseteq AllCommands

NoSocket == 0            \* a SOCKET field that names no handle
INVALID_SOCKET == -1     \* what socket() and accept() return on failure
Handles == Sockets \cup {NoSocket, INVALID_SOCKET}

Users == 0 .. MAX_USERS - 1
Slots == 0 .. MAX_DATACHANNELS - 1
Channels == Users \X Slots

\* Commands that run in two stages, the second one when `dlcommand' is set.
Transfers == {"LIST", "RETR", "STOR"}

\* What a read of the control socket can find: a whole command line, a line
\* that overflows command[], an empty line, or bytes of a line not yet ended.
Lines == AllCommands \cup {"LONG", "BLANK", "PART"}

NoCommand == "none"

\* ftpd_user_t without its channels; the all-zero record is what memset leaves.
UserRecords ==
  [control : Handles, sendbuf : BOOLEAN,
   disconnected : BOOLEAN, dlcommand : {0, 1}, command : AllCommands \cup {NoCommand},
   lastdc : Slots]

ZeroUser ==
  [control |-> NoSocket, sendbuf |-> FALSE, disconnected |-> FALSE,
   dlcommand |-> 0, command |-> NoCommand, lastdc |-> 0]

\* dataconn_t; `event' and `close' say whether the callback pointer is set, and
\* the only callback there is sends the reply 226 (ftpd_list_event_end).
DataRecords ==
  [conn : Handles, lconn : Handles,
   type : {"ACTIVE", "PASSIVE", "CONNECTED"}, mode : {"SEND", "SEND_FP", "RECV_FP"},
   event : BOOLEAN, close : BOOLEAN]

ZeroData ==
  [conn |-> NoSocket, lconn |-> NoSocket, type |-> "ACTIVE", mode |-> "SEND",
   event |-> FALSE, close |-> FALSE]

\* A handle of the operating system.  `in' holds the lines that arrived on a
\* control connection and are not yet read; `hup' that the peer is gone.
\* A fresh data socket is "idle", a listening one "listen", or "knocked" when
\* a client waits in its backlog.
SocketRecords ==
  [kind : {"free", "idle", "listen", "knocked", "control", "data"},
   in : Seq(Lines), hup : BOOLEAN]

Closed == [kind |-> "free", in |-> <<>>, hup |-> FALSE]
Opened(kind) == [kind |-> kind, in |-> <<>>, hup |-> FALSE]

Memories ==
  [userslots : SUBSET Users, user : [Users -> UserRecords],
   dataslots : SUBSET Channels, dc : [Channels -> DataRecords],
   sock : [Sockets -> SocketRecords]]

\* The memory after ftpd_start_server: nothing is allocated.
ZeroMemory ==
  [userslots |-> {}, user |-> [u \in Users |-> ZeroUser],
   dataslots |-> {}, dc |-> [c \in Channels |-> ZeroData],
   sock |-> [s \in Sockets |-> Closed]]

-----------------------------------------------------------------------------
Free(m) == {s \in Sockets : m.sock[s].kind = "free"}

\* The slot a scan of the bitmap from 0 finds clear first.
FirstFreeUser(m, u) ==
  /\ u \in Users \ m.userslots
  /\ \A v \in Users \ m.userslots : u <= v

FirstFreeSlot(m, u, d) ==
  /\ d \in Slots /\ <<u, d>> \notin m.dataslots
  /\ \A k \in Slots : <<u, k>> \notin m.dataslots => d <= k

UsersFull(m) == m.userslots = Users
SlotsFull(m, u) == \A d \in Slots : <<u, d>> \in m.dataslots

\* closesocket on each member of S that is a handle, whoever holds it.
CloseSockets(m, S) ==
  [m EXCEPT !.sock = [s \in Sockets |-> IF s \in S THEN Closed ELSE m.sock[s]]]

\* Text appended to the send buffer of the session.
Reply(m, u) == [m EXCEPT !.user[u] = [@ EXCEPT !.sendbuf = TRUE]]

Disconnect(m, u) ==
  [m EXCEPT !.user[u] = [@ EXCEPT !.sendbuf = TRUE, !.disconnected = TRUE]]

\* An accepted control connection s in slot u, greeted with 220.  The memset
\* covers the channels of the slot too.
OpenSession(m, u, s) ==
  [m EXCEPT
     !.userslots = @ \cup {u},
     !.user[u] = [ZeroUser EXCEPT !.control = s, !.sendbuf = TRUE],
     !.dc = [c \in Channels |-> IF c[1] = u THEN ZeroData ELSE m.dc[c]],
     !.dataslots = {c \in m.dataslots : c[1] # u},
     !.sock = [t \in Sockets |-> IF t = s THEN Opened("control") ELSE m.sock[t]]]

\* PORT: channel d of u gets the unconnected socket s.
OpenActive(m, u, d, s) ==
  [m EXCEPT
     !.dc[<<u, d>>] = [@ EXCEPT !.conn = s, !.lconn = NoSocket, !.type = "ACTIVE",
                                !.event = FALSE, !.close = FALSE],
     !.user[u] = [@ EXCEPT !.lastdc = d],
     !.dataslots = @ \cup {<<u, d>>},
     !.sock = [t \in Sockets |-> IF t = s THEN Opened("idle") ELSE m.sock[t]]]

\* Mutant: PASV without BMP_ON.
OpenPassiveNoBit(m, u, d, s) ==
  [m EXCEPT
     !.dc[<<u, d>>] = [@ EXCEPT !.lconn = s, !.type = "PASSIVE"],
     !.user[u] = [@ EXCEPT !.lastdc = d],
     !.sock = [t \in Sockets |-> IF t = s THEN Opened("listen") ELSE m.sock[t]]]

\* Mutant: lastdc is the loop variable, which the search for a port has moved on.
OpenPassivePort(m, u, d, s) ==
  [m EXCEPT
     !.dc[<<u, d>>] = [@ EXCEPT !.lconn = s, !.type = "PASSIVE"],
     !.user[u] = [@ EXCEPT !.lastdc = 5000],
     !.dataslots = @ \cup {<<u, d>>},
     !.sock = [t \in Sockets |-> IF t = s THEN Opened("listen") ELSE m.sock[t]]]

\* PASV: channel d of u gets the listening socket s.
OpenPassive(m, u, d, s) ==
  [m EXCEPT
     !.dc[<<u, d>>] = [@ EXCEPT !.conn = NoSocket, !.lconn = s, !.type = "PASSIVE",
                                !.event = FALSE, !.close = FALSE],
     !.user[u] = [@ EXCEPT !.lastdc = d],
     !.dataslots = @ \cup {<<u, d>>},
     !.sock = [t \in Sockets |-> IF t = s THEN Opened("listen") ELSE m.sock[t]]]

\* Mutant: the type is set before the bind is known to work.
FailPassiveTypeSet(m, u, d, s) ==
  [m EXCEPT !.dc[<<u, d>>] = [@ EXCEPT !.conn = NoSocket, !.lconn = s, !.type = "PASSIVE"]]

\* PASV when no port can be bound: the socket is closed again, and its number
\* stays behind in the slot, which is not allocated.
FailPassive(m, u, d, s) ==
  [m EXCEPT !.dc[<<u, d>>] = [@ EXCEPT !.conn = NoSocket, !.lconn = s]]

\* Mutants: ftpd_data_close without its memset, and without the BMP_OFF too.
DataCloseNoMemset(m, u, d) ==
  [CloseSockets(m, {m.dc[<<u, d>>].conn, m.dc[<<u, d>>].lconn}) EXCEPT
     !.dataslots = @ \ {<<u, d>>}]

DataCloseSocketsOnly(m, u, d) ==
  CloseSockets(m, {m.dc[<<u, d>>].conn, m.dc[<<u, d>>].lconn})

\* ftpd_data_close: the close callback, both sockets, the record, the bit.
DataClose(m, u, d) ==
  LET c == m.dc[<<u, d>>]
      called == IF c.close THEN Reply(m, u) ELSE m
  IN [CloseSockets(called, {c.conn, c.lconn}) EXCEPT
        !.dc[<<u, d>>] = ZeroData, !.dataslots = @ \ {<<u, d>>}]

\* Mutant: ftpd_data_close without its memset.
WildCloseKeepsRecord(m, u, c) ==
  CloseSockets(IF m.dc[c].close THEN Reply(m, u) ELSE m, {m.dc[c].conn, m.dc[c].lconn})

\* ftpd_data_close called for u with a channel c of another session: the callback
\* replies to u, and the bit is looked for where it is not and stays set.  (What is
\* cleared in its stead is a bit behind dataslots of u: of command[], for a channel
\* of the next session, of what follows it for those further on.  Left out.)
WildClose(m, u, c) ==
  LET called == IF m.dc[c].close THEN Reply(m, u) ELSE m
  IN [CloseSockets(called, {m.dc[c].conn, m.dc[c].lconn}) EXCEPT !.dc[c] = ZeroData]

\* The sockets session u and its allocated channels name.
Holdings(m, u) ==
  {m.user[u].control}
    \cup UNION {{m.dc[c].conn, m.dc[c].lconn} : c \in {x \in m.dataslots : x[1] = u}}

\* What the end of session u clears.
ClearSession(m, u) ==
  [m EXCEPT
     !.user[u] = ZeroUser,
     !.dc = [c \in Channels |-> IF c[1] = u THEN ZeroData ELSE m.dc[c]],
     !.dataslots = {c \in m.dataslots : c[1] # u},
     !.userslots = @ \ {u}]

\* Mutants: ftpd_close_session without its loop over the channels, without the
\* sockets that listen, without the bits of the channels, and with a memset that
\* reaches all sessions.
CloseSessionNoLoop(m, u) == ClearSession(CloseSockets(m, {m.user[u].control}), u)

CloseSessionKeepsListening(m, u) ==
  ClearSession(CloseSockets(m, {m.user[u].control} \cup {m.dc[c].conn : c \in {x \in m.dataslots : x[1] = u}}), u)

CloseSessionKeepsBits(m, u) ==
  [ClearSession(CloseSockets(m, Holdings(m, u)), u) EXCEPT !.dataslots = m.dataslots]

CloseSessionWipesAll(m, u) ==
  [ClearSession(CloseSockets(m, Holdings(m, u)), u) EXCEPT !.dc = [c \in Channels |-> ZeroData]]

\* ftpd_close_session: the control socket, every allocated channel, the record
\* (with all channels in it), the bit.
CloseSession(m, u) == ClearSession(CloseSockets(m, Holdings(m, u)), u)

\* Closing u uses freed memory: the buffer is freed first, and a close callback
\* of a channel then appends its reply to it.
UseAfterFree(m, u) ==
  m.user[u].sendbuf /\ \E c \in m.dataslots : c[1] = u /\ m.dc[c].close

\* A connection accepted or made on channel <<u, d>>.
Establish(m, u, d, s) ==
  [m EXCEPT !.dc[<<u, d>>] = [@ EXCEPT !.conn = s, !.type = "CONNECTED"],
            !.sock = [t \in Sockets |->
                        CASE t = s -> Opened("data")
                          [] t # s /\ t = m.dc[<<u, d>>].lconn -> [m.sock[t] EXCEPT !.kind = "listen"]
                          [] OTHER -> m.sock[t]]]

\* A channel whose transfer begins.
Begun(r, cmd) ==
  CASE cmd = "LIST" -> [r EXCEPT !.type = "CONNECTED", !.mode = "SEND", !.event = TRUE]
    [] cmd = "RETR" -> [r EXCEPT !.type = "CONNECTED", !.mode = "SEND_FP", !.event = TRUE]
    [] OTHER -> [r EXCEPT !.type = "CONNECTED", !.mode = "RECV_FP", !.close = TRUE]

\* The end of the second stage of a transfer on the current channel of u.
Begin(m, u, cmd) ==
  [m EXCEPT !.dc[<<u, m.user[u].lastdc>>] = Begun(@, cmd),
            !.user[u] = [@ EXCEPT !.dlcommand = 0, !.command = NoCommand]]

\* Mutant: the 425 leaves dlcommand set.
RefuseStillDelayed(m, u) == [m EXCEPT !.user[u].sendbuf = TRUE]

\* The 425 that ends a second stage whose data connection failed.
Refuse(m, u) ==
  [m EXCEPT !.user[u] = [@ EXCEPT !.sendbuf = TRUE, !.dlcommand = 0, !.command = NoCommand]]
=============================================================================
