------------------------ MODULE EventLoopProperties -------------------------
(***************************************************************************)
(* What the server loop of ftpd.c must keep true between any two of its    *)
(* steps, whatever the clients do, and what must happen in the end.        *)
(***************************************************************************)
EXTENDS EventLoop

\* The channels and the sessions that name the handle s.
ControlHolders(m, s) == {u \in m.userslots : m.user[u].control = s}
DataHolders(m, s) == {c \in m.dataslots : s \in {m.dc[c].conn, m.dc[c].lconn}}

-----------------------------------------------------------------------------
\* The handle of an allocated channel fits the state of the channel.
ChannelFits(m, c) ==
  LET r == m.dc[c] IN
  /\ r.type = "ACTIVE" =>
       /\ r.lconn = NoSocket
       /\ r.conn \in Sockets => m.sock[r.conn].kind = "idle"
  /\ r.type = "PASSIVE" =>
       /\ r.conn = NoSocket
       /\ r.lconn \in Sockets /\ m.sock[r.lconn].kind \in {"listen", "knocked"}
  /\ r.type = "CONNECTED" =>
       /\ r.conn \in Sockets /\ m.sock[r.conn].kind = "data"
       /\ r.lconn \in Sockets => m.sock[r.lconn].kind \in {"listen", "knocked"}

\* Every table entry in use names handles that are open and are what the entry
\* takes them for: closing, polling or reading an entry never reaches a handle
\* that was closed before and has perhaps been given to somebody else.
HandlesFit ==
  /\ \A u \in server.userslots :
       server.user[u].control \in Sockets =>
         server.sock[server.user[u].control].kind = "control"
  /\ \A c \in server.dataslots : ChannelFits(server, c)

\* No handle has two owners, so closing one connection never closes another.
HandlesUnshared ==
  \A s \in Sockets :
    /\ \A u, v \in ControlHolders(server, s) : u = v
    /\ \A c, d \in DataHolders(server, s) : c = d
    /\ ControlHolders(server, s) = {} \/ DataHolders(server, s) = {}

\* Every open handle has an owner, whose end will close it: an endless run of
\* sessions and transfers does not use up the handles of the process.
HandlesOwned ==
  \A s \in Sockets :
    server.sock[s].kind # "free" =>
      ControlHolders(server, s) # {} \/ DataHolders(server, s) # {}

\* All zero, apart from what a PASV that failed leaves: the result of socket(),
\* which is a handle only if no port can be bound.
LeftBehind == {NoSocket, INVALID_SOCKET} \cup (IF "bind" \in Faults THEN Sockets ELSE {})

CleanData ==
  [conn : {NoSocket}, lconn : LeftBehind, type : {"ACTIVE"},
   mode : {"SEND"}, event : {FALSE}, close : {FALSE}]

\* A slot that is not allocated is clean: the next owner of the slot, and a close of a slot nobody
\* owns, find no handle, callback or mode of the last one.
FreeSlotsClean ==
  /\ \A c \in Channels \ server.dataslots : server.dc[c] \in CleanData
  /\ \A u \in Users \ server.userslots :
       /\ server.user[u] = ZeroUser
       /\ \A d \in Slots : <<u, d>> \notin server.dataslots

\* A control entry still to be handled is that of an open session, and there is
\* one entry only for a connection: a session that ends leaves no control entry
\* behind that would be handled for a slot nobody owns.
PolledOwned == \A e \in polls : e.slot = ControlSlot => e.user \in server.userslots
PolledOnce == \A e, f \in polls : e.user = f.user /\ e.slot = f.slot => e = f

\* Inside ftpd_user_recv and the wait for a data connection the entry handled is
\* that of a control connection, and the wait is for a passive channel.
InControl ==
  pc \in {"recv", "flush", "accept", "acceptInRecv"} =>
    \A e \in polls : Current(e) =>
      /\ e.slot = ControlSlot
      /\ pc \in {"accept", "acceptInRecv"} =>
           server.dc[<<e.user, server.user[e.user].lastdc>>].type = "PASSIVE"

\* The inductive invariant behind FreeSlotsClean: the close of a data entry whose
\* session is gone finds a clean slot, so that it neither replies nor connects.
SlotsInv == TypeOK /\ FreeSlotsClean /\ PolledOwned /\ PolledOnce /\ InControl

\* The entries of a poll are handled one by one while the handling of the
\* earlier ones opens and closes sessions and channels.  No entry is handled
\* for another connection than the one that was polled: a control entry still
\* belongs to its session, and a channel is the polled one, or free, or has no
\* connection at all since a wild close took that of a session that goes on.
PolledCurrent ==
  \A e \in polls :
    LET c == <<e.user, e.slot>> IN
    IF e.slot = ControlSlot
    THEN e.user \in server.userslots /\ server.user[e.user].control = e.fd
    ELSE c \in server.dataslots =>
           \/ server.dc[c].type = "CONNECTED" /\ server.dc[c].conn = e.fd
           \/ "wild" \in Faults /\ e.user \in server.userslots /\ server.dc[c] = ZeroData

\* While the server waits for a data connection it does so for the delayed
\* command of the session it handles, on that session's own listening socket,
\* so that a client that connects there ends the wait.
WaitsOnOwnChannel ==
  pc \in {"accept", "acceptInRecv"} =>
    \E e \in polls :
      LET u == e.user
          c == <<u, server.user[u].lastdc>>
      IN /\ Current(e) /\ e.slot = ControlSlot
         /\ u \in server.userslots /\ c \in server.dataslots
         /\ server.user[u].dlcommand = 1 /\ server.user[u].command \in Transfers
         /\ server.dc[c].type = "PASSIVE"
         /\ server.sock[server.dc[c].lconn].kind \in {"listen", "knocked"}

\* A delayed command has no event of its own: what brings the server back to it
\* is the reply 150 that is still to be sent.  The server never goes to poll with
\* a delayed command and nothing to send, where it might sleep for ever.
DelayedWoken ==
  pc = "sweep" /\ polls = {} =>
    \A u \in server.userslots : server.user[u].dlcommand = 1 => server.user[u].sendbuf

\* "Delayed command after send": when the server waits for a data connection, the
\* client has been told so.
SentBeforeWait ==
  pc \in {"accept", "acceptInRecv"} =>
    \A e \in polls : Current(e) => ~server.user[e.user].sendbuf

\* No session is in a state where its end would reply into the buffer it has just
\* freed: an upload in progress and a reply not yet sent.
NoUseAfterFree == \A u \in server.userslots : ~UseAfterFree(server, u)

-----------------------------------------------------------------------------
\* What belongs to session u: its record, its channels, those in D without what is
\* in them, and the handles they name, except what the clients do to these.
Belongings(u, D) ==
  <<u \in server.userslots, server.user[u],
    [d \in Slots |->
       <<<<u, d>> \in server.dataslots, IF d \in D THEN ZeroData ELSE server.dc[<<u, d>>]>>],
    {s \in Holdings(server, u) \cap Sockets : server.sock[s].kind = "free"}>>

\* A step does more to session u than a wild close, which zeroes a record and ends
\* no session.
Touched(u) ==
  LET struck == {d \in Slots : /\ "wild" \in Faults /\ server'.userslots = server.userslots
                                /\ server'.dc[<<u, d>>] = ZeroData}
  IN Belongings(u, {})' # Belongings(u, struck)

\* One step of the server changes what belongs to at most one session: an error,
\* a timeout or a closed connection of one client leaves the others alone, but for
\* the wild close of a failed transfer, which can take another's connection and
\* nothing else.  (A channel left behind by a bind that failed can do worse.)
Isolation == [][\E w \in Users : \A v \in Users \ {w} : ~Touched(v)]_vars

\* A session ends with everything it had: in the step that frees its slot all of
\* its channels and all of their handles are closed.
SessionEndsWhole ==
  [][\A u \in server.userslots :
       u \notin server'.userslots =>
         /\ \A d \in Slots : <<u, d>> \notin server'.dataslots
         /\ \A s \in Holdings(server, u) \cap Sockets : server'.sock[s].kind = "free"]_vars

\* A client that finds all slots taken is refused: nothing that exists is touched.
RefusedWhenFull ==
  [][pc = "listener" /\ UsersFull(server) =>
       /\ pc' # "crashed"
       /\ server'.userslots = server.userslots /\ server'.user = server.user]_vars

\* The loop implements SessionService.
ChannelState(m, c) ==
  IF c \notin m.dataslots THEN "none"
  ELSE CASE m.dc[c].type = "ACTIVE" -> "active"
         [] m.dc[c].type = "PASSIVE" -> "passive"
         [] OTHER -> "connected"

Service == INSTANCE SessionService
             WITH sessions <- server.userslots,
                  channel <- [c \in Channels |-> ChannelState(server, c)],
                  Wild <- "wild" \in Faults

\* Sessions and channels step as SessionService allows, whatever is polled, in
\* whichever order, and whatever fails.
ImplementsService == Service!Spec

-----------------------------------------------------------------------------
\* A client that hangs up is found out and its handle is closed.
HangupNoticed ==
  \A s \in Sockets :
    (server.sock[s].kind = "control" /\ server.sock[s].hup)
      ~> (server.sock[s].kind = "free" \/ pc = "crashed")

\* A delayed command does not stay delayed.
DelayedRuns ==
  \A u \in Users :
    (server.user[u].dlcommand = 1) ~> (server.user[u].dlcommand = 0 \/ pc = "crashed")

\* The server comes back from a wait for a data connection.
WaitEnds == (pc \in {"accept", "acceptInRecv"}) ~> (pc \notin {"accept", "acceptInRecv"})
=============================================================================
