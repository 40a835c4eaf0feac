---------------------------- MODULE SessionProofs ----------------------------
(***************************************************************************)
(* Sessions, channels and handles belong together: the properties of the   *)
(* loop that relate a table entry to the handles it names, a step to the   *)
(* sessions it concerns, a poll entry to the connection that was polled,   *)
(* and a delayed command to the reply that announced it.                   *)
(*                                                                         *)
(* The functions on the memory come first, field by field; then one part   *)
(* per invariant.  A theorem names in its hypothesis the members of Faults *)
(* without which it does not hold.                                         *)
(***************************************************************************)
EXTENDS SlotsProofs

\* Nothing but the record of u changes, and in it neither the connection nor the
\* current channel.
RecordOnly(m, n, u) ==
  /\ n.userslots = m.userslots /\ n.dataslots = m.dataslots
  /\ n.dc = m.dc /\ n.sock = m.sock
  /\ \A v \in Users \ {u} : n.user[v] = m.user[v]
  /\ n.user[u].control = m.user[u].control
  /\ n.user[u].lastdc = m.user[u].lastdc

\* The changes of a record: the reply, the end a session asks for, the refusal, the
\* command that is put off, the text that is overwritten, and what is sent.
FirstStage(m, u, cmd) ==
  [m EXCEPT !.user[u] = [@ EXCEPT !.sendbuf = TRUE, !.dlcommand = 1, !.command = cmd]]

LEMMA RecordChanges ==
  ASSUME NEW m \in Memories, NEW u \in Users
  PROVE  /\ RecordOnly(m, m, u)
         /\ \A n \in {Reply(m, u), Disconnect(m, u)} :
              /\ RecordOnly(m, n, u)
              /\ n.user[u].sendbuf
              /\ n.user[u].dlcommand = m.user[u].dlcommand
              /\ n.user[u].command = m.user[u].command
         /\ RecordOnly(m, Refuse(m, u), u)
         /\ Refuse(m, u).user[u].dlcommand = 0
         /\ \A cmd : /\ RecordOnly(m, FirstStage(m, u, cmd), u)
                     /\ FirstStage(m, u, cmd).user[u].sendbuf
                     /\ FirstStage(m, u, cmd).user[u].dlcommand = 1
                     /\ FirstStage(m, u, cmd).user[u].command = cmd
         /\ \A cmd : /\ RecordOnly(m, Overwrite(m, u, cmd), u)
                     /\ Overwrite(m, u, cmd).user[u].sendbuf = m.user[u].sendbuf
                     /\ Overwrite(m, u, cmd).user[u].dlcommand = m.user[u].dlcommand
                     /\ m.user[u].dlcommand = 1 => Overwrite(m, u, cmd).user[u].command = cmd
                     /\ m.user[u].dlcommand = 0 => Overwrite(m, u, cmd) = m
<1>1. m.user[u] \in UserRecords
  BY DEF Memories
<1>2. ASSUME NEW r, r.control = m.user[u].control, r.lastdc = m.user[u].lastdc
      PROVE  RecordOnly(m, [m EXCEPT !.user[u] = r], u) /\ [m EXCEPT !.user[u] = r].user[u] = r
  BY <1>2 DEF RecordOnly, Memories
<1>3. RecordOnly(m, m, u)
  BY DEF RecordOnly
<1>4. /\ RecordOnly(m, Reply(m, u), u)
      /\ Reply(m, u).user[u].sendbuf
      /\ Reply(m, u).user[u].dlcommand = m.user[u].dlcommand
      /\ Reply(m, u).user[u].command = m.user[u].command
  <2> DEFINE r == [m.user[u] EXCEPT !.sendbuf = TRUE]
  <2>1. /\ r.control = m.user[u].control /\ r.lastdc = m.user[u].lastdc
        /\ r.sendbuf /\ r.dlcommand = m.user[u].dlcommand /\ r.command = m.user[u].command
    BY <1>1 DEF UserRecords
  <2>2. Reply(m, u) = [m EXCEPT !.user[u] = r]
    BY DEF Reply
  <2> HIDE DEF r
  <2>3. QED
    BY <1>2, <2>1, <2>2
<1>5. /\ RecordOnly(m, Disconnect(m, u), u)
      /\ Disconnect(m, u).user[u].sendbuf
      /\ Disconnect(m, u).user[u].dlcommand = m.user[u].dlcommand
      /\ Disconnect(m, u).user[u].command = m.user[u].command
  <2> DEFINE r == [m.user[u] EXCEPT !.sendbuf = TRUE, !.disconnected = TRUE]
  <2>1. /\ r.control = m.user[u].control /\ r.lastdc = m.user[u].lastdc
        /\ r.sendbuf /\ r.dlcommand = m.user[u].dlcommand /\ r.command = m.user[u].command
    BY <1>1 DEF UserRecords
  <2>2. Disconnect(m, u) = [m EXCEPT !.user[u] = r]
    BY DEF Disconnect
  <2> HIDE DEF r
  <2>3. QED
    BY <1>2, <2>1, <2>2
<1>6. RecordOnly(m, Refuse(m, u), u) /\ Refuse(m, u).user[u].dlcommand = 0
  <2> DEFINE r == [m.user[u] EXCEPT !.sendbuf = TRUE, !.dlcommand = 0, !.command = NoCommand]
  <2>1. r.control = m.user[u].control /\ r.lastdc = m.user[u].lastdc /\ r.dlcommand = 0
    BY <1>1 DEF UserRecords
  <2>2. Refuse(m, u) = [m EXCEPT !.user[u] = r]
    BY DEF Refuse
  <2> HIDE DEF r
  <2>3. QED
    BY <1>2, <2>1, <2>2
<1>7. ASSUME NEW cmd
      PROVE  /\ RecordOnly(m, FirstStage(m, u, cmd), u)
             /\ FirstStage(m, u, cmd).user[u].sendbuf
             /\ FirstStage(m, u, cmd).user[u].dlcommand = 1
             /\ FirstStage(m, u, cmd).user[u].command = cmd
  <2> DEFINE r == [m.user[u] EXCEPT !.sendbuf = TRUE, !.dlcommand = 1, !.command = cmd]
  <2>1. /\ r.control = m.user[u].control /\ r.lastdc = m.user[u].lastdc
        /\ r.sendbuf /\ r.dlcommand = 1 /\ r.command = cmd
    BY <1>1 DEF UserRecords
  <2>2. FirstStage(m, u, cmd) = [m EXCEPT !.user[u] = r]
    BY DEF FirstStage
  <2> HIDE DEF r
  <2>3. QED
    BY <1>2, <2>1, <2>2
<1>8. ASSUME NEW cmd
      PROVE  /\ RecordOnly(m, Overwrite(m, u, cmd), u)
             /\ Overwrite(m, u, cmd).user[u].sendbuf = m.user[u].sendbuf
             /\ Overwrite(m, u, cmd).user[u].dlcommand = m.user[u].dlcommand
             /\ m.user[u].dlcommand = 1 => Overwrite(m, u, cmd).user[u].command = cmd
             /\ m.user[u].dlcommand = 0 => Overwrite(m, u, cmd) = m
  <2> DEFINE r == [m.user[u] EXCEPT !.command = cmd]
  <2>1. /\ r.control = m.user[u].control /\ r.lastdc = m.user[u].lastdc
        /\ r.sendbuf = m.user[u].sendbuf /\ r.dlcommand = m.user[u].dlcommand /\ r.command = cmd
    BY <1>1 DEF UserRecords
  <2>2. Overwrite(m, u, cmd) = IF m.user[u].dlcommand = 1 THEN [m EXCEPT !.user[u] = r] ELSE m
    BY DEF Overwrite, Memories
  <2>3. m.user[u].dlcommand \in {0, 1}
    BY <1>1 DEF UserRecords
  <2> HIDE DEF r
  <2>4. QED
    BY <1>2, <1>3, <2>1, <2>2, <2>3
<1>9. QED
  BY <1>3, <1>4, <1>5, <1>6, <1>7, <1>8

\* What is sent: the buffer is emptied, or a part of it remains.
LEMMA SentFields ==
  ASSUME NEW m \in Memories, NEW e \in Entries, NEW more \in BOOLEAN, NEW n, n = Sent(m, e, more)
  PROVE  /\ RecordOnly(m, n, e.user)
         /\ n.user[e.user].dlcommand = m.user[e.user].dlcommand
         /\ n.user[e.user].command = m.user[e.user].command
         /\ n.user[e.user].disconnected = m.user[e.user].disconnected
         /\ "OUT" \notin e.revents => n = m
         /\ "OUT" \in e.revents => n.user[e.user].sendbuf = (m.user[e.user].sendbuf /\ more)
<1> DEFINE u == e.user
           r == [m.user[u] EXCEPT !.sendbuf = @ /\ more]
<1>1. u \in Users /\ m.user[u] \in UserRecords
  BY DEF Entries, Memories
<1>2. /\ r.control = m.user[u].control /\ r.lastdc = m.user[u].lastdc /\ r.command = m.user[u].command
      /\ r.dlcommand = m.user[u].dlcommand /\ r.disconnected = m.user[u].disconnected
      /\ r.sendbuf = (m.user[u].sendbuf /\ more)
  BY <1>1 DEF UserRecords
<1>3. n = IF "OUT" \in e.revents THEN [m EXCEPT !.user[u] = r] ELSE m
  BY <1>1 DEF Sent, Memories
<1> HIDE DEF r
<1>4. /\ RecordOnly(m, [m EXCEPT !.user[u] = r], u) /\ RecordOnly(m, m, u)
      /\ [m EXCEPT !.user[u] = r].user[u] = r
  BY <1>1, <1>2 DEF RecordOnly, Memories
<1> HIDE DEF u
<1>5. QED
  BY <1>2, <1>3, <1>4 DEF u
\* A line taken from a handle changes nothing else.
LEMMA TakeFields ==
  ASSUME NEW m \in Memories, NEW s \in Sockets, NEW n, n = Take(m, s)
  PROVE  /\ n.userslots = m.userslots /\ n.dataslots = m.dataslots
         /\ n.dc = m.dc /\ n.user = m.user
         /\ \A t \in Sockets \ {s} : n.sock[t] = m.sock[t]
         /\ n.sock[s].kind = m.sock[s].kind /\ n.sock[s].in = Tail(m.sock[s].in)
<1> DEFINE r == [m.sock[s] EXCEPT !.in = Tail(@)]
<1>1. r.kind = m.sock[s].kind /\ r.in = Tail(m.sock[s].in)
  BY DEF Memories, SocketRecords
<1>2. n = [m EXCEPT !.sock[s] = r]
  BY DEF Take, Memories
<1> HIDE DEF r
<1>3. QED
  BY <1>1, <1>2 DEF Memories

\* The close of a channel.
Emptied(m, n, u, d) ==
  LET c == <<u, d>> IN
  /\ n.userslots = m.userslots /\ n.dataslots = m.dataslots \ {c}
  /\ \A v \in Users \ {u} : n.user[v] = m.user[v]
  /\ n.user[u].control = m.user[u].control
  /\ n.user[u].lastdc = m.user[u].lastdc
  /\ n.user[u].dlcommand = m.user[u].dlcommand
  /\ n.user[u].command = m.user[u].command
  /\ ~m.dc[c].close => n.user[u] = m.user[u]
  /\ n.dc[c] = ZeroData
  /\ \A x \in Channels \ {c} : n.dc[x] = m.dc[x]
  /\ \A s \in Sockets : n.sock[s] = IF s = m.dc[c].conn \/ s = m.dc[c].lconn THEN Closed ELSE m.sock[s]

LEMMA DataCloseFields ==
  ASSUME NEW m \in Memories, NEW u \in Users, NEW d \in Slots, NEW n, n = DataClose(m, u, d)
  PROVE  Emptied(m, n, u, d)
<1> DEFINE c == m.dc[<<u, d>>]
           k == IF c.close THEN Reply(m, u) ELSE m
           f == [s \in Sockets |-> IF s \in {c.conn, c.lconn} THEN Closed ELSE k.sock[s]]
<1>1. <<u, d>> \in Channels /\ c.close \in BOOLEAN
  BY DEF Channels, Memories, DataRecords
<1>2. /\ RecordOnly(m, k, u) /\ k \in Memories
      /\ k.user[u].dlcommand = m.user[u].dlcommand /\ k.user[u].command = m.user[u].command
      /\ ~c.close => k.user[u] = m.user[u]
  BY RecordChanges, ReplyTyped
<1>3. n = [k EXCEPT !.sock = f, !.dc[<<u, d>>] = ZeroData, !.dataslots = @ \ {<<u, d>>}]
  BY DEF DataClose, CloseSockets
<1> HIDE DEF k
<1>4. /\ n.userslots = k.userslots /\ n.user = k.user /\ n.dataslots = k.dataslots \ {<<u, d>>}
      /\ n.dc = [k.dc EXCEPT ![<<u, d>>] = ZeroData] /\ n.sock = f
  BY <1>2, <1>3 DEF Memories
<1>5. n.dc[<<u, d>>] = ZeroData /\ \A x \in Channels \ {<<u, d>>} : n.dc[x] = k.dc[x]
  BY <1>1, <1>2, <1>4 DEF Memories
<1>6. \A s \in Sockets : n.sock[s] = IF s = c.conn \/ s = c.lconn THEN Closed ELSE m.sock[s]
  BY <1>2, <1>4 DEF RecordOnly
<1> HIDE DEF c, f
<1>7. QED
  BY <1>2, <1>4, <1>5, <1>6 DEF RecordOnly, Emptied, c

\* The close of a channel of another session: its bit stays.
Zeroed(m, n, u, c) ==
  /\ n.userslots = m.userslots /\ n.dataslots = m.dataslots
  /\ \A v \in Users \ {u} : n.user[v] = m.user[v]
  /\ n.user[u].control = m.user[u].control
  /\ n.user[u].dlcommand = m.user[u].dlcommand
  /\ n.user[u].command = m.user[u].command
  /\ n.dc[c] = ZeroData
  /\ \A x \in Channels \ {c} : n.dc[x] = m.dc[x]
  /\ \A s \in Sockets : n.sock[s] = IF s = m.dc[c].conn \/ s = m.dc[c].lconn THEN Closed ELSE m.sock[s]

LEMMA WildCloseFields ==
  ASSUME NEW m \in Memories, NEW u \in Users, NEW x \in Channels, NEW n, n = WildClose(m, u, x)
  PROVE  Zeroed(m, n, u, x)
<1> DEFINE c == m.dc[x]
           k == IF c.close THEN Reply(m, u) ELSE m
           f == [s \in Sockets |-> IF s \in {c.conn, c.lconn} THEN Closed ELSE k.sock[s]]
<1>1. /\ RecordOnly(m, k, u) /\ k \in Memories
      /\ k.user[u].dlcommand = m.user[u].dlcommand /\ k.user[u].command = m.user[u].command
  BY RecordChanges, ReplyTyped
<1>2. n = [k EXCEPT !.sock = f, !.dc[x] = ZeroData]
  BY DEF WildClose, CloseSockets
<1> HIDE DEF k
<1>3. /\ n.userslots = k.userslots /\ n.user = k.user /\ n.dataslots = k.dataslots
      /\ n.dc = [k.dc EXCEPT ![x] = ZeroData] /\ n.sock = f
  BY <1>1, <1>2 DEF Memories
<1>4. n.dc[x] = ZeroData /\ \A y \in Channels \ {x} : n.dc[y] = k.dc[y]
  BY <1>1, <1>3 DEF Memories
<1>5. \A s \in Sockets : n.sock[s] = IF s = c.conn \/ s = c.lconn THEN Closed ELSE m.sock[s]
  BY <1>1, <1>3 DEF RecordOnly
<1> HIDE DEF c, f
<1>6. QED
  BY <1>1, <1>3, <1>4, <1>5 DEF RecordOnly, Zeroed, c

\* The end of a session.
LEMMA CloseSessionFields ==
  ASSUME NEW m \in Memories, NEW u \in Users, NEW n, n = CloseSession(m, u)
  PROVE  /\ n.userslots = m.userslots \ {u}
         /\ n.dataslots = {c \in m.dataslots : c[1] # u}
         /\ n.user[u] = ZeroUser
         /\ \A v \in Users \ {u} : n.user[v] = m.user[v]
         /\ \A c \in Channels : n.dc[c] = IF c[1] = u THEN ZeroData ELSE m.dc[c]
         /\ \A s \in Sockets : n.sock[s] = IF s \in Holdings(m, u) THEN Closed ELSE m.sock[s]
<1> DEFINE k == CloseSockets(m, Holdings(m, u))
<1>1. k \in Memories
  BY CloseSocketsTyped
<1>2. /\ k.userslots = m.userslots /\ k.user = m.user /\ k.dataslots = m.dataslots /\ k.dc = m.dc
      /\ k.sock = [s \in Sockets |-> IF s \in Holdings(m, u) THEN Closed ELSE m.sock[s]]
  BY DEF CloseSockets, Memories
<1>3. n = ClearSession(k, u)
  BY DEF CloseSession
<1> HIDE DEF k
<1>4. /\ n.userslots = k.userslots \ {u} /\ n.dataslots = {c \in k.dataslots : c[1] # u}
      /\ n.user = [k.user EXCEPT ![u] = ZeroUser]
      /\ n.dc = [c \in Channels |-> IF c[1] = u THEN ZeroData ELSE k.dc[c]]
      /\ n.sock = k.sock
  BY <1>1, <1>3 DEF ClearSession, Memories
<1>5. n.user[u] = ZeroUser /\ \A v \in Users \ {u} : n.user[v] = m.user[v]
  BY <1>1, <1>2, <1>4 DEF Memories
<1>6. QED
  BY <1>2, <1>4, <1>5

\* A new session.
LEMMA OpenSessionFields ==
  ASSUME NEW m \in Memories, NEW u \in Users, NEW s \in Handles, NEW n, n = OpenSession(m, u, s)
  PROVE  /\ n.userslots = m.userslots \cup {u}
         /\ n.dataslots = {c \in m.dataslots : c[1] # u}
         /\ n.user[u].control = s /\ n.user[u].sendbuf /\ n.user[u].dlcommand = 0
         /\ \A v \in Users \ {u} : n.user[v] = m.user[v]
         /\ \A c \in Channels : n.dc[c] = IF c[1] = u THEN ZeroData ELSE m.dc[c]
         /\ \A t \in Sockets : n.sock[t] = IF t = s THEN Opened("control") ELSE m.sock[t]
<1> DEFINE r == [ZeroUser EXCEPT !.control = s, !.sendbuf = TRUE]
<1>1. r.control = s /\ r.sendbuf /\ r.dlcommand = 0
  BY DEF ZeroUser
<1>2. /\ n.userslots = m.userslots \cup {u} /\ n.dataslots = {c \in m.dataslots : c[1] # u}
      /\ n.user = [m.user EXCEPT ![u] = r]
      /\ n.dc = [c \in Channels |-> IF c[1] = u THEN ZeroData ELSE m.dc[c]]
      /\ n.sock = [t \in Sockets |-> IF t = s THEN Opened("control") ELSE m.sock[t]]
  BY DEF OpenSession, Memories
<1> HIDE DEF r
<1>3. n.user[u] = r /\ \A v \in Users \ {u} : n.user[v] = m.user[v]
  BY <1>2 DEF Memories
<1>4. QED
  BY <1>1, <1>2, <1>3
\* PORT, PASV, and a PASV that finds no port.
Offered(m, n, u, d) ==
  /\ n.userslots = m.userslots /\ n.dataslots = m.dataslots \cup {<<u, d>>}
  /\ \A v \in Users \ {u} : n.user[v] = m.user[v]
  /\ n.user[u].control = m.user[u].control
  /\ n.user[u].sendbuf = m.user[u].sendbuf
  /\ n.user[u].dlcommand = m.user[u].dlcommand
  /\ n.user[u].command = m.user[u].command
  /\ \A c \in Channels \ {<<u, d>>} : n.dc[c] = m.dc[c]
  /\ ~n.dc[<<u, d>>].event /\ ~n.dc[<<u, d>>].close

LEMMA OfferFields ==
  ASSUME NEW m \in Memories, NEW u \in Users, NEW d \in Slots, NEW s \in Handles
  PROVE  /\ Offered(m, OpenActive(m, u, d, s), u, d)
         /\ OpenActive(m, u, d, s).dc[<<u, d>>].conn = s
         /\ OpenActive(m, u, d, s).dc[<<u, d>>].lconn = NoSocket
         /\ OpenActive(m, u, d, s).dc[<<u, d>>].type = "ACTIVE"
         /\ \A t \in Sockets : OpenActive(m, u, d, s).sock[t] = IF t = s THEN Opened("idle") ELSE m.sock[t]
         /\ Offered(m, OpenPassive(m, u, d, s), u, d)
         /\ OpenPassive(m, u, d, s).dc[<<u, d>>].conn = NoSocket
         /\ OpenPassive(m, u, d, s).dc[<<u, d>>].lconn = s
         /\ OpenPassive(m, u, d, s).dc[<<u, d>>].type = "PASSIVE"
         /\ \A t \in Sockets : OpenPassive(m, u, d, s).sock[t] = IF t = s THEN Opened("listen") ELSE m.sock[t]
<1> DEFINE c == <<u, d>>
           w == [m.user[u] EXCEPT !.lastdc = d]
<1>1. c \in Channels /\ m.dc[c] \in DataRecords /\ m.user[u] \in UserRecords
  BY DEF Channels, Memories
<1>2. /\ w.control = m.user[u].control /\ w.sendbuf = m.user[u].sendbuf
      /\ w.dlcommand = m.user[u].dlcommand /\ w.command = m.user[u].command
  BY <1>1 DEF UserRecords
<1>3. ASSUME NEW n, NEW r, n.userslots = m.userslots, n.dataslots = m.dataslots \cup {c},
             n.user = [m.user EXCEPT ![u] = w], n.dc = [m.dc EXCEPT ![c] = r],
             ~r.event, ~r.close
      PROVE  Offered(m, n, u, d) /\ n.dc[c] = r
  <2> HIDE DEF w
  <2>1. n.user[u] = w /\ \A v \in Users \ {u} : n.user[v] = m.user[v]
    BY <1>3 DEF Memories
  <2>2. n.dc[c] = r /\ \A x \in Channels \ {c} : n.dc[x] = m.dc[x]
    BY <1>1, <1>3 DEF Memories
  <2>3. QED
    BY <1>2, <1>3, <2>1, <2>2 DEF Offered
<1> DEFINE a == [m.dc[c] EXCEPT !.conn = s, !.lconn = NoSocket, !.type = "ACTIVE",
                                !.event = FALSE, !.close = FALSE]
           p == [m.dc[c] EXCEPT !.conn = NoSocket, !.lconn = s, !.type = "PASSIVE",
                                !.event = FALSE, !.close = FALSE]
           na == OpenActive(m, u, d, s)
           np == OpenPassive(m, u, d, s)
<1>4. a.conn = s /\ a.lconn = NoSocket /\ a.type = "ACTIVE" /\ ~a.event /\ ~a.close
  BY <1>1 DEF DataRecords
<1>5. p.conn = NoSocket /\ p.lconn = s /\ p.type = "PASSIVE" /\ ~p.event /\ ~p.close
  BY <1>1 DEF DataRecords
<1>6. /\ na.userslots = m.userslots /\ na.dataslots = m.dataslots \cup {c}
      /\ na.user = [m.user EXCEPT ![u] = w] /\ na.dc = [m.dc EXCEPT ![c] = a]
      /\ \A t \in Sockets : na.sock[t] = IF t = s THEN Opened("idle") ELSE m.sock[t]
  BY DEF OpenActive, Memories
<1>7. /\ np.userslots = m.userslots /\ np.dataslots = m.dataslots \cup {c}
      /\ np.user = [m.user EXCEPT ![u] = w] /\ np.dc = [m.dc EXCEPT ![c] = p]
      /\ \A t \in Sockets : np.sock[t] = IF t = s THEN Opened("listen") ELSE m.sock[t]
  BY DEF OpenPassive, Memories
<1> HIDE DEF a, p, w, na, np
<1>8. Offered(m, na, u, d) /\ na.dc[c] = a
  <2>1. na.userslots = m.userslots /\ na.dataslots = m.dataslots \cup {c}
    BY <1>6
  <2>2. na.user = [m.user EXCEPT ![u] = w] /\ na.dc = [m.dc EXCEPT ![c] = a]
    BY <1>6
  <2>3. ~a.event /\ ~a.close
    BY <1>4
  <2>4. QED
    BY ONLY <1>3, <2>1, <2>2, <2>3
<1>9. Offered(m, np, u, d) /\ np.dc[c] = p
  <2>1. np.userslots = m.userslots /\ np.dataslots = m.dataslots \cup {c}
    BY <1>7
  <2>2. np.user = [m.user EXCEPT ![u] = w] /\ np.dc = [m.dc EXCEPT ![c] = p]
    BY <1>7
  <2>3. ~p.event /\ ~p.close
    BY <1>5
  <2>4. QED
    BY ONLY <1>3, <2>1, <2>2, <2>3
<1>10. QED
  BY <1>4, <1>5, <1>6, <1>7, <1>8, <1>9 DEF na, np

\* The slot a PASV leaves behind that found no port.
LEMMA FailPassiveFields ==
  ASSUME NEW m \in Memories, NEW u \in Users, NEW d \in Slots, NEW s \in Handles,
         NEW n, n = FailPassive(m, u, d, s)
  PROVE  /\ n.userslots = m.userslots /\ n.dataslots = m.dataslots
         /\ n.user = m.user /\ n.sock = m.sock
         /\ \A c \in Channels \ {<<u, d>>} : n.dc[c] = m.dc[c]
         /\ n.dc[<<u, d>>].conn = NoSocket /\ n.dc[<<u, d>>].lconn = s
         /\ n.dc[<<u, d>>].type = m.dc[<<u, d>>].type
         /\ n.dc[<<u, d>>].event = m.dc[<<u, d>>].event
         /\ n.dc[<<u, d>>].close = m.dc[<<u, d>>].close
<1> DEFINE c == <<u, d>>
           r == [m.dc[c] EXCEPT !.conn = NoSocket, !.lconn = s]
<1>1. c \in Channels /\ m.dc[c] \in DataRecords
  BY DEF Channels, Memories
<1>2. /\ r.conn = NoSocket /\ r.lconn = s /\ r.type = m.dc[c].type
      /\ r.event = m.dc[c].event /\ r.close = m.dc[c].close
  BY <1>1 DEF DataRecords
<1>3. n = [m EXCEPT !.dc[c] = r]
  BY DEF FailPassive
<1> HIDE DEF r
<1>4. /\ n.userslots = m.userslots /\ n.dataslots = m.dataslots /\ n.user = m.user /\ n.sock = m.sock
      /\ n.dc[c] = r /\ \A x \in Channels \ {c} : n.dc[x] = m.dc[x]
  BY <1>1, <1>3 DEF Memories
<1>5. QED
  BY <1>2, <1>4

\* The start of a transfer, on a connection that is there.
Started(m, n, u) ==
  LET c == <<u, m.user[u].lastdc>> IN
  /\ n.userslots = m.userslots /\ n.dataslots = m.dataslots
  /\ \A v \in Users \ {u} : n.user[v] = m.user[v]
  /\ n.user[u].control = m.user[u].control
  /\ n.user[u].sendbuf = m.user[u].sendbuf
  /\ n.user[u].dlcommand = 0
  /\ \A x \in Channels \ {c} : n.dc[x] = m.dc[x]
  /\ n.dc[c].lconn = m.dc[c].lconn /\ n.dc[c].type = "CONNECTED"

LEMMA BeginFields ==
  ASSUME NEW m \in Memories, NEW u \in Users, NEW cmd, NEW n, n = Begin(m, u, cmd)
  PROVE  Started(m, n, u) /\ n.dc[<<u, m.user[u].lastdc>>].conn = m.dc[<<u, m.user[u].lastdc>>].conn
                          /\ n.sock = m.sock
<1> DEFINE c == <<u, m.user[u].lastdc>>
           w == [m.user[u] EXCEPT !.dlcommand = 0, !.command = NoCommand]
           r == Begun(m.dc[c], cmd)
<1>1. m.user[u] \in UserRecords
  BY DEF Memories
<1>2. c \in Channels /\ m.dc[c] \in DataRecords
  BY <1>1 DEF Channels, Memories, UserRecords
<1>3. w.control = m.user[u].control /\ w.sendbuf = m.user[u].sendbuf /\ w.dlcommand = 0
  BY <1>1 DEF UserRecords
<1>4. r.conn = m.dc[c].conn /\ r.lconn = m.dc[c].lconn /\ r.type = "CONNECTED"
  BY <1>2 DEF Begun, DataRecords
<1>5. n = [m EXCEPT !.dc[c] = r, !.user[u] = w]
  BY DEF Begin
<1> HIDE DEF w, r, c
<1>6. /\ n.userslots = m.userslots /\ n.dataslots = m.dataslots /\ n.sock = m.sock
      /\ n.user[u] = w /\ \A v \in Users \ {u} : n.user[v] = m.user[v]
      /\ n.dc[c] = r /\ \A x \in Channels \ {c} : n.dc[x] = m.dc[x]
  BY <1>2, <1>5 DEF Memories
<1>7. QED
  BY <1>3, <1>4, <1>6 DEF Started, c

\* The start of a transfer, with its connection: s is a data connection, and nobody
\* waits at l any more.
Joined(m, n, s, l) ==
  \A t \in Sockets \ {s} :
    /\ n.sock[t].in = m.sock[t].in
    /\ n.sock[t].kind = IF t = l THEN "listen" ELSE m.sock[t].kind

LEMMA ConnectFields ==
  ASSUME NEW m \in Memories, NEW u \in Users, NEW cmd, NEW s \in Sockets,
         NEW n, n = Begin(Establish(m, u, m.user[u].lastdc, s), u, cmd),
         NEW c, c = <<u, m.user[u].lastdc>>
  PROVE  /\ Started(m, n, u) /\ n.dc[c].conn = s
         /\ n.sock[s] = Opened("data") /\ Joined(m, n, s, m.dc[c].lconn)
<1> DEFINE d == m.user[u].lastdc
           l == m.dc[c].lconn
           r == [m.dc[c] EXCEPT !.conn = s, !.type = "CONNECTED"]
           f == [t \in Sockets |->
                   CASE t = s -> Opened("data")
                     [] t # s /\ t = l -> [m.sock[t] EXCEPT !.kind = "listen"]
                     [] OTHER -> m.sock[t]]
           k == Establish(m, u, d, s)
<1>1. m.user[u] \in UserRecords /\ s \in Handles
  BY DEF Memories, Handles
<1>2. c \in Channels /\ m.dc[c] \in DataRecords /\ d \in Slots
  BY <1>1 DEF Channels, Memories, UserRecords
<1>3. k \in Memories
  BY <1>1, <1>2, EstablishTyped
<1>4. r.conn = s /\ r.lconn = l
  BY <1>2 DEF DataRecords
<1>5. /\ f[s] = Opened("data")
      /\ \A t \in Sockets \ {s} : f[t] = IF t = l THEN [m.sock[t] EXCEPT !.kind = "listen"] ELSE m.sock[t]
  OBVIOUS
<1>6. \A t \in Sockets : LET x == [m.sock[t] EXCEPT !.kind = "listen"] IN x.in = m.sock[t].in /\ x.kind = "listen"
  BY DEF Memories, SocketRecords
<1>7. \A t \in Sockets \ {s} : f[t].in = m.sock[t].in /\ f[t].kind = IF t = l THEN "listen" ELSE m.sock[t].kind
  BY <1>5, <1>6
<1>8. /\ k.userslots = m.userslots /\ k.dataslots = m.dataslots /\ k.user = m.user /\ k.sock = f
      /\ k.dc = [m.dc EXCEPT ![c] = r]
  BY DEF Establish, Memories
<1> HIDE DEF r, f, k
<1>9. k.dc[c] = r /\ \A x \in Channels \ {c} : k.dc[x] = m.dc[x]
  BY <1>2, <1>8 DEF Memories
<1>10. Started(k, n, u) /\ n.dc[c].conn = k.dc[c].conn /\ n.sock = k.sock
  <2>1. n = Begin(k, u, cmd) /\ c = <<u, k.user[u].lastdc>>
    BY <1>8 DEF k
  <2>2. QED
    BY <1>3, <2>1, BeginFields
<1>11. QED
  <2>1. n.dc[c].conn = s /\ n.dc[c].lconn = l /\ n.sock[s] = Opened("data")
    <3>1. k.dc[c].conn = s /\ k.dc[c].lconn = l /\ k.sock[s] = Opened("data")
      BY <1>4, <1>5, <1>8, <1>9
    <3>2. <<u, k.user[u].lastdc>> = c
      BY <1>8
    <3>3. n.dc[c].lconn = k.dc[c].lconn
      BY <1>10, <3>2 DEF Started
    <3>4. QED
      BY <1>10, <3>1, <3>3
  <2>2. Started(m, n, u)
    <3>1. k.userslots = m.userslots /\ k.dataslots = m.dataslots /\ k.user = m.user
      BY <1>8
    <3>2. \A x \in Channels \ {c} : k.dc[x] = m.dc[x]
      BY <1>9
    <3>3. n.dc[c].lconn = m.dc[c].lconn
      BY <2>1
    <3>4. QED
      BY <1>10, <3>1, <3>2, <3>3 DEF Started
  <2>3. Joined(m, n, s, l)
    BY <1>7, <1>8, <1>10 DEF Joined
  <2>4. QED
    BY <2>1, <2>2, <2>3

-----------------------------------------------------------------------------
\* Handles.  What a session or a channel names is open, of the right kind and named
\* by nobody else.  This is stated of all slots: those that are not allocated are
\* clean, and name no handle unless a PASV that found no port has left one behind.
Names(m, c, s) == s = m.dc[c].conn \/ s = m.dc[c].lconn

Fits(m, c) ==
  LET r == m.dc[c] IN
  /\ r.type = "ACTIVE" =>
       /\ r.lconn \notin Sockets /\ (c \in m.dataslots => r.lconn = NoSocket)
       /\ r.conn \in Sockets => m.sock[r.conn].kind = "idle"
  /\ r.type = "PASSIVE" => r.conn = NoSocket /\ r.lconn \in Sockets
  /\ r.type = "CONNECTED" => r.conn \in Sockets /\ m.sock[r.conn].kind = "data"
  /\ r.type # "ACTIVE" /\ r.lconn \in Sockets => m.sock[r.lconn].kind \in {"listen", "knocked"}

Sound(m) ==
  /\ \A u \in Users : m.user[u].control \in Sockets => m.sock[m.user[u].control].kind = "control"
  /\ \A c \in Channels : Fits(m, c)
  /\ \A u, v \in Users :
       m.user[u].control \in Sockets /\ m.user[u].control = m.user[v].control => u = v
  /\ \A c, d \in Channels, s \in Sockets : Names(m, c, s) /\ Names(m, d, s) => c = d

\* Every open handle is named by a session or channel in use, whose end closes it.
Held(m, s) ==
  \/ \E u \in m.userslots : m.user[u].control = s
  \/ \E c \in m.dataslots : Names(m, c, s)

Owned(m) ==
  /\ \A c \in Channels : m.dc[c].type = "PASSIVE" => m.dc[c].conn = NoSocket
  /\ \A s \in Sockets : m.sock[s].kind # "free" => Held(m, s)

\* From m to n both are kept, the first one if ports can be bound.
Keep(m, n) ==
  /\ "bind" \notin Faults /\ Sound(m) => Sound(n)
  /\ Owned(m) => Owned(n)

\* The values that stand for no handle are none.
LEMMA NotHandles == NoSocket \notin Sockets /\ INVALID_SOCKET \notin Sockets
  BY SocketsAssumption DEF NoSocket, INVALID_SOCKET

\* Who names a handle decides its kind, so a free one is not named at all.
LEMMA NamedKinds ==
  ASSUME NEW m \in Memories, Sound(m), NEW s \in Sockets
  PROVE  /\ \A c \in Channels : Names(m, c, s) => m.sock[s].kind \in {"idle", "data", "listen", "knocked"}
         /\ \A u \in Users : m.user[u].control = s => m.sock[s].kind = "control"
<1>1. ASSUME NEW c \in Channels, Names(m, c, s)
      PROVE  m.sock[s].kind \in {"idle", "data", "listen", "knocked"}
  <2>1. m.dc[c].type \in {"ACTIVE", "PASSIVE", "CONNECTED"} /\ Fits(m, c)
    BY DEF Memories, DataRecords, Sound
  <2>2. QED
    BY <1>1, <2>1, NotHandles DEF Names, Fits
<1>2. QED
  BY <1>1 DEF Sound

\* One channel changes.  The handles it names then are those it named or new ones,
\* and only these change.
LEMMA SoundChannel ==
  ASSUME NEW m \in Memories, Sound(m), NEW n, NEW c \in Channels,
         \A v \in Users : n.user[v].control = m.user[v].control,
         \A x \in Channels \ {c} : n.dc[x] = m.dc[x],
         n.dataslots \subseteq m.dataslots \cup {c},
         Fits(n, c),
         \A s \in Sockets : Names(n, c, s) => Names(m, c, s) \/ m.sock[s].kind = "free",
         \A s \in Sockets :
           n.sock[s].kind = m.sock[s].kind \/ Names(m, c, s) \/ m.sock[s].kind = "free"
  PROVE  Sound(n)
<1>1. ASSUME NEW u \in Users, n.user[u].control \in Sockets
      PROVE  n.sock[n.user[u].control].kind = "control"
  BY <1>1, NamedKinds
<1>2. ASSUME NEW x \in Channels PROVE Fits(n, x)
  <2>1. CASE x = c
    BY <2>1
  <2>2. CASE x # c
    <3>1. \A s \in Sockets : Names(m, x, s) => n.sock[s].kind = m.sock[s].kind
      BY <2>2, NamedKinds DEF Sound
    <3>2. Fits(m, x) /\ n.dc[x] = m.dc[x] /\ (x \in n.dataslots => x \in m.dataslots)
      BY <2>2 DEF Sound
    <3>3. QED
      BY <3>1, <3>2 DEF Fits, Names
  <2>3. QED
    BY <2>1, <2>2
<1>3. ASSUME NEW u \in Users, NEW v \in Users,
             n.user[u].control \in Sockets, n.user[u].control = n.user[v].control
      PROVE  u = v
  BY <1>3 DEF Sound
<1>4. ASSUME NEW x \in Channels, NEW y \in Channels, NEW s \in Sockets, Names(n, x, s), Names(n, y, s)
      PROVE  x = y
  <2>1. \A z \in Channels : z # c => (Names(n, z, s) <=> Names(m, z, s))
    BY DEF Names
  <2>2. \A z \in Channels : Names(m, z, s) => m.sock[s].kind # "free"
    BY NamedKinds
  <2>3. QED
    BY <1>4, <2>1, <2>2 DEF Sound
<1>5. QED
  BY <1>1, <1>2, <1>3, <1>4 DEF Sound

LEMMA OwnedChannel ==
  ASSUME NEW m \in Memories, Owned(m), NEW n, NEW c \in Channels,
         n.userslots = m.userslots,
         \A v \in Users : n.user[v].control = m.user[v].control,
         \A x \in Channels \ {c} : n.dc[x] = m.dc[x] /\ (x \in m.dataslots => x \in n.dataslots),
         n.dc[c].type = "PASSIVE" => n.dc[c].conn = NoSocket,
         \A s \in Sockets : n.sock[s].kind # "free" =>
           \/ c \in n.dataslots /\ Names(n, c, s)
           \/ m.sock[s].kind # "free" /\ ~(c \in m.dataslots /\ Names(m, c, s))
  PROVE  Owned(n)
<1>1. \A x \in Channels : n.dc[x].type = "PASSIVE" => n.dc[x].conn = NoSocket
  BY DEF Owned
<1>2. ASSUME NEW s \in Sockets, n.sock[s].kind # "free", ~(c \in n.dataslots /\ Names(n, c, s))
      PROVE  Held(n, s)
  <2>1. Held(m, s) /\ ~(c \in m.dataslots /\ Names(m, c, s))
    BY <1>2 DEF Owned
  <2>2. \A u \in m.userslots : n.user[u].control = m.user[u].control
    BY DEF Memories
  <2>3. \A x \in m.dataslots : x # c => x \in n.dataslots /\ n.dc[x] = m.dc[x]
    BY DEF Memories
  <2>4. QED
    BY <2>1, <2>2, <2>3 DEF Held, Names
<1>3. QED
  BY <1>1, <1>2 DEF Owned, Held

\* To follow one keeping change by another keeps both.
LEMMA KeepComposed ==
  ASSUME NEW m, NEW n, NEW p, Keep(m, n), Keep(n, p)
  PROVE  Keep(m, p)
  BY DEF Keep

\* Nothing about the handles changes, or a client knocks.
LEMMA SameHandlesKeep ==
  ASSUME NEW m \in Memories, NEW n, n.userslots = m.userslots, n.dataslots = m.dataslots, n.dc = m.dc,
         \A v \in Users : n.user[v].control = m.user[v].control,
         \A s \in Sockets : \/ n.sock[s].kind = m.sock[s].kind
                            \/ m.sock[s].kind = "listen" /\ n.sock[s].kind = "knocked"
  PROVE  Keep(m, n)
<1>1. ASSUME Sound(m) PROVE Sound(n)
  <2>1. ASSUME NEW c \in Channels PROVE Fits(n, c)
    <3>1. Fits(m, c) /\ \A s \in Sockets : m.sock[s].kind = "listen" => n.sock[s].kind \in {"listen", "knocked"}
      BY <1>1 DEF Sound
    <3>2. QED
      BY <3>1 DEF Fits
  <2>2. \A u \in Users : n.user[u].control \in Sockets => n.sock[n.user[u].control].kind = "control"
    BY <1>1 DEF Sound
  <2>3. QED
    BY <1>1, <2>1, <2>2 DEF Sound, Names
<1>2. ASSUME Owned(m) PROVE Owned(n)
  <2>1. m.userslots \subseteq Users
    BY DEF Memories
  <2>2. QED
    BY <1>2, <2>1 DEF Owned, Held, Names
<1>3. QED
  BY <1>1, <1>2 DEF Keep

LEMMA RecordKeep ==
  ASSUME NEW m \in Memories, NEW n, NEW u \in Users, RecordOnly(m, n, u)
  PROVE  Keep(m, n)
<1>1. \A v \in Users : n.user[v].control = m.user[v].control
  BY DEF RecordOnly
<1>2. QED
  BY <1>1, SameHandlesKeep DEF RecordOnly

\* PORT, PASV, and a PASV that finds no port.
LEMMA OfferKeep ==
  ASSUME NEW m \in Memories, NEW u \in Users, NEW d \in Slots, <<u, d>> \notin m.dataslots,
         NEW s \in Sockets \cup {INVALID_SOCKET}, s \in Sockets => m.sock[s].kind = "free"
  PROVE  /\ Keep(m, OpenActive(m, u, d, s))
         /\ s \in Sockets => Keep(m, OpenPassive(m, u, d, s))
<1> DEFINE c == <<u, d>>
<1>1. c \in Channels /\ s \in Handles
  BY DEF Channels, Handles
<1>2. \A n : Offered(m, n, u, d) =>
        /\ n.userslots = m.userslots /\ n.dataslots = m.dataslots \cup {c}
        /\ \A v \in Users : n.user[v].control = m.user[v].control
        /\ \A x \in Channels \ {c} : n.dc[x] = m.dc[x]
  BY DEF Offered
<1>3. Opened("idle").kind = "idle" /\ Opened("listen").kind = "listen"
  BY DEF Opened
<1>4. Keep(m, OpenActive(m, u, d, s))
  <2> DEFINE n == OpenActive(m, u, d, s)
  <2>1. /\ n.userslots = m.userslots /\ n.dataslots = m.dataslots \cup {c}
        /\ \A v \in Users : n.user[v].control = m.user[v].control
        /\ \A x \in Channels \ {c} : n.dc[x] = m.dc[x]
        /\ n.dc[c].conn = s /\ n.dc[c].lconn = NoSocket /\ n.dc[c].type = "ACTIVE"
        /\ \A t \in Sockets : n.sock[t].kind = IF t = s THEN "idle" ELSE m.sock[t].kind
    BY <1>1, <1>2, <1>3, OfferFields
  <2> HIDE DEF n, c
  <2>2. Fits(n, c)
    BY <2>1, NotHandles DEF Fits
  <2>3. Sound(m) => Sound(n)
    BY <1>1, <2>1, <2>2, NotHandles, SoundChannel DEF Names
  <2>4. Owned(m) => Owned(n)
    BY <1>1, <2>1, OwnedChannel DEF Names, c
  <2>5. QED
    BY <2>3, <2>4 DEF Keep, n
<1>5. s \in Sockets => Keep(m, OpenPassive(m, u, d, s))
  <2> SUFFICES ASSUME s \in Sockets PROVE Keep(m, OpenPassive(m, u, d, s))
    OBVIOUS
  <2> DEFINE n == OpenPassive(m, u, d, s)
  <2>1. /\ n.userslots = m.userslots /\ n.dataslots = m.dataslots \cup {c}
        /\ \A v \in Users : n.user[v].control = m.user[v].control
        /\ \A x \in Channels \ {c} : n.dc[x] = m.dc[x]
        /\ n.dc[c].conn = NoSocket /\ n.dc[c].lconn = s /\ n.dc[c].type = "PASSIVE"
        /\ \A t \in Sockets : n.sock[t].kind = IF t = s THEN "listen" ELSE m.sock[t].kind
    BY <1>1, <1>2, <1>3, OfferFields
  <2> HIDE DEF n, c
  <2>2. Fits(n, c)
    BY <2>1, NotHandles DEF Fits
  <2>3. Sound(m) => Sound(n)
    BY <1>1, <2>1, <2>2, NotHandles, SoundChannel DEF Names
  <2>4. Owned(m) => Owned(n)
    BY <1>1, <2>1, OwnedChannel DEF Names, c
  <2>5. QED
    BY <2>3, <2>4 DEF Keep, n
<1>6. QED
  BY <1>4, <1>5

LEMMA FailPassiveKeep ==
  ASSUME NEW m \in Memories, Clean(m), NEW u \in Users, NEW d \in Slots, <<u, d>> \notin m.dataslots,
         NEW s \in LeftBehind
  PROVE  Keep(m, FailPassive(m, u, d, s))
<1> DEFINE c == <<u, d>>
           n == FailPassive(m, u, d, s)
<1>1. c \in Channels /\ s \in Handles
  BY DEF Channels, Handles, LeftBehind
<1>2. m.dc[c].type = "ACTIVE"
  BY <1>1, CleanDataFacts DEF Clean
<1>3. /\ n.userslots = m.userslots /\ n.dataslots = m.dataslots
      /\ n.user = m.user /\ n.sock = m.sock
      /\ \A x \in Channels \ {c} : n.dc[x] = m.dc[x]
      /\ n.dc[c].conn = NoSocket /\ n.dc[c].lconn = s /\ n.dc[c].type = "ACTIVE"
  BY <1>1, <1>2, FailPassiveFields
<1> HIDE DEF n, c
<1>4. ASSUME "bind" \notin Faults, Sound(m) PROVE Sound(n)
  <2>1. s \notin Sockets
    BY <1>4, NotHandles DEF LeftBehind
  <2>2. Fits(n, c)
    BY <1>3, <2>1, NotHandles DEF Fits, c
  <2>3. QED
    BY <1>1, <1>3, <1>4, <2>1, <2>2, NotHandles, SoundChannel DEF Names
<1>5. Owned(m) => Owned(n)
  BY <1>1, <1>3, OwnedChannel DEF Names, c
<1>6. QED
  BY <1>4, <1>5 DEF Keep, n

\* The close of a channel, in use or not.
LEMMA DataCloseKeep ==
  ASSUME NEW m \in Memories, NEW u \in Users, NEW d \in Slots
  PROVE  Keep(m, DataClose(m, u, d))
<1> DEFINE c == <<u, d>>
           n == DataClose(m, u, d)
<1>1. c \in Channels /\ Closed.kind = "free"
  BY DEF Channels, Closed
<1>2. /\ n.userslots = m.userslots /\ n.dataslots = m.dataslots \ {c}
      /\ \A v \in Users : n.user[v].control = m.user[v].control
      /\ \A x \in Channels \ {c} : n.dc[x] = m.dc[x]
      /\ n.dc[c] = ZeroData
      /\ \A s \in Sockets : n.sock[s].kind = IF Names(m, c, s) THEN "free" ELSE m.sock[s].kind
  BY <1>1, DataCloseFields DEF Emptied, Names
<1>3. ZeroData.conn = NoSocket /\ ZeroData.lconn = NoSocket /\ ZeroData.type = "ACTIVE"
  BY DEF ZeroData
<1> HIDE DEF n, c
<1>4. Fits(n, c) /\ \A s \in Sockets : ~Names(n, c, s)
  BY <1>2, <1>3, NotHandles DEF Fits, Names
<1>5. Sound(m) => Sound(n)
  BY <1>1, <1>2, <1>4, SoundChannel
<1>6. Owned(m) => Owned(n)
  BY <1>1, <1>2, <1>3, OwnedChannel
<1>7. QED
  BY <1>5, <1>6 DEF Keep, n

\* The close of a channel of another session.
LEMMA WildCloseKeep ==
  ASSUME NEW m \in Memories, NEW u \in Users, NEW c \in Channels
  PROVE  Keep(m, WildClose(m, u, c))
<1> DEFINE n == WildClose(m, u, c)
<1>1. Closed.kind = "free"
  BY DEF Closed
<1>2. /\ n.userslots = m.userslots /\ n.dataslots = m.dataslots
      /\ \A v \in Users : n.user[v].control = m.user[v].control
      /\ \A x \in Channels \ {c} : n.dc[x] = m.dc[x]
      /\ n.dc[c] = ZeroData
      /\ \A s \in Sockets : n.sock[s].kind = IF Names(m, c, s) THEN "free" ELSE m.sock[s].kind
  BY <1>1, WildCloseFields DEF Zeroed, Names
<1>3. ZeroData.conn = NoSocket /\ ZeroData.lconn = NoSocket /\ ZeroData.type = "ACTIVE"
  BY DEF ZeroData
<1> HIDE DEF n
<1>4. Fits(n, c) /\ \A s \in Sockets : ~Names(n, c, s)
  BY <1>2, <1>3, NotHandles DEF Fits, Names
<1>5. Sound(m) => Sound(n)
  BY <1>1, <1>2, <1>4, SoundChannel
<1>6. Owned(m) => Owned(n)
  BY <1>1, <1>2, <1>3, OwnedChannel
<1>7. QED
  BY <1>5, <1>6 DEF Keep, n

\* The end of a session.
LEMMA CloseSessionKeep ==
  ASSUME NEW m \in Memories, Clean(m), NEW u \in m.userslots
  PROVE  Keep(m, CloseSession(m, u))
<1> DEFINE n == CloseSession(m, u)
<1>1. u \in Users /\ Closed.kind = "free" /\ ZeroUser.control = NoSocket
  BY DEF Memories, Closed, ZeroUser
<1>2. ZeroData.conn = NoSocket /\ ZeroData.lconn = NoSocket /\ ZeroData.type = "ACTIVE"
  BY DEF ZeroData
<1>3. /\ n.userslots = m.userslots \ {u} /\ n.dataslots = {c \in m.dataslots : c[1] # u}
      /\ n.user[u].control = NoSocket
      /\ \A v \in Users \ {u} : n.user[v].control = m.user[v].control
      /\ \A c \in Channels : n.dc[c] = IF c[1] = u THEN ZeroData ELSE m.dc[c]
      /\ \A s \in Sockets : n.sock[s].kind = IF s \in Holdings(m, u) THEN "free" ELSE m.sock[s].kind
  BY <1>1, CloseSessionFields
<1>4. \A s \in Sockets : s \in Holdings(m, u) <=>
        m.user[u].control = s \/ \E c \in m.dataslots : c[1] = u /\ Names(m, c, s)
  BY DEF Holdings, Names
<1>5. m.dataslots \subseteq Channels /\ m.userslots \subseteq Users
  BY DEF Memories
<1> HIDE DEF n
<1>6. ASSUME Sound(m) PROVE Sound(n)
  <2>1. ASSUME NEW v \in Users, n.user[v].control \in Sockets
        PROVE  v # u /\ n.sock[n.user[v].control].kind = "control"
    <3>1. v # u /\ n.user[v].control = m.user[v].control
      BY <1>3, <2>1, NotHandles
    <3>2. n.user[v].control \notin Holdings(m, u)
      BY <1>1, <1>4, <1>5, <1>6, <2>1, <3>1, NamedKinds DEF Sound
    <3>3. QED
      BY <1>3, <1>6, <2>1, <3>1, <3>2 DEF Sound
  <2>2. ASSUME NEW c \in Channels, NEW s \in Sockets, Names(n, c, s)
        PROVE  c[1] # u /\ Names(m, c, s) /\ n.sock[s].kind = m.sock[s].kind
    <3>1. c[1] # u /\ Names(m, c, s)
      BY <1>2, <1>3, <2>2, NotHandles DEF Names
    <3>2. s \notin Holdings(m, u)
      BY <1>1, <1>4, <1>5, <1>6, <3>1, NamedKinds DEF Sound
    <3>3. QED
      BY <1>3, <3>1, <3>2
  <2>3. ASSUME NEW c \in Channels PROVE Fits(n, c)
    <3>1. CASE c[1] = u
      BY <1>2, <1>3, <3>1, NotHandles DEF Fits
    <3>2. CASE c[1] # u
      <4>1. Fits(m, c) /\ n.dc[c] = m.dc[c] /\ (c \in n.dataslots => c \in m.dataslots)
        BY <1>3, <1>6, <3>2 DEF Sound
      <4>2. QED
        BY <2>2, <4>1 DEF Fits, Names
    <3>3. QED
      BY <3>1, <3>2
  <2>4. QED
    BY <1>3, <1>6, <2>1, <2>2, <2>3 DEF Sound
<1>7. ASSUME Owned(m) PROVE Owned(n)
  <2>1. \A c \in Channels : n.dc[c].type = "PASSIVE" => n.dc[c].conn = NoSocket
    BY <1>2, <1>3, <1>7 DEF Owned
  <2>2. ASSUME NEW s \in Sockets, n.sock[s].kind # "free" PROVE Held(n, s)
    <3>1. s \notin Holdings(m, u) /\ Held(m, s)
      BY <1>3, <1>7, <2>2 DEF Owned
    <3>2. QED
      BY <1>3, <1>4, <1>5, <3>1 DEF Held, Names
  <2>3. QED
    BY <2>1, <2>2 DEF Owned
<1>8. QED
  BY <1>6, <1>7 DEF Keep, n

\* A new session in a free slot keeps both; in a slot that is taken over, the
\* handles of the session there lose their owner.
LEMMA OpenSessionKeep ==
  ASSUME NEW m \in Memories, Clean(m), NEW u \in Users, NEW s \in Sockets \cup {INVALID_SOCKET},
         s \in Sockets => m.sock[s].kind = "free"
  PROVE  /\ Sound(m) => Sound(OpenSession(m, u, s))
         /\ u \notin m.userslots => Keep(m, OpenSession(m, u, s))
<1> DEFINE n == OpenSession(m, u, s)
<1>1. s \in Handles /\ Opened("control").kind = "control"
  BY DEF Handles, Opened
<1>2. ZeroData.conn = NoSocket /\ ZeroData.lconn = NoSocket /\ ZeroData.type = "ACTIVE"
  BY DEF ZeroData
<1>3. /\ n.userslots = m.userslots \cup {u} /\ n.dataslots = {c \in m.dataslots : c[1] # u}
      /\ n.user[u].control = s
      /\ \A v \in Users \ {u} : n.user[v].control = m.user[v].control
      /\ \A c \in Channels : n.dc[c] = IF c[1] = u THEN ZeroData ELSE m.dc[c]
      /\ \A t \in Sockets : n.sock[t].kind = IF t = s THEN "control" ELSE m.sock[t].kind
  BY <1>1, OpenSessionFields
<1>4. m.dataslots \subseteq Channels /\ m.userslots \subseteq Users
  BY DEF Memories
<1> HIDE DEF n
<1>5. ASSUME Sound(m) PROVE Sound(n)
  <2>1. ASSUME NEW v \in Users, v # u, n.user[v].control \in Sockets
        PROVE  n.user[v].control # s /\ n.sock[n.user[v].control].kind = "control"
    BY <1>3, <1>5, <2>1, NamedKinds
  <2>2. ASSUME NEW c \in Channels, NEW t \in Sockets, Names(n, c, t)
        PROVE  c[1] # u /\ Names(m, c, t) /\ n.sock[t].kind = m.sock[t].kind
    <3>1. c[1] # u /\ Names(m, c, t)
      BY <1>2, <1>3, <2>2, NotHandles DEF Names
    <3>2. t # s
      BY <1>5, <3>1, NamedKinds
    <3>3. QED
      BY <1>3, <3>1, <3>2
  <2>3. ASSUME NEW c \in Channels PROVE Fits(n, c)
    <3>1. CASE c[1] = u
      BY <1>2, <1>3, <3>1, NotHandles DEF Fits
    <3>2. CASE c[1] # u
      <4>1. Fits(m, c) /\ n.dc[c] = m.dc[c] /\ (c \in n.dataslots => c \in m.dataslots)
        BY <1>3, <1>5, <3>2 DEF Sound
      <4>2. QED
        BY <2>2, <4>1 DEF Fits, Names
    <3>3. QED
      BY <3>1, <3>2
  <2>4. QED
    BY <1>3, <1>5, <2>1, <2>2, <2>3 DEF Sound
<1>6. ASSUME Owned(m), u \notin m.userslots PROVE Owned(n)
  <2>1. \A c \in Channels : n.dc[c].type = "PASSIVE" => n.dc[c].conn = NoSocket
    BY <1>2, <1>3, <1>6 DEF Owned
  <2>2. n.dataslots = m.dataslots
    <3>1. \A c \in m.dataslots : c = <<c[1], c[2]>> /\ c[2] \in Slots
      BY <1>4 DEF Channels
    <3>2. \A d \in Slots : <<u, d>> \notin m.dataslots
      BY <1>6 DEF Clean
    <3>3. QED
      BY <1>3, <3>1, <3>2
  <2>3. ASSUME NEW t \in Sockets, n.sock[t].kind # "free", t # s PROVE Held(n, t)
    <3>1. Held(m, t)
      BY <1>3, <1>6, <2>3 DEF Owned
    <3>2. \A c \in m.dataslots : n.dc[c] = m.dc[c]
      BY <1>3, <1>4, <2>2
    <3>3. QED
      BY <1>3, <1>4, <1>6, <2>2, <3>1, <3>2 DEF Held, Names
  <2>4. QED
    BY <1>3, <2>1, <2>3 DEF Owned, Held
<1>7. QED
  BY <1>5, <1>6 DEF Keep, n

\* A transfer begins on a connection that is there, made by the server to a client
\* that offered it, or accepted.
LEMMA BeginKeep ==
  ASSUME NEW m \in Memories, NEW u \in Users, NEW cmd,
         m.dc[<<u, m.user[u].lastdc>>].type = "CONNECTED"
  PROVE  Keep(m, Begin(m, u, cmd))
<1> DEFINE c == <<u, m.user[u].lastdc>>
           n == Begin(m, u, cmd)
<1>1. c \in Channels
  BY DEF Channels, Memories, UserRecords
<1>2. /\ n.userslots = m.userslots /\ n.dataslots = m.dataslots /\ n.sock = m.sock
      /\ \A v \in Users : n.user[v].control = m.user[v].control
      /\ \A x \in Channels \ {c} : n.dc[x] = m.dc[x]
      /\ n.dc[c].lconn = m.dc[c].lconn /\ n.dc[c].conn = m.dc[c].conn
      /\ n.dc[c].type = "CONNECTED"
  BY BeginFields DEF Started
<1>3. m.dc[c].type = "CONNECTED"
  OBVIOUS
<1> HIDE DEF n, c
<1>4. ASSUME Sound(m) PROVE Sound(n)
  <2>1. Fits(n, c)
    BY <1>1, <1>2, <1>3, <1>4 DEF Sound, Fits
  <2>2. QED
    BY <1>1, <1>2, <1>4, <2>1, SoundChannel DEF Names
<1>5. Owned(m) => Owned(n)
  <2>1. SUFFICES ASSUME Owned(m) PROVE Owned(n)
    OBVIOUS
  <2>2. \A s \in Sockets : n.sock[s].kind # "free" =>
           \/ c \in n.dataslots /\ Names(n, c, s)
           \/ m.sock[s].kind # "free" /\ ~(c \in m.dataslots /\ Names(m, c, s))
    BY <1>2 DEF Names
  <2>3. QED
    BY <1>1, <1>2, <2>1, <2>2, OwnedChannel
<1>6. QED
  BY <1>4, <1>5 DEF Keep, n

LEMMA ConnectKeep ==
  ASSUME NEW m \in Memories, Clean(m), NEW u \in Users, NEW cmd, NEW s \in Sockets,
         LET r == m.dc[<<u, m.user[u].lastdc>>] IN
           \/ r.type = "ACTIVE" /\ r.conn = s /\ m.sock[s].kind = "idle"
           \/ r.type = "PASSIVE" /\ m.sock[s].kind = "free"
  PROVE  Keep(m, Begin(Establish(m, u, m.user[u].lastdc, s), u, cmd))
<1> DEFINE c == <<u, m.user[u].lastdc>>
           n == Begin(Establish(m, u, m.user[u].lastdc, s), u, cmd)
           l == m.dc[c].lconn
<1>1. c \in Channels /\ Opened("data").kind = "data"
  BY DEF Channels, Memories, UserRecords, Opened
<1>2. /\ n.userslots = m.userslots /\ n.dataslots = m.dataslots
      /\ \A v \in Users : n.user[v].control = m.user[v].control
      /\ \A x \in Channels \ {c} : n.dc[x] = m.dc[x]
      /\ n.dc[c].lconn = l /\ n.dc[c].conn = s /\ n.dc[c].type = "CONNECTED"
      /\ n.sock[s].kind = "data"
      /\ \A t \in Sockets \ {s} : n.sock[t].kind = IF t = l THEN "listen" ELSE m.sock[t].kind
  <2>1. /\ Started(m, n, u) /\ n.dc[c].conn = s /\ n.sock[s] = Opened("data")
        /\ Joined(m, n, s, l)
    <3>1. n = Begin(Establish(m, u, m.user[u].lastdc, s), u, cmd)
      OBVIOUS
    <3>2. c = <<u, m.user[u].lastdc>>
      OBVIOUS
    <3> HIDE DEF n, c
    <3>3. QED
      BY <3>1, <3>2, ConnectFields DEF l
  <2> HIDE DEF n, l
  <2>2. QED
    BY <1>1, <2>1 DEF Started, Joined, l
<1>3. \/ m.dc[c].type = "ACTIVE" /\ m.dc[c].conn = s /\ m.sock[s].kind = "idle"
      \/ m.dc[c].type = "PASSIVE" /\ m.sock[s].kind = "free"
  OBVIOUS
<1>4. c \in m.dataslots
  BY <1>1, <1>3, CleanDataFacts DEF Clean
<1> HIDE DEF n, c
<1>5. ASSUME Sound(m) PROVE Sound(n)
  <2>1. Fits(m, c)
    BY <1>1, <1>5 DEF Sound
  <2>2. l # s
    BY <1>3, <2>1 DEF Fits
  <2>3. Fits(n, c)
    BY <1>2, <2>1, <2>2 DEF Fits
  <2>4. \A t \in Sockets : Names(n, c, t) => Names(m, c, t) \/ m.sock[t].kind = "free"
    BY <1>2, <1>3 DEF Names
  <2>5. \A t \in Sockets : n.sock[t].kind = m.sock[t].kind \/ Names(m, c, t) \/ m.sock[t].kind = "free"
    BY <1>2, <1>3 DEF Names
  <2>6. QED
    BY <1>1, <1>2, <1>5, <2>3, <2>4, <2>5, SoundChannel
<1>6. ASSUME Owned(m) PROVE Owned(n)
  <2>1. m.dc[c].type = "PASSIVE" => m.dc[c].conn = NoSocket
    BY <1>1, <1>6 DEF Owned
  <2>2. \A t \in Sockets : n.sock[t].kind # "free" =>
           \/ c \in n.dataslots /\ Names(n, c, t)
           \/ m.sock[t].kind # "free" /\ ~(c \in m.dataslots /\ Names(m, c, t))
    BY <1>2, <1>3, <1>4, <2>1, NotHandles DEF Names
  <2>3. QED
    BY <1>1, <1>2, <1>6, <2>2, OwnedChannel
<1>7. QED
  BY <1>5, <1>6 DEF Keep, n

-----------------------------------------------------------------------------
\* What a command does on behalf of session u: the handles stay as they should, and
\* nothing in the tables changes but what belongs to u, or the record of a channel
\* that a wild close has zeroed.
Others(m, n, u) ==
  /\ \A v \in Users \ {u} : (v \in n.userslots <=> v \in m.userslots) /\ n.user[v] = m.user[v]
  /\ \A c \in Channels : c[1] # u =>
       /\ c \in n.dataslots <=> c \in m.dataslots
       /\ n.dc[c] = m.dc[c] \/ ("wild" \in Faults /\ n.dc[c] = ZeroData)

Serves(m, n, u) == Keep(m, n) /\ Others(m, n, u)

LEMMA ServesComposed ==
  ASSUME NEW m, NEW n, NEW p, NEW u, Serves(m, n, u), Serves(n, p, u)
  PROVE  Serves(m, p, u)
<1>1. Others(m, p, u)
  BY DEF Serves, Others
<1>2. QED
  BY <1>1 DEF Serves, Keep

\* Replies, refusals, the command that is put off, and what is sent.
LEMMA RecordServes ==
  ASSUME NEW m \in Memories, NEW n, NEW u \in Users, RecordOnly(m, n, u)
  PROVE  Serves(m, n, u)
<1>1. Others(m, n, u)
  BY DEF RecordOnly, Others
<1>2. QED
  BY <1>1, RecordKeep DEF Serves

\* A line that is read.
LEMMA TakeServes ==
  ASSUME NEW m \in Memories, NEW s \in Sockets, NEW u \in Users
  PROVE  Serves(m, Take(m, s), u)
<1> DEFINE n == Take(m, s)
<1>1. /\ n.userslots = m.userslots /\ n.dataslots = m.dataslots
      /\ n.dc = m.dc /\ n.user = m.user
      /\ \A t \in Sockets : n.sock[t].kind = m.sock[t].kind
  BY TakeFields
<1> HIDE DEF n
<1>2. Keep(m, n)
  BY <1>1, SameHandlesKeep
<1>3. Others(m, n, u)
  BY <1>1 DEF Others
<1>4. QED
  BY <1>2, <1>3 DEF Serves, n

LEMMA DataCloseServes ==
  ASSUME NEW m \in Memories, NEW u \in Users, NEW d \in Slots
  PROVE  Serves(m, DataClose(m, u, d), u) /\ DataClose(m, u, d) \in Memories
<1> DEFINE n == DataClose(m, u, d)
<1>1. Keep(m, n) /\ n \in Memories
  BY DataCloseKeep, DataCloseTyped
<1>2. Emptied(m, n, u, d)
  BY DataCloseFields
<1> HIDE DEF n
<1>3. \A x \in Channels : x[1] # u => x # <<u, d>>
  OBVIOUS
<1>4. Others(m, n, u)
  BY <1>2, <1>3 DEF Emptied, Others
<1>5. QED
  BY <1>1, <1>4 DEF Serves, n

LEMMA WildCloseServes ==
  ASSUME NEW m \in Memories, NEW u \in Users, NEW x \in Channels, "wild" \in Faults
  PROVE  Serves(m, WildClose(m, u, x), u) /\ WildClose(m, u, x) \in Memories
<1> DEFINE n == WildClose(m, u, x)
<1>1. Keep(m, n) /\ n \in Memories
  BY WildCloseKeep, WildCloseTyped
<1>2. Zeroed(m, n, u, x)
  BY WildCloseFields
<1> HIDE DEF n
<1>3. Others(m, n, u)
  BY <1>2 DEF Zeroed, Others
<1>4. QED
  BY <1>1, <1>3 DEF Serves, n

LEMMA CloseSessionServes ==
  ASSUME NEW m \in Memories, Clean(m), NEW u \in m.userslots
  PROVE  Serves(m, CloseSession(m, u), u)
<1> DEFINE n == CloseSession(m, u)
<1>1. u \in Users
  BY DEF Memories
<1>2. n = CloseSession(m, u) /\ Keep(m, n)
  BY CloseSessionKeep
<1> HIDE DEF n
<1>3. /\ n.userslots = m.userslots \ {u} /\ n.dataslots = {c \in m.dataslots : c[1] # u}
      /\ \A v \in Users \ {u} : n.user[v] = m.user[v]
      /\ \A c \in Channels : n.dc[c] = IF c[1] = u THEN ZeroData ELSE m.dc[c]
  BY <1>1, <1>2, CloseSessionFields
<1>4. Others(m, n, u)
  BY <1>3 DEF Others
<1>5. QED
  BY <1>2, <1>4 DEF Serves

LEMMA OpenSessionOthers ==
  ASSUME NEW m \in Memories, NEW u \in Users, NEW s \in Sockets \cup {INVALID_SOCKET}
  PROVE  Others(m, OpenSession(m, u, s), u)
<1> DEFINE n == OpenSession(m, u, s)
<1>1. n = OpenSession(m, u, s) /\ s \in Handles
  BY DEF Handles
<1> HIDE DEF n
<1>2. /\ n.userslots = m.userslots \cup {u} /\ n.dataslots = {c \in m.dataslots : c[1] # u}
      /\ \A v \in Users \ {u} : n.user[v] = m.user[v]
      /\ \A c \in Channels : n.dc[c] = IF c[1] = u THEN ZeroData ELSE m.dc[c]
  BY <1>1, OpenSessionFields
<1>3. QED
  BY <1>1, <1>2 DEF Others

\* PORT, PASV, and a PASV that finds no port, with the reply.
LEMMA OfferServes ==
  ASSUME NEW m \in Memories, Clean(m), NEW u \in Users, NEW d \in Slots, <<u, d>> \notin m.dataslots,
         NEW s \in Sockets \cup {INVALID_SOCKET}, s \in Sockets => m.sock[s].kind = "free"
  PROVE  /\ Serves(m, Reply(OpenActive(m, u, d, s), u), u)
         /\ s \in Sockets => Serves(m, Reply(OpenPassive(m, u, d, s), u), u)
         /\ s = INVALID_SOCKET \/ "bind" \in Faults => Serves(m, Reply(FailPassive(m, u, d, s), u), u)
<1>1. s \in Handles /\ \A c \in Channels : c[1] # u => c # <<u, d>>
  BY DEF Handles
<1>2. ASSUME NEW n \in Memories, Serves(m, n, u) PROVE Serves(m, Reply(n, u), u)
  BY <1>2, RecordChanges, RecordServes, ServesComposed
<1>3. ASSUME NEW n, Offered(m, n, u, d) PROVE Others(m, n, u)
  BY <1>1, <1>3 DEF Offered, Others
<1>4. Serves(m, Reply(OpenActive(m, u, d, s), u), u)
  BY <1>1, <1>2, <1>3, OfferFields, OfferKeep, OpenChannelTyped DEF Serves
<1>5. s \in Sockets => Serves(m, Reply(OpenPassive(m, u, d, s), u), u)
  BY <1>1, <1>2, <1>3, OfferFields, OfferKeep, OpenChannelTyped DEF Serves
<1>6. ASSUME s = INVALID_SOCKET \/ "bind" \in Faults
      PROVE  Serves(m, Reply(FailPassive(m, u, d, s), u), u)
  <2> DEFINE n == FailPassive(m, u, d, s)
  <2>1. n = FailPassive(m, u, d, s) /\ n \in Memories
    BY <1>1, OpenChannelTyped
  <2>2. Keep(m, n)
    BY <1>6, FailPassiveKeep DEF LeftBehind
  <2> HIDE DEF n
  <2>3. /\ n.userslots = m.userslots /\ n.dataslots = m.dataslots /\ n.user = m.user
        /\ \A c \in Channels \ {<<u, d>>} : n.dc[c] = m.dc[c]
    BY <1>1, <2>1, FailPassiveFields
  <2>4. Others(m, n, u)
    BY <1>1, <2>3 DEF Others
  <2>5. QED
    BY <1>2, <2>1, <2>2, <2>4 DEF Serves
<1>7. QED
  BY <1>4, <1>5, <1>6

\* The second stage of a transfer, on a connection that is there or that is made.
LEMMA StartServes ==
  ASSUME NEW m \in Memories, Clean(m), NEW u \in Users, NEW cmd, NEW c, c = <<u, m.user[u].lastdc>>
  PROVE  /\ m.dc[c].type = "CONNECTED" => Serves(m, Begin(m, u, cmd), u)
         /\ \A s \in Sockets :
              \/ m.dc[c].type = "ACTIVE" /\ m.dc[c].conn = s /\ m.sock[s].kind = "idle"
              \/ m.dc[c].type = "PASSIVE" /\ m.sock[s].kind = "free"
              => Serves(m, Begin(Establish(m, u, m.user[u].lastdc, s), u, cmd), u)
<1>1. \A x \in Channels : x[1] # u => x # c
  OBVIOUS
<1>2. ASSUME NEW n, Started(m, n, u) PROVE Others(m, n, u)
  BY <1>1, <1>2 DEF Started, Others
<1>3. m.dc[c].type = "CONNECTED" => Serves(m, Begin(m, u, cmd), u)
  BY <1>2, BeginFields, BeginKeep DEF Serves
<1>4. ASSUME NEW s \in Sockets,
             \/ m.dc[c].type = "ACTIVE" /\ m.dc[c].conn = s /\ m.sock[s].kind = "idle"
             \/ m.dc[c].type = "PASSIVE" /\ m.sock[s].kind = "free"
      PROVE  Serves(m, Begin(Establish(m, u, m.user[u].lastdc, s), u, cmd), u)
  <2> DEFINE n == Begin(Establish(m, u, m.user[u].lastdc, s), u, cmd)
  <2>1. Keep(m, n)
    BY <1>4, ConnectKeep
  <2>2. Others(m, n, u)
    BY <1>2, ConnectFields
  <2>3. QED
    BY <2>1, <2>2 DEF Serves
<1>5. QED
  BY <1>3, <1>4

\* A second stage that fails closes the current channel, and perhaps another one.
LEMMA StageFailsServes ==
  ASSUME NEW e, NEW m \in Memories, e.user \in Users, NEW cmd, NEW back, StageFails(e, m, cmd, back)
  PROVE  Serves(m, server', e.user) \/ (server' = server /\ pc' = "crashed")
<1> DEFINE u == e.user
           c == DataClose(m, u, m.user[u].lastdc)
<1>1. m.user[u].lastdc \in Slots
  BY DEF Memories, UserRecords
<1>2. Serves(m, c, u) /\ c \in Memories
  BY <1>1, DataCloseServes
<1> HIDE DEF c
<1>3. ASSUME NEW k \in Memories, Serves(m, k, u) PROVE Serves(m, Refuse(k, u), u)
  BY <1>3, RecordChanges, RecordServes, ServesComposed
<1>4. \A d \in Slots : DataClose(c, u, d) \in Memories /\ Serves(m, DataClose(c, u, d), u)
  BY <1>2, DataCloseServes, ServesComposed
<1>5. "wild" \in Faults =>
        \A x \in Channels : WildClose(c, u, x) \in Memories /\ Serves(m, WildClose(c, u, x), u)
  BY <1>2, WildCloseServes, ServesComposed
<1>6. \/ server' = Refuse(c, u)
      \/ \E d \in Slots : server' = Refuse(DataClose(c, u, d), u)
      \/ "wild" \in Faults /\ \E x \in Channels : server' = Refuse(WildClose(c, u, x), u)
      \/ server' = server /\ pc' = "crashed"
  BY DEF StageFails, c
<1>7. QED
  BY <1>2, <1>3, <1>4, <1>5, <1>6

\* A command executed on memory m.
LEMMA ExecServes ==
  ASSUME NEW e, NEW m \in Memories, Clean(m), e.user \in Users, NEW cmd, NEW back,
         Exec(e, m, cmd, back)
  PROVE  Serves(m, server', e.user) \/ (server' = server /\ pc' = "crashed")
<1> DEFINE u == e.user
           d == m.user[u].lastdc
           c == <<u, d>>
<1>1. CASE server' \in {m, Reply(m, u), Disconnect(m, u), FirstStage(m, u, cmd)}
  BY <1>1, RecordChanges, RecordServes
<1>2. ASSUME NEW k \in Slots, NEW s \in Sockets \cup {INVALID_SOCKET},
             FirstFreeSlot(m, u, k), NewSocket(m, s)
      PROVE  /\ Serves(m, Reply(OpenActive(m, u, k, s), u), u)
             /\ s \in Sockets => Serves(m, Reply(OpenPassive(m, u, k, s), u), u)
             /\ s = INVALID_SOCKET \/ "bind" \in Faults => Serves(m, Reply(FailPassive(m, u, k, s), u), u)
  <2>1. <<u, k>> \notin m.dataslots /\ (s \in Sockets => m.sock[s].kind = "free")
    BY <1>2, NotHandles DEF FirstFreeSlot, NewSocket, Free
  <2>2. QED
    BY <2>1, OfferServes
<1>3. CASE ExecPort(e, m, back)
  BY <1>1, <1>2, <1>3 DEF ExecPort
<1>4. CASE ExecPasv(e, m, back)
  BY <1>1, <1>2, <1>4 DEF ExecPasv
<1>5. CASE StageFails(e, m, cmd, back)
  BY <1>5, StageFailsServes
<1>6. CASE ExecConnect(e, m, cmd, back)
  <2>1. \/ StageFails(e, m, cmd, back)
        \/ /\ m.dc[c].type = "ACTIVE" /\ Peer(m, m.dc[c].conn).kind = "idle"
           /\ server' = Begin(Establish(m, u, d, m.dc[c].conn), u, cmd)
    BY <1>6 DEF ExecConnect
  <2>2. Peer(m, m.dc[c].conn).kind = "idle" =>
          m.dc[c].conn \in Sockets /\ m.sock[m.dc[c].conn].kind = "idle"
    BY DEF Peer, Closed
  <2>3. QED
    BY <1>5, <2>1, <2>2, StartServes
<1>7. CASE ExecConnected(e, m, cmd, back)
  BY <1>7, StartServes DEF ExecConnected
<1>8. CASE ExecWait(e, m, back)
  BY <1>1, <1>8 DEF ExecWait
<1>9. QED
  BY <1>1, <1>3, <1>4, <1>5, <1>6, <1>7, <1>8
     DEF Exec, ExecReply, ExecQuit, ExecFirstStage, FirstStage

-----------------------------------------------------------------------------
\* The steps of the server and the clients.  A step concerns one session, keeps the
\* handles sound and owned, and ends no session unless it is the end of its entry.
Served ==
  /\ \E u \in Users : Others(server, server', u)
  /\ "bind" \notin Faults /\ Sound(server) => Sound(server')
  /\ Faults \cap {"crowd", "handles"} = {} /\ Owned(server) => Owned(server')

LEMMA ServesServed ==
  ASSUME NEW u \in Users, Serves(server, server', u)
  PROVE  Served
  BY DEF Serves, Keep, Served

\* Nothing changes, at a poll or when the process ends.
LEMMA NothingServed ==
  ASSUME TypeOK, server' = server
  PROVE  Served
<1>1. 0 \in Users
  BY UsersAssumption DEF Users
<1>2. Serves(server, server', 0)
  BY <1>1, RecordChanges, RecordServes DEF TypeOK
<1>3. QED
  BY <1>1, <1>2, ServesServed

LEMMA ListenerServed ==
  ASSUME SlotsInv, Listener
  PROVE  Served /\ server.userslots \subseteq server'.userslots
<1>1. server \in Memories /\ Clean(server)
  BY InvParts DEF TypeOK
<1>2. PICK s \in Sockets \cup {INVALID_SOCKET}, u \in Users :
        Accepted(s) /\ FirstFreeUser(server, u) /\ server' = OpenSession(server, u, s)
  BY DEF Listener
<1>3. u \notin server.userslots /\ (s \in Sockets => server.sock[s].kind = "free")
  BY <1>2, NotHandles DEF FirstFreeUser, Accepted, NewSocket, Free
<1>4. Keep(server, server') /\ Others(server, server', u)
  BY <1>1, <1>2, <1>3, OpenSessionKeep, OpenSessionOthers
<1>5. server'.userslots = server.userslots \cup {u}
  BY <1>1, <1>2, OpenSessionFields, NewSocketTyped
<1>6. QED
  BY <1>4, <1>5, ServesServed DEF Serves

LEMMA ListenerFullServed ==
  ASSUME SlotsInv, ListenerFull
  PROVE  Served /\ server.userslots \subseteq server'.userslots
<1>1. server \in Memories /\ Clean(server) /\ TypeOK /\ Faults \cap {"crowd", "handles"} # {}
  BY InvParts DEF TypeOK, ListenerFull
<1>2. PICK s \in Sockets \cup {INVALID_SOCKET} :
        /\ Accepted(s)
        /\ server' = server \/ \E u \in Users : server' = OpenSession(server, u, s)
  BY DEF ListenerFull
<1>3. s \in Sockets => server.sock[s].kind = "free"
  BY <1>2, NotHandles DEF Accepted, NewSocket, Free
<1>4. ASSUME NEW u \in Users, server' = OpenSession(server, u, s)
      PROVE  Served /\ server.userslots \subseteq server'.userslots
  <2>1. Sound(server) => Sound(server')
    BY <1>1, <1>3, <1>4, OpenSessionKeep
  <2>2. Others(server, server', u)
    BY <1>1, <1>4, OpenSessionOthers
  <2>3. server'.userslots = server.userslots \cup {u}
    BY <1>1, <1>4, OpenSessionFields, NewSocketTyped
  <2>4. QED
    BY <1>1, <2>1, <2>2, <2>3 DEF Served
<1>5. QED
  BY <1>1, <1>2, <1>4, NothingServed

\* A line that is read, and the text of a delayed command it may overwrite.
LEMMA LineServes ==
  ASSUME SlotsInv, NEW e \in polls, e.slot = ControlSlot,
         NEW s \in Sockets, server.sock[s].in # <<>>, NEW m, m = Take(server, s)
  PROVE  /\ e.user \in server.userslots /\ e.user \in Users
         /\ Same(server, m) /\ Serves(server, m, e.user) /\ Head(server.sock[s].in) \in Lines
         /\ \A cmd \in AllCommands :
              Same(server, Overwrite(m, e.user, cmd)) /\ Serves(server, Overwrite(m, e.user, cmd), e.user)
<1> DEFINE u == e.user
<1>1. server \in Memories /\ Clean(server) /\ u \in server.userslots /\ u \in Users
  BY InvParts DEF TypeOK, PolledOwned, Memories
<1>2. Same(server, m) /\ Head(server.sock[s].in) \in Lines
  BY <1>1, LineSame, LineTyped
<1>3. m \in Memories /\ Clean(m) /\ u \in m.userslots
  BY <1>1, <1>2 DEF Same
<1>4. Serves(server, m, u)
  BY <1>1, TakeServes
<1>5. ASSUME NEW cmd \in AllCommands
      PROVE  Same(server, Overwrite(m, u, cmd)) /\ Serves(server, Overwrite(m, u, cmd), u)
  <2>1. Same(m, Overwrite(m, u, cmd))
    BY <1>3, LineSame
  <2>2. RecordOnly(m, Overwrite(m, u, cmd), u)
    BY <1>1, <1>3, RecordChanges
  <2>3. Serves(m, Overwrite(m, u, cmd), u)
    BY <1>1, <1>3, <2>2, RecordServes
  <2>4. QED
    BY <1>2, <1>4, <2>1, <2>3, SameComposed, ServesComposed
<1>6. QED
  BY <1>1, <1>2, <1>4, <1>5

\* A command is executed, on a memory that differs from the server's in what was
\* read or sent.
LEMMA ExecServed ==
  ASSUME SlotsInv, NEW e, e.user \in server.userslots, NEW m, Same(server, m),
         Serves(server, m, e.user), NEW cmd, NEW back, Exec(e, m, cmd, back)
  PROVE  Served /\ server'.userslots = server.userslots
<1>1. server \in Memories /\ Clean(server) /\ TypeOK /\ e.user \in Users
  BY InvParts DEF TypeOK, Memories
<1>2. m \in Memories /\ Clean(m)
  BY DEF Same
<1>3. server'.userslots = server.userslots
  BY <1>1, ExecSteps, StepsFacts
<1>4. Serves(m, server', e.user) \/ server' = server
  BY <1>1, <1>2, ExecServes
<1>5. QED
  BY <1>1, <1>3, <1>4, ServesComposed, ServesServed, NothingServed

LEMMA RecvLineServed ==
  ASSUME SlotsInv, RecvLine
  PROVE  Served /\ server'.userslots = server.userslots
<1>1. PICK e \in polls :
        LET s == server.user[e.user].control
            line == Head(server.sock[s].in)
            m == Take(server, s)
        IN /\ Reading(e)
           /\ s \in Sockets /\ server.sock[s].in # <<>>
           /\ \/ /\ line \in AllCommands
                 /\ Exec(e, Overwrite(m, e.user, line), line, "recv")
              \/ \E text \in Commands : server' = Overwrite(m, e.user, text)
              \/ server' = m
              \/ server' = Disconnect(m, e.user)
  BY DEF RecvLine
<1> DEFINE u == e.user
           s == server.user[u].control
           line == Head(server.sock[s].in)
           m == Take(server, s)
<1>2. e.slot = ControlSlot
  BY <1>1 DEF Reading
<1>3. /\ u \in server.userslots /\ u \in Users
      /\ Same(server, m) /\ Serves(server, m, u)
      /\ \A cmd \in AllCommands : Same(server, Overwrite(m, u, cmd)) /\ Serves(server, Overwrite(m, u, cmd), u)
  BY <1>1, <1>2, LineServes
<1> HIDE DEF m, line, s
<1>4. m \in Memories
  BY <1>3 DEF Same
<1>5. ASSUME NEW n, Same(server, n), Serves(server, n, u), server' = n
      PROVE  Served /\ server'.userslots = server.userslots
  BY <1>3, <1>5, ServesServed DEF Same
<1>6. CASE line \in AllCommands /\ Exec(e, Overwrite(m, u, line), line, "recv")
  BY <1>3, <1>6, ExecServed
<1>7. CASE \E text \in Commands : server' = Overwrite(m, u, text)
  BY <1>3, <1>5, <1>7, CommandsAssumption
<1>8. CASE server' = m
  BY <1>3, <1>5, <1>8
<1>9. CASE server' = Disconnect(m, u)
  <2>1. Same(m, Disconnect(m, u))
    BY <1>3, ReplySame DEF Same
  <2>2. Serves(m, Disconnect(m, u), u)
    BY <1>3, <1>4, RecordChanges, RecordServes
  <2>3. QED
    BY <1>3, <1>5, <1>9, <2>1, <2>2, SameComposed, ServesComposed
<1>10. QED
  BY <1>1, <1>6, <1>7, <1>8, <1>9 DEF m, line, s

\* The session that ends takes all it had with it.
EndsWhole ==
  \A u \in server.userslots :
    u \notin server'.userslots =>
      /\ \A d \in Slots : <<u, d>> \notin server'.dataslots
      /\ \A s \in Holdings(server, u) \cap Sockets : server'.sock[s].kind = "free"

\* What is sent at a control entry.
LEMMA SentServes ==
  ASSUME SlotsInv, NEW e \in polls, e.slot = ControlSlot, NEW more \in Partly,
         NEW m, m = Sent(server, e, more)
  PROVE  /\ e.user \in server.userslots /\ e.user \in Users
         /\ Same(server, m) /\ Serves(server, m, e.user) /\ RecordOnly(server, m, e.user)
<1>1. server \in Memories /\ Clean(server) /\ e \in Entries /\ e.user \in server.userslots
  BY InvParts DEF TypeOK, PolledOwned
<1>2. e.user \in Users /\ more \in BOOLEAN
  BY <1>1 DEF Memories, Partly
<1>3. Same(server, m)
  BY <1>1, <1>2, LineSame
<1>4. RecordOnly(server, m, e.user)
  BY <1>1, <1>2, SentFields
<1>5. QED
  BY <1>1, <1>2, <1>3, <1>4, RecordServes

LEMMA FlushServed ==
  ASSUME SlotsInv, Flush
  PROVE  Served /\ EndsWhole
<1>1. PICK e \in polls, more \in Partly :
        LET m == Sent(server, e, more) IN
        /\ ReadOver(e)
        /\ server' \in {m, CloseSession(m, e.user), server}
  BY DEF Flush
<1> DEFINE u == e.user
           m == Sent(server, e, more)
<1>2. e.slot = ControlSlot
  BY <1>1 DEF ReadOver
<1>3. /\ u \in server.userslots /\ u \in Users
      /\ Same(server, m) /\ Serves(server, m, u) /\ RecordOnly(server, m, u)
  BY <1>1, <1>2, SentServes
<1>4. server' \in {m, CloseSession(m, u), server}
  BY <1>1
<1> HIDE DEF m
<1>5. m \in Memories /\ Clean(m) /\ u \in m.userslots /\ m.userslots = server.userslots
  BY <1>3 DEF Same
<1>6. CASE server' = server
  BY <1>6, NothingServed DEF SlotsInv, EndsWhole
<1>7. CASE server' = m
  BY <1>3, <1>5, <1>7, ServesServed DEF EndsWhole
<1>8. CASE server' = CloseSession(m, u)
  <2>1. Serves(m, server', u)
    BY <1>5, <1>8, CloseSessionServes
  <2>2. Served
    BY <1>3, <2>1, ServesComposed, ServesServed
  <2>3. Holdings(m, u) = Holdings(server, u)
    BY <1>3 DEF RecordOnly, Holdings
  <2>4. /\ server'.userslots = m.userslots \ {u}
        /\ server'.dataslots = {c \in m.dataslots : c[1] # u}
        /\ \A s \in Sockets : s \in Holdings(m, u) => server'.sock[s].kind = "free"
    BY <1>3, <1>5, <1>8, CloseSessionFields DEF Closed
  <2>5. \A d \in Slots : <<u, d>> \notin server'.dataslots
    BY <2>4
  <2>6. \A v \in server.userslots : v \notin server'.userslots => v = u
    BY <1>5, <2>4
  <2>7. EndsWhole
    BY <2>3, <2>4, <2>5, <2>6 DEF EndsWhole
  <2>8. QED
    BY <2>2, <2>7
<1>9. QED
  BY <1>4, <1>6, <1>7, <1>8

\* The end of a session leaves the channels of the others as they are.
LEMMA FlushApart ==
  ASSUME SlotsInv, Flush, server'.userslots # server.userslots
  PROVE  \E w \in Users :
           /\ Others(server, server', w)
           /\ \A c \in Channels : c[1] # w => server'.dc[c] = server.dc[c]
<1>1. PICK e \in polls, more \in Partly :
        LET m == Sent(server, e, more) IN
        /\ ReadOver(e)
        /\ server' \in {m, CloseSession(m, e.user), server}
  BY DEF Flush
<1> DEFINE u == e.user
           m == Sent(server, e, more)
<1>2. e.slot = ControlSlot
  BY <1>1 DEF ReadOver
<1>3. /\ u \in Users /\ Same(server, m) /\ Serves(server, m, u) /\ RecordOnly(server, m, u)
  BY <1>1, <1>2, SentServes
<1>4. server' \in {m, CloseSession(m, u), server}
  BY <1>1
<1> HIDE DEF m
<1>5. m \in Memories /\ m.userslots = server.userslots
  BY <1>3 DEF Same
<1>6. server' = CloseSession(m, u)
  BY <1>4, <1>5
<1>7. /\ \A v \in Users \ {u} : server'.user[v] = m.user[v]
      /\ server'.userslots = m.userslots \ {u}
      /\ server'.dataslots = {c \in m.dataslots : c[1] # u}
      /\ \A c \in Channels : server'.dc[c] = IF c[1] = u THEN ZeroData ELSE m.dc[c]
  BY <1>3, <1>5, <1>6, CloseSessionFields
<1>8. /\ \A v \in Users \ {u} : m.user[v] = server.user[v]
      /\ m.dataslots = server.dataslots /\ m.dc = server.dc
  BY <1>3 DEF RecordOnly
<1>9. QED
  BY <1>3, <1>5, <1>7, <1>8 DEF Others

LEMMA DelayedServed ==
  ASSUME SlotsInv, Delayed
  PROVE  Served /\ server'.userslots = server.userslots
<1>1. PICK e \in polls, more \in Partly :
        e.slot = ControlSlot /\ Exec(e, Sent(server, e, more), server.user[e.user].command, "sweep")
  BY DEF Delayed
<1>2. QED
  BY <1>1, SentServes, ExecServed

LEMMA AcceptDataServed ==
  ASSUME SlotsInv, AcceptData
  PROVE  Served /\ server'.userslots = server.userslots
<1>1. server \in Memories /\ Clean(server) /\ TypeOK
  BY InvParts DEF TypeOK
<1> DEFINE back == IF pc = "accept" THEN "sweep" ELSE "recv"
<1>2. PICK e \in polls :
        LET u == e.user
            d == server.user[u].lastdc
            cmd == server.user[u].command
        IN /\ Current(e)
           /\ \/ \E s \in Sockets :
                   NewSocket(server, s) /\ server' = Begin(Establish(server, u, d, s), u, cmd)
              \/ StageFails(e, server, cmd, back)
  BY DEF AcceptData
<1> DEFINE u == e.user
           d == server.user[u].lastdc
           cmd == server.user[u].command
           c == <<u, d>>
<1>3. /\ e.slot = ControlSlot /\ u \in server.userslots /\ u \in Users
      /\ server.dc[c].type = "PASSIVE"
  BY <1>1, <1>2 DEF AcceptData, SlotsInv, InControl, PolledOwned, Memories
<1>4. CASE StageFails(e, server, cmd, back)
  <2>1. Steps(server, server')
    BY <1>1, <1>3, <1>4, SameTables, StageFailsSteps
  <2>2. Serves(server, server', u) \/ server' = server
    BY <1>1, <1>3, <1>4, StageFailsServes
  <2>3. QED
    BY <1>1, <1>3, <2>1, <2>2, StepsFacts, ServesServed, NothingServed
<1>5. ASSUME NEW s \in Sockets, NewSocket(server, s),
             server' = Begin(Establish(server, u, d, s), u, cmd)
      PROVE  Served /\ server'.userslots = server.userslots
  <2>1. Steps(server, server')
    BY <1>1, <1>3, <1>5, StageSteps
  <2>2. server.sock[s].kind = "free"
    BY <1>5, NotHandles DEF NewSocket, Free
  <2>3. Serves(server, server', u)
    BY <1>1, <1>3, <1>5, <2>2, StartServes
  <2>4. QED
    BY <1>3, <2>1, <2>3, StepsFacts, ServesServed
<1>6. QED
  BY <1>2, <1>4, <1>5

\* The three tests of a data entry, one after the other.
LEMMA TestsServe ==
  ASSUME SlotsInv, NEW e \in polls, e.slot # ControlSlot, NEW eof \in BOOLEAN, NEW last \in BOOLEAN,
         server' = AfterHup(AfterSend(AfterRecv(server, e, eof), e, last), e)
  PROVE  /\ e.user \in Users /\ Serves(server, server', e.user)
         /\ server'.userslots = server.userslots
<1>1. server \in Memories
  BY DEF SlotsInv, TypeOK
<1> DEFINE u == e.user
           d == e.slot
           m1 == AfterRecv(server, e, eof)
           m2 == AfterSend(m1, e, last)
           m3 == AfterHup(m2, e)
           Good(m, n) == n \in Memories /\ Serves(m, n, u) /\ n.userslots = m.userslots
<1>3. u \in Users /\ d \in Slots
  BY DEF SlotsInv, TypeOK, Entries
<1>4. ASSUME NEW m \in Memories
      PROVE  /\ Good(m, m) /\ Good(m, DataClose(m, u, d))
             /\ Good(m, DataClose(Reply(m, u), u, d))
  <2>1. Good(m, m) /\ Good(m, Reply(m, u))
    <3>1. RecordOnly(m, m, u)
      BY DEF RecordOnly
    <3>2. RecordOnly(m, Reply(m, u), u) /\ Reply(m, u) \in Memories
      BY <1>3, RecordChanges, ReplyTyped
    <3>3. Serves(m, m, u) /\ Serves(m, Reply(m, u), u)
      BY <1>3, <3>1, <3>2, RecordServes
    <3>4. QED
      BY <3>2, <3>3 DEF RecordOnly
  <2>2. ASSUME NEW n \in Memories PROVE Good(n, DataClose(n, u, d))
    <3>1. Emptied(n, DataClose(n, u, d), u, d)
      BY <1>3, DataCloseFields
    <3>2. QED
      BY <1>3, <3>1, DataCloseServes DEF Emptied
  <2> DEFINE r == Reply(m, u)
  <2>3. Good(m, DataClose(m, u, d))
    BY <2>2
  <2>4. Good(r, DataClose(r, u, d))
    BY <2>1, <2>2
  <2>5. Good(m, r)
    BY <2>1
  <2> HIDE DEF r
  <2>6. Good(m, DataClose(r, u, d))
    BY <2>4, <2>5, ServesComposed
  <2>7. QED
    BY <2>1, <2>3, <2>6 DEF r
<1>5. Good(server, m1)
  BY <1>1, <1>4 DEF AfterRecv
<1>6. Good(m1, m2)
  <2>1. m1 \in Memories
    BY <1>5
  <2> HIDE DEF m1
  <2>2. QED
    BY <1>4, <2>1 DEF AfterSend
<1>7. Good(m2, m3)
  <2>1. m2 \in Memories
    BY <1>6
  <2> HIDE DEF m2
  <2>2. QED
    BY <1>4, <2>1 DEF AfterHup
<1> HIDE DEF m1, m2, m3
<1>8. Good(server, m3)
  BY <1>5, <1>6, <1>7, ServesComposed
<1>9. server' = m3
  BY DEF m1, m2, m3
<1>10. QED
  BY <1>3, <1>8, <1>9

LEMMA ProcessDataServed ==
  ASSUME SlotsInv, ProcessData
  PROVE  Served /\ server'.userslots = server.userslots
<1>1. PICK e \in polls, eof \in BOOLEAN, last \in BOOLEAN :
        /\ e.slot # ControlSlot
        /\ server' = AfterHup(AfterSend(AfterRecv(server, e, eof), e, last), e)
  BY DEF ProcessData
<1>2. QED
  BY <1>1, TestsServe, ServesServed

\* The clients touch no table, and no handle but their own.
LEMMA ClientsServed ==
  ASSUME SlotsInv, Clients
  PROVE  Served /\ server'.userslots = server.userslots
<1>1. TypeOK /\ server \in Memories /\ 0 \in Users
  BY UsersAssumption DEF SlotsInv, TypeOK, Users
<1>2. CASE server' = server
  BY <1>1, <1>2, NothingServed
<1>3. ASSUME NEW s \in Sockets, NEW r, server' = [server EXCEPT !.sock[s] = r],
             r.kind = server.sock[s].kind \/ (server.sock[s].kind = "listen" /\ r.kind = "knocked")
      PROVE  Served /\ server'.userslots = server.userslots
  <2>1. /\ server'.userslots = server.userslots /\ server'.dataslots = server.dataslots
        /\ server'.dc = server.dc /\ server'.user = server.user
        /\ server'.sock = [server.sock EXCEPT ![s] = r]
    BY <1>3 DEF Memories
  <2>2. \A t \in Sockets : \/ server'.sock[t].kind = server.sock[t].kind
                           \/ server.sock[t].kind = "listen" /\ server'.sock[t].kind = "knocked"
    BY <1>1, <1>3, <2>1 DEF Memories
  <2>3. Keep(server, server')
    <3>1. \A v \in Users : server'.user[v].control = server.user[v].control
      BY <2>1
    <3>2. server'.userslots = server.userslots /\ server'.dataslots = server.dataslots /\ server'.dc = server.dc
      BY <2>1
    <3>3. server \in Memories
      BY <1>1
    <3>4. QED
      BY ONLY <2>2, <3>1, <3>2, <3>3, SameHandlesKeep
  <2>4. Others(server, server', 0)
    BY <2>1 DEF Others
  <2>5. QED
    BY <1>1, <2>1, <2>3, <2>4, ServesServed DEF Serves
<1>4. ASSUME NEW s \in Sockets, ClientSend(s) \/ ClientClose(s) \/ Knock(s) \/ KnockGivenUp(s)
      PROVE  \E r : /\ server' = [server EXCEPT !.sock[s] = r]
                    /\ \/ r.kind = server.sock[s].kind
                       \/ server.sock[s].kind = "listen" /\ r.kind = "knocked"
  <2> DEFINE q == server.sock[s]
             Changed(r) == /\ server' = [server EXCEPT !.sock[s] = r]
                           /\ r.kind = q.kind \/ (q.kind = "listen" /\ r.kind = "knocked")
  <2>1. q \in SocketRecords
    BY <1>1 DEF Memories
  <2>2. ASSUME ClientSend(s) PROVE \E r : Changed(r)
    <3>1. PICK x : server' = [server EXCEPT !.sock[s] = [q EXCEPT !.in = Append(@, x)]]
      BY <1>1, <2>2 DEF ClientSend, Memories
    <3>2. Changed([q EXCEPT !.in = Append(@, x)])
      BY <2>1, <3>1 DEF SocketRecords
    <3>3. QED
      BY <3>2
  <2>3. ASSUME ClientClose(s) \/ KnockGivenUp(s) PROVE \E r : Changed(r)
    <3>1. server' = [server EXCEPT !.sock[s] = [q EXCEPT !.hup = TRUE]]
      BY <1>1, <2>3 DEF ClientClose, KnockGivenUp, Memories
    <3>2. Changed([q EXCEPT !.hup = TRUE])
      BY <2>1, <3>1 DEF SocketRecords
    <3>3. QED
      BY <3>2
  <2>4. ASSUME Knock(s) PROVE \E r : Changed(r)
    <3>1. q.kind = "listen" /\ server' = [server EXCEPT !.sock[s] = [q EXCEPT !.kind = "knocked"]]
      BY <1>1, <2>4 DEF Knock, Memories
    <3>2. Changed([q EXCEPT !.kind = "knocked"])
      BY <2>1, <3>1 DEF SocketRecords
    <3>3. QED
      BY <3>2
  <2>5. QED
    BY <1>4, <2>2, <2>3, <2>4
<1>5. QED
  BY <1>2, <1>3, <1>4 DEF Clients, Connect, GiveUp

LEMMA NextServed ==
  ASSUME SlotsInv, [Next]_vars
  PROVE  Served /\ EndsWhole
<1>1. /\ server.userslots \subseteq server'.userslots => EndsWhole
      /\ server'.userslots = server.userslots => EndsWhole
  BY DEF EndsWhole
<1>2. CASE Poll \/ UNCHANGED vars
  BY <1>1, <1>2, NothingServed DEF SlotsInv, Poll, vars
<1>3. QED
  BY <1>1, <1>2, ListenerServed, ListenerFullServed, RecvLineServed, FlushServed, DelayedServed,
     AcceptDataServed, ProcessDataServed, ClientsServed DEF Next, Server

\* The invariant on handles, and what it says of the tables.
HandlesInv ==
  /\ SlotsInv
  /\ "bind" \notin Faults => Sound(server)
  /\ Faults \cap {"crowd", "handles"} = {} => Owned(server)

\* The step that opens or ends a session leaves the records of all channels of the
\* others as they are.
LEMMA SessionStepsApart ==
  ASSUME SlotsInv, [Next]_vars, server'.userslots # server.userslots
  PROVE  \E w \in Users :
           /\ Others(server, server', w)
           /\ \A c \in Channels : c[1] # w => server'.dc[c] = server.dc[c]
<1>1. server \in Memories /\ Clean(server) /\ TypeOK
  BY InvParts DEF TypeOK
<1>2. ASSUME NEW u \in Users, NEW s \in Sockets \cup {INVALID_SOCKET},
             server' = OpenSession(server, u, s)
      PROVE  /\ Others(server, server', u)
             /\ \A c \in Channels : c[1] # u => server'.dc[c] = server.dc[c]
  <2>1. Others(server, server', u)
    BY <1>1, <1>2, OpenSessionOthers
  <2>2. \A c \in Channels : c[1] # u => server'.dc[c] = server.dc[c]
    BY <1>1, <1>2, OpenSessionFields, NewSocketTyped
  <2>3. QED
    BY <2>1, <2>2
<1>3. CASE Listener
  BY <1>2, <1>3 DEF Listener
<1>4. CASE ListenerFull
  BY <1>2, <1>4 DEF ListenerFull
<1>5. CASE Flush
  BY <1>5, FlushApart
<1>6. QED
  BY <1>3, <1>4, <1>5, RecvLineServed, DelayedServed, AcceptDataServed, ProcessDataServed,
     ClientsServed DEF Next, Server, Poll, vars

LEMMA HandlesInductive ==
  /\ Init => HandlesInv
  /\ HandlesInv /\ [Next]_vars => HandlesInv'
<1>1. ASSUME Init PROVE Sound(server) /\ Owned(server)
  <2>1. /\ ZeroUser.control = NoSocket /\ Closed.kind = "free"
        /\ ZeroData.conn = NoSocket /\ ZeroData.lconn = NoSocket /\ ZeroData.type = "ACTIVE"
    BY DEF ZeroUser, ZeroData, Closed
  <2>2. /\ \A u \in Users : server.user[u] = ZeroUser
        /\ \A c \in Channels : server.dc[c] = ZeroData
        /\ \A s \in Sockets : server.sock[s] = Closed
    BY <1>1 DEF Init, ZeroMemory
  <2>3. QED
    BY <2>1, <2>2, NotHandles DEF Sound, Fits, Names, Owned
<1>2. Init => HandlesInv
  BY <1>1, InitSlots DEF HandlesInv
<1>3. HandlesInv /\ [Next]_vars => HandlesInv'
  BY NextSlots, NextServed DEF HandlesInv, Served
<1>4. QED
  BY <1>2, <1>3

LEMMA HandlesAlways == Spec => []HandlesInv
  BY HandlesInductive, PTL DEF Spec

LEMMA SoundFacts ==
  ASSUME SlotsInv, Sound(server)
  PROVE  HandlesFit /\ HandlesUnshared
<1> DEFINE m == server
<1>1. m \in Memories /\ m.userslots \subseteq Users /\ m.dataslots \subseteq Channels
  BY DEF SlotsInv, TypeOK, Memories
<1>2. HandlesFit
  <2>1. ASSUME NEW c \in m.dataslots PROVE ChannelFits(m, c)
    <3>1. Fits(m, c)
      BY <1>1 DEF Sound
    <3>2. QED
      BY <3>1 DEF Fits, ChannelFits
  <2>2. QED
    BY <1>1, <2>1 DEF HandlesFit, Sound
<1>3. HandlesUnshared
  <2>1. SUFFICES ASSUME NEW s \in Sockets
                 PROVE  /\ \A u, v \in ControlHolders(m, s) : u = v
                        /\ \A c, d \in DataHolders(m, s) : c = d
                        /\ ControlHolders(m, s) = {} \/ DataHolders(m, s) = {}
    BY DEF HandlesUnshared
  <2>2. \A u \in ControlHolders(m, s) : u \in Users /\ m.user[u].control = s
    BY <1>1 DEF ControlHolders
  <2>3. \A c \in DataHolders(m, s) : c \in Channels /\ Names(m, c, s)
    BY <1>1 DEF DataHolders, Names
  <2>4. QED
    BY <1>1, <2>2, <2>3, NamedKinds DEF Sound
<1>4. QED
  BY <1>2, <1>3

\* The handles the tables name are open and of the kind the table says, as long as a
\* port can be found for PASV: a PASV that fails leaves the number of the socket it
\* has closed in a channel that is not allocated, and RETR and STOR close such a
\* channel, by then perhaps with somebody else's handle in it.
THEOREM HandlesCorrect ==
  ASSUME "bind" \notin Faults
  PROVE  Spec => []HandlesFit /\ []HandlesUnshared
<1>1. HandlesInv => HandlesFit /\ HandlesUnshared
  BY SoundFacts DEF HandlesInv
<1>2. QED
  BY <1>1, HandlesAlways, PTL

\* No handle leaks, as long as no client finds the table of sessions full and
\* accept() finds a handle: a session that is opened over another one, or with the
\* handle -1, forgets what was there.
THEOREM NoHandleLeaks ==
  ASSUME Faults \cap {"crowd", "handles"} = {}
  PROVE  Spec => []HandlesOwned
<1>1. HandlesInv => HandlesOwned
  <2>1. ASSUME HandlesInv, NEW s \in Sockets, server.sock[s].kind # "free"
        PROVE  ControlHolders(server, s) # {} \/ DataHolders(server, s) # {}
    <3>1. Held(server, s)
      BY <2>1 DEF HandlesInv, Owned
    <3>2. QED
      BY <3>1 DEF Held, Names, ControlHolders, DataHolders
  <2>2. QED
    BY <2>1 DEF HandlesOwned
<1>2. QED
  BY <1>1, HandlesAlways, PTL

\* A session that ends leaves nothing open, in the same step, whatever has failed.
THEOREM SessionsEndWhole == Spec => SessionEndsWhole
<1>1. SlotsInv /\ [Next]_vars => EndsWhole
  BY NextServed
<1>2. QED
  BY <1>1, SlotsCorrect, PTL DEF Spec, SessionEndsWhole, EndsWhole

\* A step of the server concerns one session, but for a wild close, as long as no
\* session names the handle of another one.
THEOREM SessionsIsolated ==
  ASSUME "bind" \notin Faults
  PROVE  Spec => Isolation
<1> DEFINE Apart == \E w \in Users : \A v \in Users \ {w} : ~Touched(v)
           Dead(m, u) == {s \in Holdings(m, u) \cap Sockets : m.sock[s].kind = "free"}
<1>1. ASSUME NEW m \in Memories, Sound(m), NEW u \in Users PROVE Dead(m, u) = {}
  <2>1. ASSUME NEW s \in Holdings(m, u), s \in Sockets PROVE m.sock[s].kind # "free"
    <3>1. m.user[u].control = s \/ \E c \in m.dataslots : Names(m, c, s)
      BY <2>1 DEF Holdings, Names
    <3>2. m.dataslots \subseteq Channels
      BY DEF Memories
    <3>3. QED
      BY <1>1, <2>1, <3>1, <3>2, NamedKinds
  <2>2. QED
    BY <2>1
<1>2. ASSUME HandlesInv, HandlesInv', [Next]_vars PROVE Apart
  <2>1. /\ server \in Memories /\ server' \in Memories /\ Sound(server) /\ Sound(server')
    BY <1>2 DEF HandlesInv, SlotsInv, TypeOK
  <2>2. PICK w \in Users :
          /\ Others(server, server', w)
          /\ server'.userslots # server.userslots =>
               \A c \in Channels : c[1] # w => server'.dc[c] = server.dc[c]
    BY <1>2, NextServed, SessionStepsApart DEF HandlesInv, Served
  <2>3. ASSUME NEW v \in Users, v # w PROVE ~Touched(v)
    <3> DEFINE struck == {d \in Slots : /\ "wild" \in Faults /\ server'.userslots = server.userslots
                                 /\ server'.dc[<<v, d>>] = ZeroData}
    <3>1. /\ (v \in server'.userslots) = (v \in server.userslots)
          /\ server'.user[v] = server.user[v]
      BY <2>2, <2>3 DEF Others
    <3>2. \A d \in Slots :
            /\ (<<v, d>> \in server'.dataslots) = (<<v, d>> \in server.dataslots)
            /\ server'.dc[<<v, d>>] = IF d \in struck THEN ZeroData ELSE server.dc[<<v, d>>]
      <4>1. \A d \in Slots : <<v, d>> \in Channels /\ <<v, d>>[1] # w
        BY <2>3 DEF Channels
      <4>2. QED
        BY <2>2, <4>1 DEF Others
    <3>3. Dead(server, v) = {} /\ Dead(server', v) = {}
      BY <1>1, <2>1
    <3> HIDE DEF struck
    <3>4. Belongings(v, {})' = Belongings(v, struck)
      BY <3>1, <3>2, <3>3 DEF Belongings
    <3>5. QED
      BY <3>4 DEF Touched, struck
  <2>4. QED
    BY <2>3
<1>3. QED
  BY <1>2, HandlesAlways, HandlesInductive, PTL DEF Spec, Isolation

-----------------------------------------------------------------------------
\* The wait for a data connection: the server waits for the delayed command of the
\* session whose entry it handles.
Waits ==
  pc \in {"accept", "acceptInRecv"} =>
    \E e \in polls :
      /\ Current(e)
      /\ server.user[e.user].dlcommand = 1 /\ server.user[e.user].command \in Transfers

\* Nothing else begins a wait than the second stage of a transfer.
LEMMA ExecWaits ==
  ASSUME NEW e, NEW m, NEW cmd, NEW back \in {"sweep", "recv"}, Exec(e, m, cmd, back),
         pc' \in {"accept", "acceptInRecv"}
  PROVE  /\ cmd \in Transfers /\ m.user[e.user].dlcommand = 1
         /\ server' = m /\ polls' = polls
         /\ pc' = IF back = "sweep" THEN "accept" ELSE "acceptInRecv"
<1>1. ~Resume(e, back) /\ ~StageFails(e, m, cmd, back)
  BY DEF Resume, StageFails
<1>2. cmd \in Transfers /\ m.user[e.user].dlcommand = 1 /\ ExecWait(e, m, back)
  BY <1>1 DEF Exec, ExecReply, ExecQuit, ExecPort, ExecPasv, ExecFirstStage, ExecConnect, ExecConnected
<1>3. QED
  BY <1>2 DEF ExecWait

LEMMA WaitsKept ==
  ASSUME SlotsInv, Waits, [Next]_vars
  PROVE  Waits'
<1>1. SUFFICES ASSUME pc' \in {"accept", "acceptInRecv"} PROVE Waits'
  BY DEF Waits
<1>2. CASE pc' = pc /\ polls' = polls /\ server'.user = server.user
  BY <1>1, <1>2 DEF Waits, Current
<1>3. CASE RecvLine
  <2>1. PICK e \in polls :
          LET s == server.user[e.user].control
              line == Head(server.sock[s].in)
              m == Take(server, s)
          IN /\ Reading(e) /\ s \in Sockets /\ server.sock[s].in # <<>>
             /\ line \in AllCommands
             /\ Exec(e, Overwrite(m, e.user, line), line, "recv")
    BY <1>1, <1>3 DEF RecvLine, Resume
  <2> DEFINE u == e.user
             s == server.user[u].control
             line == Head(server.sock[s].in)
             m == Take(server, s)
             k == Overwrite(m, u, line)
  <2>2. Current(e) /\ e.slot = ControlSlot
    BY <2>1 DEF Reading
  <2>3. m \in Memories /\ u \in Users
    BY <2>1, <2>2, LineServes DEF Same
  <2> HIDE DEF m, s
  <2>4. /\ k.user[u].dlcommand = m.user[u].dlcommand
        /\ m.user[u].dlcommand = 1 => k.user[u].command = line
    BY <2>3, RecordChanges
  <2>5. line \in Transfers /\ k.user[u].dlcommand = 1 /\ server' = k /\ polls' = polls
    BY <1>1, <2>1, ExecWaits DEF m, s
  <2> HIDE DEF k, line
  <2>6. server'.user[u].dlcommand = 1 /\ server'.user[u].command \in Transfers
    BY <2>4, <2>5
  <2>7. QED
    BY <2>2, <2>5, <2>6 DEF Waits, Current
<1>4. CASE Delayed
  <2>1. PICK e \in polls, more \in Partly :
          /\ Current(e) /\ Exec(e, Sent(server, e, more), server.user[e.user].command, "sweep")
    BY <1>4 DEF Delayed
  <2> DEFINE u == e.user
             m == Sent(server, e, more)
  <2>2. m.user[u].command = server.user[u].command
    <3>1. server \in Memories /\ e \in Entries /\ more \in BOOLEAN
      BY DEF SlotsInv, TypeOK, Partly
    <3>2. QED
      BY <3>1, SentFields
  <2>3. server.user[u].command \in Transfers /\ m.user[u].dlcommand = 1 /\ server' = m /\ polls' = polls
    BY <1>1, <2>1, ExecWaits
  <2> HIDE DEF m
  <2>4. QED
    BY <2>1, <2>2, <2>3 DEF Waits, Current
<1>5. CASE Clients
  <2>1. pc' = pc /\ polls' = polls /\ server'.user = server.user
    BY <1>5 DEF Clients, Connect, GiveUp, ClientSend, ClientClose, Knock, KnockGivenUp,
       SlotsInv, TypeOK, Memories
  <2>2. QED
    BY <1>2, <2>1
<1>6. ~(Poll \/ Listener \/ ListenerFull \/ Flush \/ AcceptData \/ ProcessData)
  BY <1>1 DEF Poll, Listener, ListenerFull, Flush, AcceptData, ProcessData, Resume, StageFails
<1>7. QED
  BY <1>2, <1>3, <1>4, <1>5, <1>6 DEF Next, Server, vars

\* The server waits on the listening socket of the session it serves, which is open,
\* so that a client that connects there, and only a client of that session, ends the
\* wait: as long as a port can be found for PASV, because a PASV that fails leaves a
\* handle behind that RETR and STOR may close for somebody else.
THEOREM WaitsCorrect ==
  ASSUME "bind" \notin Faults
  PROVE  Spec => []WaitsOnOwnChannel
<1>1. Init => Waits
  BY DEF Init, Waits
<1>2. SlotsInv /\ Waits /\ [Next]_vars => Waits'
  BY WaitsKept
<1>3. ASSUME HandlesInv, Waits, pc \in {"accept", "acceptInRecv"}
      PROVE  WaitsOnOwnChannel
  <2>1. PICK e \in polls :
          /\ Current(e)
          /\ server.user[e.user].dlcommand = 1 /\ server.user[e.user].command \in Transfers
    BY <1>3 DEF Waits
  <2> DEFINE u == e.user
             c == <<u, server.user[u].lastdc>>
  <2>2. server \in Memories /\ Clean(server) /\ Sound(server)
    BY <1>3, InvParts DEF HandlesInv, TypeOK
  <2>3. /\ e.slot = ControlSlot /\ u \in server.userslots
        /\ server.dc[c].type = "PASSIVE"
    BY <1>3, <2>1 DEF HandlesInv, SlotsInv, InControl, PolledOwned
  <2>4. c \in Channels
    BY <2>2, <2>3 DEF Memories, UserRecords, Channels
  <2>5. c \in server.dataslots
    BY <2>2, <2>3, <2>4, CleanDataFacts DEF Clean
  <2>6. server.sock[server.dc[c].lconn].kind \in {"listen", "knocked"}
    BY <2>2, <2>3, <2>4 DEF Sound, Fits
  <2>7. QED
    BY <2>1, <2>3, <2>5, <2>6 DEF WaitsOnOwnChannel
<1>4. HandlesInv /\ Waits => WaitsOnOwnChannel
  BY <1>3 DEF WaitsOnOwnChannel
<1>5. QED
  BY <1>1, <1>2, <1>4, SlotsCorrect, HandlesAlways, PTL DEF Spec

-----------------------------------------------------------------------------
\* Delayed commands.  A client that waits for its replies has sent at most one line,
\* and only to a session that has nothing to send, nothing delayed and no transfer; a
\* session whose command is delayed has no transfer either, and never two of them.
Live(m, u, d) == m.dc[<<u, d>>].type = "CONNECTED"
Idle(m, u) == \A d \in Slots : ~Live(m, u, d)
Pending(m, u) == m.user[u].control \in Sockets /\ m.sock[m.user[u].control].in # <<>>

PoliteSession(m, u) ==
  /\ Pending(m, u) => ~m.user[u].sendbuf /\ m.user[u].dlcommand = 0 /\ Idle(m, u)
  /\ m.user[u].dlcommand = 1 => m.user[u].command \in Transfers /\ Idle(m, u)
  /\ \A d, k \in Slots : Live(m, u, d) /\ Live(m, u, k) => d = k
  /\ \A d \in Slots : ~Live(m, u, d) => ~m.dc[<<u, d>>].event /\ ~m.dc[<<u, d>>].close

Short(m) == \A s \in Sockets : m.sock[s].in = <<>> \/ Tail(m.sock[s].in) = <<>>

Polite(m) == Short(m) /\ \A u \in Users : PoliteSession(m, u)

\* No line arrives.
Silent(m, n) == \A s \in Sockets : n.sock[s].in = m.sock[s].in \/ n.sock[s].in = <<>>

\* A session without a line to read and without a transfer.
Rests(m, u) ==
  /\ ~Pending(m, u) /\ Idle(m, u)
  /\ m.user[u].dlcommand = 1 => m.user[u].command \in Transfers
  /\ \A d \in Slots : ~m.dc[<<u, d>>].event /\ ~m.dc[<<u, d>>].close

LEMMA RestsPolite ==
  ASSUME NEW m, NEW u
  PROVE  /\ Rests(m, u) => PoliteSession(m, u)
         /\ PoliteSession(m, u) /\ Idle(m, u) /\ ~Pending(m, u) => Rests(m, u)
  BY DEF Rests, PoliteSession, Idle

LEMMA SilentFacts ==
  ASSUME NEW m, NEW n, Silent(m, n)
  PROVE  /\ \A u : n.user[u].control = m.user[u].control /\ ~Pending(m, u) => ~Pending(n, u)
         /\ \A p : Silent(n, p) => Silent(m, p)
  BY DEF Silent, Pending

\* A step on behalf of u leaves the other sessions as polite as they were.
LEMMA PoliteOthers ==
  ASSUME NEW m, Polite(m), NEW n, NEW u \in Users, Others(m, n, u), Silent(m, n), PoliteSession(n, u)
  PROVE  Polite(n)
<1>1. Short(n)
  BY DEF Polite, Short, Silent
<1>2. ASSUME NEW v \in Users, v # u PROVE PoliteSession(n, v)
  <2>1. n.user[v] = m.user[v]
    BY <1>2 DEF Others
  <2>2. \A d \in Slots : n.dc[<<v, d>>] = m.dc[<<v, d>>] \/ n.dc[<<v, d>>] = ZeroData
    <3>1. \A d \in Slots : <<v, d>> \in Channels /\ <<v, d>>[1] # u
      BY <1>2 DEF Channels
    <3>2. QED
      BY <3>1 DEF Others
  <2>3. Pending(n, v) => Pending(m, v)
    BY <2>1, SilentFacts
  <2>4. PoliteSession(m, v)
    BY DEF Polite
  <2>5. ZeroData.type # "CONNECTED" /\ ~ZeroData.event /\ ~ZeroData.close
    BY DEF ZeroData
  <2>6. \A d \in Slots : Live(n, v, d) => Live(m, v, d)
    BY <2>2, <2>5 DEF Live
  <2>7. \A d \in Slots : ~Live(n, v, d) => ~n.dc[<<v, d>>].event /\ ~n.dc[<<v, d>>].close
    BY <2>2, <2>4, <2>5 DEF PoliteSession, Live
  <2>8. Idle(m, v) => Idle(n, v)
    BY <2>6 DEF Idle
  <2>9. QED
    BY <2>1, <2>3, <2>4, <2>6, <2>7, <2>8 DEF PoliteSession
<1>3. QED
  BY <1>1, <1>2 DEF Polite

\* A change of the record of a session at rest.
LEMMA RecordRests ==
  ASSUME NEW m, NEW n, NEW u, RecordOnly(m, n, u), Rests(m, u),
         n.user[u].dlcommand = 1 => n.user[u].command \in Transfers
  PROVE  Rests(n, u) /\ Silent(m, n)
<1>1. Silent(m, n)
  BY DEF RecordOnly, Silent
<1>2. ~Pending(n, u)
  BY DEF RecordOnly, Rests, Pending
<1>3. QED
  BY <1>1, <1>2 DEF RecordOnly, Rests, Idle, Live

\* A session that offers a channel, or fails to, rests as before.
LEMMA OfferRests ==
  ASSUME NEW m \in Memories, NEW u \in Users, Rests(m, u), NEW d \in Slots, NEW s \in Handles
  PROVE  /\ Rests(OpenActive(m, u, d, s), u) /\ Silent(m, OpenActive(m, u, d, s))
         /\ Rests(OpenPassive(m, u, d, s), u) /\ Silent(m, OpenPassive(m, u, d, s))
         /\ Rests(FailPassive(m, u, d, s), u) /\ Silent(m, FailPassive(m, u, d, s))
<1>1. ASSUME NEW n, Silent(m, n), n.user[u].control = m.user[u].control,
             n.user[u].dlcommand = m.user[u].dlcommand, n.user[u].command = m.user[u].command,
             \A k \in Slots \ {d} : n.dc[<<u, k>>] = m.dc[<<u, k>>],
             ~Live(n, u, d), ~n.dc[<<u, d>>].event, ~n.dc[<<u, d>>].close
      PROVE  Rests(n, u)
  BY <1>1, SilentFacts DEF Rests, Idle, Live
<1>2. \A k \in Slots \ {d} : <<u, k>> \in Channels \ {<<u, d>>}
  BY DEF Channels
<1>3. \A kind : Opened(kind).in = <<>>
  BY DEF Opened
<1>4. Rests(OpenActive(m, u, d, s), u) /\ Silent(m, OpenActive(m, u, d, s))
  <2> DEFINE n == OpenActive(m, u, d, s)
  <2>1. /\ Offered(m, n, u, d) /\ n.dc[<<u, d>>].type = "ACTIVE"
        /\ \A t \in Sockets : n.sock[t] = IF t = s THEN Opened("idle") ELSE m.sock[t]
    BY OfferFields
  <2> HIDE DEF n
  <2>2. Silent(m, n) /\ ~Live(n, u, d)
    BY <1>3, <2>1 DEF Silent, Live
  <2>3. QED
    BY <1>1, <1>2, <2>1, <2>2 DEF Offered, n
<1>5. Rests(OpenPassive(m, u, d, s), u) /\ Silent(m, OpenPassive(m, u, d, s))
  <2> DEFINE n == OpenPassive(m, u, d, s)
  <2>1. /\ Offered(m, n, u, d) /\ n.dc[<<u, d>>].type = "PASSIVE"
        /\ \A t \in Sockets : n.sock[t] = IF t = s THEN Opened("listen") ELSE m.sock[t]
    BY OfferFields
  <2> HIDE DEF n
  <2>2. Silent(m, n) /\ ~Live(n, u, d)
    BY <1>3, <2>1 DEF Silent, Live
  <2>3. QED
    BY <1>1, <1>2, <2>1, <2>2 DEF Offered, n
<1>6. Rests(FailPassive(m, u, d, s), u) /\ Silent(m, FailPassive(m, u, d, s))
  <2> DEFINE n == FailPassive(m, u, d, s)
  <2>1. /\ n.user = m.user /\ n.sock = m.sock
        /\ \A c \in Channels \ {<<u, d>>} : n.dc[c] = m.dc[c]
        /\ n.dc[<<u, d>>].type = m.dc[<<u, d>>].type
        /\ n.dc[<<u, d>>].event = m.dc[<<u, d>>].event
        /\ n.dc[<<u, d>>].close = m.dc[<<u, d>>].close
    BY FailPassiveFields
  <2> HIDE DEF n
  <2>2. Silent(m, n) /\ ~Live(n, u, d)
    BY <2>1 DEF Silent, Live, Rests, Idle
  <2>3. ~n.dc[<<u, d>>].event /\ ~n.dc[<<u, d>>].close
    BY <2>1 DEF Rests
  <2>4. QED
    BY <1>1, <1>2, <2>1, <2>2, <2>3 DEF n
<1>7. QED
  BY <1>4, <1>5, <1>6

\* A command that is not delayed, of a session at rest: the session rests afterwards,
\* and a command that is put off has its reply to send.
LEMMA ExecFirst ==
  ASSUME NEW e, NEW m \in Memories, e.user \in Users, Rests(m, e.user),
         m.user[e.user].dlcommand = 0, NEW cmd, NEW back, Exec(e, m, cmd, back)
  PROVE  /\ Rests(server', e.user) /\ Silent(m, server')
         /\ server'.user[e.user].control = m.user[e.user].control
         /\ server'.user[e.user].sendbuf
         /\ Resume(e, back)
<1> DEFINE u == e.user
           Goal(n) == /\ Rests(n, u) /\ Silent(m, n)
                      /\ n.user[u].control = m.user[u].control
                      /\ n.user[u].sendbuf
<1>1. ASSUME NEW k, Rests(k, u), Silent(m, k), k.user[u].control = m.user[u].control,
             NEW n, RecordOnly(k, n, u), n.user[u].sendbuf,
             n.user[u].dlcommand = 1 => n.user[u].command \in Transfers
      PROVE  Goal(n)
  <2>1. Rests(n, u) /\ Silent(k, n)
    BY <1>1, RecordRests
  <2>2. n.user[u].control = k.user[u].control
    BY <1>1 DEF RecordOnly
  <2>3. QED
    BY <1>1, <2>1, <2>2, SilentFacts
<1>2. Silent(m, m) /\ u \in Users
  BY DEF Silent
<1> HIDE DEF Goal
<1>3. ASSUME NEW n \in {Reply(m, u), Disconnect(m, u)} PROVE Goal(n)
  <2>1. RecordOnly(m, n, u) /\ n.user[u].sendbuf /\ n.user[u].dlcommand = 0
    BY <1>2, RecordChanges
  <2>2. QED
    BY <1>1, <1>2, <2>1
<1>4. ASSUME cmd \in Transfers PROVE Goal(FirstStage(m, u, cmd))
  <2> DEFINE n == FirstStage(m, u, cmd)
  <2>1. RecordOnly(m, n, u) /\ n.user[u].sendbuf /\ n.user[u].command = cmd
    BY <1>2, RecordChanges
  <2> HIDE DEF n
  <2>2. Goal(n)
    BY <1>1, <1>2, <1>4, <2>1
  <2>3. QED
    BY <2>2 DEF n
<1>5. ASSUME NEW k \in Memories, Rests(k, u), Silent(m, k), k.user[u].dlcommand = 0,
             k.user[u].control = m.user[u].control
      PROVE  Goal(Reply(k, u))
  <2> DEFINE n == Reply(k, u)
  <2>1. RecordOnly(k, n, u) /\ n.user[u].sendbuf /\ n.user[u].dlcommand = 0
    BY <1>2, <1>5, RecordChanges
  <2> HIDE DEF n
  <2>2. Goal(n)
    BY <1>1, <1>5, <2>1
  <2>3. QED
    BY <2>2 DEF n
<1>6. ASSUME NEW d \in Slots, NEW s \in Sockets \cup {INVALID_SOCKET}
      PROVE  /\ Goal(Reply(OpenActive(m, u, d, s), u))
             /\ Goal(Reply(OpenPassive(m, u, d, s), u))
             /\ Goal(Reply(FailPassive(m, u, d, s), u))
  <2>1. s \in Handles
    BY DEF Handles
  <2>2. ASSUME NEW k, Offered(m, k, u, d)
        PROVE  k.user[u].dlcommand = 0 /\ k.user[u].control = m.user[u].control
    BY <2>2 DEF Offered
  <2>3. Goal(Reply(OpenActive(m, u, d, s), u))
    <3> DEFINE k == OpenActive(m, u, d, s)
    <3>1. Offered(m, k, u, d)
      BY <1>2, <2>1, OfferFields
    <3>2. Rests(k, u) /\ Silent(m, k)
      BY <1>2, <2>1, OfferRests
    <3>3. k \in Memories
      BY <1>2, <2>1, OpenChannelTyped
    <3> HIDE DEF k
    <3>4. Goal(Reply(k, u))
      BY <1>5, <2>2, <3>1, <3>2, <3>3
    <3>5. QED
      BY <3>4 DEF k
  <2>4. Goal(Reply(OpenPassive(m, u, d, s), u))
    <3> DEFINE k == OpenPassive(m, u, d, s)
    <3>1. Offered(m, k, u, d)
      BY <1>2, <2>1, OfferFields
    <3>2. Rests(k, u) /\ Silent(m, k)
      BY <1>2, <2>1, OfferRests
    <3>3. k \in Memories
      BY <1>2, <2>1, OpenChannelTyped
    <3> HIDE DEF k
    <3>4. Goal(Reply(k, u))
      BY <1>5, <2>2, <3>1, <3>2, <3>3
    <3>5. QED
      BY <3>4 DEF k
  <2>5. Goal(Reply(FailPassive(m, u, d, s), u))
    <3> DEFINE k == FailPassive(m, u, d, s)
    <3>1. k.user = m.user
      BY DEF FailPassive, Memories
    <3>2. Rests(k, u) /\ Silent(m, k)
      BY <1>2, <2>1, OfferRests
    <3>3. k \in Memories
      BY <1>2, <2>1, OpenChannelTyped
    <3> HIDE DEF k
    <3>4. Goal(Reply(k, u))
      BY <1>5, <3>1, <3>2, <3>3
    <3>5. QED
      BY <3>4 DEF k
  <2>6. QED
    BY <2>3, <2>4, <2>5
<1>7. Goal(server') /\ Resume(e, back)
  <2>1. CASE ExecReply(e, m, back) \/ ExecQuit(e, m, back)
    BY <1>3, <2>1 DEF ExecReply, ExecQuit
  <2>2. CASE ExecPort(e, m, back)
    BY <1>3, <1>6, <2>2 DEF ExecPort
  <2>3. CASE ExecPasv(e, m, back)
    BY <1>3, <1>6, <2>3 DEF ExecPasv
  <2>4. CASE cmd \in Transfers /\ ExecFirstStage(e, m, cmd, back)
    BY <1>4, <2>4 DEF ExecFirstStage, FirstStage
  <2>5. QED
    BY <2>1, <2>2, <2>3, <2>4 DEF Exec
<1>8. QED
  BY <1>7 DEF Goal

\* An upload in progress would reply into the buffer at the end of the session: then
\* the buffer is empty.
Prompt(m, u) == \A d \in Slots : Live(m, u, d) /\ m.dc[<<u, d>>].close => ~m.user[u].sendbuf

\* The end of a second stage.
Done(m, n, u) ==
  /\ Silent(m, n) /\ PoliteSession(n, u)
  /\ n.user[u].control = m.user[u].control /\ n.user[u].dlcommand = 0
  /\ ~m.user[u].sendbuf => Prompt(n, u)

LEMMA DataCloseRests ==
  ASSUME NEW m \in Memories, NEW u \in Users, NEW d \in Slots, NEW n, n = DataClose(m, u, d),
         Rests(m, u)
  PROVE  Rests(n, u) /\ Silent(m, n) /\ n.user[u].control = m.user[u].control
<1>1. Emptied(m, n, u, d)
  BY DataCloseFields
<1>2. Silent(m, n)
  BY <1>1 DEF Emptied, Silent, Closed
<1>3. ~Pending(n, u)
  BY <1>1, <1>2, SilentFacts DEF Emptied, Rests
<1>4. \A k \in Slots \ {d} : <<u, k>> \in Channels \ {<<u, d>>}
  BY DEF Channels
<1>5. \A k \in Slots : n.dc[<<u, k>>] = m.dc[<<u, k>>] \/ n.dc[<<u, k>>] = ZeroData
  BY <1>1, <1>4 DEF Emptied
<1>6. Idle(n, u) /\ \A k \in Slots : ~n.dc[<<u, k>>].event /\ ~n.dc[<<u, k>>].close
  BY <1>5 DEF Rests, Idle, Live, ZeroData
<1>7. QED
  BY <1>1, <1>2, <1>3, <1>6 DEF Emptied, Rests

LEMMA WildCloseRests ==
  ASSUME NEW m \in Memories, NEW u \in Users, NEW x \in Channels, NEW n, n = WildClose(m, u, x),
         Rests(m, u)
  PROVE  Rests(n, u) /\ Silent(m, n) /\ n.user[u].control = m.user[u].control
<1>1. Zeroed(m, n, u, x)
  BY WildCloseFields
<1>2. Silent(m, n)
  BY <1>1 DEF Zeroed, Silent, Closed
<1>3. ~Pending(n, u)
  BY <1>1, <1>2, SilentFacts DEF Zeroed, Rests
<1>4. \A k \in Slots : <<u, k>> \in Channels
  BY DEF Channels
<1>5. \A k \in Slots : n.dc[<<u, k>>] = m.dc[<<u, k>>] \/ n.dc[<<u, k>>] = ZeroData
  BY <1>1, <1>4 DEF Zeroed
<1>6. Idle(n, u) /\ \A k \in Slots : ~n.dc[<<u, k>>].event /\ ~n.dc[<<u, k>>].close
  BY <1>5 DEF Rests, Idle, Live, ZeroData
<1>7. QED
  BY <1>1, <1>2, <1>3, <1>6 DEF Zeroed, Rests

\* A second stage that fails closes channels that are not connected, or one of
\* another session.
LEMMA StageFailsDone ==
  ASSUME NEW e, NEW m \in Memories, e.user \in Users, Rests(m, e.user), NEW cmd, NEW back,
         StageFails(e, m, cmd, back)
  PROVE  \/ server' = server /\ pc' = "crashed" /\ polls' = polls
         \/ Done(m, server', e.user) /\ Resume(e, back)
<1> DEFINE u == e.user
           c == DataClose(m, u, m.user[u].lastdc)
           Good(n) == Rests(n, u) /\ Silent(m, n) /\ n.user[u].control = m.user[u].control
<1>1. m.user[u].lastdc \in Slots
  BY DEF Memories, UserRecords
<1>2. c \in Memories /\ Good(c)
  BY <1>1, DataCloseRests, DataCloseTyped
<1> HIDE DEF c
<1>3. ASSUME NEW d \in Slots
      PROVE  DataClose(c, u, d) \in Memories /\ Good(DataClose(c, u, d))
  <2> DEFINE k == DataClose(c, u, d)
  <2>1. k \in Memories /\ Rests(k, u) /\ Silent(c, k) /\ k.user[u].control = c.user[u].control
    BY <1>2, DataCloseRests, DataCloseTyped
  <2> HIDE DEF k
  <2>2. Good(k)
    BY <1>2, <2>1, SilentFacts
  <2>3. QED
    BY <2>1, <2>2 DEF k
<1>4. ASSUME NEW x \in Channels
      PROVE  WildClose(c, u, x) \in Memories /\ Good(WildClose(c, u, x))
  <2> DEFINE k == WildClose(c, u, x)
  <2>1. k \in Memories /\ Rests(k, u) /\ Silent(c, k) /\ k.user[u].control = c.user[u].control
    BY <1>2, WildCloseRests, WildCloseTyped
  <2> HIDE DEF k
  <2>2. Good(k)
    BY <1>2, <2>1, SilentFacts
  <2>3. QED
    BY <2>1, <2>2 DEF k
<1>5. ASSUME NEW k \in Memories, Good(k) PROVE Done(m, Refuse(k, u), u)
  <2> DEFINE n == Refuse(k, u)
  <2>1. RecordOnly(k, n, u) /\ n.user[u].dlcommand = 0
    BY RecordChanges
  <2> HIDE DEF n
  <2>2. Rests(n, u) /\ Silent(k, n)
    BY <1>5, <2>1, RecordRests
  <2>3. Silent(m, n) /\ n.user[u].control = m.user[u].control
    BY <1>5, <2>1, <2>2, SilentFacts DEF RecordOnly
  <2>4. PoliteSession(n, u) /\ Prompt(n, u)
    BY <2>2, RestsPolite DEF Rests, Idle, Prompt
  <2>5. QED
    BY <2>1, <2>3, <2>4 DEF Done, n
<1> HIDE DEF Good
<1>6. \/ server' = Refuse(c, u) /\ Resume(e, back)
      \/ \E d \in Slots : server' = Refuse(DataClose(c, u, d), u) /\ Resume(e, back)
      \/ \E x \in Channels : server' = Refuse(WildClose(c, u, x), u) /\ Resume(e, back)
      \/ server' = server /\ pc' = "crashed" /\ polls' = polls
  BY DEF StageFails, c
<1>7. QED
  BY <1>2, <1>3, <1>4, <1>5, <1>6

\* A second stage that succeeds: now there is one transfer.
LEMMA ConnectDone ==
  ASSUME NEW m \in Memories, NEW u \in Users, Rests(m, u), NEW cmd, NEW s \in Sockets,
         NEW n, n = Begin(Establish(m, u, m.user[u].lastdc, s), u, cmd)
  PROVE  Done(m, n, u)
<1> DEFINE d == m.user[u].lastdc
           c == <<u, d>>
<1>1. /\ Started(m, n, u) /\ n.sock[s] = Opened("data") /\ Joined(m, n, s, m.dc[c].lconn)
  BY ConnectFields
<1>2. d \in Slots
  BY DEF Memories, UserRecords
<1>3. Silent(m, n)
  <2>1. \A t \in Sockets \ {s} : n.sock[t].in = m.sock[t].in
    BY <1>1 DEF Joined
  <2>2. n.sock[s].in = <<>>
    BY <1>1 DEF Opened
  <2>3. QED
    BY <2>1, <2>2 DEF Silent
<1>4. ~Pending(n, u)
  BY <1>1, <1>3, SilentFacts DEF Started, Rests
<1>5. \A k \in Slots \ {d} : n.dc[<<u, k>>] = m.dc[<<u, k>>]
  <2>1. \A k \in Slots \ {d} : <<u, k>> \in Channels \ {c}
    BY DEF Channels
  <2>2. QED
    BY <1>1, <2>1 DEF Started
<1>6. \A k \in Slots \ {d} : ~Live(n, u, k) /\ ~n.dc[<<u, k>>].event /\ ~n.dc[<<u, k>>].close
  <2>1. \A k \in Slots : ~Live(m, u, k) /\ ~m.dc[<<u, k>>].event /\ ~m.dc[<<u, k>>].close
    BY DEF Rests, Idle
  <2> HIDE DEF d
  <2>2. QED
    BY <1>5, <2>1 DEF Live
<1>7. Live(n, u, d) /\ n.user[u].dlcommand = 0
  BY <1>1 DEF Started, Live
<1>8. PoliteSession(n, u)
  <2> HIDE DEF d
  <2>1. \A k \in Slots : Live(n, u, k) => k = d
    BY <1>6
  <2>2. \A k \in Slots : ~Live(n, u, k) => ~n.dc[<<u, k>>].event /\ ~n.dc[<<u, k>>].close
    BY <1>6, <1>7
  <2>3. \A j, k \in Slots : Live(n, u, j) /\ Live(n, u, k) => j = k
    BY <2>1
  <2>4. n.user[u].dlcommand # 1
    BY <1>7
  <2>5. QED
    BY <1>4, <2>2, <2>3, <2>4 DEF PoliteSession
<1>9. n.user[u].control = m.user[u].control /\ n.user[u].sendbuf = m.user[u].sendbuf
  BY <1>1 DEF Started
<1>10. ~m.user[u].sendbuf => Prompt(n, u)
  BY <1>9 DEF Prompt
<1>11. QED
  BY <1>3, <1>7, <1>8, <1>9, <1>10 DEF Done

\* A delayed command that is executed again: it waits, ends the process, or is done.
LEMMA ExecSecond ==
  ASSUME NEW e, NEW m \in Memories, e.user \in Users, Rests(m, e.user),
         m.user[e.user].dlcommand = 1, NEW cmd \in Transfers, Exec(e, m, cmd, "sweep")
  PROVE  \/ server' = m /\ pc' = "accept" /\ polls' = polls
         \/ server' = server /\ pc' = "crashed" /\ polls' = polls
         \/ Done(m, server', e.user) /\ Resume(e, "sweep")
<1> DEFINE u == e.user
           d == m.user[u].lastdc
           c == <<u, d>>
<1>1. d \in Slots
  BY DEF Memories, UserRecords
<1>2. m.dc[c].type # "CONNECTED"
  BY <1>1 DEF Rests, Idle, Live
<1>3. ExecConnect(e, m, cmd, "sweep") \/ ExecWait(e, m, "sweep")
  BY <1>2 DEF Exec, ExecConnected, Transfers
<1>4. CASE ExecConnect(e, m, cmd, "sweep")
  <2>1. \/ StageFails(e, m, cmd, "sweep")
        \/ /\ Peer(m, m.dc[c].conn).kind = "idle"
           /\ server' = Begin(Establish(m, u, d, m.dc[c].conn), u, cmd)
           /\ Resume(e, "sweep")
    BY <1>4 DEF ExecConnect
  <2>2. Peer(m, m.dc[c].conn).kind = "idle" => m.dc[c].conn \in Sockets
    BY DEF Peer, Closed
  <2>3. QED
    BY <2>1, <2>2, ConnectDone, StageFailsDone
<1>5. CASE ExecWait(e, m, "sweep")
  BY <1>5 DEF ExecWait
<1>6. QED
  BY <1>3, <1>4, <1>5

\* The handling of a data entry closes its channel, or not, and a session with a
\* transfer gets a reply.
Tidies(m, n, u, d) ==
  /\ n \in Memories /\ Silent(m, n)
  /\ n.user[u].control = m.user[u].control
  /\ n.user[u].dlcommand = m.user[u].dlcommand
  /\ m.user[u].sendbuf => n.user[u].sendbuf
  /\ \A c \in Channels \ {<<u, d>>} : n.dc[c] = m.dc[c]
  /\ n.dataslots \subseteq m.dataslots
  /\ PoliteSession(m, u) => PoliteSession(n, u)
  /\ PoliteSession(m, u) /\ Prompt(m, u) => Prompt(n, u)

LEMMA TidiesComposed ==
  ASSUME NEW m, NEW n, NEW p, NEW u, NEW d, Tidies(m, n, u, d), Tidies(n, p, u, d)
  PROVE  Tidies(m, p, u, d)
<1>1. Silent(m, p)
  BY DEF Tidies, Silent
<1>2. QED
  BY <1>1 DEF Tidies

LEMMA DataCloseTidies ==
  ASSUME NEW m \in Memories, NEW u \in Users, NEW d \in Slots,
         NEW k, k = m \/ (k = Reply(m, u) /\ m.dc[<<u, d>>].event),
         NEW n, n = DataClose(k, u, d)
  PROVE  Tidies(m, n, u, d)
<1> DEFINE c == <<u, d>>
           r == Reply(k, u)
<1>1. k \in Memories /\ RecordOnly(m, k, u) /\ k.user[u].dlcommand = m.user[u].dlcommand
  BY RecordChanges, ReplyTyped
<1>2. /\ k.user[u].command = m.user[u].command
      /\ m.user[u].sendbuf => k.user[u].sendbuf
      /\ ~m.dc[c].event => k = m
  BY RecordChanges
<1>3. Emptied(k, n, u, d)
  BY <1>1, DataCloseFields
<1>4. k.user[u].sendbuf => n.user[u].sendbuf
  <2>1. r.user[u].sendbuf
    BY <1>1, RecordChanges
  <2>2. n.user = IF k.dc[c].close THEN r.user ELSE k.user
    <3>1. r \in Memories
      BY <1>1, ReplyTyped
    <3> HIDE DEF r
    <3>2. n = [CloseSockets(IF k.dc[c].close THEN r ELSE k, {k.dc[c].conn, k.dc[c].lconn}) EXCEPT
                 !.dc[c] = ZeroData, !.dataslots = @ \ {c}]
      BY DEF DataClose, r
    <3>3. QED
      BY <1>1, <3>1, <3>2 DEF CloseSockets, Memories
  <2>3. QED
    BY <2>1, <2>2
<1> HIDE DEF r
<1>5. Silent(m, n)
  BY <1>1, <1>3 DEF RecordOnly, Emptied, Silent, Closed
<1>6. \A x \in Slots \ {d} : <<u, x>> \in Channels \ {c}
  BY DEF Channels
<1>7. /\ \A x \in Channels \ {c} : n.dc[x] = m.dc[x]
      /\ n.dc[c] = ZeroData
      /\ n.dataslots \subseteq m.dataslots
  BY <1>1, <1>3 DEF RecordOnly, Emptied
<1>8. \A x \in Slots : IF x = d THEN n.dc[<<u, x>>] = ZeroData ELSE n.dc[<<u, x>>] = m.dc[<<u, x>>]
  BY <1>6, <1>7
<1>9. /\ \A x \in Slots : Live(n, u, x) => x # d /\ Live(m, u, x) /\ n.dc[<<u, x>>].close = m.dc[<<u, x>>].close
      /\ Idle(m, u) => Idle(n, u)
  BY <1>8 DEF Live, Idle, ZeroData
<1>10. /\ n.user[u].control = m.user[u].control
       /\ n.user[u].dlcommand = m.user[u].dlcommand
       /\ n.user[u].command = m.user[u].command
  BY <1>1, <1>2, <1>3 DEF RecordOnly, Emptied
<1>11. ~m.dc[c].event /\ ~m.dc[c].close => n.user[u] = m.user[u]
  BY <1>2, <1>3 DEF Emptied
<1>12. ASSUME PoliteSession(m, u) PROVE PoliteSession(n, u)
  <2>1. ASSUME Pending(n, u) PROVE ~n.user[u].sendbuf /\ n.user[u].dlcommand = 0 /\ Idle(n, u)
    <3>1. Pending(m, u)
      BY <1>5, <1>10, <2>1, SilentFacts
    <3>2. ~m.user[u].sendbuf /\ m.user[u].dlcommand = 0 /\ Idle(m, u)
      BY <1>12, <3>1 DEF PoliteSession
    <3>3. ~m.dc[c].event /\ ~m.dc[c].close
      BY <1>12, <3>2 DEF PoliteSession, Idle
    <3>4. QED
      BY <1>9, <1>11, <3>2, <3>3
  <2>2. n.user[u].dlcommand = 1 => n.user[u].command \in Transfers /\ Idle(n, u)
    BY <1>9, <1>10, <1>12 DEF PoliteSession
  <2>3. \A x, y \in Slots : Live(n, u, x) /\ Live(n, u, y) => x = y
    BY <1>9, <1>12 DEF PoliteSession
  <2>4. \A x \in Slots : ~Live(n, u, x) => ~n.dc[<<u, x>>].event /\ ~n.dc[<<u, x>>].close
    <3>1. \A x \in Slots : ~Live(m, u, x) => ~m.dc[<<u, x>>].event /\ ~m.dc[<<u, x>>].close
      BY <1>12 DEF PoliteSession
    <3>2. QED
      BY <1>8, <3>1 DEF Live, ZeroData
  <2>5. QED
    BY <2>1, <2>2, <2>3, <2>4 DEF PoliteSession
<1>13. ASSUME PoliteSession(m, u), Prompt(m, u) PROVE Prompt(n, u)
  <2> SUFFICES ASSUME NEW x \in Slots, Live(n, u, x), n.dc[<<u, x>>].close
               PROVE  ~n.user[u].sendbuf
    BY DEF Prompt
  <2>1. x # d /\ Live(m, u, x) /\ m.dc[<<u, x>>].close
    BY <1>9
  <2>2. ~Live(m, u, d)
    BY <1>13, <2>1 DEF PoliteSession
  <2>3. ~m.dc[c].event /\ ~m.dc[c].close
    BY <1>13, <2>2 DEF PoliteSession
  <2>4. ~m.user[u].sendbuf
    BY <1>13, <2>1 DEF Prompt
  <2>5. QED
    BY <1>11, <2>3, <2>4
<1>14. n \in Memories
  BY <1>1, DataCloseTyped
<1>15. QED
  BY <1>2, <1>4, <1>5, <1>7, <1>10, <1>12, <1>13, <1>14 DEF Tidies

-----------------------------------------------------------------------------
\* The invariants behind delayed commands.  First: sessions are polite, and no wait
\* begins inside ftpd_user_recv.
PoliteInv == pc # "acceptInRecv" /\ Waits /\ Polite(server)

\* Second: a delayed command has its 150 to send, unless the server is executing it;
\* an entry whose line is read was not polled as writable.
Due(u) ==
  \/ server.user[u].sendbuf
  \/ pc = "accept" /\ \E e \in polls : Current(e) /\ e.user = u

WokenInv ==
  /\ pc # "crashed" => \A u \in Users : server.user[u].dlcommand = 1 => Due(u)
  /\ \A e \in polls : e.slot = ControlSlot =>
       /\ "IN" \in e.revents => "OUT" \notin e.revents
       /\ Current(e) /\ pc \in {"recv", "flush"} => "OUT" \notin e.revents

\* Third: a delayed command is executed only after its entry was polled as writable,
\* and then everything is sent.
AnnouncedInv ==
  /\ \A u \in Users : Prompt(server, u)
  /\ pc # "crashed" =>
       \A e \in polls : e.slot = ControlSlot =>
         /\ server.user[e.user].dlcommand = 1 =>
              "OUT" \in e.revents \/ (Current(e) /\ pc \in {"recv", "flush"})
         /\ Current(e) /\ pc = "accept" => ~server.user[e.user].sendbuf

\* The handling of a control entry has a command to execute.
Busy(e) ==
  \/ server.user[e.user].dlcommand = 1
  \/ "IN" \in e.revents
  \/ Current(e) /\ pc \in {"recv", "flush", "accept"}

\* Channel c is the one polled as fd, or has no connection any more.
StillPolled(c, fd) ==
  \/ server.dc[c].type = "CONNECTED" /\ server.dc[c].conn = fd
  \/ "wild" \in Faults /\ server.dc[c] = ZeroData

\* Fourth: an entry is that of the connection polled.  While the control entry of a
\* session is still to be handled, none of its polled channels has been given back, and
\* the entry has no command for a new connection in one of them.
CurrentInv ==
  /\ pc = "listener" => \A e \in polls : e.user \in server.userslots
  /\ \A e \in polls : e.slot = ControlSlot => server.user[e.user].control = e.fd
  /\ \A e \in polls : e.slot # ControlSlot =>
       LET c == <<e.user, e.slot>> IN
       /\ c \in server.dataslots => StillPolled(c, e.fd)
       /\ \A f \in polls : f.slot = ControlSlot /\ f.user = e.user => c \in server.dataslots /\ ~Busy(f)

\* There is one current entry, and the control entry of a session comes before its
\* data entries.
LEMMA CurrentOnce ==
  ASSUME SlotsInv, NEW e \in polls, Current(e), NEW f \in polls
  PROVE  /\ Current(f) => f = e
         /\ f.user = e.user /\ f.slot = e.slot => f = e
         /\ e.slot # ControlSlot /\ f.user = e.user => f.slot # ControlSlot
<1>1. e \in Entries /\ f \in Entries
  BY DEF SlotsInv, TypeOK
<1>2. /\ e.user \in Int /\ f.user \in Int
      /\ e.slot = ControlSlot \/ e.slot \in Slots
      /\ f.slot = ControlSlot \/ f.slot \in Slots
  BY <1>1, UsersAssumption DEF Entries, Users
<1>3. \A d \in Slots : d \in Int /\ d >= 0
  BY ChannelsAssumption DEF Slots
<1>4. e.user < f.user \/ (e.user = f.user /\ e.slot <= f.slot)
  BY DEF Current
<1>5. Current(f) => f.user < e.user \/ (f.user = e.user /\ f.slot <= e.slot)
  BY DEF Current
<1>6. f.user = e.user /\ f.slot = e.slot => f = e
  BY DEF SlotsInv, PolledOnce
<1>7. Current(f) => f.user = e.user /\ f.slot = e.slot
  BY <1>2, <1>3, <1>4, <1>5 DEF ControlSlot
<1>8. e.slot # ControlSlot /\ f.user = e.user => f.slot # ControlSlot
  BY <1>2, <1>3, <1>4 DEF ControlSlot
<1>9. QED
  BY <1>6, <1>7, <1>8

\* What a step does with a control entry.
ControlTurn(e) ==
  LET u == e.user IN
  /\ Current(e) /\ e.slot = ControlSlot /\ pc # "crashed"
  /\ Others(server, server', u) /\ Silent(server, server') /\ PoliteSession(server', u)
  /\ \/ pc' = "sweep" /\ polls' = polls \ {e}
     \/ pc' = "accept" /\ polls' = polls
     \/ pc' \in {"recv", "flush"} /\ polls' = polls /\ "OUT" \notin e.revents
  /\ server'.user[u].dlcommand = 1 => server'.user[u].sendbuf \/ pc' = "accept"
  /\ \/ Busy(e) /\ Idle(server, u) /\ server'.user[u].control = server.user[u].control
     \/ /\ pc' = "sweep"
        /\ \A d \in Slots : <<u, d>> \in server'.dataslots =>
             <<u, d>> \in server.dataslots /\ server'.dc[<<u, d>>] = server.dc[<<u, d>>]

\* What it does besides when every reply is taken at once.
PromptTurn(e) ==
  /\ Prompt(server', e.user)
  /\ pc' = "accept" => "OUT" \in e.revents /\ ~server'.user[e.user].sendbuf

\* What a step does with a data entry.
DataTurn(e) ==
  /\ pc = "sweep" /\ pc' = "sweep"
  /\ Current(e) /\ e.slot \in Slots /\ polls' = polls \ {e}
  /\ Others(server, server', e.user) /\ Tidies(server, server', e.user, e.slot)

Turn(e) == ControlTurn(e) \/ DataTurn(e)
Crash == pc' = "crashed" /\ UNCHANGED <<server, polls>>

\* What the other sessions are left with.
LEMMA OthersFacts ==
  ASSUME NEW m, NEW n, NEW u, Others(m, n, u), NEW v \in Users, v # u
  PROVE  /\ n.user[v] = m.user[v]
         /\ \A d \in Slots :
              /\ n.dc[<<v, d>>] = m.dc[<<v, d>>] \/ ("wild" \in Faults /\ n.dc[<<v, d>>] = ZeroData)
              /\ <<v, d>> \in n.dataslots <=> <<v, d>> \in m.dataslots
         /\ Prompt(m, v) => Prompt(n, v)
<1>1. n.user[v] = m.user[v]
  BY DEF Others
<1>2. \A d \in Slots : <<v, d>> \in Channels /\ <<v, d>>[1] # u
  BY DEF Channels
<1>3. \A d \in Slots :
        /\ n.dc[<<v, d>>] = m.dc[<<v, d>>] \/ ("wild" \in Faults /\ n.dc[<<v, d>>] = ZeroData)
        /\ <<v, d>> \in n.dataslots <=> <<v, d>> \in m.dataslots
  BY <1>2 DEF Others
<1>4. Prompt(m, v) => Prompt(n, v)
  BY <1>1, <1>3 DEF Prompt, Live, ZeroData
<1>5. QED
  BY <1>1, <1>3, <1>4

\* A turn keeps the sessions polite and the delayed commands awake.
LEMMA TurnWoken ==
  ASSUME SlotsInv, PoliteInv, WokenInv, NEW e \in polls, Turn(e)
  PROVE  Polite(server') /\ pc' # "acceptInRecv" /\ WokenInv'
<1> DEFINE u == e.user
<1>1. /\ Current(e) /\ pc # "crashed" /\ u \in Users
      /\ Others(server, server', u) /\ Silent(server, server') /\ PoliteSession(server', u)
      /\ pc' \in {"sweep", "accept", "recv", "flush"}
      /\ polls' = polls \/ (polls' = polls \ {e} /\ pc' = "sweep")
      /\ pc' \in {"recv", "flush"} => "OUT" \notin e.revents
  <2>1. u \in Users
    BY DEF SlotsInv, TypeOK, Entries
  <2>2. PoliteSession(server, u)
    BY <2>1 DEF PoliteInv, Polite
  <2>3. CASE ControlTurn(e)
    BY <2>1, <2>3 DEF ControlTurn
  <2>4. CASE DataTurn(e)
    BY <2>1, <2>2, <2>4 DEF DataTurn, Tidies
  <2>5. QED
    BY <2>3, <2>4 DEF Turn
<1>2. server'.user[u].dlcommand = 1 =>
        server'.user[u].sendbuf \/ (pc' = "accept" /\ polls' = polls)
  <2>1. CASE ControlTurn(e)
    BY <2>1 DEF ControlTurn
  <2>2. CASE DataTurn(e)
    <3>1. server.user[u].dlcommand = 1 => server.user[u].sendbuf
      BY <1>1, <2>2 DEF DataTurn, WokenInv, Due
    <3>2. QED
      BY <2>2, <3>1 DEF DataTurn, Tidies
  <2>3. QED
    BY <2>1, <2>2 DEF Turn
<1>3. Polite(server')
  BY <1>1, PoliteOthers DEF PoliteInv
<1>4. polls' = polls => \A f \in polls : Current(f)' => f = e
  <2>1. polls' = polls => \A f \in polls : Current(f)' => Current(f)
    BY DEF Current
  <2>2. QED
    BY <1>1, <2>1, CurrentOnce
<1>5. ASSUME NEW v \in Users, server'.user[v].dlcommand = 1 PROVE Due(v)'
  <2>1. CASE v = u
    <3>1. polls' = polls => Current(e)'
      BY <1>1 DEF Current
    <3>2. QED
      BY <1>2, <1>5, <2>1, <3>1 DEF Due
  <2>2. CASE v # u
    <3>1. server'.user[v] = server.user[v]
      BY <1>1, <2>2, OthersFacts
    <3>2. \A f \in polls : Current(f) => f = e
      BY <1>1, CurrentOnce
    <3>3. server.user[v].sendbuf
      BY <1>1, <1>5, <2>2, <3>1, <3>2 DEF WokenInv, Due
    <3>4. QED
      BY <3>1, <3>3 DEF Due
  <2>3. QED
    BY <2>1, <2>2
<1>6. ASSUME NEW f \in polls', f.slot = ControlSlot
      PROVE  /\ "IN" \in f.revents => "OUT" \notin f.revents
             /\ Current(f)' /\ pc' \in {"recv", "flush"} => "OUT" \notin f.revents
  <2>1. f \in polls
    BY <1>1
  <2>2. "IN" \in f.revents => "OUT" \notin f.revents
    BY <1>6, <2>1 DEF WokenInv
  <2>3. Current(f)' /\ pc' \in {"recv", "flush"} => "OUT" \notin f.revents
    BY <1>1, <1>4, <2>1
  <2>4. QED
    BY <2>2, <2>3
<1>7. QED
  BY <1>1, <1>3, <1>5, <1>6 DEF WokenInv

LEMMA TurnAnnounced ==
  ASSUME SlotsInv, PoliteInv, AnnouncedInv, NEW e \in polls, Turn(e), ControlTurn(e) => PromptTurn(e)
  PROVE  AnnouncedInv'
<1> DEFINE u == e.user
<1>1. /\ Current(e) /\ pc # "crashed" /\ u \in Users
      /\ Others(server, server', u) /\ Prompt(server', u)
      /\ polls' = polls \/ (polls' = polls \ {e} /\ pc' = "sweep")
  <2>1. u \in Users
    BY DEF SlotsInv, TypeOK, Entries
  <2>2. PoliteSession(server, u) /\ Prompt(server, u)
    BY <2>1 DEF PoliteInv, Polite, AnnouncedInv
  <2>3. CASE ControlTurn(e)
    BY <2>1, <2>3 DEF ControlTurn, PromptTurn
  <2>4. CASE DataTurn(e)
    BY <2>1, <2>2, <2>4 DEF DataTurn, Tidies
  <2>5. QED
    BY <2>3, <2>4 DEF Turn
<1>2. \A v \in Users : Prompt(server', v)
  BY <1>1, OthersFacts DEF AnnouncedInv
<1>3. ASSUME NEW f \in polls', f.slot = ControlSlot
      PROVE  /\ server'.user[f.user].dlcommand = 1 =>
                  "OUT" \in f.revents \/ (Current(f)' /\ pc' \in {"recv", "flush"})
             /\ Current(f)' /\ pc' = "accept" => ~server'.user[f.user].sendbuf
  <2>1. f \in polls /\ f.user \in Users
    BY <1>1 DEF SlotsInv, TypeOK, Entries
  <2>2. CASE f.user = u
    <3>1. ControlTurn(e) /\ f = e
      <4>1. e.slot = ControlSlot
        BY <1>1, <1>3, <2>1, <2>2, CurrentOnce
      <4>2. ControlTurn(e)
        BY <4>1, ChannelsAssumption DEF Turn, DataTurn, ControlSlot, Slots
      <4>3. QED
        BY <1>1, <1>3, <2>1, <2>2, <4>1, <4>2, CurrentOnce
    <3>2. polls' = polls /\ pc' \in {"recv", "flush", "accept"}
      BY <3>1 DEF ControlTurn
    <3>3. Current(f)'
      BY <1>1, <3>1, <3>2 DEF Current
    <3>4. QED
      BY <3>1, <3>2, <3>3 DEF PromptTurn
  <2>3. CASE f.user # u
    <3>1. server'.user[f.user] = server.user[f.user]
      BY <1>1, <2>1, <2>3, OthersFacts
    <3>2. ~Current(f)
      BY <1>1, <2>1, <2>3, CurrentOnce
    <3>3. server.user[f.user].dlcommand = 1 => "OUT" \in f.revents
      BY <1>1, <1>3, <2>1, <3>2 DEF AnnouncedInv
    <3>4. pc' = "accept" => ~Current(f)'
      BY <1>1, <3>2 DEF Current
    <3>5. QED
      BY <3>1, <3>3, <3>4
  <2>4. QED
    BY <2>2, <2>3
<1>4. QED
  BY <1>2, <1>3 DEF AnnouncedInv

LEMMA TurnCurrent ==
  ASSUME SlotsInv, CurrentInv, NEW e \in polls, Turn(e)
  PROVE  CurrentInv'
<1> DEFINE u == e.user
<1>1. /\ Current(e) /\ pc' # "listener" /\ Others(server, server', u)
      /\ polls' = polls \/ polls' = polls \ {e}
  BY DEF Turn, ControlTurn, DataTurn
<1>2. ASSUME NEW f \in polls', f.slot = ControlSlot PROVE server'.user[f.user].control = f.fd
  <2>1. f \in polls /\ f.user \in Users /\ server.user[f.user].control = f.fd
    BY <1>1, <1>2 DEF SlotsInv, TypeOK, Entries, CurrentInv
  <2>2. CASE f.user = u
    <3>1. f = e
      BY <1>1, <1>2, <2>1, <2>2, CurrentOnce
    <3>2. e.slot \notin Slots
      BY <1>2, <3>1, ChannelsAssumption DEF ControlSlot, Slots
    <3>3. ControlTurn(e) /\ e \in polls'
      BY <3>1, <3>2 DEF Turn, DataTurn
    <3>4. server'.user[u].control = server.user[u].control
      BY <3>3 DEF ControlTurn
    <3>5. QED
      BY <2>1, <2>2, <3>4
  <2>3. CASE f.user # u
    BY <1>1, <2>1, <2>3, OthersFacts
  <2>4. QED
    BY <2>2, <2>3
<1>3. ASSUME NEW f \in polls', f.slot # ControlSlot,
             NEW c, c = <<f.user, f.slot>>
      PROVE  /\ c \in server'.dataslots => StillPolled(c, f.fd)'
             /\ \A g \in polls' : g.slot = ControlSlot /\ g.user = f.user => c \in server'.dataslots /\ ~Busy(g)'
  <2>1. f \in polls /\ f.user \in Users /\ f.slot \in Slots
    BY <1>1, <1>3 DEF SlotsInv, TypeOK, Entries
  <2>2. /\ c \in server.dataslots => StillPolled(c, f.fd)
        /\ \A g \in polls : g.slot = ControlSlot /\ g.user = f.user => c \in server.dataslots /\ ~Busy(g)
    BY <1>3, <2>1 DEF CurrentInv
  <2>3. CASE f.user # u
    <3>1. /\ server'.user[f.user] = server.user[f.user]
          /\ server'.dc[c] = server.dc[c] \/ ("wild" \in Faults /\ server'.dc[c] = ZeroData)
          /\ c \in server'.dataslots <=> c \in server.dataslots
      BY <1>1, <1>3, <2>1, <2>3, OthersFacts
    <3>2. c \in server'.dataslots => StillPolled(c, f.fd)'
      BY <2>2, <3>1 DEF StillPolled
    <3>3. ASSUME NEW g \in polls', g.slot = ControlSlot, g.user = f.user
          PROVE  c \in server'.dataslots /\ ~Busy(g)'
      <4>1. g \in polls /\ g # e
        BY <1>1, <2>3, <3>3
      <4>2. Current(g)' /\ polls' = polls => FALSE
        BY <1>1, <4>1, CurrentOnce DEF Current
      <4>3. polls' # polls => pc' = "sweep"
        BY DEF Turn, ControlTurn, DataTurn
      <4>4. QED
        BY <2>2, <3>1, <3>3, <4>1, <4>2, <4>3 DEF Busy
    <3>4. QED
      BY <3>2, <3>3
  <2>4. CASE f.user = u /\ ControlTurn(e)
    <3>1. c \in server.dataslots /\ ~Busy(e) /\ StillPolled(c, f.fd)
      BY <2>2, <2>4 DEF ControlTurn
    <3>2. /\ polls' = polls \ {e}
          /\ c \in server'.dataslots => server'.dc[c] = server.dc[c]
      BY <1>3, <2>1, <2>4, <3>1 DEF ControlTurn
    <3>3. \A g \in polls' : g.user = u => g.slot # ControlSlot
      BY <1>1, <2>4, <3>2, CurrentOnce DEF ControlTurn
    <3>4. QED
      BY <2>4, <3>1, <3>2, <3>3 DEF StillPolled
  <2>5. CASE f.user = u /\ DataTurn(e)
    <3>1. f # e /\ f.slot # e.slot
      BY <1>1, <2>1, <2>5, CurrentOnce DEF DataTurn
    <3>2. c \in Channels \ {<<u, e.slot>>}
      BY <1>3, <2>1, <2>5, <3>1 DEF Channels
    <3>3. server'.dc[c] = server.dc[c] /\ server'.dataslots \subseteq server.dataslots
      BY <2>5, <3>2 DEF DataTurn, Tidies
    <3>4. \A g \in polls' : g.user = u => g.slot # ControlSlot
      <4>1. e.slot # ControlSlot
        BY <2>5, ChannelsAssumption DEF DataTurn, ControlSlot, Slots
      <4>2. QED
        BY <1>1, <4>1, CurrentOnce
    <3>5. QED
      BY <2>2, <2>5, <3>3, <3>4 DEF StillPolled
  <2>6. QED
    BY <2>3, <2>4, <2>5 DEF Turn
<1>4. QED
  BY <1>1, <1>2, <1>3 DEF CurrentInv

\* The steps of the server behind the poll are turns.
Turned ==
  \/ Crash
  \/ \E e \in polls :
       /\ Turn(e)
       /\ "slow" \notin Faults /\ AnnouncedInv /\ ControlTurn(e) => PromptTurn(e)

\* A line is read from a session at rest, which rests afterwards.
LEMMA TakeRests ==
  ASSUME NEW m \in Memories, Polite(m), NEW u \in Users, Pending(m, u),
         NEW n, n = Take(m, m.user[u].control)
  PROVE  /\ Rests(n, u) /\ Silent(m, n) /\ Idle(m, u)
         /\ n.user = m.user /\ n.user[u].dlcommand = 0
<1> DEFINE s == m.user[u].control
<1>1. s \in Sockets /\ m.sock[s].in # <<>> /\ PoliteSession(m, u)
  BY DEF Pending, Polite
<1>2. ~m.user[u].sendbuf /\ m.user[u].dlcommand = 0 /\ Idle(m, u)
  BY <1>1 DEF PoliteSession
<1>3. /\ n.dc = m.dc /\ n.user = m.user
      /\ \A t \in Sockets \ {s} : n.sock[t] = m.sock[t]
      /\ n.sock[s].in = Tail(m.sock[s].in)
  BY <1>1, TakeFields
<1>4. n.sock[s].in = <<>>
  BY <1>1, <1>3 DEF Polite, Short
<1> HIDE DEF s
<1>5. Silent(m, n)
  BY <1>3, <1>4 DEF Silent
<1>6. ~Pending(n, u)
  BY <1>3, <1>4 DEF Pending, s
<1>7. \A d \in Slots : ~m.dc[<<u, d>>].event /\ ~m.dc[<<u, d>>].close
  BY <1>1, <1>2 DEF PoliteSession, Idle
<1>8. Rests(n, u)
  BY <1>2, <1>3, <1>6, <1>7 DEF Rests, Idle, Live
<1>9. QED
  BY <1>2, <1>3, <1>5, <1>8

LEMMA RecvTurn ==
  ASSUME SlotsInv, PoliteInv, WokenInv, RecvLine
  PROVE  Turned
<1>1. PICK e \in polls :
        LET s == server.user[e.user].control
            line == Head(server.sock[s].in)
            m == Take(server, s)
        IN /\ Reading(e)
           /\ s \in Sockets /\ server.sock[s].in # <<>>
           /\ \/ /\ line \in AllCommands
                 /\ Exec(e, Overwrite(m, e.user, line), line, "recv")
              \/ /\ \E text \in Commands : server' = Overwrite(m, e.user, text)
                 /\ Resume(e, "recv")
              \/ server' = m /\ Resume(e, "flush")
              \/ server' = Disconnect(m, e.user) /\ Resume(e, "flush")
  BY DEF RecvLine
<1> DEFINE u == e.user
           s == server.user[u].control
           line == Head(server.sock[s].in)
           m == Take(server, s)
<1>2. /\ Current(e) /\ e.slot = ControlSlot /\ pc \in {"recv", "sweep"}
      /\ pc = "sweep" => "IN" \in e.revents
  BY <1>1 DEF Reading
<1>3. /\ u \in Users /\ Same(server, m) /\ Serves(server, m, u) /\ server \in Memories
  BY <1>1, <1>2, LineServes DEF SlotsInv, TypeOK
<1>4. "OUT" \notin e.revents
  BY <1>2 DEF WokenInv
<1>5. Rests(m, u) /\ Silent(server, m) /\ Idle(server, u) /\ m.user = server.user /\ m.user[u].dlcommand = 0
  <2>1. Pending(server, u)
    BY <1>1 DEF Pending
  <2>2. QED
    BY <1>3, <2>1, TakeRests DEF PoliteInv
<1>6. m \in Memories /\ Clean(m)
  BY <1>3 DEF Same
<1> HIDE DEF m, line, s
<1>7. \A text : Overwrite(m, u, text) = m
  BY <1>3, <1>5, <1>6, RecordChanges
<1> DEFINE Good == /\ Rests(server', u) /\ Silent(m, server') /\ Others(m, server', u)
                   /\ server'.user[u].control = m.user[u].control
                   /\ server'.user[u].dlcommand = 1 => server'.user[u].sendbuf
                   /\ pc' \in {"recv", "flush"} /\ polls' = polls
<1>8. ASSUME line \in AllCommands, Exec(e, Overwrite(m, u, line), line, "recv")
      PROVE  Good
  <2>1. Exec(e, m, line, "recv")
    BY <1>7, <1>8
  <2>2. /\ Rests(server', u) /\ Silent(m, server')
        /\ server'.user[u].control = m.user[u].control
        /\ server'.user[u].sendbuf /\ Resume(e, "recv")
    BY <1>3, <1>5, <1>6, <2>1, ExecFirst
  <2>3. pc' = "recv" /\ polls' = polls
    BY <2>2 DEF Resume
  <2>4. Serves(m, server', u)
    BY <1>3, <1>6, <2>1, <2>3, ExecServes
  <2>5. QED
    BY <2>2, <2>3, <2>4 DEF Serves
<1>9. ASSUME server' = m, Resume(e, "recv") \/ Resume(e, "flush") PROVE Good
  BY <1>5, <1>9 DEF Resume, Silent, Others
<1>10. ASSUME server' = Disconnect(m, u), Resume(e, "flush") PROVE Good
  <2>1. RecordOnly(m, server', u) /\ server'.user[u].dlcommand = 0
    BY <1>3, <1>5, <1>6, <1>10, RecordChanges
  <2>2. Rests(server', u) /\ Silent(m, server')
    BY <1>5, <2>1, RecordRests
  <2>3. Others(m, server', u)
    BY <1>3, <1>6, <2>1, RecordServes DEF Serves
  <2>4. QED
    BY <1>10, <2>1, <2>2, <2>3 DEF Resume, RecordOnly
<1>11. Good
  <2>1. \/ line \in AllCommands /\ Exec(e, Overwrite(m, u, line), line, "recv")
        \/ (\E text \in Commands : server' = Overwrite(m, u, text)) /\ Resume(e, "recv")
        \/ server' = m /\ Resume(e, "flush")
        \/ server' = Disconnect(m, u) /\ Resume(e, "flush")
    BY <1>1 DEF m, line, s
  <2>2. QED
    BY <1>7, <1>8, <1>9, <1>10, <2>1
<1>12. Others(server, server', u) /\ Silent(server, server') /\ PoliteSession(server', u)
  <2>1. Others(server, server', u)
    BY <1>3, <1>11 DEF Serves, Others
  <2>2. QED
    BY <1>5, <1>11, <2>1, SilentFacts, RestsPolite
<1>13. ControlTurn(e)
  BY <1>2, <1>4, <1>5, <1>11, <1>12 DEF ControlTurn, Busy
<1>14. PromptTurn(e)
  BY <1>11 DEF PromptTurn, Prompt, Rests, Idle
<1>15. QED
  BY <1>13, <1>14 DEF Turned, Turn

\* What is sent leaves a session polite, and at rest if it was.
LEMMA SentPolite ==
  ASSUME SlotsInv, PoliteInv, NEW e \in polls, e.slot = ControlSlot, NEW more \in Partly,
         NEW m, m = Sent(server, e, more)
  PROVE  /\ RecordOnly(server, m, e.user) /\ Silent(server, m) /\ m \in Memories /\ e.user \in Users
         /\ m.user[e.user].dlcommand = server.user[e.user].dlcommand
         /\ m.user[e.user].command = server.user[e.user].command
         /\ PoliteSession(m, e.user)
         /\ Prompt(server, e.user) => Prompt(m, e.user)
         /\ "OUT" \notin e.revents => m = server
         /\ "OUT" \in e.revents /\ "slow" \notin Faults => ~m.user[e.user].sendbuf
<1> DEFINE u == e.user
<1>1. server \in Memories /\ e \in Entries /\ u \in Users /\ more \in BOOLEAN
  BY DEF SlotsInv, TypeOK, Entries, Partly
<1>2. /\ RecordOnly(server, m, u)
      /\ m.user[u].dlcommand = server.user[u].dlcommand
      /\ m.user[u].command = server.user[u].command
      /\ "OUT" \notin e.revents => m = server
      /\ "OUT" \in e.revents => m.user[u].sendbuf = (server.user[u].sendbuf /\ more)
  BY <1>1, SentFields
<1>3. m \in Memories
  BY SentServes DEF Same
<1>4. Silent(server, m)
  BY <1>2 DEF RecordOnly, Silent
<1>5. m.user[u].sendbuf => server.user[u].sendbuf
  BY <1>2
<1>6. PoliteSession(server, u)
  BY <1>1 DEF PoliteInv, Polite
<1>7. Pending(m, u) <=> Pending(server, u)
  BY <1>2 DEF RecordOnly, Pending
<1>8. PoliteSession(m, u)
  <2>1. m.dc = server.dc
    BY <1>2 DEF RecordOnly
  <2>2. Idle(m, u) <=> Idle(server, u)
    BY <2>1 DEF Idle, Live
  <2>3. /\ Pending(m, u) => ~m.user[u].sendbuf /\ m.user[u].dlcommand = 0 /\ Idle(m, u)
        /\ m.user[u].dlcommand = 1 => m.user[u].command \in Transfers /\ Idle(m, u)
    BY <1>2, <1>5, <1>6, <1>7, <2>2 DEF PoliteSession
  <2>4. QED
    BY <1>6, <2>1, <2>3 DEF PoliteSession, Live
<1>9. Prompt(server, u) => Prompt(m, u)
  BY <1>2, <1>5 DEF RecordOnly, Prompt, Live
<1>10. "slow" \notin Faults => ~more
  BY DEF Partly
<1>11. QED
  BY <1>1, <1>2, <1>3, <1>4, <1>8, <1>9, <1>10

LEMMA FlushTurn ==
  ASSUME SlotsInv, PoliteInv, WokenInv, Flush
  PROVE  Turned
<1>1. PICK e \in polls, more \in Partly :
        LET m == Sent(server, e, more) IN
        /\ ReadOver(e)
        /\ \/ server' \in {m, CloseSession(m, e.user)} /\ Resume(e, "sweep")
           \/ Crash
  BY DEF Flush, Crash
<1> DEFINE u == e.user
           m == Sent(server, e, more)
<1>2. /\ Current(e) /\ e.slot = ControlSlot /\ pc \in {"sweep", "recv", "flush"}
      /\ pc = "sweep" => server.user[u].dlcommand = 0
  BY <1>1 DEF ReadOver
<1>3. /\ RecordOnly(server, m, u) /\ Silent(server, m) /\ m \in Memories /\ u \in Users
      /\ m.user[u].dlcommand = server.user[u].dlcommand
      /\ PoliteSession(m, u) /\ (Prompt(server, u) => Prompt(m, u))
      /\ "OUT" \notin e.revents => m = server
  BY <1>2, SentPolite
<1>4. Same(server, m) /\ Serves(server, m, u) /\ u \in server.userslots
  BY <1>2, SentServes
<1>5. \/ server' \in {m, CloseSession(m, u)} /\ pc' = "sweep" /\ polls' = polls \ {e}
      \/ Crash
  BY <1>1 DEF Resume
<1> HIDE DEF m
<1>6. m.user[u].dlcommand = 1 => m.user[u].sendbuf
  BY <1>2, <1>3 DEF WokenInv, Due
<1>7. CASE server' = m /\ pc' = "sweep" /\ polls' = polls \ {e}
  <2>1. \A d \in Slots : <<u, d>> \in server'.dataslots =>
          <<u, d>> \in server.dataslots /\ server'.dc[<<u, d>>] = server.dc[<<u, d>>]
    BY <1>3, <1>7 DEF RecordOnly
  <2>2. ControlTurn(e)
    BY <1>2, <1>3, <1>4, <1>6, <1>7, <2>1 DEF ControlTurn, Serves
  <2>3. AnnouncedInv => PromptTurn(e)
    BY <1>3, <1>7 DEF AnnouncedInv, PromptTurn
  <2>4. QED
    BY <2>2, <2>3 DEF Turned, Turn
<1>8. CASE server' = CloseSession(m, u) /\ pc' = "sweep" /\ polls' = polls \ {e}
  <2>1. /\ server'.dataslots = {c \in m.dataslots : c[1] # u}
        /\ server'.user[u] = ZeroUser
        /\ \A c \in Channels : server'.dc[c] = IF c[1] = u THEN ZeroData ELSE m.dc[c]
        /\ \A s \in Sockets : server'.sock[s] = IF s \in Holdings(m, u) THEN Closed ELSE m.sock[s]
    BY <1>3, <1>8, CloseSessionFields
  <2>2. \A d \in Slots : server'.dc[<<u, d>>] = ZeroData /\ <<u, d>> \notin server'.dataslots
    BY <1>3, <2>1 DEF Channels
  <2>3. Silent(server, server')
    BY <1>3, <2>1 DEF Silent, Closed
  <2>4. PoliteSession(server', u) /\ Prompt(server', u) /\ server'.user[u].dlcommand = 0
    BY <2>1, <2>2, NotHandles DEF PoliteSession, Prompt, Pending, Live, Idle, ZeroUser, ZeroData
  <2>5. Others(server, server', u)
    <3>1. Clean(m) /\ u \in m.userslots
      BY <1>4 DEF Same
    <3>2. Serves(m, server', u)
      BY <1>3, <1>8, <3>1, CloseSessionServes
    <3>3. QED
      BY <1>4, <3>2, ServesComposed DEF Serves
  <2>6. ControlTurn(e)
    BY <1>2, <1>8, <2>2, <2>3, <2>4, <2>5 DEF ControlTurn
  <2>7. QED
    BY <1>8, <2>4, <2>6 DEF Turned, Turn, PromptTurn
<1>9. QED
  BY <1>5, <1>7, <1>8 DEF Turned

\* The session of a delayed command is at rest.
LEMMA DelayedRests ==
  ASSUME NEW m, NEW u, PoliteSession(m, u), m.user[u].dlcommand = 1
  PROVE  Rests(m, u) /\ m.user[u].command \in Transfers
<1>1. ~Pending(m, u) /\ Idle(m, u)
  BY DEF PoliteSession
<1>2. QED
  BY <1>1, RestsPolite DEF PoliteSession

LEMMA DelayedTurn ==
  ASSUME SlotsInv, PoliteInv, Delayed
  PROVE  Turned
<1>1. PICK e \in polls, more \in Partly :
        /\ Current(e) /\ e.slot = ControlSlot /\ server.user[e.user].dlcommand = 1
        /\ Exec(e, Sent(server, e, more), server.user[e.user].command, "sweep")
  BY DEF Delayed
<1> DEFINE u == e.user
           m == Sent(server, e, more)
           cmd == server.user[u].command
<1>2. /\ RecordOnly(server, m, u) /\ Silent(server, m) /\ m \in Memories /\ u \in Users
      /\ m.user[u].dlcommand = 1 /\ m.user[u].command = cmd /\ PoliteSession(m, u)
      /\ "OUT" \in e.revents /\ "slow" \notin Faults => ~m.user[u].sendbuf
  BY <1>1, SentPolite
<1>3. Same(server, m) /\ Serves(server, m, u)
  BY <1>1, SentServes
<1>4. Exec(e, m, cmd, "sweep") /\ pc = "sweep"
  BY <1>1 DEF Delayed
<1> HIDE DEF m
<1>5. Rests(m, u) /\ cmd \in Transfers /\ Idle(server, u)
  <2>1. Rests(m, u) /\ cmd \in Transfers
    BY <1>2, DelayedRests
  <2>2. Idle(server, u)
    BY <1>2, <2>1 DEF Rests, Idle, Live, RecordOnly
  <2>3. QED
    BY <2>1, <2>2
<1> HIDE DEF cmd
<1>6. \/ server' = m /\ pc' = "accept" /\ polls' = polls
      \/ Crash
      \/ Done(m, server', u) /\ Resume(e, "sweep")
  BY <1>2, <1>4, <1>5, ExecSecond DEF Crash
<1>7. ASSUME "slow" \notin Faults, AnnouncedInv
      PROVE  "OUT" \in e.revents /\ ~m.user[u].sendbuf
  BY <1>1, <1>2, <1>4, <1>7 DEF AnnouncedInv
<1>8. CASE server' = m /\ pc' = "accept" /\ polls' = polls
  <2>1. ControlTurn(e)
    BY <1>1, <1>2, <1>3, <1>4, <1>5, <1>8 DEF ControlTurn, Busy, Serves, RecordOnly
  <2>2. Prompt(server', u)
    BY <1>5, <1>8 DEF Prompt, Rests, Idle
  <2>3. QED
    BY <1>7, <1>8, <2>1, <2>2 DEF Turned, Turn, PromptTurn
<1>9. CASE Done(m, server', u) /\ Resume(e, "sweep") /\ ~Crash
  <2>1. pc' = "sweep" /\ polls' = polls \ {e}
    BY <1>9 DEF Resume
  <2>2. Clean(m)
    BY <1>3 DEF Same
  <2>3. Others(server, server', u)
    <3>1. Serves(m, server', u)
      BY <1>2, <1>4, <2>1, <2>2, ExecServes
    <3>2. QED
      BY <1>3, <3>1, ServesComposed DEF Serves
  <2>4. Silent(server, server')
    BY <1>2, <1>9, SilentFacts DEF Done
  <2>5. ControlTurn(e)
    BY <1>1, <1>2, <1>4, <1>5, <1>9, <2>1, <2>3, <2>4 DEF ControlTurn, Busy, Done, RecordOnly
  <2>6. QED
    BY <1>7, <1>9, <2>1, <2>5 DEF Turned, Turn, PromptTurn, Done
<1>10. QED
  BY <1>6, <1>8, <1>9 DEF Turned

LEMMA AcceptTurn ==
  ASSUME SlotsInv, PoliteInv, AcceptData
  PROVE  Turned
<1>1. pc = "accept" /\ server \in Memories /\ Waits
  BY DEF AcceptData, PoliteInv, SlotsInv, TypeOK
<1>2. PICK e \in polls :
        LET u == e.user
            cmd == server.user[u].command
        IN /\ Current(e)
           /\ \/ /\ \E s \in Sockets :
                      server' = Begin(Establish(server, u, server.user[u].lastdc, s), u, cmd)
                 /\ Resume(e, "sweep")
              \/ StageFails(e, server, cmd, "sweep")
  BY <1>1 DEF AcceptData
<1> DEFINE u == e.user
           cmd == server.user[u].command
<1>3. e.slot = ControlSlot /\ u \in Users
  BY <1>1, <1>2 DEF SlotsInv, InControl, TypeOK, Entries
<1>4. server.user[u].dlcommand = 1
  <2>1. PICK f \in polls : Current(f) /\ server.user[f.user].dlcommand = 1
    BY <1>1 DEF Waits
  <2>2. f = e
    BY <1>2, <2>1, CurrentOnce
  <2>3. QED
    BY <2>1, <2>2
<1>5. Rests(server, u)
  BY <1>3, <1>4, DelayedRests DEF PoliteInv, Polite
<1>6. \/ Crash
      \/ Done(server, server', u) /\ Others(server, server', u) /\ pc' = "sweep" /\ polls' = polls \ {e}
  <2>1. CASE StageFails(e, server, cmd, "sweep")
    <3>1. Crash \/ (Done(server, server', u) /\ Resume(e, "sweep"))
      BY <1>1, <1>3, <1>5, <2>1, StageFailsDone DEF Crash
    <3>2. Resume(e, "sweep") => Others(server, server', u)
      BY <1>1, <1>3, <2>1, StageFailsServes DEF Serves, Resume
    <3>3. QED
      BY <3>1, <3>2 DEF Resume
  <2>2. ASSUME NEW s \in Sockets, Resume(e, "sweep"),
               server' = Begin(Establish(server, u, server.user[u].lastdc, s), u, cmd)
        PROVE  /\ Done(server, server', u) /\ Others(server, server', u)
               /\ pc' = "sweep" /\ polls' = polls \ {e}
    <3>1. Done(server, server', u)
      BY <1>1, <1>3, <1>5, <2>2, ConnectDone
    <3> DEFINE c == <<u, server.user[u].lastdc>>
    <3>2. Started(server, server', u) /\ server'.sock[s] = Opened("data")
      <4>1. server' = Begin(Establish(server, u, server.user[u].lastdc, s), u, cmd)
        BY <2>2
      <4>2. c = <<u, server.user[u].lastdc>>
        OBVIOUS
      <4> HIDE DEF c, cmd
      <4>3. QED
        BY <1>1, <1>3, <4>1, <4>2, ConnectFields
    <3>3. \A x \in Channels : x[1] # u => x # <<u, server.user[u].lastdc>>
      OBVIOUS
    <3>4. Others(server, server', u)
      BY <3>2, <3>3 DEF Started, Others
    <3>5. QED
      BY <2>2, <3>1, <3>4 DEF Resume
  <2>3. QED
    BY <1>2, <2>1, <2>2
<1>7. CASE Done(server, server', u) /\ Others(server, server', u) /\ pc' = "sweep" /\ polls' = polls \ {e}
  <2>1. ControlTurn(e)
    BY <1>1, <1>2, <1>3, <1>5, <1>7 DEF ControlTurn, Busy, Done, Rests
  <2>2. ASSUME AnnouncedInv PROVE PromptTurn(e)
    <3>1. ~server.user[u].sendbuf
      BY <1>1, <1>2, <1>3, <2>2 DEF AnnouncedInv
    <3>2. QED
      BY <1>7, <3>1 DEF PromptTurn, Done
  <2>3. QED
    BY <2>1, <2>2 DEF Turned, Turn
<1>8. QED
  BY <1>6, <1>7 DEF Turned

LEMMA ProcessTurn ==
  ASSUME SlotsInv, ProcessData
  PROVE  Turned
<1>1. server \in Memories
  BY DEF SlotsInv, TypeOK
<1>2. PICK e \in polls, eof \in BOOLEAN, last \in BOOLEAN :
        /\ Current(e) /\ e.slot # ControlSlot
        /\ server' = AfterHup(AfterSend(AfterRecv(server, e, eof), e, last), e)
        /\ Resume(e, "sweep")
  BY DEF ProcessData
<1> DEFINE u == e.user
           d == e.slot
           m1 == AfterRecv(server, e, eof)
           m2 == AfterSend(m1, e, last)
           m3 == AfterHup(m2, e)
<1>3. u \in Users /\ d \in Slots
  BY <1>2 DEF SlotsInv, TypeOK, Entries
<1>4. ASSUME NEW m \in Memories
      PROVE  /\ Tidies(m, m, u, d) /\ Tidies(m, DataClose(m, u, d), u, d)
             /\ m.dc[<<u, d>>].event => Tidies(m, DataClose(Reply(m, u), u, d), u, d)
  <2>1. Tidies(m, m, u, d)
    BY DEF Tidies, Silent
  <2>2. QED
    BY <1>3, <2>1, DataCloseTidies
<1>5. Tidies(server, m1, u, d)
  BY <1>1, <1>4 DEF AfterRecv
<1>6. Tidies(m1, m2, u, d)
  <2>1. m1 \in Memories
    BY <1>5 DEF Tidies
  <2> HIDE DEF m1
  <2>2. m2 \in {m1, DataClose(m1, u, d)} \/ (m2 = DataClose(Reply(m1, u), u, d) /\ m1.dc[<<u, d>>].event)
    BY DEF AfterSend
  <2>3. QED
    BY <1>4, <2>1, <2>2
<1>7. Tidies(m2, m3, u, d)
  <2>1. m2 \in Memories
    BY <1>6 DEF Tidies
  <2> HIDE DEF m2
  <2>2. m3 \in {m2, DataClose(m2, u, d)}
    BY DEF AfterHup
  <2>3. QED
    BY <1>4, <2>1, <2>2
<1> HIDE DEF m1, m2, m3
<1>8. Tidies(server, m3, u, d)
  BY <1>5, <1>6, <1>7, TidiesComposed
<1>9. server' = m3
  BY <1>2 DEF m1, m2, m3
<1>10. Others(server, server', u)
  BY <1>2, TestsServe DEF Serves
<1>11. DataTurn(e)
  BY <1>2, <1>3, <1>8, <1>9, <1>10 DEF DataTurn, Resume, ProcessData
<1>12. QED
  BY <1>3, <1>11, ChannelsAssumption DEF Turned, Turn, ControlTurn, ControlSlot, Slots

-----------------------------------------------------------------------------
\* The four invariants are kept.  "pipeline" may not happen, nor "slow" for the third
\* one, nor "crowd" and "handles" for the last.
Kept ==
  /\ Polite(server') /\ pc' # "acceptInRecv" /\ WokenInv'
  /\ "slow" \notin Faults /\ AnnouncedInv => AnnouncedInv'
  /\ Faults \cap {"crowd", "handles"} = {} /\ CurrentInv => CurrentInv'

LEMMA TurnedKept ==
  ASSUME SlotsInv, PoliteInv, WokenInv, Turned
  PROVE  Kept
<1>1. CASE Crash
  BY <1>1 DEF Crash, Kept, PoliteInv, WokenInv, Due, AnnouncedInv, CurrentInv, StillPolled, Busy, Current
<1>2. ASSUME NEW e \in polls, Turn(e),
             "slow" \notin Faults /\ AnnouncedInv /\ ControlTurn(e) => PromptTurn(e)
      PROVE  Kept
  <2>1. Polite(server') /\ pc' # "acceptInRecv" /\ WokenInv'
    BY <1>2, TurnWoken
  <2>2. "slow" \notin Faults /\ AnnouncedInv => AnnouncedInv'
    BY <1>2, TurnAnnounced
  <2>3. Faults \cap {"crowd", "handles"} = {} /\ CurrentInv => CurrentInv'
    BY <1>2, TurnCurrent
  <2>4. QED
    BY <2>1, <2>2, <2>3 DEF Kept
<1>3. QED
  BY <1>1, <1>2 DEF Turned

\* The poll takes its entries from the tables.
LEMMA PollKept ==
  ASSUME SlotsInv, PoliteInv, WokenInv, Poll
  PROVE  Kept
<1>1. server \in Memories
  BY DEF SlotsInv, TypeOK
<1>2. PICK ready \in Readiness(server) : polls' \subseteq Snapshot(server, ready)
  BY DEF Poll
<1>3. server' = server /\ pc = "sweep" /\ polls = {} /\ pc' \in {"listener", "sweep"}
  BY DEF Poll
<1>4. ASSUME NEW e \in polls'
      PROVE  \/ /\ e.slot = ControlSlot /\ e.user \in server.userslots
                /\ e.fd = server.user[e.user].control
                /\ e.revents = ControlEvents(server, e.user, ready)
             \/ /\ e.slot \in Slots /\ <<e.user, e.slot>> \in Connected(server)
                /\ e.fd = server.dc[<<e.user, e.slot>>].conn
  <2>1. ASSUME NEW c \in Connected(server) PROVE c = <<c[1], c[2]>> /\ c[2] \in Slots
    BY <1>1 DEF Connected, Memories, Channels
  <2>2. QED
    BY <1>2, <2>1 DEF Snapshot
<1>5. ControlSlot \notin Slots /\ server.userslots \subseteq Users
  BY <1>1, ChannelsAssumption DEF ControlSlot, Slots, Memories
<1>6. \A u \in Users : server.user[u].dlcommand = 1 => server.user[u].sendbuf
  BY <1>3 DEF WokenInv, Due
<1>7. ASSUME NEW e \in polls', e.slot = ControlSlot
      PROVE  /\ "IN" \in e.revents => "OUT" \notin e.revents
             /\ "slow" \notin Faults /\ server.user[e.user].sendbuf => "OUT" \in e.revents
  <2> DEFINE u == e.user
  <2>1. u \in server.userslots /\ u \in Users /\ e.revents = ControlEvents(server, u, ready)
    BY <1>4, <1>5, <1>7
  <2>2. "IN" \in e.revents => Pending(server, u)
    BY <2>1 DEF ControlEvents, Peer, Closed, Pending
  <2>3. Pending(server, u) => ~server.user[u].sendbuf
    BY <2>1 DEF PoliteInv, Polite, PoliteSession
  <2>4. ~server.user[u].sendbuf => "OUT" \notin e.revents
    BY <2>1 DEF ControlEvents
  <2>5. "slow" \notin Faults => <<u, ControlSlot>> \in ready
    BY <2>1 DEF Readiness
  <2>6. QED
    BY <2>1, <2>2, <2>3, <2>4, <2>5 DEF ControlEvents
<1>8. Polite(server') /\ pc' # "acceptInRecv"
  BY <1>3 DEF PoliteInv
<1>9. WokenInv'
  BY <1>3, <1>6, <1>7 DEF WokenInv, Due
<1>10. ASSUME "slow" \notin Faults, AnnouncedInv PROVE AnnouncedInv'
  <2>1. \A e \in polls' : e.slot = ControlSlot => e.user \in Users
    BY <1>4, <1>5
  <2>2. QED
    BY <1>3, <1>6, <1>7, <1>10, <2>1 DEF AnnouncedInv
<1>11. CurrentInv'
  <2>1. ASSUME NEW e \in polls', e.slot # ControlSlot, NEW f \in polls', f.slot = ControlSlot, f.user = e.user
        PROVE  ~Busy(f)'
    <3>1. f.user \in Users /\ Live(server, f.user, e.slot) /\ e.slot \in Slots
      BY <1>4, <1>5, <2>1 DEF Connected, Live
    <3>2. ~Pending(server, f.user) /\ server.user[f.user].dlcommand # 1
      BY <3>1 DEF PoliteInv, Polite, PoliteSession, Idle
    <3>3. f.revents = ControlEvents(server, f.user, ready)
      BY <1>4, <1>5, <2>1
    <3>4. "IN" \notin f.revents
      BY <3>2, <3>3 DEF ControlEvents, Peer, Closed, Pending
    <3>5. QED
      BY <1>3, <3>2, <3>4 DEF Busy
  <2>2. QED
    BY <1>3, <1>4, <1>5, <2>1 DEF CurrentInv, StillPolled, Connected
<1>12. QED
  BY <1>8, <1>9, <1>10, <1>11 DEF Kept

\* A session that is opened has nothing to read, nothing delayed and no transfer.
LEMMA OpenKept ==
  ASSUME SlotsInv, PoliteInv, WokenInv, pc = "listener", pc' = "sweep", polls' = polls,
         NEW u \in Users, NEW s \in Sockets \cup {INVALID_SOCKET}, server' = OpenSession(server, u, s)
  PROVE  /\ Polite(server') /\ pc' # "acceptInRecv" /\ WokenInv'
         /\ AnnouncedInv => AnnouncedInv'
         /\ u \notin server.userslots /\ CurrentInv => CurrentInv'
<1>1. server \in Memories /\ s \in Handles
  BY DEF SlotsInv, TypeOK, Handles
<1>2. /\ server'.user[u].control = s /\ server'.user[u].dlcommand = 0
      /\ \A c \in Channels : server'.dc[c] = IF c[1] = u THEN ZeroData ELSE server.dc[c]
      /\ \A t \in Sockets : server'.sock[t] = IF t = s THEN Opened("control") ELSE server.sock[t]
  BY <1>1, OpenSessionFields
<1>3. Others(server, server', u)
  BY <1>1, OpenSessionOthers
<1>4. Silent(server, server') /\ ~Pending(server', u)
  <2>1. Opened("control").in = <<>>
    BY DEF Opened
  <2>2. QED
    BY <1>2, <2>1 DEF Silent, Pending
<1>5. \A d \in Slots : server'.dc[<<u, d>>] = ZeroData
  BY <1>2 DEF Channels
<1>6. PoliteSession(server', u) /\ Prompt(server', u)
  BY <1>2, <1>4, <1>5 DEF PoliteSession, Prompt, Live, Idle, ZeroData
<1>7. Polite(server')
  BY <1>3, <1>4, <1>6, PoliteOthers DEF PoliteInv
<1>8. \A v \in Users : v # u => server'.user[v] = server.user[v]
  BY <1>3 DEF Others
<1>9. \A e \in polls : e.user \in Users /\ (e.slot # ControlSlot => e.slot \in Slots)
  BY DEF SlotsInv, TypeOK, Entries
<1>10. WokenInv'
  <2>1. \A v \in Users : server'.user[v].dlcommand = 1 => server'.user[v].sendbuf
    BY <1>2, <1>8 DEF WokenInv, Due
  <2>2. QED
    BY <2>1 DEF WokenInv, Due
<1>11. ASSUME AnnouncedInv PROVE AnnouncedInv'
  <2>1. \A v \in Users : Prompt(server', v)
    BY <1>3, <1>6, <1>11, OthersFacts DEF AnnouncedInv
  <2>2. \A e \in polls : e.slot = ControlSlot /\ server'.user[e.user].dlcommand = 1 => "OUT" \in e.revents
    BY <1>2, <1>8, <1>9, <1>11 DEF AnnouncedInv
  <2>3. QED
    BY <2>1, <2>2 DEF AnnouncedInv
<1>12. ASSUME u \notin server.userslots, CurrentInv PROVE CurrentInv'
  <2>1. \A e \in polls : e.user # u
    BY <1>12 DEF CurrentInv
  <2>2. ASSUME NEW e \in polls, e.slot # ControlSlot, NEW c, c = <<e.user, e.slot>>
        PROVE  server'.dc[c] = server.dc[c] /\ (c \in server'.dataslots <=> c \in server.dataslots)
    <3>1. c \in Channels /\ c[1] # u
      BY <1>9, <2>1, <2>2 DEF Channels
    <3>2. QED
      BY <1>2, <1>3, <3>1 DEF Others
  <2>3. \A e \in polls : server'.user[e.user] = server.user[e.user]
    BY <1>8, <1>9, <2>1
  <2>4. \A e \in polls : Busy(e)' => Busy(e)
    BY <2>3 DEF Busy
  <2>5. QED
    BY <1>12, <2>2, <2>3, <2>4 DEF CurrentInv, StillPolled
<1>13. QED
  BY <1>7, <1>10, <1>11, <1>12

LEMMA ListenerKept ==
  ASSUME SlotsInv, PoliteInv, WokenInv, Listener \/ ListenerFull
  PROVE  Kept
<1>1. CASE Crash
  BY <1>1, TurnedKept DEF Turned
<1>2. CASE Listener
  <2>1. PICK s \in Sockets \cup {INVALID_SOCKET}, u \in Users :
          FirstFreeUser(server, u) /\ server' = OpenSession(server, u, s)
    BY <1>2 DEF Listener
  <2>2. pc = "listener" /\ pc' = "sweep" /\ polls' = polls
    BY <1>2 DEF Listener
  <2>3. u \notin server.userslots
    BY <2>1 DEF FirstFreeUser
  <2>4. QED
    BY <2>1, <2>2, <2>3, OpenKept DEF Kept
<1>3. CASE ListenerFull /\ ~Crash
  <2>1. Faults \cap {"crowd", "handles"} # {}
    BY <1>3 DEF ListenerFull
  <2>2. PICK s \in Sockets \cup {INVALID_SOCKET}, u \in Users : server' = OpenSession(server, u, s)
    BY <1>3 DEF ListenerFull, Crash
  <2>3. pc = "listener" /\ pc' = "sweep" /\ polls' = polls
    BY <1>3 DEF ListenerFull, Crash
  <2>4. QED
    BY <2>1, <2>2, <2>3, OpenKept DEF Kept
<1>4. QED
  BY <1>1, <1>2, <1>3

\* A client that waits for its replies sends one line to a session at rest.
LEMMA ClientsKept ==
  ASSUME "pipeline" \notin Faults, SlotsInv, PoliteInv, WokenInv, Clients
  PROVE  Kept
<1>1. server \in Memories /\ Clean(server) /\ pc' = pc /\ polls' = polls
  BY InvParts DEF TypeOK, Clients, Connect, GiveUp, ClientSend, ClientClose, Knock, KnockGivenUp
<1>2. /\ server'.userslots = server.userslots /\ server'.dataslots = server.dataslots
      /\ server'.user = server.user /\ server'.dc = server.dc
  BY <1>1 DEF Clients, Connect, GiveUp, ClientSend, ClientClose, Knock, KnockGivenUp, Memories
<1>3. WokenInv'
  BY <1>1, <1>2 DEF WokenInv, Due, Current
<1>4. AnnouncedInv => AnnouncedInv'
  BY <1>1, <1>2 DEF AnnouncedInv, Prompt, Live, Current
<1>5. CurrentInv => CurrentInv'
  BY <1>1, <1>2 DEF CurrentInv, StillPolled, Busy, Current
<1>6. \A v \in Users : \A d \in Slots : Live(server', v, d) <=> Live(server, v, d)
  BY <1>2 DEF Live
<1>7. ASSUME NEW v \in Users,
             Pending(server', v) => ~server.user[v].sendbuf /\ server.user[v].dlcommand = 0 /\ Idle(server, v)
      PROVE  PoliteSession(server', v)
  <2>1. PoliteSession(server, v)
    BY DEF PoliteInv, Polite
  <2>2. QED
    BY <1>2, <1>6, <1>7, <2>1 DEF PoliteSession, Idle
<1>8. ASSUME \A t \in Sockets : server'.sock[t].in = server.sock[t].in PROVE Polite(server')
  <2>1. Short(server')
    BY <1>8 DEF PoliteInv, Polite, Short
  <2>2. \A v \in Users : Pending(server', v) => Pending(server, v)
    BY <1>2, <1>8 DEF Pending
  <2>3. QED
    BY <1>7, <2>1, <2>2 DEF Polite, PoliteInv, PoliteSession
<1>9. ASSUME NEW s \in Sockets, ClientSend(s) PROVE Polite(server')
  <2>1. ~AwaitsReply(s)
    BY <1>9 DEF ClientSend
  <2>2. PICK line \in Commands : server' = [server EXCEPT !.sock[s].in = Append(@, line)]
    BY <1>9 DEF ClientSend
  <2>3. server.sock[s].in = <<>> /\ Append(<<>>, line) = <<line>> /\ Tail(<<line>>) = <<>>
    BY <2>1 DEF AwaitsReply
  <2>4. server'.sock[s].in = <<line>>
    <3>1. server'.sock[s] = [server.sock[s] EXCEPT !.in = Append(@, line)]
      BY <1>1, <2>2 DEF Memories
    <3>2. server.sock[s] \in SocketRecords
      BY <1>1 DEF Memories
    <3>3. QED
      BY <2>3, <3>1, <3>2 DEF SocketRecords
  <2>5. \A t \in Sockets \ {s} : server'.sock[t] = server.sock[t]
    BY <1>1, <2>2 DEF Memories
  <2>6. Short(server')
    BY <2>3, <2>4, <2>5 DEF PoliteInv, Polite, Short
  <2>7. ASSUME NEW v \in Users, Pending(server', v)
        PROVE  ~server.user[v].sendbuf /\ server.user[v].dlcommand = 0 /\ Idle(server, v)
    <3>1. CASE server.user[v].control # s
      <4>1. Pending(server, v)
        BY <1>2, <2>5, <2>7, <3>1 DEF Pending
      <4>2. QED
        BY <4>1 DEF PoliteInv, Polite, PoliteSession
    <3>2. CASE server.user[v].control = s
      <4>1. v \in server.userslots
        <5>1. ZeroUser.control \notin Sockets
          BY NotHandles DEF ZeroUser
        <5>2. QED
          BY <1>1, <3>2, <5>1 DEF Clean
      <4>2. /\ ~server.user[v].sendbuf /\ server.user[v].dlcommand # 1
            /\ \A c \in Connected(server) : c[1] # v
        BY <2>1, <3>2, <4>1 DEF AwaitsReply
      <4>3. server.user[v].dlcommand \in {0, 1}
        BY <1>1 DEF Memories, UserRecords
      <4>4. \A d \in Slots : Live(server, v, d) => <<v, d>> \in Connected(server)
        <5>1. \A d \in Slots : <<v, d>> \in Channels
          BY DEF Channels
        <5>2. \A d \in Slots : Live(server, v, d) => <<v, d>> \in server.dataslots
          BY <1>1, <5>1, CleanDataFacts DEF Clean, Live
        <5>3. QED
          BY <4>1, <5>2 DEF Connected, Live
      <4>5. Idle(server, v)
        BY <4>2, <4>4 DEF Idle
      <4>6. QED
        BY <4>2, <4>3, <4>5
    <3>3. QED
      BY <3>1, <3>2
  <2>8. QED
    BY <1>7, <2>6, <2>7 DEF Polite
<1>10. ASSUME NEW s \in Sockets, ClientClose(s) \/ Knock(s) \/ KnockGivenUp(s) PROVE Polite(server')
  <2>1. \/ server' = [server EXCEPT !.sock[s].hup = TRUE]
        \/ server' = [server EXCEPT !.sock[s].kind = "knocked"]
    BY <1>10 DEF ClientClose, Knock, KnockGivenUp
  <2>2. server.sock[s] \in SocketRecords
    BY <1>1 DEF Memories
  <2>3. PICK r : server'.sock = [server.sock EXCEPT ![s] = r] /\ r.in = server.sock[s].in
    <3>1. \/ server'.sock = [server.sock EXCEPT ![s] = [server.sock[s] EXCEPT !.hup = TRUE]]
          \/ server'.sock = [server.sock EXCEPT ![s] = [server.sock[s] EXCEPT !.kind = "knocked"]]
      BY <1>1, <2>1 DEF Memories
    <3>2. /\ [server.sock[s] EXCEPT !.hup = TRUE].in = server.sock[s].in
          /\ [server.sock[s] EXCEPT !.kind = "knocked"].in = server.sock[s].in
      BY <2>2 DEF SocketRecords
    <3>3. QED
      BY <3>1, <3>2
  <2>4. \A t \in Sockets : server'.sock[t].in = server.sock[t].in
    BY <1>1, <2>3 DEF Memories
  <2>5. QED
    BY <1>8, <2>4
<1>11. ASSUME server' = server PROVE Polite(server')
  BY <1>8, <1>11
<1>12. Polite(server')
  BY <1>9, <1>10, <1>11 DEF Clients, Connect, GiveUp
<1>13. QED
  BY <1>1, <1>3, <1>4, <1>5, <1>12 DEF Kept, PoliteInv

LEMMA NextKept ==
  ASSUME "pipeline" \notin Faults, SlotsInv, PoliteInv, WokenInv, [Next]_vars
  PROVE  PoliteInv' /\ Kept
<1>1. Kept
  <2>1. CASE Poll
    BY <2>1, PollKept
  <2>2. CASE Listener \/ ListenerFull
    BY <2>2, ListenerKept
  <2>3. CASE RecvLine \/ Flush \/ Delayed \/ AcceptData \/ ProcessData
    BY <2>3, RecvTurn, FlushTurn, DelayedTurn, AcceptTurn, ProcessTurn, TurnedKept
  <2>4. CASE Clients
    BY <2>4, ClientsKept
  <2>5. CASE UNCHANGED vars
    BY <2>5 DEF vars, Kept, PoliteInv, WokenInv, Due, AnnouncedInv, CurrentInv, StillPolled, Busy, Current
  <2>6. QED
    BY <2>1, <2>2, <2>3, <2>4, <2>5 DEF Next, Server
<1>2. Waits'
  BY WaitsKept DEF PoliteInv
<1>3. QED
  BY <1>1, <1>2 DEF Kept, PoliteInv

LEMMA InitKept ==
  ASSUME Init
  PROVE  PoliteInv /\ WokenInv /\ AnnouncedInv /\ CurrentInv
<1>1. pc = "sweep" /\ polls = {} /\ server = ZeroMemory
  BY DEF Init
<1>2. \A u \in Users : server.user[u] = ZeroUser
  BY <1>1 DEF ZeroMemory
<1>3. \A u \in Users, d \in Slots : server.dc[<<u, d>>] = ZeroData
  BY <1>1 DEF ZeroMemory, Channels
<1>4. \A s \in Sockets : server.sock[s].in = <<>>
  BY <1>1 DEF ZeroMemory, Closed
<1>5. Polite(server)
  <2>1. Short(server)
    BY <1>4 DEF Short
  <2>2. ASSUME NEW u \in Users PROVE PoliteSession(server, u)
    <3>1. ~Pending(server, u) /\ server.user[u].dlcommand = 0
      BY <1>2, <1>4 DEF Pending, ZeroUser
    <3>2. \A d \in Slots : /\ ~Live(server, u, d)
                           /\ ~server.dc[<<u, d>>].event /\ ~server.dc[<<u, d>>].close
      BY <1>3 DEF Live, ZeroData
    <3>3. \A d, k \in Slots : Live(server, u, d) /\ Live(server, u, k) => d = k
      BY <3>2
    <3>4. Idle(server, u)
      BY <3>2 DEF Idle
    <3>5. server.user[u].dlcommand # 1
      BY <3>1
    <3>6. QED
      BY <3>1, <3>2, <3>3, <3>4, <3>5 DEF PoliteSession
  <2>3. QED
    BY <2>1, <2>2 DEF Polite
<1>6. QED
  BY <1>1, <1>2, <1>3, <1>5
     DEF PoliteInv, Waits, WokenInv, AnnouncedInv, CurrentInv, Prompt, Live, ZeroUser, ZeroData

\* The two of them that hold whenever clients wait for their replies.
LEMMA PoliteAlways ==
  ASSUME "pipeline" \notin Faults
  PROVE  Spec => [](SlotsInv /\ PoliteInv /\ WokenInv)
<1>1. Init => PoliteInv /\ WokenInv
  BY InitKept
<1>2. SlotsInv /\ PoliteInv /\ WokenInv /\ [Next]_vars => PoliteInv' /\ WokenInv'
  BY NextKept DEF Kept
<1>3. QED
  BY <1>1, <1>2, SlotsCorrect, PTL DEF Spec

\* The server never goes to poll with a delayed command and nothing to send, where it
\* might sleep for ever.
THEOREM DelayedIsWoken ==
  ASSUME "pipeline" \notin Faults
  PROVE  Spec => []DelayedWoken
<1>1. SlotsInv /\ WokenInv => DelayedWoken
  <2>1. SlotsInv => server.userslots \subseteq Users
    BY DEF SlotsInv, TypeOK, Memories
  <2>2. QED
    BY <2>1 DEF WokenInv, Due, DelayedWoken
<1>2. QED
  BY <1>1, PoliteAlways, PTL

\* When every reply is taken at once, the server waits for a data connection only
\* after it has said so, and no session ends with an upload and an unsent reply.
LEMMA AnnouncedAlways ==
  ASSUME Faults \cap {"pipeline", "slow"} = {}
  PROVE  Spec => [](SlotsInv /\ PoliteInv /\ AnnouncedInv)
<1>1. "pipeline" \notin Faults /\ "slow" \notin Faults
  OBVIOUS
<1>2. Init => AnnouncedInv
  BY InitKept
<1>3. SlotsInv /\ PoliteInv /\ WokenInv /\ AnnouncedInv /\ [Next]_vars => AnnouncedInv'
  BY <1>1, NextKept DEF Kept
<1>4. Spec => [](SlotsInv /\ PoliteInv /\ WokenInv)
  BY <1>1, PoliteAlways
<1>5. QED
  BY <1>2, <1>3, <1>4, PTL DEF Spec

\* "Delayed command after send": a client that is to connect has been told so.  A
\* client that takes its replies late may be waited for in vain.
THEOREM SentFirst ==
  ASSUME Faults \cap {"pipeline", "slow"} = {}
  PROVE  Spec => []SentBeforeWait
<1>1. SlotsInv /\ PoliteInv /\ AnnouncedInv => SentBeforeWait
  BY DEF SlotsInv, InControl, PoliteInv, AnnouncedInv, SentBeforeWait
<1>2. QED
  BY <1>1, AnnouncedAlways, PTL

\* No end of a session replies into the buffer it has freed.
THEOREM BuffersSafe ==
  ASSUME Faults \cap {"pipeline", "slow"} = {}
  PROVE  Spec => []NoUseAfterFree
<1>1. SlotsInv /\ PoliteInv /\ AnnouncedInv => NoUseAfterFree
  <2> SUFFICES ASSUME SlotsInv, PoliteInv, AnnouncedInv, NEW u \in server.userslots,
                      NEW c \in server.dataslots, c[1] = u, server.dc[c].close
               PROVE  ~server.user[u].sendbuf
    BY DEF NoUseAfterFree, UseAfterFree
  <2>1. u \in Users /\ c = <<u, c[2]>> /\ c[2] \in Slots
    BY DEF SlotsInv, TypeOK, Memories, Channels
  <2>2. Live(server, u, c[2])
    BY <2>1 DEF PoliteInv, Polite, PoliteSession
  <2>3. QED
    BY <2>1, <2>2 DEF AnnouncedInv, Prompt
<1>2. QED
  BY <1>1, AnnouncedAlways, PTL

\* Every entry of a poll is handled for the connection that was polled, although the
\* entries handled before it open and close sessions and channels, and take the
\* connections of others where a close is wild.
THEOREM PollStaysCurrent ==
  ASSUME Faults \cap {"crowd", "handles", "pipeline"} = {}
  PROVE  Spec => []PolledCurrent
<1>1. "pipeline" \notin Faults /\ Faults \cap {"crowd", "handles"} = {}
  OBVIOUS
<1>2. Init => CurrentInv
  BY InitKept
<1>3. SlotsInv /\ PoliteInv /\ WokenInv /\ CurrentInv /\ [Next]_vars => CurrentInv'
  BY <1>1, NextKept DEF Kept
<1>4. Spec => [](SlotsInv /\ PoliteInv /\ WokenInv)
  BY <1>1, PoliteAlways
<1>5. SlotsInv /\ CurrentInv => PolledCurrent
  <2> SUFFICES ASSUME SlotsInv, CurrentInv PROVE PolledCurrent
    OBVIOUS
  <2>1. ASSUME NEW e \in polls, e.slot # ControlSlot, <<e.user, e.slot>> \in server.dataslots
        PROVE  e.user \in server.userslots
    BY <2>1 DEF SlotsInv, TypeOK, Entries, FreeSlotsClean
  <2>2. QED
    BY <2>1 DEF SlotsInv, PolledOwned, CurrentInv, StillPolled, PolledCurrent
<1>6. QED
  BY <1>2, <1>3, <1>4, <1>5, PTL DEF Spec
=============================================================================
