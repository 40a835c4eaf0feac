---------------------------- MODULE SlotsProofs -----------------------------
(***************************************************************************)
(* Slots that are not allocated stay clean, control entries of a poll      *)
(* belong to open sessions, and the server loop implements SessionService. *)
(* The argument of the code: only sessions in the table are handled, a     *)
(* clean slot has no connection a command could use and no callback a      *)
(* close could call, and both closes leave zero behind.                    *)
(*                                                                         *)
(* The functions on the memory come first.  Each of them leaves the free   *)
(* slots clean, and does nothing to the channels (Same), drops some of one *)
(* session (Keeps), offers one or connects one.                            *)
(***************************************************************************)
EXTENDS EventLoopProperties, EventLoopProofs

\* FreeSlotsClean of any memory.
Clean(m) ==
  /\ \A c \in Channels \ m.dataslots : m.dc[c] \in CleanData
  /\ \A u \in Users \ m.userslots :
       m.user[u] = ZeroUser /\ \A d \in Slots : <<u, d>> \notin m.dataslots

\* From memory m to memory n nothing happens to sessions and channels.
Same(m, n) ==
  /\ n \in Memories /\ Clean(n)
  /\ n.userslots = m.userslots
  /\ \A c \in Channels : ChannelState(n, c) = ChannelState(m, c)

\* The sessions stay, and the channels D of u are dropped.
Dropped(m, n, u, D) ==
  /\ n.userslots = m.userslots
  /\ \A c \in Channels :
       ChannelState(n, c) = IF c[1] = u /\ c[2] \in D THEN "none" ELSE ChannelState(m, c)

Keeps(m, n, u) ==
  /\ n \in Memories /\ Clean(n)
  /\ \E D \in SUBSET Slots : Dropped(m, n, u, D)

\* A channel d of u is dropped, and a wild close takes the connection of another
\* session's channel.
Struck(m, n, u) ==
  /\ "wild" \in Faults
  /\ n \in Memories /\ Clean(n)
  /\ n.userslots = m.userslots
  /\ \E d \in Slots, x \in Channels :
       /\ x[1] # u
       /\ \A c \in Channels :
            ChannelState(n, c) =
              IF c = <<u, d>> THEN "none"
              ELSE IF c = x /\ ChannelState(m, x) # "none" THEN "active" ELSE ChannelState(m, c)

\* FreeSlotsClean is about the memory of the server.
LEMMA CleanIsFreeSlotsClean == FreeSlotsClean <=> Clean(server)
  BY DEF FreeSlotsClean, Clean

\* What a memset leaves is clean.
LEMMA ZeroClean == ZeroData \in CleanData
  BY DEF CleanData, ZeroData, LeftBehind

\* A clean slot has no connection, is not connected and has no callback, and stays
\* clean when PASV fails for it.
LEMMA CleanDataFacts ==
  ASSUME NEW r \in CleanData
  PROVE  /\ r.conn \notin Sockets
         /\ r.type = "ACTIVE" /\ r.event = FALSE /\ r.close = FALSE
         /\ \A s \in LeftBehind : [r EXCEPT !.conn = NoSocket, !.lconn = s] \in CleanData
<1>1. NoSocket \notin Sockets
  BY SocketsAssumption DEF NoSocket
<1>2. r.conn = NoSocket /\ r.type = "ACTIVE" /\ r.event = FALSE /\ r.close = FALSE
  BY DEF CleanData
<1>3. \A s \in LeftBehind : [r EXCEPT !.conn = NoSocket, !.lconn = s] \in CleanData
  BY DEF CleanData
<1>4. QED
  BY <1>1, <1>2, <1>3

\* The state of channel <<u, d>> becomes `kind'.
Becomes(m, n, u, d, kind) ==
  /\ n \in Memories /\ Clean(n)
  /\ n.userslots = m.userslots
  /\ \A c \in Channels :
       ChannelState(n, c) = IF c = <<u, d>> THEN kind ELSE ChannelState(m, c)

\* The steps of SessionService that open and close no session.
Steps(m, n) ==
  \/ \E u \in Users : Keeps(m, n, u)
  \/ \E u \in Users, d \in Slots, kind \in {"active", "passive"} :
       ChannelState(m, <<u, d>>) = "none" /\ Becomes(m, n, u, d, kind)
  \/ \E u \in Users, d \in Slots :
       ChannelState(m, <<u, d>>) \in {"active", "passive"} /\ Becomes(m, n, u, d, "connected")
  \/ \E u \in m.userslots : Struck(m, n, u)

\* Several functions in sequence keep what each of them keeps.
LEMMA KeepsComposed ==
  ASSUME NEW m, NEW n, NEW p, NEW u, Keeps(m, n, u), Keeps(n, p, u)
  PROVE  Keeps(m, p, u)
<1>1. PICK D \in SUBSET Slots : Dropped(m, n, u, D)
  BY DEF Keeps
<1>2. PICK E \in SUBSET Slots : Dropped(n, p, u, E)
  BY DEF Keeps
<1>3. Dropped(m, p, u, D \cup E)
  BY <1>1, <1>2 DEF Dropped
<1>4. QED
  BY <1>3 DEF Keeps

\* To do nothing to the channels is to drop none.
LEMMA SameKeeps ==
  ASSUME NEW m, NEW n, Same(m, n), NEW u
  PROVE  Keeps(m, n, u)
<1>1. Dropped(m, n, u, {})
  BY DEF Same, Dropped
<1>2. QED
  BY <1>1 DEF Same, Keeps

\* What is done to the rest of the memory before and after a step changes nothing
\* about the step.
LEMMA SameComposed ==
  ASSUME NEW m, NEW n, NEW p
  PROVE  /\ Same(m, n) /\ Same(n, p) => Same(m, p)
         /\ Same(m, n) /\ Steps(n, p) => Steps(m, p)
         /\ Steps(m, n) /\ Same(n, p) => Steps(m, p)
<1>1. Same(m, n) /\ Same(n, p) => Same(m, p)
  BY DEF Same
<1>2. ASSUME Same(m, n), Steps(n, p) PROVE Steps(m, p)
  <2>1. ASSUME NEW u \in Users, Keeps(n, p, u) PROVE Keeps(m, p, u)
    BY <1>2, <2>1, SameKeeps, KeepsComposed
  <2>2. ASSUME NEW u \in Users, NEW d \in Slots, NEW kind
        PROVE  /\ ChannelState(m, <<u, d>>) = ChannelState(n, <<u, d>>)
               /\ Becomes(n, p, u, d, kind) => Becomes(m, p, u, d, kind)
    <3>1. <<u, d>> \in Channels
      BY DEF Channels
    <3>2. QED
      BY <1>2, <3>1 DEF Same, Becomes
  <2>3. ASSUME NEW u \in n.userslots, Struck(n, p, u) PROVE Struck(m, p, u) /\ u \in m.userslots
    BY <1>2, <2>3 DEF Same, Struck
  <2>4. QED
    BY <1>2, <2>1, <2>2, <2>3 DEF Steps
<1>3. ASSUME Steps(m, n), Same(n, p) PROVE Steps(m, p)
  <2>1. ASSUME NEW u \in Users, Keeps(m, n, u) PROVE Keeps(m, p, u)
    BY <1>3, <2>1, SameKeeps, KeepsComposed
  <2>2. ASSUME NEW u, NEW d, NEW kind, Becomes(m, n, u, d, kind) PROVE Becomes(m, p, u, d, kind)
    BY <1>3, <2>2 DEF Same, Becomes
  <2>3. ASSUME NEW u \in m.userslots, Struck(m, n, u) PROVE Struck(m, p, u)
    BY <1>3, <2>3 DEF Same, Struck
  <2>4. QED
    BY <1>3, <2>1, <2>2, <2>3 DEF Steps
<1>4. QED
  BY <1>1, <1>2, <1>3

\* A memory with the same tables, apart from the record of a session in use.
LEMMA SameTables ==
  ASSUME NEW m \in Memories, NEW n \in Memories, Clean(m),
         n.userslots = m.userslots, n.dataslots = m.dataslots, n.dc = m.dc,
         \A v \in Users \ m.userslots : n.user[v] = m.user[v]
  PROVE  Same(m, n)
<1>1. Clean(n)
  BY DEF Clean
<1>2. QED
  BY <1>1 DEF Same, ChannelState

\* Any change of the record of a session in use.
LEMMA SameUser ==
  ASSUME NEW m \in Memories, Clean(m), NEW u \in m.userslots, NEW r \in UserRecords
  PROVE  Same(m, [m EXCEPT !.user[u] = r])
<1> DEFINE n == [m EXCEPT !.user[u] = r]
<1>1. n \in Memories
  BY DEF Memories
<1>2. n.userslots = m.userslots /\ n.dataslots = m.dataslots /\ n.dc = m.dc
  BY DEF Memories
<1>3. \A v \in Users \ m.userslots : n.user[v] = m.user[v]
  BY DEF Memories
<1> HIDE DEF n
<1>4. Same(m, n)
  BY <1>1, <1>2, <1>3, SameTables
<1>5. QED
  BY <1>4 DEF n

\* Any change of the handles.
LEMMA SameSockets ==
  ASSUME NEW m \in Memories, Clean(m), NEW f \in [Sockets -> SocketRecords]
  PROVE  Same(m, [m EXCEPT !.sock = f])
<1> DEFINE n == [m EXCEPT !.sock = f]
<1>1. n \in Memories
  BY DEF Memories
<1>2. /\ n.userslots = m.userslots /\ n.dataslots = m.dataslots
      /\ n.dc = m.dc /\ n.user = m.user
  BY DEF Memories
<1> HIDE DEF n
<1>3. Same(m, n)
  BY <1>1, <1>2, SameTables
<1>4. QED
  BY <1>3 DEF n

\* Replies, refusals and the end a session asks for.
LEMMA ReplySame ==
  ASSUME NEW m \in Memories, Clean(m), NEW u \in m.userslots
  PROVE  Same(m, Reply(m, u)) /\ Same(m, Disconnect(m, u)) /\ Same(m, Refuse(m, u))
<1>1. m.user[u] \in UserRecords
  BY DEF Memories
<1>2. Same(m, Reply(m, u))
  BY <1>1, SameUser, UserChangeTyped DEF Reply
<1>3. Same(m, Disconnect(m, u))
  BY <1>1, SameUser, UserChangeTyped DEF Disconnect
<1>4. Same(m, Refuse(m, u))
  BY <1>1, SameUser, UserChangeTyped DEF Refuse
<1>5. QED
  BY <1>2, <1>3, <1>4

\* A channel is closed, whether it was allocated or not, and whether its session
\* is still there or not: the close callback of a free slot is not set.
LEMMA DataCloseKeeps ==
  ASSUME NEW m \in Memories, Clean(m), NEW u \in Users, NEW d \in Slots
  PROVE  Keeps(m, DataClose(m, u, d), u)
<1> DEFINE c == m.dc[<<u, d>>]
           called == IF c.close THEN Reply(m, u) ELSE m
           closed == CloseSockets(called, {c.conn, c.lconn})
<1>1. <<u, d>> \in Channels
  BY DEF Channels
<1>2. c.close => u \in m.userslots
  <2>1. SUFFICES ASSUME c.close PROVE u \in m.userslots
    OBVIOUS
  <2>2. <<u, d>> \in m.dataslots
    BY <1>1, <2>1, CleanDataFacts DEF Clean
  <2>3. QED
    BY <2>2 DEF Clean
<1>3. Keeps(m, called, u)
  BY <1>2, ReplySame, SameKeeps, SameTables
<1>4. called \in Memories /\ Clean(called)
  BY <1>3 DEF Keeps
<1>5. [s \in Sockets |-> IF s \in {c.conn, c.lconn} THEN Closed ELSE called.sock[s]]
        \in [Sockets -> SocketRecords]
  BY <1>4, SockTyped DEF Memories
<1>6. Keeps(called, closed, u)
  BY <1>4, <1>5, SameSockets, SameKeeps DEF CloseSockets
<1>7. Keeps(m, closed, u)
  BY <1>3, <1>6, KeepsComposed
<1>8. ASSUME NEW n \in Memories, Clean(n)
      PROVE  Keeps(n, [n EXCEPT !.dc[<<u, d>>] = ZeroData, !.dataslots = @ \ {<<u, d>>}], u)
  <2> DEFINE p == [n EXCEPT !.dc[<<u, d>>] = ZeroData, !.dataslots = @ \ {<<u, d>>}]
  <2>1. p \in Memories
    BY <1>1, <1>8, ZeroTyped DEF Memories
  <2>2. /\ p.userslots = n.userslots /\ p.user = n.user
        /\ p.dataslots = n.dataslots \ {<<u, d>>}
        /\ \A x \in Channels : p.dc[x] = IF x = <<u, d>> THEN ZeroData ELSE n.dc[x]
    BY <1>1, <1>8 DEF Memories
  <2> HIDE DEF p
  <2>3. Clean(p)
    BY <1>8, <2>2, ZeroClean DEF Clean
  <2>4. \A x \in Channels : x[1] = u /\ x[2] \in {d} <=> x = <<u, d>>
    BY DEF Channels
  <2>5. Dropped(n, p, u, {d})
    BY <2>2, <2>4 DEF Dropped, ChannelState
  <2>6. QED
    BY <2>1, <2>3, <2>5 DEF Keeps, p
<1>9. closed \in Memories /\ Clean(closed)
  BY <1>7 DEF Keeps
<1>10. DataClose(m, u, d) = [closed EXCEPT !.dc[<<u, d>>] = ZeroData, !.dataslots = @ \ {<<u, d>>}]
  BY DEF DataClose
<1> HIDE DEF c, called, closed
<1>11. QED
  BY <1>7, <1>8, <1>9, <1>10, KeepsComposed

\* It drops that channel.
LEMMA DataCloseDrops ==
  ASSUME NEW m \in Memories, NEW u \in Users, NEW d \in Slots
  PROVE  Dropped(m, DataClose(m, u, d), u, {d})
<1> DEFINE n == DataClose(m, u, d)
           called == IF m.dc[<<u, d>>].close THEN Reply(m, u) ELSE m
<1>1. called.userslots = m.userslots /\ called.dataslots = m.dataslots /\ called.dc = m.dc
  BY DEF Reply, Memories
<1>2. n = [CloseSockets(called, {m.dc[<<u, d>>].conn, m.dc[<<u, d>>].lconn}) EXCEPT
             !.dc[<<u, d>>] = ZeroData, !.dataslots = @ \ {<<u, d>>}]
  BY DEF DataClose
<1>3. m.dc = [c \in Channels |-> m.dc[c]]
  BY DEF Memories
<1> HIDE DEF called
<1>4. /\ n.userslots = m.userslots /\ n.dataslots = m.dataslots \ {<<u, d>>}
      /\ \A c \in Channels \ {<<u, d>>} : n.dc[c] = m.dc[c]
  BY <1>1, <1>2, <1>3 DEF CloseSockets
<1> HIDE DEF n
<1>5. \A c \in Channels : c[1] = u /\ c[2] \in {d} <=> c = <<u, d>>
  BY DEF Channels
<1>6. \A c \in Channels :
        ChannelState(n, c) = IF c[1] = u /\ c[2] \in {d} THEN "none" ELSE ChannelState(m, c)
  BY <1>4, <1>5 DEF ChannelState
<1>7. QED
  BY <1>4, <1>6 DEF Dropped, n

\* A wild close takes the connection of the channel, whoever has it.
LEMMA WildCloseTakes ==
  ASSUME NEW m \in Memories, Clean(m), NEW u \in m.userslots, NEW x \in Channels
  PROVE  LET n == WildClose(m, u, x) IN
         /\ n \in Memories /\ Clean(n) /\ n.userslots = m.userslots
         /\ \A c \in Channels :
              ChannelState(n, c) =
                IF c = x /\ ChannelState(m, x) # "none" THEN "active" ELSE ChannelState(m, c)
<1> DEFINE n == WildClose(m, u, x)
           called == IF m.dc[x].close THEN Reply(m, u) ELSE m
<1>1. u \in Users
  BY DEF Memories
<1>2. n \in Memories
  BY <1>1, WildCloseTyped
<1>3. Same(m, called)
  BY <1>1, ReplySame, SameTables
<1>4. called.userslots = m.userslots /\ called.dataslots = m.dataslots /\ called.dc = m.dc
  BY DEF Reply, Memories
<1>5. called \in Memories /\ Clean(called)
  BY <1>3 DEF Same
<1>6. n = [CloseSockets(called, {m.dc[x].conn, m.dc[x].lconn}) EXCEPT !.dc[x] = ZeroData]
  BY DEF WildClose
<1> HIDE DEF called
<1>7. /\ n.userslots = m.userslots /\ n.dataslots = m.dataslots /\ n.user = called.user
      /\ \A c \in Channels : n.dc[c] = IF c = x THEN ZeroData ELSE m.dc[c]
  BY <1>4, <1>5, <1>6 DEF CloseSockets, Memories
<1> HIDE DEF n
<1>8. Clean(n)
  BY <1>4, <1>5, <1>7, ZeroClean DEF Clean
<1>9. ZeroData.type = "ACTIVE"
  BY DEF ZeroData
<1>10. \A c \in Channels :
         ChannelState(n, c) =
           IF c = x /\ ChannelState(m, x) # "none" THEN "active" ELSE ChannelState(m, c)
  BY <1>7, <1>9 DEF ChannelState
<1>11. QED
  BY <1>2, <1>7, <1>8, <1>10 DEF n

\* One channel changes, and one session in use; the channel is allocated then.
LEMMA ChannelBecomes ==
  ASSUME NEW m \in Memories, Clean(m), NEW n \in Memories, NEW u \in m.userslots, NEW d \in Slots,
         n.userslots = m.userslots, n.dataslots = m.dataslots \cup {<<u, d>>},
         \A v \in Users \ {u} : n.user[v] = m.user[v],
         \A c \in Channels \ {<<u, d>>} : n.dc[c] = m.dc[c]
  PROVE  Becomes(m, n, u, d, ChannelState(n, <<u, d>>))
<1>1. \A c \in Channels : c # <<u, d>> => ChannelState(n, c) = ChannelState(m, c)
  BY DEF ChannelState
<1>2. \A c \in Channels \ n.dataslots : n.dc[c] \in CleanData
  BY DEF Clean
<1>3. ASSUME NEW v \in Users \ n.userslots PROVE n.user[v] = ZeroUser /\ \A k \in Slots : <<v, k>> \notin n.dataslots
  BY DEF Clean
<1>4. Clean(n)
  BY <1>2, <1>3 DEF Clean
<1>5. QED
  BY <1>1, <1>4 DEF Becomes

\* PORT and PASV offer a free channel.
LEMMA OpenBecomes ==
  ASSUME NEW m \in Memories, Clean(m), NEW u \in m.userslots, NEW d \in Slots, NEW s \in Handles
  PROVE  /\ Becomes(m, OpenActive(m, u, d, s), u, d, "active")
         /\ Becomes(m, OpenPassive(m, u, d, s), u, d, "passive")
<1>1. u \in Users /\ <<u, d>> \in Channels /\ m.dc[<<u, d>>] \in DataRecords
  BY DEF Memories, Channels
<1>2. Becomes(m, OpenActive(m, u, d, s), u, d, "active")
  <2> DEFINE n == OpenActive(m, u, d, s)
             r == [m.dc[<<u, d>>] EXCEPT !.conn = s, !.lconn = NoSocket, !.type = "ACTIVE",
                                         !.event = FALSE, !.close = FALSE]
  <2>1. n \in Memories
    BY <1>1, OpenChannelTyped
  <2>2. /\ n.userslots = m.userslots /\ n.dataslots = m.dataslots \cup {<<u, d>>}
        /\ n.dc = [m.dc EXCEPT ![<<u, d>>] = r]
        /\ \A v \in Users \ {u} : n.user[v] = m.user[v]
    BY DEF OpenActive, Memories
  <2>3. r.type = "ACTIVE"
    BY <1>1 DEF DataRecords
  <2> HIDE DEF n, r
  <2>4. n.dc[<<u, d>>] = r /\ \A c \in Channels \ {<<u, d>>} : n.dc[c] = m.dc[c]
    BY <1>1, <2>2 DEF Memories
  <2>5. ChannelState(n, <<u, d>>) = "active"
    BY <2>2, <2>3, <2>4 DEF ChannelState
  <2>6. Becomes(m, n, u, d, ChannelState(n, <<u, d>>))
    BY <2>1, <2>2, <2>4, ChannelBecomes
  <2>7. QED
    BY <2>5, <2>6 DEF n
<1>3. Becomes(m, OpenPassive(m, u, d, s), u, d, "passive")
  <2> DEFINE n == OpenPassive(m, u, d, s)
             r == [m.dc[<<u, d>>] EXCEPT !.conn = NoSocket, !.lconn = s, !.type = "PASSIVE",
                                         !.event = FALSE, !.close = FALSE]
  <2>1. n \in Memories
    BY <1>1, OpenChannelTyped
  <2>2. /\ n.userslots = m.userslots /\ n.dataslots = m.dataslots \cup {<<u, d>>}
        /\ n.dc = [m.dc EXCEPT ![<<u, d>>] = r]
        /\ \A v \in Users \ {u} : n.user[v] = m.user[v]
    BY DEF OpenPassive, Memories
  <2>3. r.type = "PASSIVE"
    BY <1>1 DEF DataRecords
  <2> HIDE DEF n, r
  <2>4. n.dc[<<u, d>>] = r /\ \A c \in Channels \ {<<u, d>>} : n.dc[c] = m.dc[c]
    BY <1>1, <2>2 DEF Memories
  <2>5. ChannelState(n, <<u, d>>) = "passive"
    BY <2>2, <2>3, <2>4 DEF ChannelState
  <2>6. Becomes(m, n, u, d, ChannelState(n, <<u, d>>))
    BY <2>1, <2>2, <2>4, ChannelBecomes
  <2>7. QED
    BY <2>5, <2>6 DEF n
<1>4. QED
  BY <1>2, <1>3

\* When PASV fails, the free slot that was chosen stays clean.
LEMMA FailPassiveSame ==
  ASSUME NEW m \in Memories, Clean(m), NEW u \in Users, NEW d \in Slots, <<u, d>> \notin m.dataslots,
         NEW s \in LeftBehind
  PROVE  Same(m, FailPassive(m, u, d, s))
<1> DEFINE n == FailPassive(m, u, d, s)
<1>1. <<u, d>> \in Channels /\ s \in Handles
  BY DEF Channels, Handles, LeftBehind
<1>2. n \in Memories
  BY <1>1, OpenChannelTyped
<1>3. /\ n.userslots = m.userslots /\ n.dataslots = m.dataslots /\ n.user = m.user
      /\ n.dc = [m.dc EXCEPT ![<<u, d>>] = [@ EXCEPT !.conn = NoSocket, !.lconn = s]]
  BY DEF FailPassive, Memories
<1>4. \A c \in Channels \ {<<u, d>>} : n.dc[c] = m.dc[c]
  BY <1>3 DEF Memories
<1>5. n.dc[<<u, d>>] \in CleanData
  <2>1. m.dc[<<u, d>>] \in CleanData
    BY <1>1 DEF Clean
  <2> DEFINE c == <<u, d>>
             r == [m.dc[c] EXCEPT !.conn = NoSocket, !.lconn = s]
  <2>2. c \in DOMAIN m.dc /\ n.dc = [m.dc EXCEPT ![c] = r]
    BY <1>1, <1>3 DEF Memories
  <2>3. r \in CleanData
    BY <2>1, CleanDataFacts
  <2> HIDE DEF n, c, r
  <2>4. n.dc[c] = r
    BY <2>2
  <2>5. QED
    BY <2>3, <2>4 DEF c
<1> HIDE DEF n
<1>6. Clean(n)
  BY <1>3, <1>4, <1>5 DEF Clean
<1>7. \A c \in Channels : ChannelState(n, c) = ChannelState(m, c)
  BY <1>3, <1>4 DEF ChannelState
<1>8. QED
  BY <1>2, <1>3, <1>6, <1>7 DEF Same, n

\* A transfer begins on the current channel of the session, which is connected then.
LEMMA BeginBecomes ==
  ASSUME NEW m \in Memories, Clean(m), NEW u \in m.userslots, NEW cmd,
         <<u, m.user[u].lastdc>> \in m.dataslots
  PROVE  Becomes(m, Begin(m, u, cmd), u, m.user[u].lastdc, "connected")
<1> DEFINE n == Begin(m, u, cmd)
           d == m.user[u].lastdc
           r == m.dc[<<u, d>>]
<1>1. u \in Users /\ d \in Slots /\ <<u, d>> \in Channels /\ r \in DataRecords
  BY DEF Memories, UserRecords, Channels
<1>2. n \in Memories
  BY <1>1, BeginTyped
<1>3. /\ n.userslots = m.userslots /\ n.dataslots = m.dataslots
      /\ n.dc = [m.dc EXCEPT ![<<u, d>>] = Begun(@, cmd)]
      /\ \A v \in Users \ {u} : n.user[v] = m.user[v]
  BY DEF Begin, Memories
<1>4. \A c \in Channels \ {<<u, d>>} : n.dc[c] = m.dc[c]
  BY <1>3 DEF Memories
<1>5. n.dc[<<u, d>>].type = "CONNECTED"
  <2>1. n.dc[<<u, d>>] = Begun(r, cmd)
    BY <1>1, <1>3 DEF Memories
  <2>2. Begun(r, cmd).type = "CONNECTED"
    BY <1>1 DEF Begun, DataRecords
  <2>3. QED
    BY <2>1, <2>2
<1> HIDE DEF n, d, r
<1>6. ChannelState(n, <<u, d>>) = "connected"
  BY <1>3, <1>5 DEF ChannelState, d
<1>7. n.dataslots = m.dataslots \cup {<<u, d>>}
  BY <1>3 DEF d
<1>8. Becomes(m, n, u, d, ChannelState(n, <<u, d>>))
  BY <1>1, <1>2, <1>3, <1>4, <1>7, ChannelBecomes
<1>9. QED
  BY <1>6, <1>8 DEF n, d

\* A channel in use is connected, and the transfer begins.
LEMMA ConnectBecomes ==
  ASSUME NEW m \in Memories, Clean(m), NEW u \in m.userslots, NEW cmd, NEW s \in Handles,
         <<u, m.user[u].lastdc>> \in m.dataslots
  PROVE  Becomes(m, Begin(Establish(m, u, m.user[u].lastdc, s), u, cmd), u, m.user[u].lastdc, "connected")
<1> DEFINE d == m.user[u].lastdc
           n == Establish(m, u, d, s)
<1>1. u \in Users /\ d \in Slots /\ <<u, d>> \in Channels /\ m.dc[<<u, d>>] \in DataRecords
  BY DEF Memories, UserRecords, Channels
<1>2. n \in Memories
  BY <1>1, EstablishTyped
<1>3. /\ n.userslots = m.userslots /\ n.dataslots = m.dataslots /\ n.user = m.user
      /\ n.dc = [m.dc EXCEPT ![<<u, d>>] = [@ EXCEPT !.conn = s, !.type = "CONNECTED"]]
  BY DEF Establish, Memories
<1>4. \A c \in Channels \ {<<u, d>>} : n.dc[c] = m.dc[c]
  BY <1>3 DEF Memories
<1> HIDE DEF n
<1>5. Becomes(m, n, u, d, ChannelState(n, <<u, d>>))
  <2>1. n.dataslots = m.dataslots \cup {<<u, d>>}
    BY <1>3
  <2>2. \A v \in Users \ {u} : n.user[v] = m.user[v]
    BY <1>3
  <2> HIDE DEF d
  <2>3. QED
    BY <1>1, <1>2, <1>3, <1>4, <2>1, <2>2, ChannelBecomes
<1>6. Becomes(n, Begin(n, u, cmd), u, d, "connected")
  <2>1. Clean(n) /\ u \in n.userslots /\ n.user[u].lastdc = d /\ <<u, d>> \in n.dataslots
    BY <1>3, <1>5 DEF Becomes
  <2>2. QED
    BY <1>2, <2>1, BeginBecomes
<1>7. QED
  BY <1>5, <1>6 DEF Becomes, n

\* What every step keeps, and that to change nothing is a step.
LEMMA StepsFacts ==
  ASSUME NEW m, NEW n
  PROVE  /\ Steps(m, n) => n \in Memories /\ Clean(n) /\ n.userslots = m.userslots
         /\ \A u \in Users : Keeps(m, n, u) => Steps(m, n)
         /\ Same(m, n) => Steps(m, n)
<1>1. 0 \in Users
  BY UsersAssumption DEF Users
<1>2. Steps(m, n) => n \in Memories /\ Clean(n) /\ n.userslots = m.userslots
  BY DEF Steps, Keeps, Dropped, Becomes, Struck
<1>3. Same(m, n) => Keeps(m, n, 0)
  BY SameKeeps
<1>4. QED
  BY <1>1, <1>2, <1>3 DEF Steps

\* A step and then a reply is a step.
LEMMA StepsReply ==
  ASSUME NEW m, NEW n, Steps(m, n), NEW u \in m.userslots
  PROVE  Steps(m, Reply(n, u)) /\ Steps(m, Refuse(n, u))
<1>1. n \in Memories /\ Clean(n) /\ u \in n.userslots
  BY StepsFacts
<1>2. Same(n, Reply(n, u)) /\ Same(n, Refuse(n, u))
  BY <1>1, ReplySame
<1>3. QED
  BY <1>2, SameComposed

\* A second stage that fails drops the current channel and perhaps another.
LEMMA StageFailsSteps ==
  ASSUME NEW e, NEW m \in Memories, Clean(m), e.user \in m.userslots, NEW cmd, NEW back,
         Same(server, m), server \in Memories, Clean(server), StageFails(e, m, cmd, back)
  PROVE  Steps(server, server') /\ polls' \subseteq polls
<1> DEFINE u == e.user
           c == DataClose(m, u, m.user[u].lastdc)
<1>1. u \in Users /\ m.user[u].lastdc \in Slots
  BY DEF Memories, UserRecords
<1>2. Keeps(m, c, u)
  BY <1>1, DataCloseKeeps
<1>3. c \in Memories /\ Clean(c)
  BY <1>2 DEF Keeps
<1>4. \A d \in Slots : Keeps(m, DataClose(c, u, d), u)
  BY <1>1, <1>2, <1>3, DataCloseKeeps, KeepsComposed
<1> HIDE DEF c
<1>5. Steps(m, Refuse(c, u)) /\ \A d \in Slots : Steps(m, Refuse(DataClose(c, u, d), u))
  BY <1>1, <1>2, <1>4, StepsFacts, StepsReply
<1>10. ASSUME "wild" \in Faults, NEW x \in Channels, x[1] > u
       PROVE  Steps(m, Refuse(WildClose(c, u, x), u))
  <2> DEFINE n == WildClose(c, u, x)
             d == m.user[u].lastdc
  <2>1. x[1] # u
    BY <1>1, <1>10 DEF Users
  <2>2. c.userslots = m.userslots
    BY <1>2 DEF Keeps, Dropped
  <2>3. /\ n \in Memories /\ Clean(n) /\ n.userslots = m.userslots
        /\ \A y \in Channels :
             ChannelState(n, y) =
               IF y = x /\ ChannelState(c, x) # "none" THEN "active" ELSE ChannelState(c, y)
    BY <1>3, <1>10, <2>2, WildCloseTakes
  <2>4. Dropped(m, c, u, {d})
    BY <1>1, DataCloseDrops DEF c
  <2>5. \A y \in Channels : y[1] = u /\ y[2] \in {d} <=> y = <<u, d>>
    BY DEF Channels
  <2> HIDE DEF n
  <2>6. \A y \in Channels : ChannelState(c, y) = IF y = <<u, d>> THEN "none" ELSE ChannelState(m, y)
    BY <2>4, <2>5 DEF Dropped
  <2>7. ChannelState(c, x) = ChannelState(m, x) /\ x # <<u, d>>
    BY <1>10, <2>1, <2>6
  <2>8. Struck(m, n, u)
    BY <1>1, <1>10, <2>1, <2>3, <2>6, <2>7 DEF Struck
  <2>9. Steps(m, n)
    BY <2>8 DEF Steps
  <2>10. QED
    BY <2>9, StepsReply DEF n
<1>6. Steps(server, server)
  BY SameTables, StepsFacts
<1>7. polls' \subseteq polls
  BY DEF StageFails, Resume
<1>8. \/ server' = server
      \/ server' = Refuse(c, u)
      \/ \E d \in Slots : server' = Refuse(DataClose(c, u, d), u)
      \/ "wild" \in Faults /\ \E x \in Channels : x[1] > u /\ server' = Refuse(WildClose(c, u, x), u)
  BY DEF StageFails, c
<1>9. QED
  BY <1>5, <1>6, <1>7, <1>8, <1>10, SameComposed

\* PORT offers a channel, or replies only.
LEMMA ExecPortSteps ==
  ASSUME NEW e, NEW m \in Memories, Clean(m), e.user \in m.userslots, NEW back, ExecPort(e, m, back)
  PROVE  Steps(m, server')
<1> DEFINE u == e.user
<1>1. u \in Users
  BY DEF Memories
<1>2. CASE server' = Reply(m, u)
  BY <1>2, ReplySame, StepsFacts
<1>3. ASSUME NEW d \in Slots, NEW s \in Sockets \cup {INVALID_SOCKET}, FirstFreeSlot(m, u, d)
      PROVE  Steps(m, Reply(OpenActive(m, u, d, s), u))
  <2>1. s \in Handles /\ <<u, d>> \notin m.dataslots
    BY <1>3 DEF Handles, FirstFreeSlot
  <2>2. ChannelState(m, <<u, d>>) = "none"
    BY <2>1 DEF ChannelState
  <2>3. Becomes(m, OpenActive(m, u, d, s), u, d, "active")
    BY <2>1, OpenBecomes
  <2>4. Steps(m, OpenActive(m, u, d, s))
    BY <1>1, <2>2, <2>3 DEF Steps
  <2>5. QED
    BY <2>4, StepsReply
<1>4. QED
  BY <1>2, <1>3 DEF ExecPort

\* PASV offers a channel, or replies only.
LEMMA ExecPasvSteps ==
  ASSUME NEW e, NEW m \in Memories, Clean(m), e.user \in m.userslots, NEW back, ExecPasv(e, m, back)
  PROVE  Steps(m, server')
<1> DEFINE u == e.user
<1>1. u \in Users
  BY DEF Memories
<1>2. CASE server' = Reply(m, u)
  BY <1>2, ReplySame, StepsFacts
<1>3. ASSUME NEW d \in Slots, NEW s \in Sockets \cup {INVALID_SOCKET}, FirstFreeSlot(m, u, d)
      PROVE  Steps(m, Reply(OpenPassive(m, u, d, s), u))
  <2>1. s \in Handles /\ <<u, d>> \notin m.dataslots
    BY <1>3 DEF Handles, FirstFreeSlot
  <2>2. ChannelState(m, <<u, d>>) = "none"
    BY <2>1 DEF ChannelState
  <2>3. Becomes(m, OpenPassive(m, u, d, s), u, d, "passive")
    BY <2>1, OpenBecomes
  <2>4. Steps(m, OpenPassive(m, u, d, s))
    BY <1>1, <2>2, <2>3 DEF Steps
  <2>5. QED
    BY <2>4, StepsReply
<1>4. ASSUME NEW d \in Slots, FirstFreeSlot(m, u, d), NEW s \in Sockets \cup {INVALID_SOCKET},
             s = INVALID_SOCKET \/ "bind" \in Faults
      PROVE  Steps(m, Reply(FailPassive(m, u, d, s), u))
  <2>1. Same(m, FailPassive(m, u, d, s))
    BY <1>1, <1>4, FailPassiveSame DEF FirstFreeSlot, LeftBehind
  <2>2. QED
    BY <2>1, StepsFacts, StepsReply
<1>5. QED
  BY <1>2, <1>3, <1>4 DEF ExecPasv

\* The second stage of a transfer finds its channel, if it is connected or can be,
\* in use: a clean slot has neither the type nor the handle for it.
LEMMA StageSteps ==
  ASSUME NEW m \in Memories, Clean(m), NEW u \in m.userslots, NEW cmd,
         NEW c, c = <<u, m.user[u].lastdc>>
  PROVE  /\ m.dc[c].type = "CONNECTED" => Steps(m, Begin(m, u, cmd))
         /\ m.dc[c].conn \in Sockets \/ m.dc[c].type = "PASSIVE" =>
              \A s \in Sockets : Steps(m, Begin(Establish(m, u, m.user[u].lastdc, s), u, cmd))
<1> DEFINE d == m.user[u].lastdc
<1>1. u \in Users /\ d \in Slots /\ c \in Channels
  BY DEF Memories, UserRecords, Channels
<1>2. m.dc[c].type \in {"CONNECTED", "PASSIVE"} \/ m.dc[c].conn \in Sockets => c \in m.dataslots
  BY <1>1, CleanDataFacts DEF Clean
<1>3. ASSUME NEW n, c \in m.dataslots, Becomes(m, n, u, d, "connected") PROVE Steps(m, n)
  <2>1. ChannelState(m, <<u, d>>) \in {"active", "passive", "connected"}
    BY <1>3 DEF ChannelState
  <2>2. CASE ChannelState(m, <<u, d>>) = "connected"
    <3>1. Same(m, n)
      BY <1>1, <1>3, <2>2 DEF Becomes, Same
    <3>2. QED
      BY <3>1, StepsFacts
  <2>3. CASE ChannelState(m, <<u, d>>) \in {"active", "passive"}
    BY <1>1, <1>3, <2>3 DEF Steps
  <2>4. QED
    BY <2>1, <2>2, <2>3
<1>4. c \in m.dataslots => Becomes(m, Begin(m, u, cmd), u, d, "connected")
  BY BeginBecomes
<1>5. ASSUME c \in m.dataslots, NEW s \in Sockets
      PROVE  Becomes(m, Begin(Establish(m, u, d, s), u, cmd), u, d, "connected")
  BY <1>5, ConnectBecomes DEF Handles
<1>6. QED
  BY <1>2, <1>3, <1>4, <1>5

\* Executing a command on memory m, which differs from the server's in no channel.
LEMMA ExecSteps ==
  ASSUME NEW e, NEW m, Same(server, m), server \in Memories, Clean(server),
         e.user \in server.userslots, NEW cmd, NEW back, Exec(e, m, cmd, back)
  PROVE  Steps(server, server') /\ polls' \subseteq polls
<1> DEFINE u == e.user
<1>1. m \in Memories /\ Clean(m) /\ u \in m.userslots /\ u \in Users
  BY DEF Same, Memories
<1>2. SUFFICES (Steps(m, server') /\ polls' \subseteq polls) \/ StageFails(e, m, cmd, back)
  BY <1>1, SameComposed, StageFailsSteps
<1>3. CASE ExecReply(e, m, back)
  BY <1>1, <1>3, ReplySame, StepsFacts DEF ExecReply, Resume
<1>4. CASE ExecQuit(e, m, back)
  BY <1>1, <1>4, ReplySame, StepsFacts DEF ExecQuit, Resume
<1>5. CASE ExecPort(e, m, back)
  <2>1. polls' \subseteq polls
    BY <1>5 DEF ExecPort, Resume
  <2>2. QED
    BY <1>1, <1>5, <2>1, ExecPortSteps
<1>6. CASE ExecPasv(e, m, back)
  <2>1. polls' \subseteq polls
    BY <1>6 DEF ExecPasv, Resume
  <2>2. QED
    BY <1>1, <1>6, <2>1, ExecPasvSteps
<1>7. CASE cmd \in Transfers /\ ExecFirstStage(e, m, cmd, back)
  <2>1. m.user[u] \in UserRecords
    BY <1>1 DEF Memories
  <2>2. [m.user[u] EXCEPT !.sendbuf = TRUE, !.dlcommand = 1, !.command = cmd] \in UserRecords
    BY <1>7, <2>1 DEF UserRecords, Transfers, AllCommands
  <2>3. Same(m, server')
    BY <1>1, <1>7, <2>2, SameUser DEF ExecFirstStage
  <2>4. QED
    BY <1>7, <2>3, StepsFacts DEF ExecFirstStage, Resume
<1>8. CASE ExecConnect(e, m, cmd, back)
  <2> DEFINE c == <<u, m.user[u].lastdc>>
             s == m.dc[c].conn
  <2>1. \/ StageFails(e, m, cmd, back)
        \/ /\ Peer(m, s).kind = "idle"
           /\ server' = Begin(Establish(m, u, m.user[u].lastdc, s), u, cmd)
           /\ polls' \subseteq polls
    BY <1>8 DEF ExecConnect, Resume
  <2>2. Peer(m, s).kind = "idle" => s \in Sockets
    BY DEF Peer, Closed
  <2>3. s \in Sockets => Steps(m, Begin(Establish(m, u, m.user[u].lastdc, s), u, cmd))
    BY <1>1, StageSteps
  <2> HIDE DEF s, c
  <2>4. QED
    BY <2>1, <2>2, <2>3
<1>9. CASE ExecConnected(e, m, cmd, back)
  <2>1. Steps(m, server')
    BY <1>1, <1>9, StageSteps DEF ExecConnected
  <2>2. QED
    BY <1>9, <2>1 DEF ExecConnected, Resume
<1>10. CASE ExecWait(e, m, back)
  BY <1>1, <1>10, SameTables, StepsFacts DEF ExecWait
<1>11. QED
  BY <1>3, <1>4, <1>5, <1>6, <1>7, <1>8, <1>9, <1>10 DEF Exec

\* Reading, overwriting the command and sending touch no channel.
LEMMA LineSame ==
  ASSUME NEW m \in Memories, Clean(m)
  PROVE  /\ \A s \in Sockets : m.sock[s].in # <<>> => Same(m, Take(m, s))
         /\ \A u \in m.userslots, cmd \in AllCommands : Same(m, Overwrite(m, u, cmd))
         /\ \A e \in Entries, more \in BOOLEAN :
              e.user \in m.userslots => Same(m, Sent(m, e, more))
<1>1. ASSUME NEW s \in Sockets, m.sock[s].in # <<>> PROVE Same(m, Take(m, s))
  <2> DEFINE n == Take(m, s)
  <2>1. n \in Memories
    BY <1>1, LineTyped
  <2>2. n.userslots = m.userslots /\ n.dataslots = m.dataslots /\ n.dc = m.dc /\ n.user = m.user
    BY DEF Take, Memories
  <2> HIDE DEF n
  <2>3. Same(m, n)
    BY <2>1, <2>2, SameTables
  <2>4. QED
    BY <2>3 DEF n
<1>2. ASSUME NEW u \in m.userslots, NEW cmd \in AllCommands PROVE Same(m, Overwrite(m, u, cmd))
  <2>1. u \in Users /\ m.user[u] \in UserRecords
    BY DEF Memories
  <2>2. [m.user[u] EXCEPT !.command = cmd] \in UserRecords
    BY <2>1 DEF UserRecords
  <2>3. Same(m, [m EXCEPT !.user[u] = [m.user[u] EXCEPT !.command = cmd]])
    BY <2>2, SameUser
  <2>4. [m EXCEPT !.user[u].command = cmd] = [m EXCEPT !.user[u] = [m.user[u] EXCEPT !.command = cmd]]
    BY <2>1 DEF Memories
  <2>5. QED
    BY <2>3, <2>4, SameTables DEF Overwrite
<1>3. ASSUME NEW e \in Entries, NEW more \in BOOLEAN, e.user \in m.userslots
      PROVE  Same(m, Sent(m, e, more))
  <2> DEFINE n == Sent(m, e, more)
  <2>1. n \in Memories
    BY LineTyped
  <2>2. /\ n.userslots = m.userslots /\ n.dataslots = m.dataslots /\ n.dc = m.dc
        /\ \A v \in Users \ m.userslots : n.user[v] = m.user[v]
    BY <1>3 DEF Sent, Memories
  <2> HIDE DEF n
  <2>3. Same(m, n)
    BY <2>1, <2>2, SameTables
  <2>4. QED
    BY <2>3 DEF n
<1>4. QED
  BY <1>1, <1>2, <1>3

\* A session that ends, and a session that is opened, has no channels then, and
\* nobody else's channels change.
Ends(m, n, u) ==
  /\ n \in Memories /\ Clean(n)
  /\ \A c \in Channels :
       ChannelState(n, c) = IF c[1] = u THEN "none" ELSE ChannelState(m, c)

\* The end of a session.
LEMMA CloseSessionEnds ==
  ASSUME NEW m \in Memories, Clean(m), NEW u \in m.userslots
  PROVE  Ends(m, CloseSession(m, u), u) /\ CloseSession(m, u).userslots = m.userslots \ {u}
<1>1. CloseSockets(m, Holdings(m, u)) \in Memories
  BY CloseSocketsTyped
<1>2. /\ CloseSockets(m, Holdings(m, u)).userslots = m.userslots
      /\ CloseSockets(m, Holdings(m, u)).dataslots = m.dataslots
      /\ CloseSockets(m, Holdings(m, u)).dc = m.dc
      /\ CloseSockets(m, Holdings(m, u)).user = m.user
  BY DEF CloseSockets, Memories
<1>3. ASSUME NEW k \in Memories, k.userslots = m.userslots, k.dataslots = m.dataslots,
             k.dc = m.dc, k.user = m.user
      PROVE  Ends(m, ClearSession(k, u), u) /\ ClearSession(k, u).userslots = m.userslots \ {u}
  <2> DEFINE n == ClearSession(k, u)
  <2>1. u \in Users
    BY DEF Memories
  <2>2. n \in Memories
    BY <1>3, <2>1, ZeroTyped DEF ClearSession, Memories
  <2>3. /\ n.userslots = m.userslots \ {u}
        /\ n.dataslots = {c \in m.dataslots : c[1] # u}
        /\ n.dc = [c \in Channels |-> IF c[1] = u THEN ZeroData ELSE m.dc[c]]
    BY <1>3 DEF ClearSession, Memories
  <2>4. n.user[u] = ZeroUser /\ \A v \in Users \ {u} : n.user[v] = m.user[v]
    BY <1>3, <2>1 DEF ClearSession, Memories
  <2> HIDE DEF n
  <2>5. \A c \in Channels \ n.dataslots : n.dc[c] \in CleanData
    BY <2>3, ZeroClean DEF Clean
  <2>6. ASSUME NEW v \in Users \ n.userslots
        PROVE  n.user[v] = ZeroUser /\ \A d \in Slots : <<v, d>> \notin n.dataslots
    BY <2>3, <2>4 DEF Clean
  <2>7. \A c \in Channels : ChannelState(n, c) = IF c[1] = u THEN "none" ELSE ChannelState(m, c)
    BY <2>3 DEF ChannelState
  <2>8. QED
    BY <2>2, <2>3, <2>5, <2>6, <2>7 DEF Ends, Clean, n
<1>4. QED
  BY <1>1, <1>2, <1>3 DEF CloseSession

\* A session in any slot: in a free one it finds no channels, in one that was taken
\* over it drops them.
LEMMA OpenSessionEnds ==
  ASSUME NEW m \in Memories, Clean(m), NEW u \in Users, NEW s \in Handles
  PROVE  Ends(m, OpenSession(m, u, s), u) /\ OpenSession(m, u, s).userslots = m.userslots \cup {u}
<1> DEFINE n == OpenSession(m, u, s)
<1>1. n \in Memories
  BY OpenSessionTyped
<1>2. /\ n.userslots = m.userslots \cup {u}
      /\ n.dataslots = {c \in m.dataslots : c[1] # u}
      /\ n.dc = [c \in Channels |-> IF c[1] = u THEN ZeroData ELSE m.dc[c]]
      /\ \A v \in Users \ {u} : n.user[v] = m.user[v]
  BY DEF OpenSession, Memories
<1> HIDE DEF n
<1>3. \A c \in Channels \ n.dataslots : n.dc[c] \in CleanData
  BY <1>2, ZeroClean DEF Clean
<1>4. ASSUME NEW v \in Users \ n.userslots
      PROVE  n.user[v] = ZeroUser /\ \A d \in Slots : <<v, d>> \notin n.dataslots
  BY <1>2 DEF Clean
<1>5. \A c \in Channels : ChannelState(n, c) = IF c[1] = u THEN "none" ELSE ChannelState(m, c)
  BY <1>2 DEF ChannelState
<1>6. QED
  BY <1>1, <1>2, <1>3, <1>4, <1>5 DEF Ends, Clean, n

-----------------------------------------------------------------------------
\* The steps of the server and the clients.  Each of them is a step of
\* SessionService, or none, and keeps the invariant.

channels == [c \in Channels |-> ChannelState(server, c)]

Refines == [Service!Next]_<<server.userslots, channels>>

\* A step that opens and closes no session.
LEMMA StepsRefine ==
  ASSUME server \in Memories, Clean(server), Steps(server, server')
  PROVE  Refines
<1> DEFINE m == server
           n == server'
<1>1. n \in Memories /\ Clean(n) /\ n.userslots = m.userslots
  BY StepsFacts
<1>2. \A u \in Users, d \in Slots : <<u, d>> \in Channels
  BY DEF Channels
<1>3. ASSUME NEW u \in Users \ m.userslots, NEW c \in Channels, c[1] = u
      PROVE  ChannelState(m, c) = "none"
  <2>1. c = <<u, c[2]>> /\ c[2] \in Slots
    BY <1>3 DEF Channels
  <2>2. QED
    BY <2>1 DEF Clean, ChannelState
<1>4. ASSUME NEW u \in Users, Keeps(m, n, u) PROVE Refines
  <2>1. PICK D \in SUBSET Slots : Dropped(m, n, u, D)
    BY <1>4 DEF Keeps
  <2>2. CASE u \in m.userslots
    <3>1. channels' = [c \in Channels |-> IF c[1] = u /\ c[2] \in D THEN "none" ELSE channels[c]]
      BY <2>1 DEF Dropped, channels
    <3>2. Service!Drop(u, D)
      BY <1>1, <2>2, <3>1 DEF Service!Drop, Service!Channels, Channels, channels
    <3>3. QED
      BY <3>2 DEF Refines, Service!Next
  <2>3. CASE u \notin m.userslots
    <3>1. channels' = channels
      BY <1>3, <2>1, <2>3 DEF Dropped, channels
    <3>2. QED
      BY <1>1, <3>1 DEF Refines
  <2>4. QED
    BY <2>2, <2>3
<1>5. ASSUME NEW u \in Users, NEW d \in Slots, NEW kind, Becomes(m, n, u, d, kind), kind # "none"
      PROVE  /\ u \in m.userslots
             /\ channels' = [channels EXCEPT ![<<u, d>>] = kind]
             /\ channels[<<u, d>>] = ChannelState(m, <<u, d>>)
  <2>1. ChannelState(n, <<u, d>>) # "none"
    BY <1>2, <1>5 DEF Becomes
  <2>2. u \in n.userslots
    BY <1>1, <2>1 DEF ChannelState, Clean
  <2>3. channels' = [channels EXCEPT ![<<u, d>>] = kind]
    BY <1>5 DEF Becomes, channels
  <2>4. QED
    BY <1>1, <1>2, <2>2, <2>3 DEF channels
<1>6. ASSUME NEW u \in Users, NEW d \in Slots, NEW kind \in {"active", "passive"},
             ChannelState(m, <<u, d>>) = "none", Becomes(m, n, u, d, kind)
      PROVE  Refines
  <2>1. Service!Offer(u, d, kind)
    BY <1>1, <1>5, <1>6 DEF Service!Offer, channels
  <2>2. QED
    BY <2>1 DEF Refines, Service!Next
<1>7. ASSUME NEW u \in Users, NEW d \in Slots,
             ChannelState(m, <<u, d>>) \in {"active", "passive"}, Becomes(m, n, u, d, "connected")
      PROVE  Refines
  <2>1. Service!Connect(u, d)
    BY <1>1, <1>5, <1>7 DEF Service!Connect, channels
  <2>2. QED
    BY <2>1 DEF Refines, Service!Next
<1>8. ASSUME NEW u \in m.userslots, Struck(m, n, u) PROVE Refines
  <2>1. PICK d \in Slots, x \in Channels :
          /\ x[1] # u
          /\ \A c \in Channels :
               ChannelState(n, c) =
                 IF c = <<u, d>> THEN "none"
                 ELSE IF c = x /\ ChannelState(m, x) # "none" THEN "active" ELSE ChannelState(m, c)
    BY <1>8 DEF Struck
  <2>2. u \in Users
    BY <1>8 DEF Memories
  <2>3. channels' = [[channels EXCEPT ![x] = IF @ = "none" THEN @ ELSE "active"] EXCEPT ![<<u, d>>] = "none"]
    BY <1>2, <2>1, <2>2 DEF channels
  <2>4. Service!Strike(u, d, x)
    BY <1>1, <1>8, <2>1, <2>3 DEF Struck, Service!Strike, channels
  <2>5. QED
    BY <2>1, <2>2, <2>4 DEF Refines, Service!Next, Service!Channels, Channels
<1>9. QED
  BY <1>4, <1>6, <1>7, <1>8 DEF Steps

\* SlotsInv with the cleanness of free slots stated of the memory.
LEMMA InvParts ==
  /\ SlotsInv <=> TypeOK /\ Clean(server) /\ PolledOwned /\ PolledOnce /\ InControl
  /\ SlotsInv' <=> TypeOK' /\ Clean(server') /\ PolledOwned' /\ PolledOnce' /\ InControl'
  BY DEF SlotsInv, FreeSlotsClean, Clean

\* What is left of a poll stays right when no session ends.
LEMMA PollsKept ==
  ASSUME PolledOwned, PolledOnce, polls' \subseteq polls, server.userslots \subseteq server'.userslots
  PROVE  PolledOwned' /\ PolledOnce'
  BY DEF PolledOwned, PolledOnce

\* Control stays in a control entry until the entry is done.
LEMMA InControlKept ==
  ASSUME TypeOK, PolledOnce, NEW e \in polls, Current(e), e.slot = ControlSlot,
         pc' \in {"sweep", "crashed"} \/ polls' = polls,
         pc' \in {"accept", "acceptInRecv"} =>
           server'.dc[<<e.user, server'.user[e.user].lastdc>>].type = "PASSIVE"
  PROVE  InControl'
<1>1. \A f \in polls : f.user \in Int /\ f.slot \in Int
  BY UsersAssumption, ChannelsAssumption DEF TypeOK, Entries, Users, Slots, ControlSlot
<1>2. ASSUME NEW f \in polls, \A g \in polls : f.user < g.user \/ (f.user = g.user /\ f.slot <= g.slot)
      PROVE  f = e
  <2>1. f.user = e.user /\ f.slot = e.slot
    BY <1>1, <1>2 DEF Current
  <2>2. QED
    BY <2>1 DEF PolledOnce
<1>3. CASE polls' = polls
  BY <1>2, <1>3 DEF InControl, Current
<1>4. CASE pc' \in {"sweep", "crashed"}
  BY <1>4 DEF InControl
<1>5. QED
  BY <1>3, <1>4

\* A command that is executed leaves control where it was, or ends the entry, and
\* waits for passive channels only.
LEMMA ExecControl ==
  ASSUME NEW e, NEW m, NEW cmd, NEW back \in {"sweep", "recv"}, Exec(e, m, cmd, back)
  PROVE  /\ pc' \in {"sweep", "crashed"} \/ polls' = polls
         /\ pc' \in {"accept", "acceptInRecv"} =>
              server'.dc[<<e.user, server'.user[e.user].lastdc>>].type = "PASSIVE"
<1>1. Resume(e, back) => pc' = "sweep" \/ (pc' = "recv" /\ polls' = polls)
  BY DEF Resume
<1>2. StageFails(e, m, cmd, back) => pc' \in {"sweep", "crashed"} \/ (pc' = "recv" /\ polls' = polls)
  BY <1>1 DEF StageFails
<1>3. CASE ExecWait(e, m, back)
  BY <1>3 DEF ExecWait
<1>4. CASE pc' \in {"sweep", "crashed"} \/ (pc' = "recv" /\ polls' = polls)
  BY <1>4
<1>5. QED
  BY <1>1, <1>2, <1>3, <1>4 DEF Exec, ExecReply, ExecQuit, ExecPort, ExecPasv, ExecFirstStage,
     ExecConnect, ExecConnected

\* A step that opens and closes no session, in all.
LEMMA StepsPreserve ==
  ASSUME SlotsInv, TypeOK', InControl', Steps(server, server'), polls' \subseteq polls
  PROVE  SlotsInv' /\ Refines
<1>1. server \in Memories /\ Clean(server) /\ PolledOwned /\ PolledOnce
  BY InvParts DEF TypeOK
<1>2. Refines
  BY <1>1, StepsRefine
<1>3. Clean(server') /\ server'.userslots = server.userslots
  BY StepsFacts
<1>4. PolledOwned' /\ PolledOnce'
  BY <1>1, <1>3, PollsKept
<1>5. QED
  BY <1>2, <1>3, <1>4, InvParts

\* The poll takes its entries from the tables.
LEMMA PollPreserves ==
  ASSUME SlotsInv, Poll
  PROVE  SlotsInv' /\ Refines
<1>1. TypeOK'
  BY PollTyped DEF SlotsInv
<1>2. server \in Memories /\ Clean(server)
  BY InvParts DEF TypeOK
<1>3. server' = server
  BY DEF Poll
<1>4. PICK ready \in Readiness(server) : polls' \subseteq Snapshot(server, ready)
  BY DEF Poll
<1>5. \A e \in Snapshot(server, ready) :
        \/ /\ e.slot = ControlSlot /\ e.user \in server.userslots
           /\ e = [user |-> e.user, slot |-> ControlSlot, fd |-> server.user[e.user].control,
                   revents |-> ControlEvents(server, e.user, ready)]
        \/ /\ e.slot \in Slots
           /\ e = [user |-> e.user, slot |-> e.slot, fd |-> server.dc[<<e.user, e.slot>>].conn,
                   revents |-> DataEvents(server, e.user, e.slot, ready)]
  <2>1. ASSUME NEW c \in Connected(server) PROVE c = <<c[1], c[2]>> /\ c[2] \in Slots
    BY <1>2 DEF Connected, Memories, Channels
  <2>2. QED
    BY <2>1 DEF Snapshot
<1>6. ControlSlot \notin Slots
  BY DEF ControlSlot, Slots
<1>7. PolledOwned'
  BY <1>3, <1>4, <1>5, <1>6 DEF PolledOwned
<1>8. PolledOnce'
  <2>1. ASSUME NEW e \in Snapshot(server, ready), NEW f \in Snapshot(server, ready),
               e.user = f.user, e.slot = f.slot
        PROVE  e = f
    <3>1. CASE e.slot = ControlSlot
      BY <1>5, <1>6, <2>1, <3>1
    <3>2. CASE e.slot # ControlSlot
      BY <1>5, <1>6, <2>1, <3>2
    <3>3. QED
      BY <3>1, <3>2
  <2>2. QED
    BY <1>4, <2>1 DEF PolledOnce
<1>9. Refines
  BY <1>3 DEF Refines, channels
<1>10. InControl'
  BY DEF Poll, InControl
<1>11. QED
  BY <1>1, <1>2, <1>3, <1>7, <1>8, <1>9, <1>10, InvParts

\* A session that is opened.
LEMMA ListenerPreserves ==
  ASSUME SlotsInv, Listener
  PROVE  SlotsInv' /\ Refines
<1>1. TypeOK' /\ polls' = polls /\ InControl'
  BY ListenerTyped DEF SlotsInv, Listener, InControl
<1>2. server \in Memories /\ Clean(server) /\ PolledOwned /\ PolledOnce
  BY InvParts DEF TypeOK
<1>3. PICK u \in Users \ server.userslots :
        Ends(server, server', u) /\ server'.userslots = server.userslots \cup {u}
  <2>1. PICK s \in Sockets \cup {INVALID_SOCKET}, u \in Users :
          FirstFreeUser(server, u) /\ server' = OpenSession(server, u, s)
    BY DEF Listener
  <2>2. QED
    BY <1>2, <2>1, OpenSessionEnds DEF Handles, FirstFreeUser
<1>4. PolledOwned' /\ PolledOnce'
  BY <1>1, <1>2, <1>3, PollsKept
<1>5. channels' = channels
  <2>1. \A c \in Channels : c[1] = u => ChannelState(server, c) = "none"
    <3>1. \A c \in Channels : c = <<c[1], c[2]>> /\ c[2] \in Slots
      BY DEF Channels
    <3>2. QED
      BY <1>2, <1>3, <3>1 DEF Clean, ChannelState
  <2>2. QED
    BY <1>3, <2>1 DEF Ends, channels
<1>6. Service!Open(u)
  BY <1>3, <1>5 DEF Service!Open, channels
<1>7. QED
  BY <1>1, <1>3, <1>4, <1>6, InvParts DEF Ends, Refines, Service!Next

\* A client that finds all slots taken takes one over, or ends the process.
LEMMA ListenerFullPreserves ==
  ASSUME SlotsInv, ListenerFull
  PROVE  SlotsInv' /\ Refines
<1>1. TypeOK' /\ polls' \subseteq polls /\ InControl'
  BY ListenerTyped DEF SlotsInv, ListenerFull, InControl
<1>2. server \in Memories /\ Clean(server) /\ server.userslots = Users
  BY InvParts DEF TypeOK, ListenerFull, UsersFull
<1>3. CASE server' = server
  BY <1>1, <1>2, <1>3, SameTables, StepsFacts, StepsPreserve
<1>4. ASSUME NEW s \in Sockets \cup {INVALID_SOCKET}, NEW u \in Users,
             server' = OpenSession(server, u, s)
      PROVE  SlotsInv' /\ Refines
  <2>1. Ends(server, server', u) /\ server'.userslots = server.userslots
    <3>1. s \in Handles
      BY DEF Handles
    <3>2. /\ Ends(server, OpenSession(server, u, s), u)
          /\ OpenSession(server, u, s).userslots = server.userslots \cup {u}
      BY <1>2, <3>1, OpenSessionEnds
    <3>3. QED
      BY <1>2, <1>4, <3>2
  <2>2. \A c \in Channels : c[2] \in Slots
    BY DEF Channels
  <2>3. Dropped(server, server', u, Slots)
    BY <2>1, <2>2 DEF Ends, Dropped
  <2>4. Steps(server, server')
    BY <2>1, <2>3 DEF Ends, Keeps, Steps
  <2>5. QED
    BY <1>1, <2>4, StepsPreserve
<1>5. QED
  BY <1>3, <1>4 DEF ListenerFull

\* A command line is read and executed.
LEMMA RecvLinePreserves ==
  ASSUME SlotsInv, RecvLine
  PROVE  SlotsInv' /\ Refines
<1>1. TypeOK' /\ server \in Memories /\ Clean(server)
  BY RecvLineTyped, InvParts DEF SlotsInv, TypeOK
<1>2. SUFFICES /\ Steps(server, server') /\ polls' \subseteq polls
                /\ InControl'
  BY <1>1, StepsPreserve
<1>3. PICK e \in polls :
        LET s == server.user[e.user].control
            line == Head(server.sock[s].in)
            m == Take(server, s)
        IN /\ Reading(e)
           /\ s \in Sockets /\ server.sock[s].in # <<>>
           /\ \/ /\ line \in AllCommands
                 /\ Exec(e, Overwrite(m, e.user, line), line, "recv")
              \/ /\ line = "PART"
                 /\ \E text \in Commands : server' = Overwrite(m, e.user, text)
                 /\ Resume(e, "recv")
              \/ /\ line = "BLANK"
                 /\ server' = m /\ Resume(e, "flush")
              \/ /\ line = "LONG"
                 /\ server' = Disconnect(m, e.user) /\ Resume(e, "flush")
  BY DEF RecvLine
<1> DEFINE s == server.user[e.user].control
           line == Head(server.sock[s].in)
           m == Take(server, s)
<1>4. e.user \in server.userslots /\ Current(e) /\ e.slot = ControlSlot
  BY <1>3 DEF Reading, SlotsInv, PolledOwned
<1>5. Same(server, m)
  BY <1>1, <1>3, LineSame
<1>6. m \in Memories /\ Clean(m) /\ e.user \in m.userslots
  BY <1>4, <1>5 DEF Same
<1>7. \A cmd \in AllCommands : Same(server, Overwrite(m, e.user, cmd))
  BY <1>5, <1>6, LineSame, SameComposed
<1>8. Same(server, Disconnect(m, e.user))
  BY <1>5, <1>6, ReplySame, SameComposed
<1> HIDE DEF m, line, s
<1>9. CASE line \in AllCommands /\ Exec(e, Overwrite(m, e.user, line), line, "recv")
  BY <1>1, <1>4, <1>7, <1>9, ExecSteps, ExecControl, InControlKept DEF SlotsInv
<1>10. CASE (\E text \in Commands : server' = Overwrite(m, e.user, text)) /\ Resume(e, "recv")
  BY <1>4, <1>7, <1>10, StepsFacts, CommandsAssumption, InControlKept DEF Resume, SlotsInv
<1>11. CASE server' = m /\ Resume(e, "flush")
  BY <1>4, <1>5, <1>11, StepsFacts, InControlKept DEF Resume, SlotsInv
<1>12. CASE server' = Disconnect(m, e.user) /\ Resume(e, "flush")
  BY <1>4, <1>8, <1>12, StepsFacts, InControlKept DEF Resume, SlotsInv
<1>13. QED
  BY <1>3, <1>9, <1>10, <1>11, <1>12 DEF m, line, s

\* The end of a control entry, and of its session perhaps.
LEMMA FlushPreserves ==
  ASSUME SlotsInv, Flush
  PROVE  SlotsInv' /\ Refines
<1>1. /\ TypeOK' /\ server \in Memories /\ Clean(server)
      /\ PolledOwned /\ PolledOnce /\ InControl'
  BY FlushTyped, InvParts DEF SlotsInv, TypeOK, Flush, Resume, InControl
<1>2. PICK e \in polls, more \in Partly :
        LET m == Sent(server, e, more)
            over == "HUP" \in e.revents \/ m.user[e.user].disconnected
        IN /\ ReadOver(e)
           /\ \/ /\ server' = IF over THEN CloseSession(m, e.user) ELSE m
                 /\ Resume(e, "sweep")
              \/ /\ over /\ UseAfterFree(m, e.user)
                 /\ pc' = "crashed" /\ UNCHANGED <<server, polls>>
  BY DEF Flush
<1> DEFINE m == Sent(server, e, more)
           u == e.user
<1>3. e \in Entries /\ more \in BOOLEAN /\ e.slot = ControlSlot
  BY <1>2 DEF SlotsInv, TypeOK, Partly, ReadOver
<1>4. u \in server.userslots /\ u \in Users
  BY <1>1, <1>3 DEF PolledOwned, Memories
<1>5. Same(server, m)
  BY <1>1, <1>3, <1>4, LineSame
<1>6. m \in Memories /\ Clean(m) /\ u \in m.userslots /\ m.userslots = server.userslots
  BY <1>4, <1>5 DEF Same
<1> HIDE DEF m
<1>7. CASE server' = server /\ polls' = polls
  BY <1>1, <1>7, SameTables, StepsFacts, StepsPreserve
<1>8. CASE server' = m /\ polls' = polls \ {e}
  BY <1>1, <1>5, <1>8, StepsFacts, StepsPreserve
<1>9. CASE server' = CloseSession(m, u) /\ polls' = polls \ {e}
  <2>1. Ends(m, server', u) /\ server'.userslots = server.userslots \ {u}
    BY <1>6, <1>9, CloseSessionEnds
  <2>2. \A f \in polls' : f.slot = ControlSlot => f.user \in server.userslots /\ f.user # u
    BY <1>1, <1>3, <1>9 DEF PolledOwned, PolledOnce
  <2>3. PolledOwned' /\ PolledOnce'
    BY <1>1, <1>9, <2>1, <2>2 DEF PolledOwned, PolledOnce
  <2>4. channels' = [c \in Channels |-> IF c[1] = u THEN "none" ELSE channels[c]]
    BY <1>5, <2>1 DEF Ends, Same, channels
  <2>5. Service!Close(u)
    BY <1>4, <2>1, <2>4 DEF Service!Close, Service!Channels, Channels, channels
  <2>6. QED
    BY <1>1, <1>4, <2>1, <2>3, <2>5, InvParts DEF Ends, Refines, Service!Next
<1>10. QED
  BY <1>2, <1>7, <1>8, <1>9 DEF m, Resume

\* A delayed command is executed.
LEMMA DelayedPreserves ==
  ASSUME SlotsInv, Delayed
  PROVE  SlotsInv' /\ Refines
<1>1. TypeOK' /\ server \in Memories /\ Clean(server)
  BY DelayedTyped, InvParts DEF SlotsInv, TypeOK
<1>2. PICK e \in polls, more \in Partly :
        /\ Current(e) /\ e.slot = ControlSlot
        /\ Exec(e, Sent(server, e, more), server.user[e.user].command, "sweep")
  BY DEF Delayed
<1>3. e \in Entries /\ more \in BOOLEAN /\ e.user \in server.userslots
  BY <1>2 DEF SlotsInv, TypeOK, Partly, PolledOwned
<1>4. Same(server, Sent(server, e, more))
  BY <1>1, <1>3, LineSame
<1>5. Steps(server, server') /\ polls' \subseteq polls
  BY <1>1, <1>2, <1>3, <1>4, ExecSteps
<1>6. InControl'
  BY <1>2, ExecControl, InControlKept DEF SlotsInv
<1>7. QED
  BY <1>1, <1>5, <1>6, StepsPreserve

\* The wait for a data connection ends.
LEMMA AcceptDataPreserves ==
  ASSUME SlotsInv, AcceptData
  PROVE  SlotsInv' /\ Refines
<1>1. TypeOK' /\ server \in Memories /\ Clean(server)
  BY AcceptDataTyped, InvParts DEF SlotsInv, TypeOK
<1> DEFINE back == IF pc = "accept" THEN "sweep" ELSE "recv"
<1>2. PICK e \in polls :
        LET u == e.user
            d == server.user[u].lastdc
            cmd == server.user[u].command
            l == Peer(server, server.dc[<<u, d>>].lconn)
        IN /\ Current(e)
           /\ \/ /\ l.kind = "knocked"
                 /\ \E s \in Sockets : server' = Begin(Establish(server, u, d, s), u, cmd)
                 /\ Resume(e, back)
              \/ StageFails(e, server, cmd, back)
  BY DEF AcceptData
<1> DEFINE u == e.user
           d == server.user[u].lastdc
           cmd == server.user[u].command
           c == <<u, d>>
<1>3. e.slot = ControlSlot /\ u \in server.userslots
  BY <1>2 DEF AcceptData, SlotsInv, InControl, PolledOwned
<1>4. server.dc[c].type = "PASSIVE"
  BY <1>2 DEF AcceptData, SlotsInv, InControl
<1>5. \A s \in Sockets : Steps(server, Begin(Establish(server, u, d, s), u, cmd))
  BY <1>1, <1>3, <1>4, StageSteps
<1>6. StageFails(e, server, cmd, back) => Steps(server, server') /\ polls' \subseteq polls
  <2>1. Same(server, server)
    BY <1>1, SameTables
  <2>2. QED
    BY <1>1, <1>3, <2>1, StageFailsSteps
<1>7. Steps(server, server') /\ polls' \subseteq polls
  BY <1>2, <1>5, <1>6 DEF Resume
<1>8. pc' \in {"sweep", "crashed"} \/ (pc' = "recv" /\ polls' = polls)
  BY <1>2 DEF Resume, StageFails
<1>9. InControl'
  BY <1>2, <1>3, <1>8, InControlKept DEF SlotsInv
<1>10. QED
  BY <1>1, <1>7, <1>9, StepsPreserve

\* An entry of a data connection, whose session or channel may be gone.
LEMMA ProcessDataPreserves ==
  ASSUME SlotsInv, ProcessData
  PROVE  SlotsInv' /\ Refines
<1>1. TypeOK' /\ server \in Memories /\ Clean(server) /\ InControl'
  BY ProcessDataTyped, InvParts DEF SlotsInv, TypeOK, ProcessData, Resume, InControl
<1>2. PICK e \in polls, eof \in BOOLEAN, last \in BOOLEAN :
        /\ e.slot # ControlSlot
        /\ server' = AfterHup(AfterSend(AfterRecv(server, e, eof), e, last), e)
        /\ polls' \subseteq polls
  BY DEF ProcessData, Resume
<1> DEFINE u == e.user
           d == e.slot
           m1 == AfterRecv(server, e, eof)
           m2 == AfterSend(m1, e, last)
           m3 == AfterHup(m2, e)
<1>3. u \in Users /\ d \in Slots /\ <<u, d>> \in Channels
  BY <1>2 DEF SlotsInv, TypeOK, Entries, Channels
<1>4. ASSUME NEW m \in Memories, Clean(m)
      PROVE  /\ Keeps(m, m, u)
             /\ Keeps(m, DataClose(m, u, d), u)
             /\ m.dc[<<u, d>>].event => Keeps(m, DataClose(Reply(m, u), u, d), u)
  <2>1. Keeps(m, m, u) /\ Keeps(m, DataClose(m, u, d), u)
    BY <1>3, <1>4, SameTables, SameKeeps, DataCloseKeeps
  <2>2. ASSUME m.dc[<<u, d>>].event PROVE Keeps(m, DataClose(Reply(m, u), u, d), u)
    <3>1. <<u, d>> \in m.dataslots
      BY <1>3, <1>4, <2>2, CleanDataFacts DEF Clean
    <3>2. u \in m.userslots
      BY <1>3, <1>4, <3>1 DEF Clean
    <3>3. Same(m, Reply(m, u))
      BY <1>4, <3>2, ReplySame
    <3>4. Keeps(Reply(m, u), DataClose(Reply(m, u), u, d), u)
      BY <1>3, <3>3, DataCloseKeeps DEF Same
    <3>5. QED
      BY <3>3, <3>4, SameKeeps, KeepsComposed
  <2>3. QED
    BY <2>1, <2>2
<1>5. Keeps(server, m1, u)
  BY <1>1, <1>4 DEF AfterRecv
<1>6. Keeps(m1, m2, u)
  <2>1. m1 \in Memories /\ Clean(m1)
    BY <1>5 DEF Keeps
  <2> HIDE DEF m1
  <2>2. QED
    BY <1>4, <2>1 DEF AfterSend
<1>7. Keeps(m2, m3, u)
  <2>1. m2 \in Memories /\ Clean(m2)
    BY <1>6 DEF Keeps
  <2> HIDE DEF m2
  <2>2. QED
    BY <1>4, <2>1 DEF AfterHup
<1> HIDE DEF m1, m2, m3
<1>8. Steps(server, m3)
  BY <1>3, <1>5, <1>6, <1>7, KeepsComposed, StepsFacts
<1>9. QED
  BY <1>1, <1>2, <1>8, StepsPreserve DEF m1, m2, m3

\* The clients touch handles only.
LEMMA ClientsPreserve ==
  ASSUME SlotsInv, Clients
  PROVE  SlotsInv' /\ Refines
<1>1. TypeOK' /\ server \in Memories /\ Clean(server)
  BY ClientsTyped, InvParts DEF SlotsInv, TypeOK
<1>2. pc' = pc /\ polls' = polls
  BY DEF Clients, Connect, GiveUp, ClientSend, ClientClose, Knock, KnockGivenUp
<1>4. /\ server'.userslots = server.userslots /\ server'.dataslots = server.dataslots
      /\ server'.dc = server.dc /\ server'.user = server.user
  BY <1>1 DEF Clients, Connect, GiveUp, ClientSend, ClientClose, Knock, KnockGivenUp, Memories
<1>5. InControl'
  BY <1>2, <1>4 DEF SlotsInv, InControl, Current
<1>6. Same(server, server')
  BY <1>1, <1>4, SameTables DEF TypeOK
<1>7. QED
  BY <1>1, <1>2, <1>5, <1>6, StepsFacts, StepsPreserve

-----------------------------------------------------------------------------
\* At the start there is nothing to be clean.
LEMMA InitSlots == Init => SlotsInv /\ Service!Init
<1>1. SUFFICES ASSUME Init PROVE SlotsInv /\ Service!Init
  OBVIOUS
<1>2. TypeOK
  BY <1>1, InitTyped
<1>3. Clean(server)
  BY <1>1, ZeroClean DEF Init, ZeroMemory, Clean
<1>4. PolledOwned /\ PolledOnce /\ InControl
  BY <1>1 DEF Init, PolledOwned, PolledOnce, InControl
<1>5. \A c \in Channels : ChannelState(server, c) = "none"
  BY <1>1 DEF Init, ZeroMemory, ChannelState
<1>6. Service!Init
  BY <1>1, <1>5 DEF Init, ZeroMemory, Service!Init, Service!Channels, Channels
<1>7. QED
  BY <1>2, <1>3, <1>4, <1>6, InvParts

\* Every step keeps the invariant and is one of SessionService, or none.
LEMMA NextSlots ==
  ASSUME SlotsInv, [Next]_vars
  PROVE  SlotsInv' /\ Refines
<1>1. CASE Server
  BY <1>1, PollPreserves, ListenerPreserves, ListenerFullPreserves, RecvLinePreserves,
     FlushPreserves, DelayedPreserves, AcceptDataPreserves, ProcessDataPreserves DEF Server
<1>2. CASE Clients
  BY <1>2, ClientsPreserve
<1>3. CASE UNCHANGED vars
  <2>1. Refines
    BY <1>3 DEF vars, Refines, channels
  <2>2. TypeOK' /\ FreeSlotsClean' /\ PolledOwned' /\ PolledOnce' /\ InControl'
    BY <1>3 DEF vars, SlotsInv, TypeOK, FreeSlotsClean, PolledOwned, PolledOnce, InControl, Current
  <2>3. QED
    BY <2>1, <2>2 DEF SlotsInv
<1>4. QED
  BY <1>1, <1>2, <1>3 DEF Next

\* Free slots are clean and control entries belong to open sessions, for all sizes
\* of the tables and all faults: a slot that was given back by ftpd_data_close or
\* ftpd_close_session keeps nothing of its last owner, whatever stale entries of the
\* poll are handled afterwards.
THEOREM SlotsCorrect == Spec => []SlotsInv /\ []FreeSlotsClean
<1>1. Init => SlotsInv
  BY InitSlots
<1>2. SlotsInv /\ [Next]_vars => SlotsInv'
  BY NextSlots
<1>3. SlotsInv => FreeSlotsClean
  BY DEF SlotsInv
<1>4. QED
  BY <1>1, <1>2, <1>3, PTL DEF Spec

\* Channels belong to open sessions: the bit of a channel is never set without the
\* bit of its session, so no handle can hide in a slot that nobody closes.
COROLLARY ChannelsOwned == Spec => []Service!ChannelsInSessions
<1>1. Clean(server) => Service!ChannelsInSessions
  <2>1. SUFFICES ASSUME Clean(server), NEW c \in Channels, ChannelState(server, c) # "none"
                 PROVE  c[1] \in server.userslots
    BY DEF Service!ChannelsInSessions, Service!Channels, Channels
  <2>2. c = <<c[1], c[2]>> /\ c[1] \in Users /\ c[2] \in Slots
    BY DEF Channels
  <2>3. c \in server.dataslots
    BY <2>1 DEF ChannelState
  <2>4. QED
    BY <2>1, <2>2, <2>3 DEF Clean
<1>2. FreeSlotsClean => Service!ChannelsInSessions
  BY <1>1, CleanIsFreeSlotsClean
<1>3. QED
  BY <1>2, SlotsCorrect, PTL

\* The loop implements the abstract sessions and channels: channels are opened in
\* open sessions only, connected once, and closed with their session, and no step
\* concerns the channels of two sessions but that of a transfer that failed and
\* whose wild close meets a channel of another session.
THEOREM LoopImplementsService == Spec => ImplementsService
<1>1. Init => SlotsInv /\ Service!Init
  BY InitSlots
<1>2. SlotsInv /\ [Next]_vars => SlotsInv' /\ Refines
  BY NextSlots
<1>3. QED
  BY <1>1, <1>2, PTL DEF Spec, ImplementsService, Service!Spec, Refines, channels
=============================================================================
