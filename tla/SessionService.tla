--------------------------- MODULE SessionService ---------------------------
(***************************************************************************)
(* What the server loop of ftpd.c promises of sessions and data channels,  *)
(* without sockets, polls, buffers or replies.  A channel is offered       *)
(* (PORT or PASV), connected when a transfer needs it, and dropped; it     *)
(* lives inside an open session, steps in this order only, and one step    *)
(* concerns one session, if no close is wild.                              *)
(***************************************************************************)
CONSTANTS
  Users,
  Slots,
  Wild    \* whether a close can reach a channel of another session

VARIABLES
  sessions,   \* the open sessions
  channel     \* the state of every channel <<u, d>>

Channels == Users \X Slots
States == {"none", "active", "passive", "connected"}

TypeOK ==
  /\ sessions \subseteq Users
  /\ channel \in [Channels -> States]

Init ==
  /\ sessions = {}
  /\ channel = [c \in Channels |-> "none"]

Open(u) ==
  /\ u \notin sessions
  /\ sessions' = sessions \cup {u}
  /\ UNCHANGED channel

\* A session takes all of its channels with it.
Close(u) ==
  /\ u \in sessions
  /\ sessions' = sessions \ {u}
  /\ channel' = [c \in Channels |-> IF c[1] = u THEN "none" ELSE channel[c]]

Offer(u, d, kind) ==
  /\ u \in sessions /\ channel[<<u, d>>] = "none"
  /\ channel' = [channel EXCEPT ![<<u, d>>] = kind]
  /\ UNCHANGED sessions

Connect(u, d) ==
  /\ u \in sessions /\ channel[<<u, d>>] \in {"active", "passive"}
  /\ channel' = [channel EXCEPT ![<<u, d>>] = "connected"]
  /\ UNCHANGED sessions

\* A step may drop several channels, of one session.
Drop(u, D) ==
  /\ u \in sessions
  /\ channel' = [c \in Channels |-> IF c[1] = u /\ c[2] \in D THEN "none" ELSE channel[c]]
  /\ UNCHANGED sessions

\* A failed transfer of u drops its channel d, and a wild close takes the
\* connection of a channel of another session, which keeps its place.
Strike(u, d, c) ==
  /\ Wild /\ u \in sessions /\ c[1] # u
  /\ channel' = [[channel EXCEPT ![c] = IF @ = "none" THEN @ ELSE "active"] EXCEPT ![<<u, d>>] = "none"]
  /\ UNCHANGED sessions

Next ==
  \E u \in Users :
    \/ Open(u) \/ Close(u)
    \/ \E d \in Slots : Connect(u, d) \/ \E kind \in {"active", "passive"} : Offer(u, d, kind)
    \/ \E D \in SUBSET Slots : Drop(u, D)
    \/ \E d \in Slots, c \in Channels : Strike(u, d, c)

Spec == Init /\ [][Next]_<<sessions, channel>>

\* Channels belong to open sessions.
ChannelsInSessions == \A c \in Channels : channel[c] # "none" => c[1] \in sessions
=============================================================================
