----------------------------- MODULE ByteStream -----------------------------
(***************************************************************************)
(* What a connection's send buffer promises: a queue of bytes that leave   *)
(* in the order they were put in, each at most once, or are dropped        *)
(* together when the connection fails.  Bytes are numbered as they are put *)
(* in.                                                                     *)
(***************************************************************************)
EXTENDS Naturals, Sequences

CONSTANT Sizes   \* how many bytes one step may move

VARIABLES
  put,     \* bytes put in so far
  queue,   \* those that wait
  sent     \* those that left

\* The next len bytes behind byte n.
Fresh(n, len) == [i \in 1 .. len |-> n + i]

Init == put = 0 /\ queue = <<>> /\ sent = <<>>

Put(len) ==
  /\ put' = put + len
  /\ queue' = queue \o Fresh(put, len)
  /\ UNCHANGED sent

Take(n) ==
  /\ n \in 1 .. Len(queue)
  /\ sent' = sent \o SubSeq(queue, 1, n)
  /\ queue' = SubSeq(queue, n + 1, Len(queue))
  /\ UNCHANGED put

Drop ==
  /\ queue' = <<>>
  /\ UNCHANGED <<put, sent>>

Next == \E n \in Sizes : Put(n) \/ Take(n) \/ Drop

Spec == Init /\ [][Next]_<<put, queue, sent>>
=============================================================================
