----------------------------- MODULE SendBuffer -----------------------------
(***************************************************************************)
(* The send buffer of a conn_t: sendbuf, sendbufsize and sendbufoff, with  *)
(* ftpd_conn_send, which appends, and ftpd_conn_do_send, which sends a     *)
(* piece of at most 1024 bytes.                                            *)
(*                                                                         *)
(* `block' is the allocated memory.  A byte is the number of bytes that    *)
(* were appended before it and itself, so order and loss can be seen;      *)
(* Garbage is what is found behind the end of the block.                   *)
(***************************************************************************)
EXTENDS Integers, Sequences

CONSTANTS
  SendMax,               \* the 1024 of MIN(1024, sendbufsize)
  MaxText,               \* bound: the longest text appended at once
  MaxBytes,              \* bound: bytes appended in all
  AppendWhileDraining    \* text may be appended to a half-sent buffer

ASSUME SendMaxAssumption == SendMax \in Nat \ {0}
ASSUME TextAssumption == MaxText \in Nat \ {0} /\ MaxBytes \in Nat
ASSUME DrainingAssumption == AppendWhileDraining \in BOOLEAN

VARIABLES
  block,         \* the memory sendbuf points to, empty for NULL
  sendbufsize,   \* bytes still to be sent
  sendbufoff,    \* where in the block they begin
  put,           \* bytes appended so far
  sent           \* what went to the socket

vars == <<block, sendbufsize, sendbufoff, put, sent>>

Garbage == 0

SmallerOf(a, b) == IF a < b THEN a ELSE b

\* What send() reads: n bytes from the offset on, whatever the block holds there.
Read(n) ==
  [i \in 1 .. n |-> IF sendbufoff + i <= Len(block) THEN block[sendbufoff + i] ELSE Garbage]

TypeOK ==
  /\ block \in Seq(Nat) /\ sent \in Seq(Nat)
  /\ sendbufsize \in Nat /\ sendbufoff \in Nat /\ put \in Nat

\* ftpd_prepare_conn
Init ==
  /\ block = <<>> /\ sendbufsize = 0 /\ sendbufoff = 0
  /\ put = 0 /\ sent = <<>>

\* Mutant: the text goes in at the start of the block.
ConnSendAtStart(len) ==
  /\ put + len <= MaxBytes
  /\ block' = [i \in 1 .. sendbufsize + len |->
                 IF i <= len THEN put + i ELSE IF i <= Len(block) THEN block[i] ELSE Garbage]
  /\ sendbufsize' = sendbufsize + len
  /\ put' = put + len
  /\ UNCHANGED <<sendbufoff, sent>>

\* Mutant: the block is made len bytes long.
ConnSendShortBlock(len) ==
  /\ put + len <= MaxBytes
  /\ sendbufoff = 0
  /\ block' = [i \in 1 .. len |->
                 IF i <= sendbufsize THEN block[i] ELSE put + i - sendbufsize]
  /\ sendbufsize' = sendbufsize + len
  /\ put' = put + len
  /\ UNCHANGED <<sendbufoff, sent>>

\* ftpd_conn_send: the block is made sendbufsize + len bytes long, and the text
\* goes in at sendbufsize, not at sendbufoff + sendbufsize.
ConnSend(len) ==
  /\ put + len <= MaxBytes
  /\ sendbufoff = 0 \/ AppendWhileDraining
  /\ block' = [i \in 1 .. sendbufsize + len |->
                 IF i <= sendbufsize THEN block[i] ELSE put + i - sendbufsize]
  /\ sendbufsize' = sendbufsize + len
  /\ put' = put + len
  /\ UNCHANGED <<sendbufoff, sent>>

\* Mutant: the buffer is only reset when the connection fails.
DoSendNoReset(n) ==
  /\ n \in 1 .. SmallerOf(SendMax, sendbufsize)
  /\ sent' = sent \o Read(n)
  /\ sendbufsize' = sendbufsize - n
  /\ sendbufoff' = sendbufoff + n
  /\ UNCHANGED <<block, put>>

\* ftpd_conn_do_send when send() takes n bytes; the last ones free the block.
DoSend(n) ==
  /\ n \in 1 .. SmallerOf(SendMax, sendbufsize)
  /\ sent' = sent \o Read(n)
  /\ sendbufsize' = sendbufsize - n
  /\ sendbufoff' = IF n = sendbufsize THEN 0 ELSE sendbufoff + n
  /\ block' = IF n = sendbufsize THEN <<>> ELSE block
  /\ UNCHANGED put

\* ftpd_conn_do_send when send() fails: the transmission is given up.
SendFails ==
  /\ sendbufsize > 0
  /\ block' = <<>> /\ sendbufsize' = 0 /\ sendbufoff' = 0
  /\ UNCHANGED <<put, sent>>

Send == SendFails \/ \E n \in 1 .. SendMax : DoSend(n)

Next == (\E len \in 1 .. MaxText : ConnSend(len)) \/ Send

Spec == Init /\ [][Next]_vars

\* The loop calls ftpd_conn_do_send whenever the connection can be written.
FairSpec == Spec /\ WF_vars(Send)

-----------------------------------------------------------------------------
\* send() is never told to read behind the end of the allocated block.
ReadsInside == sendbufoff + sendbufsize <= Len(block)

\* "automatically send buffer each call until buffer end": what goes out are the
\* bytes put in, in their order, none twice and none made up.
SentInOrder ==
  /\ \A i \in 1 .. Len(sent) : sent[i] \in 1 .. put
  /\ \A i, j \in 1 .. Len(sent) : i < j => sent[i] < sent[j]

\* The buffer implements the byte stream.
Stream == INSTANCE ByteStream
            WITH Sizes <- 1 .. MaxText + SendMax,
                 queue <- [i \in 1 .. sendbufsize |->
                             IF sendbufoff + i <= Len(block) THEN block[sendbufoff + i] ELSE Garbage]

\* Every step of the buffer is a put, a take or a drop of the byte stream.
ImplementsStream == Stream!Spec

\* The buffer does not stay half sent: it is freed in the end.
Drains == (sendbufoff > 0) ~> (block = <<>>)
=============================================================================
