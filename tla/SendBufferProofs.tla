-------------------------- MODULE SendBufferProofs --------------------------
(***************************************************************************)
(* The send buffer reads inside its block and sends every byte at most     *)
(* once, in order, for texts and pieces of any size, as long as nothing is *)
(* appended to a half-sent buffer.  The invariant says where in the block  *)
(* which byte lies.                                                        *)
(***************************************************************************)
EXTENDS SendBuffer, SequenceTheorems, TLAPS

\* The block ends where the unsent bytes end.
Filled == sendbufoff + sendbufsize = Len(block)

\* The unsent bytes are the last ones put in, in order.
Waiting ==
  /\ sendbufsize <= put
  /\ \A i \in 1 .. sendbufsize : block[sendbufoff + i] = put - sendbufsize + i

\* The bytes sent come before those, and in order.
Gone ==
  /\ \A i \in 1 .. Len(sent) : sent[i] \in 1 .. put - sendbufsize
  /\ \A i, j \in 1 .. Len(sent) : i < j => sent[i] < sent[j]

Inv == TypeOK /\ Filled /\ Waiting /\ Gone

\* What send() reads is what waits.
LEMMA ReadWaiting ==
  ASSUME Inv, NEW n \in 0 .. sendbufsize
  PROVE  /\ Read(n) = [i \in 1 .. n |-> put - sendbufsize + i]
         /\ Read(n) \in Seq(Nat) /\ Len(Read(n)) = n
<1>1. n \in Nat /\ sendbufsize \in Nat /\ sendbufoff \in Nat /\ put \in Nat
  BY DEF Inv, TypeOK
<1>2. \A i \in 1 .. n : sendbufoff + i <= Len(block) /\ block[sendbufoff + i] = put - sendbufsize + i
  BY <1>1 DEF Inv, Filled, Waiting
<1>3. Read(n) = [i \in 1 .. n |-> put - sendbufsize + i]
  BY <1>2 DEF Read
<1>4. \A i \in 1 .. n : put - sendbufsize + i \in Nat
  BY <1>1 DEF Inv, Waiting
<1>5. QED
  BY <1>1, <1>3, <1>4

\* Text that is appended goes behind what waits.
LEMMA ConnSendKeeps ==
  ASSUME Inv, AppendWhileDraining = FALSE, NEW len \in 1 .. MaxText, ConnSend(len)
  PROVE  Inv'
<1>1. /\ len \in Nat /\ sendbufsize \in Nat /\ put \in Nat /\ sendbufoff = 0 /\ sendbufoff' = 0
      /\ block \in Seq(Nat) /\ Len(block) = sendbufsize /\ sent' = sent
      /\ sendbufsize' = sendbufsize + len /\ put' = put + len
      /\ block' = [i \in 1 .. sendbufsize + len |->
                     IF i <= sendbufsize THEN block[i] ELSE put + i - sendbufsize]
  BY TextAssumption DEF Inv, TypeOK, Filled, ConnSend
<1>2. \A i \in 1 .. sendbufsize + len : block'[i] \in Nat
  BY <1>1
<1>3. block' \in Seq(Nat) /\ Len(block') = sendbufsize + len
  BY <1>1, <1>2
<1>4. TypeOK' /\ Filled'
  BY <1>1, <1>3 DEF Inv, TypeOK, Filled
<1>5. Waiting'
  BY <1>1 DEF Inv, Waiting
<1>6. Gone'
  BY <1>1 DEF Inv, Gone
<1>7. QED
  BY <1>4, <1>5, <1>6 DEF Inv

\* A piece that is sent comes from the front of what waits.
LEMMA DoSendKeeps ==
  ASSUME Inv, NEW n \in 1 .. SendMax, DoSend(n)
  PROVE  Inv'
<1>1. /\ n \in Nat /\ n \in 1 .. sendbufsize /\ sendbufsize \in Nat /\ sendbufoff \in Nat
      /\ put \in Nat /\ put' = put /\ sent \in Seq(Nat) /\ block \in Seq(Nat)
      /\ sendbufsize' = sendbufsize - n
  BY SendMaxAssumption DEF Inv, TypeOK, DoSend, SmallerOf
<1>2. /\ Read(n) = [i \in 1 .. n |-> put - sendbufsize + i]
      /\ Read(n) \in Seq(Nat) /\ Len(Read(n)) = n
  BY <1>1, ReadWaiting
<1>3. sent' = sent \o Read(n)
  BY DEF DoSend
<1>4. /\ sent' \in Seq(Nat) /\ Len(sent') = Len(sent) + n
      /\ \A i \in 1 .. Len(sent) : sent'[i] = sent[i]
      /\ \A i \in 1 .. n : sent'[Len(sent) + i] = put - sendbufsize + i
  BY <1>1, <1>2, <1>3
<1>5. \/ n = sendbufsize /\ sendbufsize' = 0 /\ sendbufoff' = 0 /\ block' = <<>>
      \/ n < sendbufsize /\ sendbufoff' = sendbufoff + n /\ block' = block
  BY <1>1 DEF DoSend
<1>6. TypeOK' /\ Filled'
  <2>1. /\ n \in Int /\ sendbufsize \in Int /\ sendbufoff \in Int /\ n <= sendbufsize
        /\ sendbufsize' = sendbufsize - n /\ sendbufoff + sendbufsize = Len(block)
    BY <1>1 DEF Inv, Filled
  <2>2. sendbufsize' \in Nat /\ sendbufoff' \in Nat
    BY <1>1, <1>5
  <2>3. CASE sendbufsize' = 0 /\ sendbufoff' = 0 /\ block' = <<>>
    BY <1>1, <1>4, <2>2, <2>3 DEF TypeOK, Filled
  <2>4. CASE sendbufoff' = sendbufoff + n /\ block' = block
    <3>1. sendbufoff' + sendbufsize' = Len(block')
      BY <2>1, <2>4
    <3>2. QED
      BY <1>1, <1>4, <2>2, <2>4, <3>1 DEF TypeOK, Filled
  <2>5. QED
    BY <1>5, <2>3, <2>4
<1>7. Waiting'
  <2>1. sendbufsize' <= put'
    BY <1>1 DEF Inv, Waiting
  <2>2. ASSUME NEW i \in 1 .. sendbufsize', n < sendbufsize, sendbufoff' = sendbufoff + n, block' = block
        PROVE  block'[sendbufoff' + i] = put' - sendbufsize' + i
    <3>1. n + i \in 1 .. sendbufsize /\ sendbufoff + n + i = sendbufoff + (n + i)
      BY <1>1
    <3>2. block[sendbufoff + (n + i)] = put - sendbufsize + (n + i)
      BY <3>1 DEF Inv, Waiting
    <3>3. QED
      BY <1>1, <2>2, <3>1, <3>2
  <2>3. QED
    BY <1>1, <1>5, <2>1, <2>2 DEF Waiting
<1>8. Gone'
  <2>1. \A i \in Len(sent) + 1 .. Len(sent) + n : sent'[i] = put - sendbufsize + (i - Len(sent))
    <3>1. \A i \in Len(sent) + 1 .. Len(sent) + n : i - Len(sent) \in 1 .. n /\ i = Len(sent) + (i - Len(sent))
      BY <1>1
    <3>2. QED
      BY <1>4, <3>1
  <2>2. Len(sent) \in Nat /\ sendbufsize <= put
    BY <1>1 DEF Inv, Waiting
  <2>3. \A i \in 1 .. Len(sent) : sent'[i] \in 1 .. put - sendbufsize
    BY <1>4 DEF Inv, Gone
  <2>4. ASSUME NEW i \in 1 .. Len(sent') PROVE sent'[i] \in 1 .. put' - sendbufsize'
    <3>1. CASE i \in 1 .. Len(sent)
      BY <1>1, <2>2, <2>3, <3>1
    <3>2. CASE i \in Len(sent) + 1 .. Len(sent) + n
      BY <1>1, <2>1, <2>2, <3>2
    <3>3. QED
      BY <1>1, <1>4, <2>2, <3>1, <3>2
  <2>5. ASSUME NEW i \in 1 .. Len(sent'), NEW j \in 1 .. Len(sent'), i < j PROVE sent'[i] < sent'[j]
    <3>1. CASE j \in 1 .. Len(sent)
      <4>1. i \in 1 .. Len(sent)
        BY <1>1, <1>4, <2>2, <2>5, <3>1
      <4>2. sent[i] < sent[j]
        BY <2>5, <3>1, <4>1 DEF Inv, Gone
      <4>3. QED
        BY <1>4, <3>1, <4>1, <4>2
    <3>2. CASE i \in 1 .. Len(sent) /\ j \in Len(sent) + 1 .. Len(sent) + n
      BY <1>1, <2>1, <2>2, <2>3, <3>2
    <3>3. CASE i \in Len(sent) + 1 .. Len(sent) + n /\ j \in Len(sent) + 1 .. Len(sent) + n
      BY <1>1, <2>1, <2>2, <2>5, <3>3
    <3>4. QED
      BY <1>1, <1>4, <2>2, <2>5, <3>1, <3>2, <3>3
  <2>6. QED
    BY <2>4, <2>5 DEF Gone
<1>9. QED
  BY <1>6, <1>7, <1>8 DEF Inv

\* A buffer that is given up is empty.
LEMMA SendFailsKeeps ==
  ASSUME Inv, SendFails
  PROVE  Inv'
<1>1. TypeOK' /\ Filled'
  BY DEF Inv, TypeOK, Filled, SendFails
<1>2. Waiting' /\ Gone'
  BY DEF Inv, TypeOK, Waiting, Gone, SendFails
<1>3. QED
  BY <1>1, <1>2 DEF Inv

\* send() never reads behind the block, and what goes out are the bytes put in,
\* once and in order, for every size of texts and pieces, if nothing is appended
\* to a half-sent buffer.
THEOREM BufferCorrect ==
  AppendWhileDraining = FALSE => (Spec => []ReadsInside /\ []SentInOrder)
<1>1. SUFFICES ASSUME AppendWhileDraining = FALSE PROVE Spec => []ReadsInside /\ []SentInOrder
  OBVIOUS
<1>2. Init => Inv
  BY DEF Init, Inv, TypeOK, Filled, Waiting, Gone
<1>3. Inv /\ [Next]_vars => Inv'
  <2>1. SUFFICES ASSUME Inv, [Next]_vars PROVE Inv'
    OBVIOUS
  <2>2. CASE UNCHANGED vars
    BY <2>1, <2>2 DEF vars, Inv, TypeOK, Filled, Waiting, Gone
  <2>3. QED
    BY <1>1, <2>1, <2>2, ConnSendKeeps, DoSendKeeps, SendFailsKeeps DEF Next, Send
<1>4. Inv => ReadsInside /\ SentInOrder
  BY DEF Inv, TypeOK, Filled, Waiting, Gone, ReadsInside, SentInOrder
<1>5. QED
  BY <1>2, <1>3, <1>4, PTL DEF Spec

-----------------------------------------------------------------------------
\* The refinement: what waits is the queue of the byte stream.

waiting ==
  [i \in 1 .. sendbufsize |->
     IF sendbufoff + i <= Len(block) THEN block[sendbufoff + i] ELSE Garbage]

Refines == [Stream!Next]_<<put, waiting, sent>>

\* The queue, spelled out.
Queue ==
  /\ waiting = [i \in 1 .. sendbufsize |-> put - sendbufsize + i]
  /\ waiting \in Seq(Nat) /\ Len(waiting) = sendbufsize

\* What waits is the queue, before and after every step.
LEMMA WaitingQueue == Inv => Queue
<1>1. SUFFICES ASSUME Inv PROVE Queue
  OBVIOUS
<1>2. sendbufsize \in 0 .. sendbufsize
  BY <1>1 DEF Inv, TypeOK
<1>3. waiting = Read(sendbufsize)
  BY DEF waiting, Read
<1>4. QED
  BY <1>1, <1>2, <1>3, ReadWaiting DEF Queue

\* Text that is appended is put into the stream.
LEMMA ConnSendRefines ==
  ASSUME Inv, Inv', NEW len \in 1 .. MaxText, ConnSend(len)
  PROVE  Refines
<1>1. /\ len \in Nat /\ sendbufsize \in Nat /\ put \in Nat /\ put' = put + len
      /\ sendbufsize' = sendbufsize + len /\ sent' = sent
  BY TextAssumption DEF Inv, TypeOK, ConnSend
<1>2. /\ waiting = [i \in 1 .. sendbufsize |-> put - sendbufsize + i]
      /\ waiting \in Seq(Nat) /\ Len(waiting) = sendbufsize
  BY WaitingQueue DEF Queue
<1>3. /\ waiting' = [i \in 1 .. sendbufsize' |-> put' - sendbufsize' + i]
      /\ waiting' \in Seq(Nat) /\ Len(waiting') = sendbufsize'
  <2>1. Queue'
    BY WaitingQueue, PTL
  <2>2. QED
    BY <2>1 DEF Queue
<1>4. /\ Stream!Fresh(put, len) = [i \in 1 .. len |-> put + i]
      /\ Stream!Fresh(put, len) \in Seq(Nat) /\ Len(Stream!Fresh(put, len)) = len
  BY <1>1 DEF Stream!Fresh
<1> DEFINE q == waiting \o Stream!Fresh(put, len)
<1>5. q \in Seq(Nat) /\ Len(q) = sendbufsize + len
  BY <1>1, <1>2, <1>4
<1>6. ASSUME NEW i \in 1 .. sendbufsize + len PROVE q[i] = waiting'[i]
  <2>1. CASE i \in 1 .. sendbufsize
    BY <1>1, <1>2, <1>3, <1>4, <2>1
  <2>2. CASE i \in sendbufsize + 1 .. sendbufsize + len
    <3>1. i - sendbufsize \in 1 .. len
      BY <1>1, <2>2
    <3>2. q[i] = Stream!Fresh(put, len)[i - sendbufsize]
      BY <1>1, <1>2, <1>4, <2>2
    <3>3. q[i] = put + (i - sendbufsize)
      BY <1>4, <3>1, <3>2
    <3>4. QED
      BY <1>1, <1>3, <2>2, <3>3
  <2>3. i \in 1 .. sendbufsize \/ i \in sendbufsize + 1 .. sendbufsize + len
    BY <1>1
  <2>4. QED
    BY <2>1, <2>2, <2>3
<1> HIDE DEF q
<1>7. waiting' = q
  BY <1>1, <1>3, <1>5, <1>6, SeqEqual
<1>8. Stream!Put(len)
  BY <1>1, <1>7 DEF Stream!Put, waiting, q
<1>9. len \in 1 .. MaxText + SendMax
  BY <1>1, TextAssumption, SendMaxAssumption
<1>10. QED
  BY <1>8, <1>9 DEF Refines, Stream!Next

\* A piece that is sent is taken from the stream.
LEMMA DoSendRefines ==
  ASSUME Inv, Inv', NEW n \in 1 .. SendMax, DoSend(n)
  PROVE  Refines
<1>1. /\ n \in Nat /\ n \in 1 .. sendbufsize /\ sendbufsize \in Nat
      /\ put \in Nat /\ put' = put /\ sendbufsize' = sendbufsize - n
      /\ sent' = sent \o Read(n) /\ sendbufsize <= put
  BY SendMaxAssumption DEF Inv, TypeOK, Waiting, DoSend, SmallerOf
<1>2. /\ waiting = [i \in 1 .. sendbufsize |-> put - sendbufsize + i]
      /\ waiting \in Seq(Nat) /\ Len(waiting) = sendbufsize
  BY WaitingQueue DEF Queue
<1>3. /\ waiting' = [i \in 1 .. sendbufsize' |-> put' - sendbufsize' + i]
      /\ waiting' \in Seq(Nat) /\ Len(waiting') = sendbufsize'
  <2>1. Queue'
    BY WaitingQueue, PTL
  <2>2. QED
    BY <2>1 DEF Queue
<1>4. Read(n) = [i \in 1 .. n |-> put - sendbufsize + i]
  BY <1>1, ReadWaiting
<1>5. SubSeq(waiting, 1, n) = Read(n)
  <2>1. SubSeq(waiting, 1, n) = [i \in 1 .. n |-> waiting[i]]
    BY <1>1, <1>2
  <2>2. \A i \in 1 .. n : waiting[i] = put - sendbufsize + i
    BY <1>1, <1>2
  <2>3. QED
    BY <1>4, <2>1, <2>2
<1>6. SubSeq(waiting, n + 1, Len(waiting)) = waiting'
  <2>1. SubSeq(waiting, n + 1, sendbufsize) = [i \in 1 .. sendbufsize - n |-> waiting[n + i]]
    BY <1>1, <1>2
  <2>2. \A i \in 1 .. sendbufsize - n : waiting[n + i] = put' - sendbufsize' + i
    BY <1>1, <1>2
  <2>3. QED
    BY <1>1, <1>2, <1>3, <2>1, <2>2
<1>7. Stream!Take(n)
  BY <1>1, <1>2, <1>5, <1>6 DEF Stream!Take, waiting
<1>8. n \in 1 .. MaxText + SendMax
  BY TextAssumption, SendMaxAssumption
<1>9. QED
  BY <1>7, <1>8 DEF Refines, Stream!Next

\* A buffer that is given up is dropped from the stream.
LEMMA SendFailsRefines ==
  ASSUME Inv', SendFails
  PROVE  Refines
<1>1. put' = put /\ sent' = sent /\ sendbufsize' = 0
  BY DEF SendFails
<1>2. waiting' = <<>>
  <2>1. Queue'
    BY WaitingQueue, PTL
  <2>2. waiting' \in Seq(Nat) /\ Len(waiting') = 0
    BY <1>1, <2>1 DEF Queue
  <2>3. QED
    BY <2>2
<1>3. Stream!Drop
  BY <1>1, <1>2 DEF Stream!Drop, waiting
<1>4. 1 \in 1 .. MaxText + SendMax
  BY TextAssumption, SendMaxAssumption
<1>5. QED
  BY <1>3, <1>4 DEF Refines, Stream!Next

\* The buffer implements the byte stream, for every size of texts and pieces, if
\* nothing is appended to a half-sent buffer.
THEOREM BufferImplementsStream ==
  AppendWhileDraining = FALSE => (Spec => ImplementsStream)
<1>1. SUFFICES ASSUME AppendWhileDraining = FALSE PROVE Spec => ImplementsStream
  OBVIOUS
<1>2. Init => Inv /\ Stream!Init
  BY DEF Init, Inv, TypeOK, Filled, Waiting, Gone, Stream!Init
<1>3. Inv /\ [Next]_vars => Inv' /\ Refines
  <2>1. SUFFICES ASSUME Inv, [Next]_vars PROVE Inv' /\ Refines
    OBVIOUS
  <2>2. CASE UNCHANGED vars
    BY <2>1, <2>2 DEF vars, Inv, TypeOK, Filled, Waiting, Gone, Refines, waiting
  <2>3. CASE \E len \in 1 .. MaxText : ConnSend(len)
    BY <1>1, <2>1, <2>3, ConnSendKeeps, ConnSendRefines
  <2>4. CASE Send
    BY <2>1, <2>4, DoSendKeeps, DoSendRefines, SendFailsKeeps, SendFailsRefines DEF Send
  <2>5. QED
    BY <2>1, <2>2, <2>3, <2>4 DEF Next
<1>4. QED
  BY <1>2, <1>3, PTL DEF Spec, ImplementsStream, Stream!Spec, Refines, waiting
=============================================================================
