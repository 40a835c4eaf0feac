------------------------- MODULE FileTransferProofs -------------------------
(***************************************************************************)
(* The file transfers keep their types, close no file handle but their     *)
(* own, lose none and answer each transfer once, bring what they should,   *)
(* and use files as FileLocks says: for any sessions, files, handles and   *)
(* bounds.  A theorem names in its hypothesis the members of Faults        *)
(* without which it does not hold.                                         *)
(***************************************************************************)
EXTENDS FileTransfers, SequenceTheorems, TLAPS

\* What is read from a file, and what a file is after a write, are bytes.
LEMMA BlockTyped ==
  ASSUME NEW data \in Seq(Bytes), NEW pos \in Nat
  PROVE  BlockAt(data, pos) \in Seq(Bytes)
<1>1. Len(data) \in Nat /\ BLOCK \in Nat
  BY TransfersAssumption
<1>2. \A i \in pos + 1 .. (IF pos + BLOCK < Len(data) THEN pos + BLOCK ELSE Len(data)) : data[i] \in Bytes
  BY <1>1
<1>3. QED
  BY <1>1, <1>2, SubSeqProperties DEF BlockAt

LEMMA WrittenTyped ==
  ASSUME NEW data \in Seq(Bytes), NEW pos \in Nat, NEW bytes \in Seq(Bytes)
  PROVE  Written(data, pos, bytes) \in Seq(Bytes)
<1> DEFINE n == IF pos + Len(bytes) > Len(data) THEN pos + Len(bytes) ELSE Len(data)
           e(i) == IF i > pos /\ i <= pos + Len(bytes) THEN bytes[i - pos]
                   ELSE IF i <= Len(data) THEN data[i] ELSE <<"zero", 0>>
<1>1. n \in Nat
  OBVIOUS
<1>2. ASSUME NEW i \in 1 .. n
      PROVE  e(i) \in Bytes
  <2>1. <<"zero", 0>> \in Bytes
    BY DEF Bytes
  <2>2. CASE i > pos /\ i <= pos + Len(bytes)
    <3>1. i - pos \in 1 .. Len(bytes)
      BY <2>2, <1>1
    <3>2. QED
      BY <2>2, <3>1
  <2>3. CASE ~(i > pos /\ i <= pos + Len(bytes))
    BY <2>1, <2>3
  <2>4. QED
    BY <2>2, <2>3
<1>3. [i \in 1 .. n |-> e(i)] \in [1 .. n -> Bytes]
  BY <1>2
<1>4. QED
  BY <1>1, <1>3 DEF Written

\* A part of a sequence of bytes is one.
LEMMA PartTyped ==
  ASSUME NEW q \in Seq(Bytes), NEW m \in Nat \ {0}, NEW n \in Int, n <= Len(q)
  PROVE  SubSeq(q, m, n) \in Seq(Bytes)
<1>1. \A i \in m .. n : q[i] \in Bytes
  OBVIOUS
<1>2. QED
  BY <1>1, SubSeqProperties

LEMMA ZerosTyped ==
  /\ ZeroUser \in UserRecords /\ ZeroData \in DataRecords
  /\ ZeroPeer \in PeerRecords /\ ZeroHist \in HistRecords
  /\ Closed \in HandleRecords /\ NoFile \in FileRecords
<1>1. <<>> \in Seq(Bytes)
  OBVIOUS
<1>2. QED
  BY <1>1 DEF ZeroUser, UserRecords, ZeroData, DataRecords, NoHandle, ZeroPeer, PeerRecords,
              ZeroHist, HistRecords, Closed, HandleRecords, NoFile, FileRecords

LEMMA AnswerTyped ==
  ASSUME NEW H \in [Sessions -> HistRecords], NEW s \in Sessions, NEW text \in {"226", "425"}
  PROVE  Answer(H, s, text) \in [Sessions -> HistRecords] /\ Answer(H, s, text)[s].due = H[s].due - 1
<1>1. H[s].due - 1 \in Int
  BY DEF HistRecords
<1>2. [ZeroHist EXCEPT !.due = H[s].due - 1, !.reply = text] \in HistRecords
  BY <1>1, ZerosTyped DEF HistRecords, ZeroHist
<1>3. QED
  BY <1>2 DEF Answer, ZeroHist

LEMMA CallbackTyped ==
  ASSUME NEW H \in [Sessions -> HistRecords], NEW c, NEW s \in Sessions
  PROVE  Callback(H, c, s) \in [Sessions -> HistRecords]
  BY AnswerTyped DEF Callback

LEMMA HungTyped ==
  ASSUME NEW p \in PeerRecords
  PROVE  Hung(p) \in PeerRecords
  BY ZerosTyped DEF Hung, PeerRecords, ZeroPeer

\* The end of a channel leaves records.
LEMMA DataCloseTyped ==
  ASSUME TypeOK, NEW s \in Sessions, NEW H \in [Sessions -> HistRecords],
         NEW P \in [Sessions -> PeerRecords], DataClose(H, P, s)
  PROVE  /\ dc' \in [Sessions -> DataRecords] /\ peer' \in [Sessions -> PeerRecords]
         /\ hist' \in [Sessions -> HistRecords]
<1>1. [P EXCEPT ![s] = Hung(@)] \in [Sessions -> PeerRecords]
  BY HungTyped
<1>2. QED
  BY <1>1, ZerosTyped, CallbackTyped DEF DataClose, TypeOK

LEMMA CloseFileTyped ==
  ASSUME TypeOK, NEW s \in Sessions, CloseFile(s)
  PROVE  handle' \in [Handles -> HandleRecords]
  BY ZerosTyped DEF CloseFile, TypeOK

LEMMA InitTyped == Init => TypeOK
<1> SUFFICES ASSUME Init PROVE TypeOK
  OBVIOUS
<1>1. PICK n \in 0 .. MaxLen :
        disk = [f \in Files |-> [data |-> [i \in 1 .. n |-> <<"old", i>>], exists |-> TRUE]]
  BY DEF Init
<1>2. [i \in 1 .. n |-> <<"old", i>>] \in Seq(Bytes)
  <2>1. n \in Nat
    BY TransfersAssumption
  <2>2. [i \in 1 .. n |-> <<"old", i>>] \in [1 .. n -> Bytes]
    BY DEF Bytes
  <2>3. QED
    BY <2>1, <2>2
<1>3. QED
  BY <1>1, <1>2, ZerosTyped DEF Init, TypeOK, FileRecords

\* Opening a file, in any of the ways it is opened.
LEMMA OpenedTyped ==
  ASSUME TypeOK, NEW s \in Sessions, NEW h \in Handles, NEW f \in Files,
         NEW a \in {"read", "write", "both"}, OpenAs(s, h, f, a)
  PROVE  handle' \in [Handles -> HandleRecords]
<1>1. [file |-> f, access |-> a, pos |-> 0, by |-> s] \in HandleRecords
  BY DEF HandleRecords
<1>2. QED
  BY <1>1 DEF TypeOK, OpenAs

LEMMA AccessTyped ==
  ASSUME NEW cmd \in Commands
  PROVE  Access(cmd) = IF cmd = "RETR" THEN "read" ELSE IF cmd = "STOR" THEN "write" ELSE "both"
  BY DEF Access, Commands

\* Moving the position of an open file.
LEMMA PositionTyped ==
  ASSUME TypeOK, NEW h \in Handles, NEW n \in Nat
  PROVE  /\ Open(h) => [handle[h] EXCEPT !.pos = @ + n] \in HandleRecords
         /\ Open(h) => handle[h].file \in Files /\ handle[h].pos \in Nat
<1>1. handle[h] \in HandleRecords
  BY DEF TypeOK
<1>2. QED
  BY <1>1 DEF HandleRecords, Open, Closed

\* What the client does at its end leaves records.
LEMMA ClientTyped ==
  ASSUME TypeOK, NEW s \in Sessions
  PROVE  /\ ClientSend(s) => TypeOK'
         /\ ClientEnd(s) => TypeOK'
<1>1. peer[s] \in PeerRecords
  BY DEF TypeOK
<1>2. ASSUME ClientSend(s)
      PROVE  TypeOK'
  <2>1. Append(peer[s].sent, <<s, Len(peer[s].sent) + 1>>) \in Seq(Bytes)
    BY <1>1 DEF PeerRecords, Bytes
  <2>2. peer' \in [Sessions -> PeerRecords]
    BY <1>1, <1>2, <2>1 DEF TypeOK, ClientSend, PeerRecords
  <2>3. QED
    BY <1>2, <2>2 DEF TypeOK, ClientSend
<1>3. ASSUME ClientEnd(s)
      PROVE  TypeOK'
  <2>1. PICK how \in {"fin", "reset"} : peer' = [peer EXCEPT ![s].ended = how]
    BY <1>3 DEF ClientEnd
  <2>2. peer' \in [Sessions -> PeerRecords]
    BY <1>1, <2>1 DEF TypeOK, PeerRecords
  <2>3. QED
    BY <1>3, <2>2 DEF TypeOK, ClientEnd
<1>4. QED
  BY <1>2, <1>3

\* Commands that start no transfer leave records.
LEMMA CommandsTyped ==
  ASSUME TypeOK, NEW s \in Sessions
  PROVE  /\ Pasv(s) => TypeOK'
         /\ \A n \in 0 .. MaxRest : Rest(s, n) => TypeOK'
         /\ EndSession(s) => TypeOK'
         /\ \A f \in Files : Size(s, f) \/ Dele(s, f) => TypeOK'
<1>1. dc[s] \in DataRecords /\ user[s] \in UserRecords
  BY DEF TypeOK
<1>2. ASSUME Pasv(s)
      PROVE  TypeOK'
  <2>1. [dc[s] EXCEPT !.used = TRUE, !.type = "PASSIVE", !.event = FALSE, !.close = FALSE] \in DataRecords
    BY <1>1 DEF DataRecords
  <2>2. QED
    BY <1>2, <2>1, ZerosTyped DEF Pasv, TypeOK
<1>3. ASSUME NEW n \in 0 .. MaxRest, Rest(s, n)
      PROVE  TypeOK'
  <2>1. [user[s] EXCEPT !.rest = n] \in UserRecords
    BY <1>1, TransfersAssumption DEF UserRecords
  <2>2. QED
    BY <1>3, <2>1 DEF Rest, TypeOK
<1>4. ASSUME EndSession(s)
      PROVE  TypeOK'
  BY <1>4, ZerosTyped DEF EndSession, TypeOK
<1>5. ASSUME NEW f \in Files, Size(s, f) \/ Dele(s, f)
      PROVE  TypeOK'
  <2>1. CASE Size(s, f)
    BY <2>1, OpenedTyped DEF Size, TypeOK
  <2>2. CASE Dele(s, f)
    BY <2>2, ZerosTyped DEF Dele, TypeOK
  <2>3. QED
    BY <1>5, <2>1, <2>2
<1>6. QED
  BY <1>2, <1>3, <1>4, <1>5

\* Between its stages a transfer whose channel can still be used has a file.
Pending ==
  \A s \in Sessions :
    user[s].dlcommand = 1 /\ dc[s].type # "ACTIVE" => hist[s].file \in Files

\* The position of the channel's file is moved to a position.
LEMMA MovedTyped ==
  ASSUME TypeOK, NEW s \in Sessions
  PROVE  Moved(s) \in [Handles -> HandleRecords]
<1>1. user[s].rest \in Nat
  BY DEF TypeOK, UserRecords
<1>2. ASSUME NEW h \in Handles
      PROVE  (IF h = dc[s].hFile /\ Open(h) THEN [handle[h] EXCEPT !.pos = @ + user[s].rest] ELSE handle[h])
               \in HandleRecords
  BY <1>1, PositionTyped DEF TypeOK
<1>3. QED
  BY <1>2 DEF Moved

\* The close of a foreign channel leaves records.
LEMMA WildTyped ==
  ASSUME TypeOK, NEW s \in Sessions, NEW t \in Sessions \ {s}, WildClose(s, t)
  PROVE  /\ dc' \in [Sessions -> DataRecords] /\ peer' \in [Sessions -> PeerRecords]
         /\ hist' \in [Sessions -> HistRecords] /\ handle' \in [Handles -> HandleRecords]
<1>1. /\ dc \in [Sessions -> DataRecords] /\ peer \in [Sessions -> PeerRecords]
      /\ hist \in [Sessions -> HistRecords] /\ handle \in [Handles -> HandleRecords]
  BY DEF TypeOK
<1>2. dc[t].used \in BOOLEAN
  BY <1>1 DEF DataRecords
<1>3. [ZeroData EXCEPT !.used = dc[t].used] \in DataRecords
  BY <1>2, ZerosTyped DEF ZeroData, DataRecords
<1>4. dc' \in [Sessions -> DataRecords]
  BY <1>1, <1>3, ZerosTyped DEF WildClose
<1>5. peer' \in [Sessions -> PeerRecords]
  BY <1>1, HungTyped DEF WildClose
<1>6. hist' \in [Sessions -> HistRecords]
  <2>1. Callback(hist, s, s) \in [Sessions -> HistRecords]
    BY <1>1, CallbackTyped
  <2>2. Callback(Callback(hist, s, s), t, s) \in [Sessions -> HistRecords]
    BY <2>1, CallbackTyped
  <2>3. QED
    BY <2>2, AnswerTyped DEF WildClose
<1>7. handle' \in [Handles -> HandleRecords]
  BY <1>1, ZerosTyped DEF WildClose
<1>8. QED
  BY <1>4, <1>5, <1>6, <1>7

\* The stages of a transfer leave records.
LEMMA StagesTyped ==
  ASSUME TypeOK, Pending, NEW s \in Sessions
  PROVE  /\ \A cmd \in Commands, f \in Files : FirstStage(s, cmd, f) => TypeOK'
         /\ FirstStageRefused(s) \/ FirstStageOdd(s) => TypeOK'
         /\ SecondStage(s) => TypeOK'
         /\ SecondStageFails(s) => TypeOK'
<1>1. dc[s] \in DataRecords /\ user[s] \in UserRecords /\ hist[s] \in HistRecords
  BY DEF TypeOK
<1>2. ASSUME NEW cmd \in Commands, NEW f \in Files, FirstStage(s, cmd, f)
      PROVE  TypeOK'
  <2>1. PICK h \in Handles : OpenAs(s, h, f, Access(cmd)) /\ dc' = [dc EXCEPT ![s].hFile = h]
    BY <1>2 DEF FirstStage
  <2>2. handle' \in [Handles -> HandleRecords]
    BY <2>1, OpenedTyped, AccessTyped
  <2>3. [dc[s] EXCEPT !.hFile = h] \in DataRecords
    BY <1>1 DEF DataRecords
  <2>4. [user[s] EXCEPT !.dlcommand = 1, !.cmd = cmd] \in UserRecords
    BY <1>1 DEF UserRecords
  <2>5. [data |-> <<>>, exists |-> TRUE] \in FileRecords
    BY ZerosTyped DEF FileRecords, NoFile
  <2>6. [hist[s] EXCEPT !.due = hist[s].due + 1, !.reply = "none", !.cmd = cmd, !.file = f] \in HistRecords
    <3>1. hist[s].due + 1 \in Int
      BY <1>1 DEF HistRecords
    <3>2. QED
      BY <1>1, <3>1 DEF HistRecords
  <2>7. QED
    BY <1>2, <2>1, <2>2, <2>3, <2>4, <2>5, <2>6 DEF FirstStage, TypeOK
<1>3. ASSUME FirstStageRefused(s) \/ FirstStageOdd(s)
      PROVE  TypeOK'
  <2>1. PICK h \in Handles \cup {NoHandle} : dc' = [dc EXCEPT ![s].hFile = h]
    BY <1>1, <1>3 DEF FirstStageRefused, FirstStageOdd, DataRecords
  <2>2. [dc[s] EXCEPT !.hFile = h] \in DataRecords
    BY <1>1 DEF DataRecords
  <2>3. QED
    BY <1>3, <2>1, <2>2 DEF FirstStageRefused, FirstStageOdd, TypeOK
<1>4. ASSUME SecondStage(s)
      PROVE  TypeOK'
  <2> DEFINE c == dc[s]
             data == disk[hist[s].file].data
             want == SubSeq(data, user[s].rest + 1, Len(data))
  <2>1. want \in Seq(Bytes)
    <3>1. data \in Seq(Bytes) /\ user[s].rest \in Nat
      BY <1>1, <1>4 DEF Pending, SecondStage, TypeOK, FileRecords, UserRecords
    <3>2. QED
      BY <3>1, PartTyped
  <2>2. [hist[s] EXCEPT !.rest = user[s].rest, !.want = want] \in HistRecords
    BY <1>1, <2>1 DEF HistRecords, UserRecords
  <2>3. [user[s] EXCEPT !.dlcommand = 0, !.cmd = "none"] \in UserRecords
    BY <1>1 DEF UserRecords
  <2>4. /\ [c EXCEPT !.type = "CONNECTED", !.mode = "SEND_FP", !.event = TRUE] \in DataRecords
        /\ [c EXCEPT !.type = "CONNECTED", !.mode = "RECV_FP", !.close = TRUE] \in DataRecords
    BY <1>1 DEF DataRecords
  <2>5. handle' \in [Handles -> HandleRecords]
    BY <1>1, <1>4, MovedTyped DEF SecondStage, UserRecords
  <2>6. QED
    BY <1>4, <2>2, <2>3, <2>4, <2>5 DEF SecondStage, TypeOK
<1>5. ASSUME SecondStageFails(s)
      PROVE  TypeOK'
  <2>1. [user[s] EXCEPT !.dlcommand = 0, !.cmd = "none"] \in UserRecords
    BY <1>1 DEF UserRecords
  <2>2. hist \in [Sessions -> HistRecords] /\ peer \in [Sessions -> PeerRecords]
    BY DEF TypeOK
  <2>3. ASSUME DataClose(Answer(hist, s, "425"), peer, s), CloseFile(s)
        PROVE  /\ dc' \in [Sessions -> DataRecords] /\ peer' \in [Sessions -> PeerRecords]
               /\ hist' \in [Sessions -> HistRecords] /\ handle' \in [Handles -> HandleRecords]
    <3>1. Answer(hist, s, "425") \in [Sessions -> HistRecords]
      BY <2>2, AnswerTyped
    <3>2. QED
      BY <2>2, <2>3, <3>1, DataCloseTyped, CloseFileTyped
  <2>4. ASSUME NEW t \in Sessions \ {s}, WildClose(s, t)
        PROVE  /\ dc' \in [Sessions -> DataRecords] /\ peer' \in [Sessions -> PeerRecords]
               /\ hist' \in [Sessions -> HistRecords] /\ handle' \in [Handles -> HandleRecords]
    BY <2>4, WildTyped
  <2>5. QED
    BY <1>5, <2>1, <2>3, <2>4 DEF SecondStageFails, TypeOK
<1>6. QED
  BY <1>2, <1>3, <1>4, <1>5

\* Closing the channel of s with the replies H and what came of it in P.
LEMMA ClosedTyped ==
  ASSUME TypeOK, NEW s \in Sessions, NEW H \in [Sessions -> HistRecords],
         NEW P \in [Sessions -> PeerRecords], DataClose(H, P, s), CloseFile(s),
         user' = user, disk' \in [Files -> FileRecords]
  PROVE  TypeOK'
  BY DataCloseTyped, CloseFileTyped DEF TypeOK

\* The blocks of a download leave records.
LEMMA SendBlockTyped ==
  ASSUME TypeOK, NEW s \in Sessions, SendBlock(s)
  PROVE  TypeOK'
<1> DEFINE h == dc[s].hFile
<1>1. Block(s) \in Seq(Bytes)
  <2>1. CASE h \in Handles /\ CanRead(h)
    <3>1. handle[h].file \in Files /\ handle[h].pos \in Nat
      BY <2>1, PositionTyped DEF Open, CanRead
    <3>2. disk[handle[h].file].data \in Seq(Bytes)
      BY <3>1 DEF TypeOK, FileRecords
    <3>3. QED
      BY <2>1, <3>1, <3>2, BlockTyped DEF Block
  <2>2. CASE ~(h \in Handles /\ CanRead(h))
    BY <2>2 DEF Block
  <2>3. QED
    BY <2>1, <2>2
<1>2. ASSUME NEW n \in 0 .. Len(Block(s))
      PROVE  Delivered(s, n) \in [Sessions -> PeerRecords]
  <2> DEFINE got == peer[s].got \o SubSeq(Block(s), 1, n)
  <2>1. peer[s] \in PeerRecords
    BY DEF TypeOK
  <2>2. SubSeq(Block(s), 1, n) \in Seq(Bytes)
    BY <1>1, PartTyped
  <2>3. got \in Seq(Bytes)
    BY <2>1, <2>2 DEF PeerRecords
  <2>4. Delivered(s, n) = [peer EXCEPT ![s].got = got]
    BY DEF Delivered
  <2> HIDE DEF got
  <2>5. [peer[s] EXCEPT !.got = got] \in PeerRecords
    BY <2>1, <2>3 DEF PeerRecords
  <2>6. QED
    BY <2>4, <2>5 DEF TypeOK
<1>3. EventReply(s) \in [Sessions -> HistRecords]
  BY AnswerTyped DEF TypeOK, EventReply
<1>4. PICK n \in 0 .. Len(Block(s)) :
        IF LastBlock(Block(s)) THEN DataClose(EventReply(s), Delivered(s, n), s) /\ CloseFile(s)
        ELSE /\ handle' = [handle EXCEPT ![h].pos = @ + BLOCK]
             /\ peer' = Delivered(s, n)
             /\ UNCHANGED <<dc, hist>>
  BY DEF SendBlock
<1>5. UNCHANGED <<user, disk>>
  BY DEF SendBlock
<1>6. CASE LastBlock(Block(s))
  BY <1>2, <1>3, <1>4, <1>5, <1>6, ClosedTyped DEF TypeOK
<1>7. CASE ~LastBlock(Block(s))
  <2>1. handle' \in [Handles -> HandleRecords]
    <3>1. Block(s) # <<>>
      BY <1>1, <1>7, TransfersAssumption DEF LastBlock
    <3>2. h \in Handles /\ Open(h)
      BY <3>1 DEF Open, CanRead, Block
    <3>3. [handle[h] EXCEPT !.pos = @ + BLOCK] \in HandleRecords
      BY <3>2, PositionTyped, TransfersAssumption
    <3>4. QED
      BY <1>4, <1>7, <3>2, <3>3 DEF TypeOK
  <2>2. QED
    BY <1>2, <1>4, <1>5, <1>7, <2>1 DEF TypeOK
<1>8. QED
  BY <1>6, <1>7

\* The blocks of an upload leave records.
LEMMA RecvBlockTyped ==
  ASSUME TypeOK, NEW s \in Sessions, RecvBlock(s)
  PROVE  TypeOK'
<1> DEFINE h == dc[s].hFile
           writes == h \in Handles /\ CanWrite(h)
           bytes(n) == SubSeq(peer[s].sent, peer[s].read + 1, peer[s].read + n)
<1>1. peer[s] \in PeerRecords /\ BLOCK \in Nat
  BY TransfersAssumption DEF TypeOK
<1>2. PICK n \in 1 .. (IF Unread(s) < BLOCK THEN Unread(s) ELSE BLOCK), hup \in BOOLEAN :
        /\ disk' = IF writes THEN [disk EXCEPT ![handle[h].file].data = Written(@, handle[h].pos, bytes(n))]
                   ELSE disk
        /\ IF hup THEN DataClose(hist, peer, s) /\ CloseFile(s)
           ELSE /\ peer' = [peer EXCEPT ![s].read = @ + n]
                /\ handle' = IF writes THEN [handle EXCEPT ![h].pos = @ + n] ELSE handle
                /\ UNCHANGED <<dc, hist>>
  BY DEF RecvBlock
<1>3. n \in Nat /\ peer[s].read + n <= Len(peer[s].sent)
  BY <1>1 DEF Unread, PeerRecords
<1>4. writes => Open(h)
  BY DEF CanWrite, Open
<1>5. disk' \in [Files -> FileRecords]
  <2>1. CASE writes
    <3>1. handle[h].file \in Files /\ handle[h].pos \in Nat
      BY <1>4, <2>1, PositionTyped
    <3>2. disk[handle[h].file] \in FileRecords
      BY <3>1 DEF TypeOK
    <3>3. bytes(n) \in Seq(Bytes)
      BY <1>1, <1>3, PartTyped DEF PeerRecords
    <3>4. Written(disk[handle[h].file].data, handle[h].pos, bytes(n)) \in Seq(Bytes)
      BY <3>1, <3>2, <3>3, WrittenTyped DEF FileRecords
    <3>5. QED
      BY <1>2, <2>1, <3>1, <3>2, <3>4 DEF TypeOK, FileRecords
  <2>2. CASE ~writes
    BY <1>2, <2>2 DEF TypeOK
  <2>3. QED
    BY <2>1, <2>2
<1>6. user' = user
  BY DEF RecvBlock
<1>7. CASE hup
  BY <1>2, <1>5, <1>6, <1>7, ClosedTyped DEF TypeOK
<1>8. CASE ~hup
  <2>1. [peer[s] EXCEPT !.read = @ + n] \in PeerRecords
    <3>1. peer[s].read + n \in Nat
      BY <1>1, <1>3 DEF PeerRecords
    <3>2. QED
      BY <1>1, <3>1 DEF PeerRecords
  <2>2. handle' \in [Handles -> HandleRecords]
    <3>1. writes => [handle[h] EXCEPT !.pos = @ + n] \in HandleRecords
      BY <1>3, <1>4, PositionTyped
    <3>2. QED
      BY <1>2, <1>8, <3>1 DEF TypeOK
  <2>3. QED
    BY <1>2, <1>5, <1>6, <1>8, <2>1, <2>2 DEF TypeOK
<1>9. QED
  BY <1>7, <1>8

\* The ends of transfers leave records.
LEMMA EndsTyped ==
  ASSUME TypeOK, NEW s \in Sessions, RecvEnd(s) \/ SendCut(s)
  PROVE  TypeOK'
<1>1. DataClose(hist, peer, s) /\ CloseFile(s) /\ UNCHANGED <<user, disk>>
  BY DEF RecvEnd, SendCut
<1>2. QED
  BY <1>1, ClosedTyped DEF TypeOK

LEMMA StepTyped ==
  TypeOK /\ Pending /\ [Next]_vars => TypeOK'
<1> SUFFICES ASSUME TypeOK, Pending, [Next]_vars
             PROVE  TypeOK'
  OBVIOUS
<1>1. CASE UNCHANGED vars
  BY <1>1 DEF vars, TypeOK
<1>2. CASE Next
  <2>1. PICK s \in Sessions : Commanded(s) \/ Served(s) \/ ClientSend(s) \/ ClientEnd(s)
    BY <1>2 DEF Next
  <2>2. CASE Commanded(s)
    BY <2>2, CommandsTyped, StagesTyped DEF Commanded
  <2>3. CASE Served(s)
    BY <2>3, StagesTyped, SendBlockTyped, RecvBlockTyped, EndsTyped DEF Served
  <2>4. QED
    BY <2>1, <2>2, <2>3, ClientTyped
<1>3. QED
  BY <1>1, <1>2

-----------------------------------------------------------------------------
\* What a step of session s may do to handles and files: open a file with a
\* handle that is not open, close the channel's (and with "wild" that of another
\* channel), or leave the handles where they are.
OthersKeep(s) == \A t \in Sessions \ {s} : dc'[t].hFile = dc[t].hFile

DiskBy(s) ==
  \/ disk' = disk
  \/ /\ dc[s].hFile \in Handles /\ CanWrite(dc[s].hFile)
     /\ \A g \in Files \ {handle[dc[s].hFile].file} : disk'[g] = disk[g]

Opens(s, f, h, a) ==
  /\ CanOpen(f, a) /\ OpenAs(s, h, f, a)
  /\ dc'[s].hFile \in {dc[s].hFile, h} /\ OthersKeep(s)
  /\ IF a = "read" THEN disk' = disk ELSE \A g \in Files \ {f} : disk'[g] = disk[g]

Closes(s, t) ==
  /\ t # s => "wild" \in Faults
  /\ handle' = [h \in Handles |-> IF h \in {dc[s].hFile, dc[t].hFile} THEN Closed ELSE handle[h]]
  /\ dc'[s].hFile = NoHandle /\ dc'[t].hFile = NoHandle
  /\ \A r \in Sessions \ {s, t} : dc'[r].hFile = dc[r].hFile
  /\ DiskBy(s)

Keeps(s) ==
  /\ \A g \in Handles :
       handle'[g].file = handle[g].file /\ handle'[g].access = handle[g].access /\ handle'[g].by = handle[g].by
  /\ \A g \in Handles : g # dc[s].hFile => handle'[g] = handle[g]
  /\ "odd" \notin Faults => dc'[s].hFile \in {dc[s].hFile, NoHandle}
  /\ OthersKeep(s)
  /\ DiskBy(s) \/ \E f \in Files : OnFile(f) = {} /\ \A g \in Files \ {f} : disk'[g] = disk[g]

Effect(s) ==
  \/ \E f \in Files, h \in Handles, a \in {"read", "write", "both"} : Opens(s, f, h, a)
  \/ \E t \in Sessions : Closes(s, t)
  \/ Keeps(s)

LEMMA CloseEffect ==
  ASSUME TypeOK, NEW s \in Sessions, NEW H, NEW P, DataClose(H, P, s), CloseFile(s), DiskBy(s)
  PROVE  Closes(s, s)
<1>1. dc' = [dc EXCEPT ![s] = ZeroData] /\ DOMAIN dc = Sessions
  BY DEF DataClose, TypeOK
<1>2. QED
  BY <1>1 DEF Closes, CloseFile, ZeroData

LEMMA CommandEffect ==
  ASSUME TypeOK, NEW s \in Sessions, Commanded(s)
  PROVE  Effect(s)
<1>1. dc \in [Sessions -> DataRecords] /\ handle \in [Handles -> HandleRecords] /\ dc[s] \in DataRecords
  BY DEF TypeOK
<1>2. CASE Pasv(s)
  <2>1. dc'[s].hFile = dc[s].hFile /\ UNCHANGED <<handle, disk>>
    BY <1>1, <1>2 DEF Pasv, DataRecords
  <2>2. QED
    BY <1>1, <1>2, <2>1 DEF Pasv, Effect, OthersKeep, Keeps, DiskBy
<1>3. CASE \E n \in 0 .. MaxRest : Rest(s, n)
  BY <1>3 DEF Rest, Effect, OthersKeep, Keeps, DiskBy
<1>4. CASE \E cmd \in Commands, f \in Files : FirstStage(s, cmd, f)
  <2>1. PICK cmd \in Commands, f \in Files : FirstStage(s, cmd, f)
    BY <1>4
  <2>2. PICK h \in Handles : OpenAs(s, h, f, Access(cmd)) /\ dc' = [dc EXCEPT ![s].hFile = h]
    BY <2>1 DEF FirstStage
  <2>3. dc'[s].hFile = h /\ OthersKeep(s)
    BY <1>1, <2>2 DEF DataRecords, OthersKeep
  <2>4. IF Access(cmd) = "read" THEN disk' = disk ELSE \A g \in Files \ {f} : disk'[g] = disk[g]
    BY <2>1, AccessTyped DEF FirstStage, TypeOK
  <2>5. Access(cmd) \in {"read", "write", "both"} /\ CanOpen(f, Access(cmd))
    BY <2>1, AccessTyped DEF FirstStage
  <2>6. Opens(s, f, h, Access(cmd))
    BY <2>2, <2>3, <2>4, <2>5 DEF Opens
  <2>7. QED
    BY <2>5, <2>6 DEF Effect
<1>5. CASE FirstStageRefused(s) \/ FirstStageOdd(s)
  <2>1. OthersKeep(s)
    BY <1>1, <1>5 DEF FirstStageRefused, FirstStageOdd, OthersKeep
  <2>2. "odd" \notin Faults => dc'[s].hFile \in {dc[s].hFile, NoHandle}
    BY <1>1, <1>5 DEF FirstStageRefused, FirstStageOdd, May, DataRecords
  <2>3. UNCHANGED <<handle, disk>>
    BY <1>5 DEF FirstStageRefused, FirstStageOdd
  <2>4. QED
    BY <2>1, <2>2, <2>3 DEF Effect, Keeps, DiskBy
<1>6. CASE EndSession(s)
  <2>1. dc'[s].hFile = NoHandle /\ OthersKeep(s) /\ disk' = disk
    BY <1>1, <1>6 DEF EndSession, ZeroData, OthersKeep
  <2>2. CASE dc[s].used
    <3>1. Closes(s, s)
      BY <1>6, <2>1, <2>2 DEF EndSession, Closes, OthersKeep, DiskBy
    <3>2. QED
      BY <3>1 DEF Effect
  <2>3. CASE ~dc[s].used
    BY <1>6, <2>1, <2>3 DEF EndSession, Effect, Keeps, DiskBy
  <2>4. QED
    BY <2>2, <2>3
<1>7. CASE \E f \in Files : Size(s, f) \/ Dele(s, f)
  <2>1. PICK f \in Files : Size(s, f) \/ Dele(s, f)
    BY <1>7
  <2>2. CASE Size(s, f)
    BY <2>2 DEF Size, Effect, Opens, OthersKeep
  <2>3. CASE Dele(s, f)
    BY <2>3 DEF Dele, TypeOK, Effect, Keeps, OthersKeep
  <2>4. QED
    BY <2>1, <2>2, <2>3
<1>8. QED
  BY <1>2, <1>3, <1>4, <1>5, <1>6, <1>7 DEF Commanded

LEMMA ServedEffect ==
  ASSUME TypeOK, NEW s \in Sessions, Served(s)
  PROVE  (\E t \in Sessions : Closes(s, t)) \/ (Keeps(s) /\ dc'[s].hFile = dc[s].hFile)
<1> DEFINE h == dc[s].hFile
<1>1. dc \in [Sessions -> DataRecords] /\ handle \in [Handles -> HandleRecords] /\ dc[s] \in DataRecords
  BY DEF TypeOK
<1>2. CASE SecondStage(s)
  <2>1. \A g \in Handles :
          handle'[g].file = handle[g].file /\ handle'[g].access = handle[g].access /\ handle'[g].by = handle[g].by
    BY <1>1, <1>2 DEF SecondStage, Moved, HandleRecords, Closed
  <2>2. dc'[s].hFile = dc[s].hFile /\ OthersKeep(s)
    BY <1>1, <1>2 DEF SecondStage, DataRecords, OthersKeep
  <2>3. \A g \in Handles : g # h => handle'[g] = handle[g]
    BY <1>2 DEF SecondStage, Moved
  <2>4. QED
    BY <1>2, <2>1, <2>2, <2>3 DEF SecondStage, Keeps, DiskBy
<1>3. CASE SecondStageFails(s)
  <2>1. ASSUME DataClose(Answer(hist, s, "425"), peer, s), CloseFile(s)
        PROVE  Closes(s, s)
    BY <1>3, <2>1, CloseEffect DEF SecondStageFails, DiskBy
  <2>2. ASSUME NEW t \in Sessions \ {s}, May(s, "wild"), WildClose(s, t)
        PROVE  Closes(s, t)
    BY <1>1, <1>3, <2>2 DEF SecondStageFails, WildClose, May, Closes, DiskBy, ZeroData
  <2>3. QED
    BY <1>3, <2>1, <2>2 DEF SecondStageFails
<1>4. CASE SendBlock(s)
  <2>1. PICK n \in 0 .. Len(Block(s)) :
          IF LastBlock(Block(s)) THEN DataClose(EventReply(s), Delivered(s, n), s) /\ CloseFile(s)
          ELSE /\ handle' = [handle EXCEPT ![h].pos = @ + BLOCK]
               /\ UNCHANGED <<dc, hist>>
    BY <1>4 DEF SendBlock
  <2>2. disk' = disk
    BY <1>4 DEF SendBlock
  <2>3. CASE LastBlock(Block(s))
    BY <2>1, <2>2, <2>3, CloseEffect DEF DiskBy
  <2>4. CASE ~LastBlock(Block(s))
    <3>1. \A g \in Handles :
            handle'[g].file = handle[g].file /\ handle'[g].access = handle[g].access /\ handle'[g].by = handle[g].by
      BY <1>1, <2>1, <2>4 DEF HandleRecords, Closed
    <3>2. \A g \in Handles : g # h => handle'[g] = handle[g]
      BY <1>1, <2>1, <2>4
    <3>3. QED
      BY <2>1, <2>2, <2>4, <3>1, <3>2 DEF OthersKeep, Keeps, DiskBy
  <2>5. QED
    BY <2>3, <2>4
<1>5. CASE RecvBlock(s)
  <2>1. PICK n \in 1 .. (IF Unread(s) < BLOCK THEN Unread(s) ELSE BLOCK), hup \in BOOLEAN :
          IF hup THEN DataClose(hist, peer, s) /\ CloseFile(s)
          ELSE /\ handle' = IF h \in Handles /\ CanWrite(h) THEN [handle EXCEPT ![h].pos = @ + n] ELSE handle
               /\ UNCHANGED <<dc, hist>>
    BY <1>5 DEF RecvBlock
  <2>2. DiskBy(s)
    <3>1. \/ disk' = disk
          \/ /\ h \in Handles /\ CanWrite(h)
             /\ \E new : disk' = [disk EXCEPT ![handle[h].file].data = new]
      BY <1>5 DEF RecvBlock
    <3>2. QED
      BY <3>1 DEF DiskBy, TypeOK
  <2>3. CASE hup
    BY <2>1, <2>2, <2>3, CloseEffect
  <2>4. CASE ~hup
    <3>1. \A g \in Handles :
            handle'[g].file = handle[g].file /\ handle'[g].access = handle[g].access /\ handle'[g].by = handle[g].by
      BY <1>1, <2>1, <2>4 DEF HandleRecords, Closed
    <3>2. \A g \in Handles : g # h => handle'[g] = handle[g]
      BY <1>1, <2>1, <2>4
    <3>3. QED
      BY <2>1, <2>2, <2>4, <3>1, <3>2 DEF OthersKeep, Keeps
  <2>5. QED
    BY <2>3, <2>4
<1>6. CASE RecvEnd(s)
  BY <1>6, CloseEffect DEF RecvEnd, DiskBy
<1>7. CASE SendCut(s)
  BY <1>7, CloseEffect DEF SendCut, DiskBy
<1>8. QED
  BY <1>2, <1>3, <1>4, <1>5, <1>6, <1>7 DEF Served

LEMMA ClientEffect ==
  ASSUME NEW s \in Sessions, ClientSend(s) \/ ClientEnd(s)
  PROVE  Effect(s)
  BY DEF ClientSend, ClientEnd, Effect, OthersKeep, Keeps, DiskBy

\* After any such step the handle of a channel is open and the channel's own.
LEMMA EffectLive ==
  ASSUME "odd" \notin Faults, TypeOK, HFileLive, NEW s \in Sessions, Effect(s)
  PROVE  HFileLive'
<1>1. NoHandle \notin Handles /\ handle \in [Handles -> HandleRecords]
  BY TransfersAssumption DEF NoHandle, TypeOK
<1>2. CASE \E f \in Files, h \in Handles, a \in {"read", "write", "both"} : Opens(s, f, h, a)
  <2>1. PICK f \in Files, h \in Handles, a \in {"read", "write", "both"} : Opens(s, f, h, a)
    BY <1>2
  <2>2. handle'[h].access = a /\ \A g \in Handles \ {h} : handle'[g] = handle[g]
    BY <1>1, <2>1 DEF Opens, OpenAs
  <2>3. \A t \in Sessions : dc[t].hFile # h
    BY <2>1 DEF Opens, OpenAs, HFileLive
  <2>4. QED
    BY <2>1, <2>2, <2>3 DEF Opens, HFileLive, OthersKeep, Open
<1>3. CASE \E t \in Sessions : Closes(s, t)
  <2>1. PICK t \in Sessions : Closes(s, t)
    BY <1>3
  <2>2. QED
    BY <1>1, <2>1 DEF Closes, HFileLive, Open
<1>4. CASE Keeps(s)
  BY <1>1, <1>4 DEF Keeps, HFileLive, OthersKeep, Open
<1>5. QED
  BY <1>2, <1>3, <1>4 DEF Effect

LEMMA ServedHas == ASSUME TypeOK, NEW s \in Sessions, Served(s) PROVE Effect(s)
  BY ServedEffect DEF Effect

LEMMA StepEffect ==
  ASSUME TypeOK, Next
  PROVE  \E s \in Sessions : Effect(s)
  BY CommandEffect, ServedHas, ClientEffect DEF Next

-----------------------------------------------------------------------------
\* A step is of one session: the others' records stay what they are, or it is the
\* wild close of a channel of theirs.
SameAt(t) ==
  user'[t] = user[t] /\ dc'[t] = dc[t] /\ peer'[t] = peer[t] /\ hist'[t] = hist[t]

HitAt(t) ==
  /\ "wild" \in Faults
  /\ user'[t] = user[t] /\ hist'[t] = hist[t]
  /\ dc'[t] = [ZeroData EXCEPT !.used = dc[t].used]

LEMMA OthersSame ==
  ASSUME TypeOK, NEW s \in Sessions, NEW t \in Sessions \ {s},
         Commanded(s) \/ Served(s) \/ ClientSend(s) \/ ClientEnd(s)
  PROVE  SameAt(t) \/ HitAt(t)
<1>1. /\ DOMAIN user = Sessions /\ DOMAIN dc = Sessions
      /\ DOMAIN peer = Sessions /\ DOMAIN hist = Sessions
  BY DEF TypeOK
<1>2. CASE Commanded(s)
  BY <1>1, <1>2 DEF Commanded, Pasv, Rest, FirstStage, FirstStageRefused, FirstStageOdd,
                      EndSession, Size, Dele, SameAt
<1>3. ASSUME NEW H, NEW P, DataClose(H, P, s), DOMAIN P = Sessions, DOMAIN H = Sessions,
             P[t] = peer[t], H[t] = hist[t]
      PROVE  dc'[t] = dc[t] /\ peer'[t] = peer[t] /\ hist'[t] = hist[t]
  BY <1>1, <1>3 DEF DataClose, Callback, Answer
<1>4. CASE SecondStage(s)
  BY <1>1, <1>4 DEF SecondStage, SameAt
<1>5. CASE SecondStageFails(s)
  <2>1. DOMAIN Answer(hist, s, "425") = Sessions /\ Answer(hist, s, "425")[t] = hist[t]
    BY <1>1 DEF Answer
  <2>2. user'[t] = user[t]
    BY <1>1, <1>5 DEF SecondStageFails
  <2>3. CASE DataClose(Answer(hist, s, "425"), peer, s)
    BY <1>1, <1>3, <2>1, <2>2, <2>3 DEF SameAt
  <2>4. ASSUME NEW r \in Sessions \ {s}, May(s, "wild"), WildClose(s, r)
        PROVE  SameAt(t) \/ HitAt(t)
    <3>1. hist'[t] = hist[t]
      BY <1>1, <2>4 DEF WildClose, Callback, Answer
    <3>2. CASE r = t
      BY <1>1, <2>2, <2>4, <3>1, <3>2 DEF WildClose, HitAt, May
    <3>3. CASE r # t
      BY <1>1, <2>2, <2>4, <3>1, <3>3 DEF WildClose, SameAt
    <3>4. QED
      BY <3>2, <3>3
  <2>5. QED
    BY <1>5, <2>3, <2>4 DEF SecondStageFails
<1>6. CASE SendBlock(s)
  <2>1. PICK n \in 0 .. Len(Block(s)) :
          IF LastBlock(Block(s)) THEN DataClose(EventReply(s), Delivered(s, n), s)
          ELSE peer' = Delivered(s, n) /\ UNCHANGED <<dc, hist>>
    BY <1>6 DEF SendBlock
  <2>2. DOMAIN EventReply(s) = Sessions /\ EventReply(s)[t] = hist[t]
    BY <1>1 DEF EventReply, Answer
  <2>3. DOMAIN Delivered(s, n) = Sessions /\ Delivered(s, n)[t] = peer[t]
    BY <1>1 DEF Delivered
  <2>4. user' = user
    BY <1>6 DEF SendBlock
  <2>5. QED
    BY <1>3, <2>1, <2>2, <2>3, <2>4 DEF SameAt
<1>7. CASE RecvBlock(s)
  <2>1. PICK n \in 1 .. (IF Unread(s) < BLOCK THEN Unread(s) ELSE BLOCK), hup \in BOOLEAN :
          IF hup THEN DataClose(hist, peer, s)
          ELSE peer' = [peer EXCEPT ![s].read = @ + n] /\ UNCHANGED <<dc, hist>>
    BY <1>7 DEF RecvBlock
  <2>2. user' = user
    BY <1>7 DEF RecvBlock
  <2>3. QED
    BY <1>1, <1>3, <2>1, <2>2 DEF SameAt
<1>8. CASE RecvEnd(s) \/ SendCut(s)
  BY <1>1, <1>3, <1>8 DEF RecvEnd, SendCut, SameAt
<1>9. CASE ClientSend(s) \/ ClientEnd(s)
  BY <1>1, <1>9 DEF ClientSend, ClientEnd, SameAt
<1>10. QED
  BY <1>2, <1>4, <1>5, <1>6, <1>7, <1>8, <1>9 DEF Served

\* The end of a channel, in the records of its session.
LEMMA ClosedAt ==
  ASSUME TypeOK, NEW s \in Sessions, NEW H \in [Sessions -> HistRecords],
         NEW P \in [Sessions -> PeerRecords], DataClose(H, P, s)
  PROVE  /\ dc'[s] = ZeroData /\ peer'[s].ended = "no"
         /\ hist'[s].due = IF dc[s].close THEN H[s].due - 1 ELSE H[s].due
  BY AnswerTyped DEF DataClose, Callback, Hung, TypeOK, ZeroPeer

LEMMA PendingStep ==
  ASSUME TypeOK, Pending, NEW s \in Sessions,
         Commanded(s) \/ Served(s) \/ ClientSend(s) \/ ClientEnd(s)
  PROVE  Pending'
<1> DEFINE At(t) == user[t].dlcommand = 1 /\ dc[t].type # "ACTIVE" => hist[t].file \in Files
<1>1. user[s] \in UserRecords /\ dc[s] \in DataRecords /\ hist[s] \in HistRecords
  BY DEF TypeOK
<1>2. At(s)
  BY DEF Pending
<1>3. At(s)'
  <2>1. CASE dc'[s] = ZeroData
    BY <2>1 DEF ZeroData
  <2>2. CASE \/ Pasv(s) \/ EndSession(s) \/ FirstStageRefused(s) \/ FirstStageOdd(s)
             \/ \E n \in 0 .. MaxRest : Rest(s, n)
    BY <1>1, <2>2 DEF Pasv, EndSession, FirstStageRefused, FirstStageOdd, MayStart, Rest, TypeOK,
                      UserRecords, ZeroUser
  <2>3. CASE \E cmd \in Commands, f \in Files : FirstStage(s, cmd, f)
    BY <1>1, <2>3 DEF FirstStage, TypeOK, HistRecords
  <2>4. CASE \E f \in Files : Size(s, f) \/ Dele(s, f)
    BY <1>2, <2>4 DEF Size, Dele
  <2>5. CASE SecondStage(s)
    BY <1>1, <2>5 DEF SecondStage, TypeOK, UserRecords
  <2>6. CASE UNCHANGED <<user, dc, hist>>
    BY <1>2, <2>6
  <2>7. ASSUME NEW H, NEW P, DataClose(H, P, s)
        PROVE  dc'[s] = ZeroData
    BY <2>7 DEF DataClose, TypeOK
  <2>8. CASE SecondStageFails(s) \/ SendBlock(s) \/ RecvBlock(s) \/ RecvEnd(s) \/ SendCut(s)
    <3>1. ASSUME NEW t \in Sessions \ {s}, WildClose(s, t)
          PROVE  dc'[s] = ZeroData
      BY <3>1 DEF WildClose, TypeOK
    <3>2. QED
      BY <2>1, <2>6, <2>7, <2>8, <3>1 DEF SecondStageFails, SendBlock, RecvBlock, RecvEnd, SendCut
  <2>9. CASE ClientSend(s) \/ ClientEnd(s)
    BY <2>6, <2>9 DEF ClientSend, ClientEnd
  <2>10. QED
    BY <2>2, <2>3, <2>4, <2>5, <2>8, <2>9 DEF Commanded, Served
<1>4. ASSUME NEW t \in Sessions \ {s}
      PROVE  At(t)'
  <2>1. At(t)
    BY DEF Pending
  <2>2. QED
    BY <2>1, OthersSame DEF SameAt, HitAt, ZeroData
<1>5. QED
  BY <1>3, <1>4 DEF Pending

-----------------------------------------------------------------------------
\* The file of a careful client: an idle channel has none, a channel that has one
\* is allocated, so that its end closes it, and no other file was opened for the
\* client.
HeldBy(s) == \A h \in Handles : Open(h) /\ handle[h].by = s => dc[s].hFile = h

HoldsAt(s) ==
  /\ user[s].dlcommand = 0 /\ dc[s].type # "CONNECTED" => dc[s].hFile = NoHandle
  /\ dc[s].hFile # NoHandle => dc[s].used
  /\ HeldBy(s)

HoldsInv == \A s \in Careful : HoldsAt(s)

IInv == TypeOK /\ Pending /\ HoldsInv

\* A step that opens no file for s, and takes none from its channel unless it
\* closes it.
LEMMA HeldStep ==
  ASSUME TypeOK, NEW s \in Sessions, HeldBy(s), NEW r \in Sessions, Effect(r),
         r = s => (\E t \in Sessions : Closes(s, t)) \/ (Keeps(s) /\ dc'[s].hFile = dc[s].hFile)
  PROVE  HeldBy(s)'
<1>1. handle \in [Handles -> HandleRecords]
  BY DEF TypeOK
<1>2. CASE r # s /\ \E f \in Files, h \in Handles, a \in {"read", "write", "both"} : Opens(r, f, h, a)
  <2>1. PICK f \in Files, h \in Handles, a \in {"read", "write", "both"} : Opens(r, f, h, a)
    BY <1>2
  <2>2. handle'[h].by = r /\ \A g \in Handles \ {h} : handle'[g] = handle[g]
    BY <1>1, <2>1 DEF Opens, OpenAs
  <2>3. dc'[s].hFile = dc[s].hFile
    BY <1>2, <2>1 DEF Opens, OthersKeep
  <2>4. QED
    BY <1>2, <2>2, <2>3 DEF HeldBy, Open
<1>3. ASSUME NEW t \in Sessions, Closes(r, t)
      PROVE  HeldBy(s)'
  <2>1. ASSUME NEW h \in Handles, Open(h)', handle'[h].by = s
        PROVE  dc'[s].hFile = h
    <3>1. h \notin {dc[r].hFile, dc[t].hFile} /\ handle'[h] = handle[h]
      BY <1>3, <2>1 DEF Closes, Open, Closed
    <3>2. dc[s].hFile = h
      BY <2>1, <3>1 DEF HeldBy, Open
    <3>3. QED
      BY <1>3, <3>1, <3>2 DEF Closes
  <2>2. QED
    BY <2>1 DEF HeldBy
<1>4. CASE Keeps(r) /\ dc'[s].hFile = dc[s].hFile
  BY <1>4 DEF Keeps, HeldBy, Open
<1>5. r # s /\ Keeps(r) => dc'[s].hFile = dc[s].hFile
  BY DEF Keeps, OthersKeep
<1>6. QED
  BY <1>2, <1>3, <1>4, <1>5 DEF Effect

\* A command of the careful session itself.
LEMMA HoldsCommand ==
  ASSUME TypeOK, NEW s \in Careful, HoldsAt(s), Commanded(s)
  PROVE  HoldsAt(s)'
<1>1. /\ user \in [Sessions -> UserRecords] /\ dc \in [Sessions -> DataRecords]
      /\ handle \in [Handles -> HandleRecords]
      /\ s \in Sessions /\ \A fault : ~May(s, fault)
  BY DEF TypeOK, Careful, May
<1>2. user[s] \in UserRecords /\ dc[s] \in DataRecords /\ NoHandle \notin Handles
  BY <1>1, TransfersAssumption DEF NoHandle
<1>3. CASE Pasv(s)
  <2>1. dc'[s].hFile = dc[s].hFile /\ dc'[s].used /\ UNCHANGED <<user, handle>> /\ ~dc[s].used
    BY <1>1, <1>2, <1>3 DEF Pasv, DataRecords
  <2>2. QED
    BY <2>1 DEF HoldsAt, HeldBy, Open
<1>4. CASE \E n \in 0 .. MaxRest : Rest(s, n)
  <2>1. user'[s].dlcommand = user[s].dlcommand /\ UNCHANGED <<dc, handle>>
    BY <1>1, <1>2, <1>4 DEF Rest, UserRecords
  <2>2. QED
    BY <2>1 DEF HoldsAt, HeldBy, Open
<1>5. CASE \E cmd \in Commands, f \in Files : FirstStage(s, cmd, f)
  <2>1. PICK cmd \in Commands, f \in Files : FirstStage(s, cmd, f)
    BY <1>5
  <2>2. PICK h \in Handles : OpenAs(s, h, f, Access(cmd)) /\ dc' = [dc EXCEPT ![s].hFile = h]
    BY <2>1 DEF FirstStage
  <2>3. dc'[s].hFile = h /\ dc'[s].used = dc[s].used /\ user'[s].dlcommand = 1
    BY <1>1, <1>2, <2>1, <2>2 DEF FirstStage, DataRecords, UserRecords
  <2>4. dc[s].used /\ dc[s].hFile = NoHandle
    BY <1>1, <2>1 DEF FirstStage, MayStart, HoldsAt
  <2>5. \A g \in Handles \ {h} : handle'[g] = handle[g]
    BY <1>1, <2>2 DEF OpenAs
  <2>6. HeldBy(s)'
    BY <1>2, <2>3, <2>4, <2>5 DEF HoldsAt, HeldBy, Open
  <2>7. QED
    BY <2>3, <2>4, <2>6 DEF HoldsAt
<1>6. CASE FirstStageRefused(s)
  <2>1. dc[s].hFile = NoHandle
    BY <1>1, <1>6 DEF FirstStageRefused, MayStart, HoldsAt
  <2>2. dc'[s].hFile = NoHandle /\ UNCHANGED <<user, handle>>
    BY <1>1, <1>2, <1>6, <2>1 DEF FirstStageRefused, DataRecords
  <2>3. QED
    BY <2>1, <2>2 DEF HoldsAt, HeldBy, Open
<1>7. CASE EndSession(s)
  <2>1. dc'[s].hFile = NoHandle
    BY <1>1, <1>7 DEF EndSession, ZeroData
  <2>2. ASSUME NEW h \in Handles, Open(h)', handle'[h].by = s
        PROVE  FALSE
    <3>1. handle'[h] = handle[h]
      BY <1>7, <2>2 DEF EndSession, Open, Closed
    <3>2. dc[s].hFile = h
      BY <2>2, <3>1 DEF HoldsAt, HeldBy, Open
    <3>3. dc[s].used
      BY <1>2, <3>2 DEF HoldsAt
    <3>4. QED
      BY <1>7, <2>2, <3>2, <3>3 DEF EndSession, Open, Closed
  <2>3. QED
    BY <2>1, <2>2 DEF HoldsAt, HeldBy
<1>8. CASE \E f \in Files : Dele(s, f)
  BY <1>8 DEF Dele, HoldsAt, HeldBy, Open
<1>9. QED
  BY <1>1, <1>3, <1>4, <1>5, <1>6, <1>7, <1>8 DEF Commanded, FirstStageOdd, Size

\* A step of the loop for it.
LEMMA HoldsServed ==
  ASSUME TypeOK, NEW s \in Careful, HoldsAt(s), Served(s)
  PROVE  HoldsAt(s)'
<1>1. user \in [Sessions -> UserRecords] /\ dc \in [Sessions -> DataRecords] /\ s \in Sessions
  BY DEF TypeOK, Careful
<1>2. user[s] \in UserRecords /\ dc[s] \in DataRecords
  BY <1>1
<1>3. HeldBy(s)'
  BY <1>1, ServedEffect, ServedHas, HeldStep DEF HoldsAt
<1>4. ASSUME dc'[s].hFile = NoHandle
      PROVE  HoldsAt(s)'
  BY <1>3, <1>4 DEF HoldsAt
<1>5. CASE SecondStage(s)
  <2>1. dc'[s].hFile = dc[s].hFile /\ dc'[s].used = dc[s].used /\ dc'[s].type = "CONNECTED"
    BY <1>1, <1>2, <1>5 DEF SecondStage, DataRecords
  <2>2. QED
    BY <1>3, <2>1 DEF HoldsAt
<1>6. CASE UNCHANGED <<user, dc>>
  BY <1>3, <1>6 DEF HoldsAt
<1>7. ASSUME NEW H, NEW P, DataClose(H, P, s)
      PROVE  dc'[s].hFile = NoHandle
  BY <1>1, <1>7 DEF DataClose, ZeroData
<1>8. ASSUME NEW t \in Sessions \ {s}, WildClose(s, t)
      PROVE  dc'[s].hFile = NoHandle
  BY <1>1, <1>8 DEF WildClose, ZeroData
<1>9. CASE SecondStageFails(s) \/ SendBlock(s) \/ RecvBlock(s) \/ RecvEnd(s) \/ SendCut(s)
  BY <1>4, <1>6, <1>7, <1>8, <1>9 DEF SecondStageFails, SendBlock, RecvBlock, RecvEnd, SendCut
<1>10. QED
  BY <1>5, <1>9 DEF Served

LEMMA Inductive == IInv /\ [Next]_vars => IInv'
<1> SUFFICES ASSUME IInv, [Next]_vars PROVE IInv'
  OBVIOUS
<1>1. TypeOK'
  BY StepTyped DEF IInv
<1>2. CASE UNCHANGED vars
  BY <1>1, <1>2 DEF vars, IInv, Pending, HoldsInv, HoldsAt, HeldBy, Open
<1>3. CASE Next
  <2>1. PICK s \in Sessions : Commanded(s) \/ Served(s) \/ ClientSend(s) \/ ClientEnd(s)
    BY <1>3 DEF Next
  <2>2. Pending'
    BY <2>1, PendingStep DEF IInv
  <2>3. ASSUME NEW t \in Careful
        PROVE  HoldsAt(t)'
    <3>1. HoldsAt(t) /\ t \in Sessions
      BY DEF IInv, HoldsInv, Careful
    <3>2. CASE t = s
      <4>1. ClientSend(s) \/ ClientEnd(s) => UNCHANGED <<user, dc, handle>>
        BY DEF ClientSend, ClientEnd
      <4>2. UNCHANGED <<user, dc, handle>> => HoldsAt(t)'
        BY <3>1 DEF HoldsAt, HeldBy, Open
      <4>3. QED
        BY <2>1, <3>1, <3>2, <4>1, <4>2, HoldsCommand, HoldsServed DEF IInv
    <3>3. CASE t # s
      <4>1. Effect(s)
        BY <2>1, CommandEffect, ServedHas, ClientEffect DEF IInv
      <4>2. HeldBy(t)'
        BY <3>1, <3>3, <4>1, HeldStep DEF IInv, HoldsAt
      <4>3. SameAt(t) \/ HitAt(t)
        BY <2>1, <3>1, <3>3, OthersSame DEF IInv
      <4>4. dc'[t].type = dc[t].type \/ dc'[t].hFile = NoHandle
        BY <4>3 DEF SameAt, HitAt, ZeroData
      <4>5. dc'[t].used = dc[t].used /\ dc'[t].hFile \in {dc[t].hFile, NoHandle}
        BY <4>3 DEF SameAt, HitAt, ZeroData
      <4>6. user'[t] = user[t]
        BY <4>3 DEF SameAt, HitAt
      <4>7. QED
        BY <3>1, <4>2, <4>4, <4>5, <4>6 DEF HoldsAt
    <3>4. QED
      BY <3>2, <3>3
  <2>4. QED
    BY <1>1, <2>2, <2>3 DEF IInv, HoldsInv
<1>4. QED
  BY <1>2, <1>3

LEMMA Initial == Init => IInv
<1> SUFFICES ASSUME Init PROVE IInv
  OBVIOUS
<1>1. TypeOK
  BY InitTyped
<1>2. \A s \in Careful : HoldsAt(s)
  BY DEF Init, HoldsAt, HeldBy, Open, Closed, Careful, ZeroUser, ZeroData
<1>3. QED
  BY <1>1, <1>2 DEF Init, IInv, HoldsInv, Pending, ZeroUser

LEMMA Invariance == Spec => []IInv
  BY Initial, Inductive, PTL DEF Spec

\* Transfers keep the types of their records, files and handles.
THEOREM TransfersTyped == Spec => []TypeOK
  BY Invariance, PTL DEF IInv

\* No file opened for a careful client is lost: it is in the client's channel until
\* it is closed, whatever any client does.
THEOREM HandlesKept == Spec => []NoneLost
<1>1. IInv => NoneLost
  BY DEF IInv, HoldsInv, HoldsAt, HeldBy, NoneLost
<1>2. QED
  BY <1>1, Invariance, PTL

\* Where no name is odd the handle in a channel is open and the channel's own,
\* whatever else the clients do: no second close or write reaches another session's
\* file.
LEMMA LiveInvariance == ASSUME "odd" \notin Faults PROVE Spec => [](IInv /\ HFileLive)
<1>1. Init => HFileLive
  BY TransfersAssumption DEF Init, HFileLive, ZeroData, NoHandle
<1>2. IInv /\ HFileLive /\ [Next]_vars => HFileLive'
  <2> SUFFICES ASSUME IInv, HFileLive, [Next]_vars PROVE HFileLive'
    OBVIOUS
  <2>1. CASE UNCHANGED vars
    BY <2>1 DEF vars, HFileLive, Open
  <2>2. CASE Next
    BY <2>2, StepEffect, EffectLive DEF IInv
  <2>3. QED
    BY <2>1, <2>2
<1>3. QED
  BY <1>1, <1>2, Initial, Inductive, PTL DEF Spec

\* A handle that a channel of a careful client names is open, and was opened for
\* that channel, unless a directory answers as a file: then its number stays.
THEOREM HandlesLive == ASSUME "odd" \notin Faults PROVE Spec => []HFileLive
  BY LiveInvariance, PTL

-----------------------------------------------------------------------------
\* What is owed to a careful client on its channel, and what the channel is then
\* like.
Idle(s) == ~dc[s].close /\ peer[s].ended = "no" /\ (dc[s].type = "PASSIVE" => dc[s].used)

CarefulAt(s) ==
  \/ /\ user[s].dlcommand = 0 /\ dc[s].type # "CONNECTED"
     /\ hist[s].due = 0 /\ Idle(s)
  \/ /\ user[s].dlcommand = 1 /\ dc[s].type # "CONNECTED"
     /\ hist[s].due = 1 /\ Idle(s)
  \/ /\ user[s].dlcommand = 0 /\ dc[s].type = "CONNECTED" /\ dc[s].used
     /\ hist[s].due = 1
     /\ \/ dc[s].mode = "SEND_FP" /\ dc[s].event /\ ~dc[s].close /\ peer[s].ended = "no"
        \/ dc[s].mode = "RECV_FP" /\ dc[s].close

CarefulInv == \A s \in Careful : CarefulAt(s)

\* A step of a careful client's session, by what it is.
LEMMA CarefulCommand ==
  ASSUME TypeOK, NEW s \in Careful, CarefulAt(s), Commanded(s)
  PROVE  CarefulAt(s)'
<1>1. /\ user[s] \in UserRecords /\ dc[s] \in DataRecords /\ hist[s] \in HistRecords
      /\ s \in Sessions /\ \A fault : ~May(s, fault)
  BY DEF TypeOK, Careful, May
<1>2. CASE Pasv(s)
  BY <1>1, <1>2 DEF Pasv, CarefulAt, Idle, TypeOK, DataRecords, ZeroPeer, ZeroHist
<1>3. CASE \E n \in 0 .. MaxRest : Rest(s, n)
  BY <1>1, <1>3 DEF Rest, CarefulAt, Idle, TypeOK, UserRecords
<1>4. CASE \E cmd \in Commands, f \in Files : FirstStage(s, cmd, f)
  BY <1>1, <1>4 DEF FirstStage, MayStart, CarefulAt, Idle, TypeOK, UserRecords, DataRecords, HistRecords
<1>5. CASE FirstStageRefused(s)
  <2>1. PICK h \in Handles \cup {NoHandle} : dc' = [dc EXCEPT ![s].hFile = h]
    BY <1>1, <1>5 DEF FirstStageRefused, DataRecords
  <2>2. /\ dc'[s].type = dc[s].type /\ dc'[s].close = dc[s].close /\ dc'[s].used = dc[s].used
        /\ dc'[s].mode = dc[s].mode /\ dc'[s].event = dc[s].event
    BY <1>1, <2>1 DEF TypeOK, DataRecords
  <2>3. UNCHANGED <<user, peer, hist>>
    BY <1>5 DEF FirstStageRefused
  <2>4. QED
    BY <2>2, <2>3 DEF CarefulAt, Idle
<1>6. CASE EndSession(s)
  BY <1>1, <1>6 DEF EndSession, CarefulAt, Idle, TypeOK, ZeroData, ZeroUser, ZeroPeer, ZeroHist
<1>7. CASE \E f \in Files : Size(s, f) \/ Dele(s, f)
  BY <1>7 DEF Size, Dele, CarefulAt, Idle
<1>8. QED
  BY <1>1, <1>2, <1>3, <1>4, <1>5, <1>6, <1>7 DEF Commanded, FirstStageOdd

LEMMA CarefulServed ==
  ASSUME TypeOK, NEW s \in Careful, CarefulAt(s), Served(s)
  PROVE  CarefulAt(s)'
<1>1. /\ user[s] \in UserRecords /\ dc[s] \in DataRecords /\ hist[s] \in HistRecords
      /\ s \in Sessions /\ hist \in [Sessions -> HistRecords] /\ peer \in [Sessions -> PeerRecords]
      /\ ~May(s, "wild")
  BY DEF TypeOK, Careful, May
\* Behind the end of a channel nothing is owed, and the client may begin again.
<1>2. ASSUME dc'[s] = ZeroData, peer'[s].ended = "no", hist'[s].due = 0, user'[s].dlcommand = 0
      PROVE  CarefulAt(s)'
  BY <1>2 DEF CarefulAt, Idle, ZeroData
<1>3. CASE SecondStage(s)
  <2>1. CarefulAt(s) /\ hist[s].due = 1 /\ dc[s].used /\ Idle(s)
    BY <1>3 DEF SecondStage, CarefulAt, Idle
  <2>2. hist'[s].due = 1 /\ peer'[s] = peer[s] /\ user'[s].dlcommand = 0
    BY <1>1, <1>3, <2>1 DEF SecondStage, TypeOK, HistRecords, UserRecords
  <2>3. /\ dc'[s].type = "CONNECTED" /\ dc'[s].used
        /\ \/ dc'[s].mode = "SEND_FP" /\ dc'[s].event /\ ~dc'[s].close
           \/ dc'[s].mode = "RECV_FP" /\ dc'[s].close
    BY <1>1, <1>3, <2>1 DEF SecondStage, TypeOK, DataRecords, Idle
  <2>4. QED
    BY <2>1, <2>2, <2>3 DEF CarefulAt, Idle
<1>4. CASE SecondStageFails(s)
  <2>1. hist[s].due = 1 /\ ~dc[s].close
    BY <1>4 DEF SecondStageFails, CarefulAt, Idle
  <2>2. Answer(hist, s, "425") \in [Sessions -> HistRecords] /\ Answer(hist, s, "425")[s].due = 0
    BY <1>1, <2>1, AnswerTyped
  <2>3. dc'[s] = ZeroData /\ peer'[s].ended = "no" /\ hist'[s].due = 0
    BY <1>1, <1>4, <2>1, <2>2, ClosedAt DEF SecondStageFails
  <2>4. user'[s].dlcommand = 0
    BY <1>1, <1>4 DEF SecondStageFails, TypeOK, UserRecords
  <2>5. QED
    BY <1>2, <2>3, <2>4
<1>5. CASE SendBlock(s)
  <2>1. hist[s].due = 1 /\ dc[s].event /\ ~dc[s].close /\ user[s].dlcommand = 0
    BY <1>5 DEF SendBlock, Running, CarefulAt
  <2>2. PICK n \in 0 .. Len(Block(s)) :
          IF LastBlock(Block(s)) THEN DataClose(EventReply(s), Delivered(s, n), s)
          ELSE peer' = Delivered(s, n) /\ UNCHANGED <<dc, hist>>
    BY <1>5 DEF SendBlock
  <2>3. user' = user
    BY <1>5 DEF SendBlock
  <2>4. CASE LastBlock(Block(s))
    <3>1. EventReply(s) \in [Sessions -> HistRecords] /\ EventReply(s)[s].due = 0
      BY <1>1, <2>1, AnswerTyped DEF EventReply
    <3>2. dc'[s] = ZeroData /\ peer'[s].ended = "no"
      <4>1. DOMAIN Delivered(s, n) = Sessions /\ DOMAIN dc = Sessions
        BY <1>1 DEF Delivered, TypeOK
      <4>2. QED
        BY <1>1, <2>2, <2>4, <4>1 DEF DataClose, Hung, ZeroPeer
    <3>3. hist'[s].due = 0
      BY <2>1, <2>2, <2>4, <3>1 DEF DataClose, Callback
    <3>4. QED
      BY <1>2, <2>1, <2>3, <3>2, <3>3
  <2>5. CASE ~LastBlock(Block(s))
    <3>1. peer'[s].ended = peer[s].ended
      BY <1>1, <2>2, <2>5 DEF Delivered, PeerRecords
    <3>2. QED
      BY <2>2, <2>3, <2>5, <3>1 DEF CarefulAt, Idle
  <2>6. QED
    BY <2>4, <2>5
<1>6. ASSUME Running(s, "RECV_FP"), DataClose(hist, peer, s), user' = user
      PROVE  CarefulAt(s)'
  <2>1. hist[s].due = 1 /\ dc[s].close /\ user[s].dlcommand = 0
    BY <1>6 DEF Running, CarefulAt
  <2>2. dc'[s] = ZeroData /\ peer'[s].ended = "no" /\ hist'[s].due = 0
    BY <1>1, <1>6, <2>1, ClosedAt
  <2>3. QED
    BY <1>2, <1>6, <2>1, <2>2
<1>7. CASE RecvBlock(s)
  <2>1. PICK n \in 1 .. (IF Unread(s) < BLOCK THEN Unread(s) ELSE BLOCK), hup \in BOOLEAN :
          IF hup THEN DataClose(hist, peer, s)
          ELSE peer' = [peer EXCEPT ![s].read = @ + n] /\ UNCHANGED <<dc, hist>>
    BY <1>7 DEF RecvBlock
  <2>2. Running(s, "RECV_FP") /\ user' = user
    BY <1>7 DEF RecvBlock
  <2>3. CASE hup
    BY <1>6, <2>1, <2>2, <2>3
  <2>4. CASE ~hup
    <3>1. peer'[s].ended = peer[s].ended
      BY <1>1, <2>1, <2>4 DEF PeerRecords
    <3>2. QED
      BY <2>1, <2>2, <2>4, <3>1 DEF CarefulAt, Idle
  <2>5. QED
    BY <2>3, <2>4
<1>8. CASE RecvEnd(s)
  BY <1>6, <1>8 DEF RecvEnd
<1>9. ~SendCut(s)
  BY DEF SendCut, Running, CarefulAt
<1>10. QED
  BY <1>3, <1>4, <1>5, <1>7, <1>8, <1>9 DEF Served

LEMMA CarefulClient ==
  ASSUME TypeOK, NEW s \in Careful, CarefulAt(s), ClientSend(s) \/ ClientEnd(s)
  PROVE  CarefulAt(s)'
<1>1. peer[s] \in PeerRecords /\ \A fault : ~May(s, fault)
  BY DEF TypeOK, Careful, May
<1>2. Running(s, "RECV_FP") /\ UNCHANGED <<user, dc, hist>>
  BY <1>1 DEF ClientSend, ClientEnd
<1>3. QED
  BY <1>2 DEF CarefulAt, Running

LEMMA CarefulInvariance == ASSUME "wild" \notin Faults PROVE Spec => [](IInv /\ CarefulInv)
<1>1. Init => CarefulInv
  BY DEF Init, CarefulInv, CarefulAt, Idle, Careful, ZeroUser, ZeroData, ZeroPeer, ZeroHist
<1>2. IInv /\ CarefulInv /\ [Next]_vars => CarefulInv'
  <2> SUFFICES ASSUME IInv, CarefulInv, [Next]_vars, NEW t \in Careful PROVE CarefulAt(t)'
    BY DEF CarefulInv
  <2>1. CarefulAt(t) /\ TypeOK /\ t \in Sessions
    BY DEF IInv, CarefulInv, Careful
  <2>2. CASE UNCHANGED vars
    BY <2>1, <2>2 DEF vars, CarefulAt, Idle
  <2>3. CASE Next
    <3>1. PICK s \in Sessions : Commanded(s) \/ Served(s) \/ ClientSend(s) \/ ClientEnd(s)
      BY <2>3 DEF Next
    <3>2. CASE t = s
      BY <2>1, <3>1, <3>2, CarefulCommand, CarefulServed, CarefulClient
    <3>3. CASE t # s
      <4>1. SameAt(t)
        BY <2>1, <3>1, <3>3, OthersSame DEF HitAt
      <4>2. QED
        BY <2>1, <4>1 DEF SameAt, CarefulAt, Idle
    <3>4. QED
      BY <3>2, <3>3
  <2>4. QED
    BY <2>2, <2>3
<1>3. QED
  BY <1>1, <1>2, Initial, Inductive, PTL DEF Spec

\* Where no close is wild a careful client is answered once for each transfer that
\* was announced.
THEOREM TransfersAnswered == ASSUME "wild" \notin Faults PROVE Spec => []Answered
<1>1. CarefulInv => Answered
  BY DEF CarefulInv, CarefulAt, Answered
<1>2. QED
  BY <1>1, CarefulInvariance, PTL

-----------------------------------------------------------------------------
\* The refinement: opening is opening, closing closes a reader or the writer,
\* a block of an upload is a write, and the rest is of no concern to files.
Readers(f) == {h \in OnFile(f) : ~CanWrite(h)}
Writers(f) == {h \in OnFile(f) : CanWrite(h)}
readersOf == [f \in Files |-> Readers(f)]
writersOf == [f \in Files |-> Writers(f)]

\* What the handles are open for decides who reads and writes.
LEMMA SameLocks ==
  ASSUME \A g \in Handles : handle'[g].file = handle[g].file /\ handle'[g].access = handle[g].access
  PROVE  readersOf' = readersOf /\ writersOf' = writersOf
  BY DEF readersOf, writersOf, Readers, Writers, OnFile, Open, CanWrite

LEMMA MapInit ==
  Init => readersOf = [f \in Files |-> {}] /\ writersOf = [f \in Files |-> {}]
  BY DEF Init, readersOf, writersOf, Readers, Writers, OnFile, Open, Closed

\* A handle that is not open is on no file.
LEMMA HeldOpen ==
  ASSUME NEW h \in Handles
  PROVE  Locks!Held(h) <=> \E f \in Files : h \in Readers(f) \cup Writers(f)
  BY DEF Locks!Held, Readers, Writers, OnFile, Open

LEMMA OpensMapped ==
  ASSUME TypeOK, NEW s, NEW f \in Files, NEW h \in Handles, NEW a \in {"read", "write", "both"},
         Opens(s, f, h, a)
  PROVE  Locks!OpenToRead(f, h) \/ Locks!OpenToWrite(f, h)
<1>1. handle'[h].file = f /\ handle'[h].access = a /\ \A g \in Handles \ {h} : handle'[g] = handle[g]
  BY DEF Opens, OpenAs, TypeOK
<1>2. \A e \in Files : h \notin Readers(e) \cup Writers(e)
  BY DEF Opens, OpenAs, Readers, Writers, OnFile
<1>3. ~Locks!Held(h)
  BY <1>2, HeldOpen
<1>4. CASE a = "read"
  <2>1. Writers(f) = {} /\ disk' = disk
    BY <1>4 DEF Opens, CanOpen, Writers, CanWrite
  <2>2. \A e \in Files : Readers(e)' = IF e = f THEN Readers(e) \cup {h} ELSE Readers(e)
    BY <1>1, <1>2, <1>4 DEF Readers, OnFile, Open, CanWrite
  <2>3. \A e \in Files : Writers(e)' = Writers(e)
    BY <1>1, <1>2, <1>4 DEF Writers, OnFile, Open, CanWrite
  <2>4. /\ readersOf' = [readersOf EXCEPT ![f] = @ \cup {h}]
        /\ writersOf' = writersOf /\ writersOf[f] = {}
    BY <2>1, <2>2, <2>3 DEF readersOf, writersOf
  <2>5. QED
    BY <1>3, <2>1, <2>4 DEF Locks!OpenToRead, readersOf, writersOf, Readers, Writers
<1>5. CASE a # "read"
  <2>1. Writers(f) = {} /\ Readers(f) = {} /\ \A e \in Files \ {f} : disk'[e] = disk[e]
    BY <1>5 DEF Opens, CanOpen, Writers, Readers
  <2>2. \A e \in Files : Writers(e)' = IF e = f THEN {h} ELSE Writers(e)
    BY <1>1, <1>2, <1>5, <2>1 DEF Writers, OnFile, Open, CanWrite
  <2>3. \A e \in Files : Readers(e)' = Readers(e)
    BY <1>1, <1>2, <1>5 DEF Readers, OnFile, Open, CanWrite
  <2>4. /\ writersOf' = [writersOf EXCEPT ![f] = {h}] /\ readersOf' = readersOf
        /\ writersOf[f] = {} /\ readersOf[f] = {}
    BY <2>1, <2>2, <2>3 DEF readersOf, writersOf
  <2>5. QED
    BY <1>3, <2>1, <2>4 DEF Locks!OpenToWrite, Locks!OnlyAt, readersOf, writersOf, Readers, Writers
<1>6. QED
  BY <1>4, <1>5

\* A change of files by the channel of s is a write of its writer.
LEMMA DiskMapped ==
  ASSUME TypeOK, NEW s \in Sessions, DiskBy(s), disk' # disk
  PROVE  \E f \in Files : dc[s].hFile \in Writers(f) /\ Locks!OnlyAt(f)
<1> DEFINE h == dc[s].hFile
           f == handle[h].file
<1>1. /\ h \in Handles /\ Open(h) /\ CanWrite(h)
      /\ \A g \in Files \ {f} : disk'[g] = disk[g]
  BY DEF DiskBy, Open, CanWrite
<1>2. f \in Files
  BY <1>1, PositionTyped
<1>3. h \in Writers(f)
  BY <1>1 DEF Writers, OnFile
<1>4. QED
  BY <1>1, <1>2, <1>3 DEF Locks!OnlyAt

LEMMA ClosesMapped ==
  ASSUME TypeOK, NEW s \in Sessions, NEW t \in Sessions, Closes(s, t)
  PROVE  \E H \in SUBSET Handles : Locks!Close(H)
<1> DEFINE H == {dc[s].hFile, dc[t].hFile} \cap Handles
<1>1. /\ \A h \in Handles : handle'[h] = IF h \in H THEN Closed ELSE handle[h]
      /\ DiskBy(s)
  BY DEF Closes
<1>2. \A f \in Files : Readers(f)' = Readers(f) \ H /\ Writers(f)' = Writers(f) \ H
  BY <1>1 DEF Readers, Writers, OnFile, Open, CanWrite, Closed
<1>3. /\ readersOf' = [f \in Files |-> readersOf[f] \ H]
      /\ writersOf' = [f \in Files |-> writersOf[f] \ H]
  BY <1>2 DEF readersOf, writersOf
<1>4. ASSUME NEW f \in Files, writersOf[f] \cap H = {}
      PROVE  disk'[f] = disk[f]
  <2>1. CASE disk' = disk
    BY <2>1
  <2>2. CASE disk' # disk
    <3>1. PICK e \in Files : dc[s].hFile \in Writers(e) /\ Locks!OnlyAt(e)
      BY <1>1, <2>2, DiskMapped
    <3>2. dc[s].hFile \in H
      BY <3>1 DEF Writers, OnFile
    <3>3. f # e
      BY <1>4, <3>1, <3>2 DEF writersOf
    <3>4. QED
      BY <3>1, <3>3 DEF Locks!OnlyAt
  <2>3. QED
    BY <2>1, <2>2
<1>5. Locks!Close(H)
  BY <1>3, <1>4 DEF Locks!Close, readersOf, writersOf, Readers, Writers
<1>6. QED
  BY <1>5

LEMMA KeepsMapped ==
  ASSUME TypeOK, NEW s \in Sessions, Keeps(s)
  PROVE  \/ \E f \in Files : Locks!Write(f) \/ Locks!Remove(f)
         \/ UNCHANGED <<readersOf, writersOf, disk>>
<1>1. readersOf' = readersOf /\ writersOf' = writersOf
  BY SameLocks DEF Keeps
<1>2. CASE disk' = disk
  BY <1>1, <1>2
<1>3. CASE DiskBy(s) /\ disk' # disk
  <2>1. PICK f \in Files : dc[s].hFile \in Writers(f) /\ Locks!OnlyAt(f)
    BY <1>3, DiskMapped
  <2>2. Locks!Write(f)
    BY <1>1, <2>1 DEF Locks!Write, readersOf, writersOf, Readers, Writers
  <2>3. QED
    BY <2>2
<1>4. CASE \E f \in Files : OnFile(f) = {} /\ \A g \in Files \ {f} : disk'[g] = disk[g]
  <2>1. PICK f \in Files : OnFile(f) = {} /\ \A g \in Files \ {f} : disk'[g] = disk[g]
    BY <1>4
  <2>2. Readers(f) = {} /\ Writers(f) = {}
    BY <2>1 DEF Readers, Writers
  <2>3. Locks!Remove(f)
    BY <1>1, <2>1, <2>2 DEF Locks!Remove, Locks!OnlyAt, readersOf, writersOf, Readers, Writers
  <2>4. QED
    BY <2>3
<1>5. QED
  BY <1>2, <1>3, <1>4 DEF Keeps

\* Whatever the clients do, a file is read by many or written by one, and
\* changes only by its writer or when nobody has it open.
THEOREM TransfersImplementLocks == Spec => ImplementsLocks
<1>1. Init => Locks!Init
  BY MapInit DEF Locks!Init, readersOf, writersOf, Readers, Writers
<1>2. IInv /\ [Next]_vars => [Locks!Next]_(Locks!vars)
  <2> SUFFICES ASSUME IInv, [Next]_vars PROVE [Locks!Next]_(Locks!vars)
    OBVIOUS
  <2>1. CASE UNCHANGED vars
    BY <2>1 DEF vars, Locks!vars, OnFile, Open, CanWrite
  <2>2. CASE Next
    <3>1. PICK s \in Sessions : Effect(s)
      BY <2>2, StepEffect DEF IInv
    <3>2. UNCHANGED <<readersOf, writersOf, disk>> => UNCHANGED Locks!vars
      BY DEF readersOf, writersOf, Readers, Writers, Locks!vars
    <3>3. QED
      BY <3>1, <3>2, OpensMapped, ClosesMapped, KeepsMapped DEF IInv, Effect, Locks!Next
  <2>3. QED
    BY <2>1, <2>2
<1>3. QED
  BY <1>1, <1>2, Invariance, PTL DEF Spec, ImplementsLocks, Locks!Spec
-----------------------------------------------------------------------------
\* What a transfer of a careful client brings, from the 150 to the 226.

\* Who writes a file has it alone.
Exclusive ==
  \A g, h \in Handles :
    CanWrite(h) /\ Open(g) /\ handle[g].file = handle[h].file => g = h

\* The channel's file is that of the transfer, open for it, and moved by n bytes.
FileOf(s, n) ==
  /\ dc[s].hFile \in Handles /\ hist[s].file \in Files /\ hist[s].cmd \in Commands
  /\ handle[dc[s].hFile] = [file |-> hist[s].file, access |-> Access(hist[s].cmd), pos |-> n, by |-> s]

Content(s) == disk[hist[s].file].data

\* What an upload has stored so far.
Received(s) ==
  IF peer[s].read = 0 THEN <<>> ELSE Written(<<>>, hist[s].rest, SubSeq(peer[s].sent, 1, peer[s].read))

\* What is in a file between two positions, as far as the file goes: what a
\* download has brought.
Between(data, m, n) == SubSeq(data, m + 1, IF n < Len(data) THEN n ELSE Len(data))
Fetched(s, n) == Between(Content(s), hist[s].rest, n)

\* Announced: the file is at its beginning, and empty if it is to be written.
AnnouncedAt(s) ==
  user[s].dlcommand = 1 =>
    /\ FileOf(s, 0) /\ hist[s].cmd = user[s].cmd
    /\ hist[s].cmd # "RETR" => Content(s) = <<>>

Downloading(s) ==
  dc[s].type = "CONNECTED" /\ dc[s].mode = "SEND_FP" =>
    /\ hist[s].cmd = "RETR"
    /\ hist[s].want = SubSeq(Content(s), hist[s].rest + 1, Len(Content(s)))
    /\ \E n \in Nat : n >= hist[s].rest /\ FileOf(s, n) /\ peer[s].got = Fetched(s, n)

Uploading(s) ==
  dc[s].type = "CONNECTED" /\ dc[s].mode = "RECV_FP" =>
    /\ hist[s].cmd \in {"STOR", "APPE"}
    /\ peer[s].read <= Len(peer[s].sent) /\ peer[s].ended # "reset"
    /\ FileOf(s, hist[s].rest + peer[s].read) /\ Content(s) = Received(s)

TransferAt(s) ==
  /\ dc[s].type = "PASSIVE" => peer[s] = ZeroPeer
  /\ AnnouncedAt(s) /\ Downloading(s) /\ Uploading(s)

BringsInv == Exclusive /\ \A s \in Careful : TransferAt(s)

\* Parts of a file.
LEMMA BlockFetched ==
  ASSUME NEW data \in Seq(Bytes), NEW m \in Nat, NEW n \in Nat, m <= n
  PROVE  /\ Between(data, m, m) = <<>>
         /\ Len(BlockAt(data, n)) < BLOCK =>
              Between(data, m, n) \o BlockAt(data, n) = SubSeq(data, m + 1, Len(data))
         /\ Len(BlockAt(data, n)) >= BLOCK =>
              Between(data, m, n) \o BlockAt(data, n) = Between(data, m, n + BLOCK)
<1> DEFINE len == Len(data)
           block == BlockAt(data, n)
           end == IF n + BLOCK < len THEN n + BLOCK ELSE len
<1>1. len \in Nat /\ BLOCK \in Nat \ {0} /\ end \in Nat
  BY TransfersAssumption
<1>2. block = SubSeq(data, n + 1, end)
  BY DEF BlockAt
<1>3. Between(data, m, m) = <<>>
  BY <1>1, SubSeqEmpty DEF Between
<1>4. CASE n >= len
  <2>1. block = <<>>
    BY <1>1, <1>2, <1>4, SubSeqEmpty
  <2>2. Len(block) < BLOCK
    BY <1>1, <2>1
  <2>3. Between(data, m, n) = SubSeq(data, m + 1, len)
    BY <1>1, <1>4 DEF Between
  <2>4. SubSeq(data, m + 1, len) \in Seq(Bytes)
    BY <1>1, PartTyped
  <2>5. Between(data, m, n) \o block = SubSeq(data, m + 1, len)
    <3> HIDE DEF block
    <3>1. QED
      BY <2>1, <2>3, <2>4, ConcatEmptySeq
  <2>6. ~(Len(block) >= BLOCK)
    BY <1>1, <2>1
  <2>7. QED
    BY <1>3, <2>5, <2>6
<1>5. CASE n < len
  <2>1. Len(block) = end - n
    <3>1. \A i \in n + 1 .. end : data[i] \in Bytes
      BY <1>1, <1>5
    <3>2. QED
      BY <1>1, <1>2, <1>5, <3>1, SubSeqProperties
  <2>2. Between(data, m, n) = SubSeq(data, m + 1, n)
    BY <1>5 DEF Between
  <2>3. Between(data, m, n) \o block = SubSeq(data, m + 1, end)
    <3>1. m + 1 \in 1 .. len + 1 /\ n \in (m + 1) - 1 .. len /\ end \in n .. len
      BY <1>1, <1>5
    <3>2. SubSeq(data, m + 1, n) \o SubSeq(data, n + 1, end) = SubSeq(data, m + 1, end)
      BY <3>1, ConcatAdjacentSubSeq
    <3> HIDE DEF block, end
    <3>3. QED
      BY <1>2, <2>2, <3>2
  <2>4. Len(block) < BLOCK => end = len
    BY <1>1, <1>5, <2>1
  <2>5. Between(data, m, n + BLOCK) = SubSeq(data, m + 1, end)
    BY DEF Between
  <2>6. Between(data, m, n) \o block = Between(data, m, n + BLOCK)
    BY <2>3, <2>5
  <2>7. Len(block) < BLOCK => Between(data, m, n) \o block = SubSeq(data, m + 1, len)
    BY <2>3, <2>4
  <2>8. QED
    BY <1>3, <2>6, <2>7
<1>6. QED
  BY <1>1, <1>4, <1>5

\* A write behind what was written.
LEMMA WrittenBehind ==
  ASSUME NEW sent \in Seq(Bytes), NEW r \in Nat, NEW k \in Nat, NEW n \in Nat \ {0},
         k + n <= Len(sent)
  PROVE  Written(IF k = 0 THEN <<>> ELSE Written(<<>>, r, SubSeq(sent, 1, k)), r + k, SubSeq(sent, k + 1, k + n))
           = Written(<<>>, r, SubSeq(sent, 1, k + n))
<1> DEFINE new == SubSeq(sent, k + 1, k + n)
           all == SubSeq(sent, 1, k + n)
           before == IF k = 0 THEN <<>> ELSE Written(<<>>, r, SubSeq(sent, 1, k))
           upto(i) == IF i > r THEN sent[i - r] ELSE <<"zero", 0>>
<1>1. Len(sent) \in Nat
  OBVIOUS
<1>2. ASSUME NEW j \in 0 .. Len(sent)
      PROVE  /\ Len(SubSeq(sent, 1, j)) = j
             /\ \A i \in 1 .. j : SubSeq(sent, 1, j)[i] = sent[i]
  <2>1. \A i \in 1 .. j : sent[i] \in Bytes
    BY <1>1
  <2>2. QED
    BY <1>1, <2>1, SubSeqProperties
<1>3. ASSUME NEW j \in 1 .. Len(sent)
      PROVE  Written(<<>>, r, SubSeq(sent, 1, j)) = [i \in 1 .. r + j |-> upto(i)]
  <2> DEFINE bytes == SubSeq(sent, 1, j)
  <2>1. Len(bytes) = j /\ \A i \in 1 .. j : bytes[i] = sent[i]
    BY <1>2
  <2> HIDE DEF bytes
  <2>2. Len(<<>>) = 0
    OBVIOUS
  <2>3. Written(<<>>, r, bytes) =
          [i \in 1 .. r + j |->
             IF i > r /\ i <= r + j THEN bytes[i - r]
             ELSE IF i <= 0 THEN <<>>[i] ELSE <<"zero", 0>>]
    BY <2>1, <2>2 DEF Written
  <2>4. \A i \in 1 .. r + j : (IF i > r /\ i <= r + j THEN bytes[i - r]
                               ELSE IF i <= 0 THEN <<>>[i] ELSE <<"zero", 0>>) = upto(i)
    BY <2>1
  <2>5. QED
    BY <2>3, <2>4 DEF bytes
<1>4. Len(before) = (IF k = 0 THEN 0 ELSE r + k) /\ \A i \in 1 .. Len(before) : before[i] = upto(i)
  <2>1. CASE k = 0
    <3>1. before = <<>>
      BY <2>1
    <3> HIDE DEF before, upto
    <3>2. Len(before) = 0 /\ 1 .. 0 = {}
      BY <3>1
    <3>3. QED
      BY <2>1, <3>2
  <2>2. CASE k # 0
    <3>1. before = [i \in 1 .. r + k |-> upto(i)]
      <4> HIDE DEF upto
      <4>1. k \in 1 .. Len(sent)
        BY <1>1, <2>2
      <4>2. QED
        BY <1>3, <2>2, <4>1
    <3>2. r + k \in Nat
      OBVIOUS
    <3> HIDE DEF before, upto
    <3>3. Len(before) = r + k
      BY <3>1, <3>2
    <3>4. QED
      BY <2>2, <3>1, <3>3
  <2>3. QED
    BY <2>1, <2>2
<1>5. Len(new) = n /\ \A i \in 1 .. n : new[i] = sent[k + i]
  <2>1. \A i \in k + 1 .. k + n : sent[i] \in Bytes
    BY <1>1
  <2>2. /\ Len(SubSeq(sent, k + 1, k + n)) = IF k + 1 <= k + n THEN (k + n) - (k + 1) + 1 ELSE 0
        /\ \A i \in 1 .. (k + n) - (k + 1) + 1 : SubSeq(sent, k + 1, k + n)[i] = sent[(k + 1) + i - 1]
    BY <2>1, SubSeqProperties
  <2>3. QED
    BY <2>2
<1>6. Written(<<>>, r, all) = [i \in 1 .. r + k + n |-> upto(i)]
  BY <1>1, <1>3
<1> HIDE DEF new, before, all
<1>7. Written(before, r + k, new) =
        [i \in 1 .. r + k + n |->
           IF i > r + k /\ i <= r + k + n THEN new[i - (r + k)]
           ELSE IF i <= Len(before) THEN before[i] ELSE <<"zero", 0>>]
  <2>1. r + k + Len(new) = r + k + n /\ (IF r + k + Len(new) > Len(before) THEN r + k + Len(new) ELSE Len(before)) = r + k + n
    BY <1>4, <1>5
  <2>2. QED
    BY <1>5, <2>1 DEF Written
<1>8. \A i \in 1 .. r + k + n : (IF i > r + k /\ i <= r + k + n THEN new[i - (r + k)]
                                 ELSE IF i <= Len(before) THEN before[i] ELSE <<"zero", 0>>) = upto(i)
  <2> SUFFICES ASSUME NEW i \in 1 .. r + k + n
               PROVE  (IF i > r + k /\ i <= r + k + n THEN new[i - (r + k)]
                       ELSE IF i <= Len(before) THEN before[i] ELSE <<"zero", 0>>) = upto(i)
    OBVIOUS
  <2>1. CASE i > r + k
    <3>1. i - (r + k) \in 1 .. n /\ k + (i - (r + k)) = i - r /\ i > r
      BY <2>1
    <3>2. QED
      BY <1>5, <2>1, <3>1
  <2>2. CASE i <= r + k
    BY <1>4, <2>2
  <2>3. QED
    BY <2>1, <2>2
<1> HIDE DEF upto
<1>9. QED
  BY <1>6, <1>7, <1>8 DEF new, before, all

\* A step leaves whoever has a file open for writing alone with it.
LEMMA ExclusiveStep ==
  ASSUME TypeOK, Exclusive, NEW s \in Sessions, Effect(s)
  PROVE  Exclusive'
<1>1. handle \in [Handles -> HandleRecords]
  BY DEF TypeOK
<1>2. CASE \E f \in Files, h \in Handles, a \in {"read", "write", "both"} : Opens(s, f, h, a)
  <2>1. PICK f \in Files, h \in Handles, a \in {"read", "write", "both"} : Opens(s, f, h, a)
    BY <1>2
  <2>2. /\ handle'[h].access = a /\ handle'[h].file = f
        /\ \A g \in Handles \ {h} : handle'[g] = handle[g]
    BY <1>1, <2>1 DEF Opens, OpenAs
  <2>3. \A g \in Handles \ {h} : Open(g) /\ handle[g].file = f => a = "read" /\ handle[g].access = "read"
    BY <2>1 DEF Opens, CanOpen, OnFile
  <2>4. QED
    BY <2>2, <2>3 DEF Exclusive, Open, CanWrite
<1>3. CASE \E t \in Sessions : Closes(s, t)
  BY <1>1, <1>3 DEF Closes, Exclusive, Open, CanWrite, Closed
<1>4. CASE Keeps(s)
  BY <1>4 DEF Keeps, Exclusive, Open, CanWrite
<1>5. QED
  BY <1>2, <1>3, <1>4 DEF Effect

\* A step of another session leaves a session's file as it is and where it is.
LEMMA FileLeft ==
  ASSUME "wild" \notin Faults, TypeOK, HFileLive, Exclusive, NEW s \in Sessions,
         NEW t \in Sessions \ {s}, Effect(t), dc[s].hFile \in Handles
  PROVE  /\ handle'[dc[s].hFile] = handle[dc[s].hFile]
         /\ handle[dc[s].hFile].file \in Files
         /\ disk'[handle[dc[s].hFile].file] = disk[handle[dc[s].hFile].file]
<1> DEFINE h == dc[s].hFile
           e == handle[h].file
<1>1. handle \in [Handles -> HandleRecords] /\ Open(h) /\ dc[t].hFile # h /\ e \in Files
  BY PositionTyped DEF TypeOK, HFileLive
<1>2. h \in OnFile(e)
  BY <1>1 DEF OnFile
<1>3. DiskBy(t) => disk'[e] = disk[e]
  BY <1>1 DEF DiskBy, Exclusive, TypeOK
<1>4. CASE \E f \in Files, g \in Handles, a \in {"read", "write", "both"} : Opens(t, f, g, a)
  <2>1. PICK f \in Files, g \in Handles, a \in {"read", "write", "both"} : Opens(t, f, g, a)
    BY <1>4
  <2>2. g # h
    BY <1>1, <2>1 DEF Opens, OpenAs
  <2>3. handle'[h] = handle[h]
    BY <1>1, <2>1, <2>2 DEF Opens, OpenAs
  <2>4. a # "read" => f # e
    BY <1>2, <2>1 DEF Opens, CanOpen
  <2>5. QED
    BY <1>1, <2>1, <2>3, <2>4 DEF Opens
<1>5. CASE \E r \in Sessions : Closes(t, r)
  BY <1>1, <1>3, <1>5 DEF Closes
<1>6. CASE Keeps(t)
  <2>1. disk'[e] = disk[e]
    BY <1>1, <1>2, <1>3, <1>6 DEF Keeps
  <2>2. QED
    BY <1>1, <1>6, <2>1 DEF Keeps
<1>7. QED
  BY <1>4, <1>5, <1>6 DEF Effect

\* What is said of a transfer stays true while its records, its handle and its
\* file stay what they are.
LEMMA TransferKept ==
  ASSUME NEW s, TransferAt(s), dc'[s] = dc[s], peer'[s] = peer[s],
         user'[s].dlcommand = user[s].dlcommand, user'[s].cmd = user[s].cmd, hist'[s] = hist[s],
         dc[s].hFile \in Handles =>
           /\ handle'[dc[s].hFile] = handle[dc[s].hFile]
           /\ handle[dc[s].hFile].file \in Files =>
                disk'[handle[dc[s].hFile].file] = disk[handle[dc[s].hFile].file]
  PROVE  TransferAt(s)'
<1>1. \A n : FileOf(s, n) => FileOf(s, n)' /\ Content(s)' = Content(s)
  BY DEF FileOf, Content
<1>2. (dc[s].type = "PASSIVE" => peer[s] = ZeroPeer)'
  BY DEF TransferAt
<1>3. AnnouncedAt(s)'
  BY <1>1 DEF TransferAt, AnnouncedAt
<1>4. Downloading(s)'
  BY <1>1 DEF TransferAt, Downloading, Fetched
<1>5. Uploading(s)'
  <2>1. Received(s)' = Received(s)
    BY DEF Received
  <2>2. QED
    BY <1>1, <2>1 DEF TransferAt, Uploading
<1>6. QED
  BY <1>2, <1>3, <1>4, <1>5 DEF TransferAt

\* A command of the careful session itself.
LEMMA TransferCommand ==
  ASSUME TypeOK, HFileLive, NEW s \in Careful, CarefulAt(s), TransferAt(s), Commanded(s)
  PROVE  TransferAt(s)'
<1>1. /\ user \in [Sessions -> UserRecords] /\ dc \in [Sessions -> DataRecords]
      /\ handle \in [Handles -> HandleRecords] /\ disk \in [Files -> FileRecords]
      /\ peer \in [Sessions -> PeerRecords] /\ hist \in [Sessions -> HistRecords]
      /\ s \in Sessions /\ \A fault : ~May(s, fault)
  BY DEF TypeOK, Careful, May
<1>2. /\ user[s] \in UserRecords /\ dc[s] \in DataRecords /\ hist[s] \in HistRecords
      /\ user[s].dlcommand \in {0, 1}
  BY <1>1 DEF UserRecords
<1>3. CASE Pasv(s)
  <2>1. user'[s].dlcommand = 0 /\ dc'[s].type = "PASSIVE" /\ peer'[s] = ZeroPeer
    BY <1>1, <1>2, <1>3 DEF Pasv, DataRecords
  <2>2. QED
    BY <2>1 DEF TransferAt, AnnouncedAt, Downloading, Uploading
<1>4. CASE \E n \in 0 .. MaxRest : Rest(s, n)
  <2>1. user'[s].dlcommand = user[s].dlcommand /\ user'[s].cmd = user[s].cmd
    BY <1>1, <1>2, <1>4 DEF Rest, UserRecords
  <2>2. UNCHANGED <<dc, handle, disk, peer, hist>>
    BY <1>4 DEF Rest
  <2>3. QED
    BY <2>1, <2>2, TransferKept
<1>5. CASE \E cmd \in Commands, f \in Files : FirstStage(s, cmd, f)
  <2>1. PICK cmd \in Commands, f \in Files : FirstStage(s, cmd, f)
    BY <1>5
  <2>2. PICK h \in Handles : OpenAs(s, h, f, Access(cmd)) /\ dc' = [dc EXCEPT ![s].hFile = h]
    BY <2>1 DEF FirstStage
  <2>3. /\ dc'[s].hFile = h /\ dc'[s].type = dc[s].type
        /\ handle'[h] = [file |-> f, access |-> Access(cmd), pos |-> 0, by |-> s]
    BY <1>1, <1>2, <2>2 DEF OpenAs, DataRecords
  <2>4. user'[s].cmd = cmd /\ hist'[s].cmd = cmd /\ hist'[s].file = f
    BY <1>1, <1>2, <2>1 DEF FirstStage, UserRecords, HistRecords
  <2>5. cmd # "RETR" => disk'[f].data = <<>>
    BY <1>1, <2>1 DEF FirstStage
  <2>6. dc[s].type # "CONNECTED" /\ peer' = peer
    BY <1>1, <2>1 DEF FirstStage, MayStart
  <2>7. AnnouncedAt(s)'
    BY <2>3, <2>4, <2>5 DEF AnnouncedAt, FileOf, Content
  <2>8. QED
    BY <2>3, <2>6, <2>7 DEF TransferAt, Downloading, Uploading
<1>6. CASE FirstStageRefused(s)
  <2>1. /\ dc'[s].type = dc[s].type /\ dc[s].type # "CONNECTED" /\ user[s].dlcommand = 0
        /\ UNCHANGED <<user, peer>>
    BY <1>1, <1>2, <1>6 DEF FirstStageRefused, MayStart, DataRecords
  <2>2. QED
    BY <2>1 DEF TransferAt, AnnouncedAt, Downloading, Uploading
<1>7. CASE EndSession(s)
  <2>1. dc'[s].type = "ACTIVE" /\ user'[s].dlcommand = 0
    BY <1>1, <1>7 DEF EndSession, ZeroData, ZeroUser
  <2>2. QED
    BY <2>1 DEF TransferAt, AnnouncedAt, Downloading, Uploading
<1>8. CASE \E f \in Files : Size(s, f) \/ Dele(s, f)
  <2>1. PICK f \in Files : Dele(s, f)
    BY <1>1, <1>8 DEF Size
  <2>2. dc[s].hFile \in Handles => handle[dc[s].hFile].file # f
    BY <1>1, <2>1 DEF Dele, OnFile, HFileLive
  <2>3. /\ \A g \in Files \ {f} : disk'[g] = disk[g]
        /\ UNCHANGED <<user, dc, handle, peer, hist>>
    BY <1>1, <2>1 DEF Dele
  <2>4. QED
    BY <2>2, <2>3, TransferKept
<1>9. QED
  BY <1>1, <1>3, <1>4, <1>5, <1>6, <1>7, <1>8 DEF Commanded, FirstStageOdd

\* The second stage moves the file to the offset of REST, and nothing has been
\* brought yet.
LEMMA TransferBegins ==
  ASSUME TypeOK, NEW s \in Careful, CarefulAt(s), TransferAt(s), SecondStage(s)
  PROVE  TransferAt(s)'
<1> DEFINE h == dc[s].hFile
           f == hist[s].file
<1>1. /\ user \in [Sessions -> UserRecords] /\ dc \in [Sessions -> DataRecords]
      /\ handle \in [Handles -> HandleRecords] /\ disk \in [Files -> FileRecords]
      /\ peer \in [Sessions -> PeerRecords] /\ hist \in [Sessions -> HistRecords]
      /\ s \in Sessions
  BY DEF TypeOK, Careful
<1>2. user[s] \in UserRecords /\ dc[s] \in DataRecords /\ hist[s] \in HistRecords
  BY <1>1
<1>3. PICK r \in Nat : r = user[s].rest
  BY <1>2 DEF UserRecords
<1>4. user[s].dlcommand = 1 /\ dc[s].type = "PASSIVE" /\ peer[s] = ZeroPeer
  BY DEF SecondStage, CarefulAt, TransferAt
<1>5. /\ h \in Handles /\ f \in Files /\ hist[s].cmd \in Commands /\ hist[s].cmd = user[s].cmd
      /\ handle[h] = [file |-> f, access |-> Access(hist[s].cmd), pos |-> 0, by |-> s]
      /\ hist[s].cmd # "RETR" => disk[f].data = <<>>
  BY <1>4 DEF TransferAt, AnnouncedAt, FileOf, Content
<1>6. handle'[h] = [file |-> f, access |-> Access(hist[s].cmd), pos |-> r, by |-> s]
  <2>1. handle'[h] = [handle[h] EXCEPT !.pos = @ + r]
    <3>1. Open(h)
      BY <1>5, AccessTyped DEF Open
    <3>2. QED
      BY <1>3, <1>5, <3>1 DEF SecondStage, Moved
  <2>2. [handle[h] EXCEPT !.pos = @ + r] = [file |-> f, access |-> Access(hist[s].cmd), pos |-> 0 + r, by |-> s]
    BY <1>5
  <2>3. 0 + r = r
    OBVIOUS
  <2>4. QED
    BY <2>1, <2>2, <2>3
<1>7. /\ hist'[s].cmd = hist[s].cmd /\ hist'[s].file = f /\ hist'[s].rest = r
      /\ hist'[s].want = SubSeq(disk[f].data, r + 1, Len(disk[f].data))
  BY <1>1, <1>2, <1>3 DEF SecondStage, HistRecords
<1>8. /\ dc'[s].hFile = h /\ dc'[s].type = "CONNECTED"
      /\ dc'[s].mode = IF hist[s].cmd = "RETR" THEN "SEND_FP" ELSE "RECV_FP"
  BY <1>1, <1>2, <1>5 DEF SecondStage, DataRecords
<1>9. user'[s].dlcommand = 0 /\ UNCHANGED <<disk, peer>>
  BY <1>1, <1>2 DEF SecondStage, UserRecords
<1>10. FileOf(s, r)' /\ Content(s)' = disk[f].data
  BY <1>5, <1>6, <1>7, <1>8, <1>9 DEF FileOf, Content
<1>11. Downloading(s)'
  <2>1. disk[f].data \in Seq(Bytes)
    BY <1>1, <1>5 DEF FileRecords
  <2>2. Between(disk[f].data, r, r) = <<>>
    BY <2>1, BlockFetched
  <2>3. peer'[s].got = Fetched(s, r)'
    BY <1>4, <1>7, <1>9, <1>10, <2>2 DEF Fetched, ZeroPeer
  <2>4. r >= hist'[s].rest
    BY <1>7
  <2>5. QED
    BY <1>7, <1>8, <1>10, <2>3, <2>4 DEF Downloading
<1>12. Uploading(s)'
  <2>1. peer'[s].read = 0 /\ peer'[s].sent = <<>> /\ peer'[s].ended = "no"
    BY <1>4, <1>9 DEF ZeroPeer
  <2>2. hist'[s].rest + peer'[s].read = r
    BY <1>7, <2>1
  <2>3. hist[s].cmd # "RETR" => Content(s)' = Received(s)'
    BY <1>5, <1>10, <2>1 DEF Received
  <2>4. QED
    BY <1>5, <1>7, <1>8, <1>10, <2>1, <2>2, <2>3 DEF Uploading, Commands
<1>13. QED
  BY <1>8, <1>9, <1>11, <1>12 DEF TransferAt, AnnouncedAt

\* A channel that is closed has nothing to bring.
LEMMA TransferClosed ==
  ASSUME NEW s, dc'[s] = ZeroData, user'[s].dlcommand = 0
  PROVE  TransferAt(s)'
  BY DEF TransferAt, AnnouncedAt, Downloading, Uploading, ZeroData

\* A block of a download brings what follows what was brought; the last one brings
\* the rest of the file.
LEMMA DownloadBlock ==
  ASSUME TypeOK, HFileLive, NEW s \in Careful, CarefulAt(s), TransferAt(s), SendBlock(s)
  PROVE  /\ TransferAt(s)' /\ hist[s].cmd = "RETR"
         /\ hist' = hist \/ peer'[s].got = hist[s].want
<1> DEFINE h == dc[s].hFile
<1>1. /\ user \in [Sessions -> UserRecords] /\ dc \in [Sessions -> DataRecords]
      /\ handle \in [Handles -> HandleRecords] /\ disk \in [Files -> FileRecords]
      /\ peer \in [Sessions -> PeerRecords] /\ hist \in [Sessions -> HistRecords]
      /\ s \in Sessions /\ \A fault : ~May(s, fault)
  BY DEF TypeOK, Careful, May
<1>2. peer[s] \in PeerRecords /\ hist[s] \in HistRecords /\ BLOCK \in Nat \ {0}
  BY <1>1, TransfersAssumption
<1>3. dc[s].type = "CONNECTED" /\ dc[s].mode = "SEND_FP" /\ user[s].dlcommand = 0
  BY DEF SendBlock, Running, CarefulAt
<1>4. PICK m \in Nat, n \in Nat, f \in Files, data \in Seq(Bytes) :
        /\ m = hist[s].rest /\ m <= n /\ f = hist[s].file /\ data = disk[f].data
        /\ hist[s].cmd = "RETR" /\ FileOf(s, n) /\ peer[s].got = Between(data, m, n)
        /\ hist[s].want = SubSeq(data, m + 1, Len(data))
  <2>1. PICK n \in Nat : n >= hist[s].rest /\ FileOf(s, n) /\ peer[s].got = Fetched(s, n)
    BY <1>3 DEF TransferAt, Downloading
  <2>2. hist[s].cmd = "RETR" /\ hist[s].want = SubSeq(Content(s), hist[s].rest + 1, Len(Content(s)))
    BY <1>3 DEF TransferAt, Downloading
  <2>3. hist[s].rest \in Nat /\ hist[s].file \in Files /\ hist[s].rest <= n
    BY <1>2, <2>1 DEF HistRecords, FileOf
  <2>4. disk[hist[s].file].data \in Seq(Bytes)
    BY <1>1, <2>3 DEF FileRecords
  <2>5. QED
    BY <2>1, <2>2, <2>3, <2>4 DEF Fetched, Content
<1>5. h \in Handles /\ handle[h] = [file |-> f, access |-> "read", pos |-> n, by |-> s]
  BY <1>4, AccessTyped DEF FileOf
<1>6. PICK block \in Seq(Bytes) : block = Block(s) /\ block = BlockAt(data, n)
  <2>1. Block(s) = BlockAt(data, n)
    BY <1>4, <1>5 DEF Block, CanRead
  <2>2. QED
    BY <2>1, BlockTyped
<1>7. /\ Len(block) < BLOCK => peer[s].got \o block = hist[s].want
      /\ Len(block) >= BLOCK => peer[s].got \o block = Between(data, m, n + BLOCK)
  <2>1. m <= n
    BY <1>4
  <2>2. /\ Len(BlockAt(data, n)) < BLOCK =>
             Between(data, m, n) \o BlockAt(data, n) = SubSeq(data, m + 1, Len(data))
        /\ Len(BlockAt(data, n)) >= BLOCK =>
             Between(data, m, n) \o BlockAt(data, n) = Between(data, m, n + BLOCK)
    BY <2>1, BlockFetched
  <2>3. QED
    BY <1>4, <1>6, <2>2
<1>8. PICK k \in 0 .. Len(block) :
        /\ k < Len(block) => May(s, "short")
        /\ IF LastBlock(block) THEN DataClose(EventReply(s), Delivered(s, k), s) /\ CloseFile(s)
           ELSE /\ handle' = [handle EXCEPT ![dc[s].hFile].pos = @ + BLOCK]
                /\ peer' = Delivered(s, k)
                /\ UNCHANGED <<dc, hist>>
  BY <1>6 DEF SendBlock
<1>9. k = Len(block)
  BY <1>1, <1>8
<1>10. Delivered(s, k)[s].got = peer[s].got \o block
  <2>1. SubSeq(block, 1, k) = block
    BY <1>9, SubSeqFull
  <2>2. Delivered(s, k) = [peer EXCEPT ![s].got = @ \o block]
    BY <1>6, <2>1 DEF Delivered
  <2>3. QED
    BY <1>1, <1>2, <2>2 DEF PeerRecords
<1>11. UNCHANGED <<user, disk>>
  BY DEF SendBlock
<1>12. CASE LastBlock(block)
  <2>1. dc'[s] = ZeroData /\ peer'[s].got = Delivered(s, k)[s].got
    BY <1>1, <1>8, <1>12 DEF DataClose, Delivered, Hung, ZeroPeer
  <2>2. peer'[s].got = hist[s].want
    BY <1>7, <1>10, <1>12, <2>1 DEF LastBlock
  <2>3. QED
    BY <1>3, <1>4, <1>11, <2>1, <2>2, TransferClosed
<1>13. CASE ~LastBlock(block)
  <2>1. Len(block) >= BLOCK
    BY <1>2, <1>13 DEF LastBlock
  <2>2. handle' = [handle EXCEPT ![h].pos = @ + BLOCK] /\ peer' = Delivered(s, k) /\ UNCHANGED <<dc, hist>>
    BY <1>8, <1>13
  <2>3. FileOf(s, n + BLOCK)'
    <3>1. handle'[h] = [file |-> f, access |-> "read", pos |-> n + BLOCK, by |-> s]
      BY <1>1, <1>5, <2>2
    <3>2. QED
      BY <1>4, <1>5, <2>2, <3>1, AccessTyped DEF FileOf
  <2>4. peer'[s].got = Between(data, m, n + BLOCK)
    BY <1>7, <1>10, <2>1, <2>2
  <2>5. Downloading(s)'
    <3>1. n + BLOCK \in Nat /\ n + BLOCK >= hist'[s].rest
      BY <1>2, <1>4, <2>2
    <3>2. Content(s)' = data /\ hist'[s] = hist[s]
      BY <1>4, <1>11, <2>2 DEF Content
    <3>3. peer'[s].got = Fetched(s, n + BLOCK)'
      BY <1>4, <2>4, <3>2 DEF Fetched
    <3>4. QED
      BY <1>4, <2>3, <3>1, <3>2, <3>3 DEF Downloading
  <2>6. QED
    BY <1>3, <1>4, <1>11, <2>2, <2>5 DEF TransferAt, AnnouncedAt, Uploading
<1>14. QED
  BY <1>12, <1>13

\* What is known of an upload, with the bytes that are stored.
LEMMA UploadKnown ==
  ASSUME TypeOK, NEW s \in Careful, CarefulAt(s), TransferAt(s), Running(s, "RECV_FP")
  PROVE  /\ user[s].dlcommand = 0 /\ hist[s].cmd \in {"STOR", "APPE"} /\ peer[s].ended # "reset"
         /\ \E m \in Nat, k \in Nat, f \in Files, sent \in Seq(Bytes) :
              /\ m = hist[s].rest /\ k = peer[s].read /\ k <= Len(sent)
              /\ f = hist[s].file /\ sent = peer[s].sent
              /\ dc[s].hFile \in Handles
              /\ CanWrite(dc[s].hFile)
              /\ handle[dc[s].hFile] = [file |-> f, access |-> Access(hist[s].cmd), pos |-> m + k, by |-> s]
              /\ disk[f].data = IF k = 0 THEN <<>> ELSE Written(<<>>, m, SubSeq(sent, 1, k))
<1>1. peer[s] \in PeerRecords /\ hist[s] \in HistRecords
  BY DEF TypeOK, Careful
<1>2. Uploading(s) /\ dc[s].type = "CONNECTED" /\ dc[s].mode = "RECV_FP"
  BY DEF TransferAt, Running
<1>3. user[s].dlcommand = 0
  BY <1>2 DEF CarefulAt
<1>4. /\ hist[s].cmd \in {"STOR", "APPE"} /\ peer[s].ended # "reset" /\ peer[s].read <= Len(peer[s].sent)
      /\ FileOf(s, hist[s].rest + peer[s].read) /\ Content(s) = Received(s)
  BY <1>2 DEF Uploading
<1>5. hist[s].rest \in Nat /\ peer[s].read \in Nat /\ peer[s].sent \in Seq(Bytes)
  BY <1>1 DEF PeerRecords, HistRecords
<1>6. Access(hist[s].cmd) \in {"write", "both"}
  BY <1>4, AccessTyped DEF Commands
<1>7. CanWrite(dc[s].hFile)
  BY <1>4, <1>6 DEF FileOf, CanWrite
<1>8. QED
  BY <1>3, <1>4, <1>5, <1>7 DEF FileOf, Content, Received

\* A block of an upload is stored behind what was stored.
LEMMA UploadBlock ==
  ASSUME TypeOK, HFileLive, NEW s \in Careful, CarefulAt(s), TransferAt(s), RecvBlock(s)
  PROVE  TransferAt(s)' /\ hist' = hist
<1> DEFINE h == dc[s].hFile
<1>1. /\ user \in [Sessions -> UserRecords] /\ dc \in [Sessions -> DataRecords]
      /\ handle \in [Handles -> HandleRecords] /\ disk \in [Files -> FileRecords]
      /\ peer \in [Sessions -> PeerRecords] /\ hist \in [Sessions -> HistRecords]
      /\ s \in Sessions /\ \A fault : ~May(s, fault)
  BY DEF TypeOK, Careful, May
<1>2. peer[s] \in PeerRecords /\ hist[s] \in HistRecords /\ BLOCK \in Nat \ {0}
  BY <1>1, TransfersAssumption
<1>3. Running(s, "RECV_FP")
  BY DEF RecvBlock
<1>4. user[s].dlcommand = 0 /\ hist[s].cmd \in {"STOR", "APPE"} /\ peer[s].ended # "reset"
  BY <1>3, UploadKnown
<1>5. PICK m \in Nat, k \in Nat, f \in Files, sent \in Seq(Bytes) :
        /\ m = hist[s].rest /\ k = peer[s].read /\ k <= Len(sent)
        /\ f = hist[s].file /\ sent = peer[s].sent
        /\ dc[s].hFile \in Handles
        /\ CanWrite(dc[s].hFile)
        /\ handle[dc[s].hFile] = [file |-> f, access |-> Access(hist[s].cmd), pos |-> m + k, by |-> s]
        /\ disk[f].data = IF k = 0 THEN <<>> ELSE Written(<<>>, m, SubSeq(sent, 1, k))
  BY <1>3, UploadKnown
<1>6. Unread(s) = Len(sent) - k
  BY <1>5 DEF Unread
<1>7. PICK n \in 1 .. (IF Unread(s) < BLOCK THEN Unread(s) ELSE BLOCK), hup \in BOOLEAN :
        /\ hup => May(s, "fin")
        /\ disk' = IF h \in Handles /\ CanWrite(h)
                   THEN [disk EXCEPT ![handle[h].file].data =
                           Written(@, handle[h].pos, SubSeq(peer[s].sent, peer[s].read + 1, peer[s].read + n))]
                   ELSE disk
        /\ ~hup => /\ peer' = [peer EXCEPT ![s].read = @ + n]
                   /\ handle' = IF h \in Handles /\ CanWrite(h) THEN [handle EXCEPT ![h].pos = @ + n] ELSE handle
                   /\ UNCHANGED <<dc, hist>>
  BY DEF RecvBlock
<1>8. n \in Nat \ {0} /\ k + n <= Len(sent)
  BY <1>2, <1>5, <1>6, <1>7
<1>9. /\ peer' = [peer EXCEPT ![s].read = @ + n]
      /\ handle' = [handle EXCEPT ![h].pos = @ + n]
      /\ UNCHANGED <<dc, hist, user>>
  BY <1>1, <1>5, <1>7 DEF RecvBlock
<1>10. disk' = [disk EXCEPT ![f].data = Written(@, m + k, SubSeq(sent, k + 1, k + n))]
  <2>1. handle[h].file = f /\ handle[h].pos = m + k
    BY <1>5
  <2>2. disk' = [disk EXCEPT ![handle[h].file].data =
                   Written(@, handle[h].pos, SubSeq(peer[s].sent, peer[s].read + 1, peer[s].read + n))]
    BY <1>5, <1>7, <2>1
  <2>3. QED
    BY <1>5, <2>1, <2>2
<1>11. disk'[f].data = Written(<<>>, m, SubSeq(sent, 1, k + n))
  <2>1. k + n <= Len(sent)
    BY <1>8
  <2>2. Written(IF k = 0 THEN <<>> ELSE Written(<<>>, m, SubSeq(sent, 1, k)), m + k, SubSeq(sent, k + 1, k + n))
          = Written(<<>>, m, SubSeq(sent, 1, k + n))
    BY <1>8, <2>1, WrittenBehind
  <2>3. disk'[f].data = Written(disk[f].data, m + k, SubSeq(sent, k + 1, k + n))
    BY <1>1, <1>10 DEF FileRecords
  <2>4. QED
    BY <1>5, <2>2, <2>3
<1>12. peer'[s].sent = sent /\ peer'[s].read = k + n /\ peer'[s].ended = peer[s].ended
  BY <1>1, <1>2, <1>5, <1>9 DEF PeerRecords
<1>13. handle'[h] = [file |-> f, access |-> Access(hist[s].cmd), pos |-> m + (k + n), by |-> s]
  <2>1. handle'[h] = [handle[h] EXCEPT !.pos = @ + n]
    BY <1>1, <1>5, <1>9
  <2>2. [handle[h] EXCEPT !.pos = @ + n] = [file |-> f, access |-> Access(hist[s].cmd), pos |-> (m + k) + n, by |-> s]
    BY <1>5
  <2>3. (m + k) + n = m + (k + n)
    BY <1>8
  <2>4. QED
    BY <2>1, <2>2, <2>3
<1>14. Uploading(s)'
  <2>1. hist[s].cmd \in Commands
    BY <1>4 DEF Commands
  <2>2. hist'[s].rest + peer'[s].read = m + (k + n)
    BY <1>5, <1>9, <1>12
  <2>3. FileOf(s, m + (k + n))'
    BY <1>5, <1>9, <1>13, <2>1 DEF FileOf
  <2>4. Content(s)' = Received(s)'
    BY <1>5, <1>8, <1>9, <1>11, <1>12 DEF Content, Received
  <2>5. QED
    BY <1>4, <1>5, <1>8, <1>9, <1>12, <2>2, <2>3, <2>4 DEF Uploading
<1>15. QED
  BY <1>3, <1>4, <1>9, <1>14 DEF TransferAt, AnnouncedAt, Downloading, Running

\* The end of an upload comes behind its data, and finds all of it in the file.
LEMMA UploadEnds ==
  ASSUME TypeOK, HFileLive, NEW s \in Careful, CarefulAt(s), TransferAt(s), RecvEnd(s)
  PROVE  TransferAt(s)' /\ hist[s].cmd \in {"STOR", "APPE"} /\ Stored(s)
<1> DEFINE h == dc[s].hFile
<1>1. dc \in [Sessions -> DataRecords] /\ s \in Sessions
  BY DEF TypeOK, Careful
<1>2. Running(s, "RECV_FP")
  BY DEF RecvEnd
<1>3. user[s].dlcommand = 0 /\ hist[s].cmd \in {"STOR", "APPE"} /\ peer[s].ended # "reset"
  BY <1>2, UploadKnown
<1>4. PICK m \in Nat, k \in Nat, f \in Files, sent \in Seq(Bytes) :
        /\ m = hist[s].rest /\ k = peer[s].read /\ k <= Len(sent)
        /\ f = hist[s].file /\ sent = peer[s].sent
        /\ dc[s].hFile \in Handles
        /\ CanWrite(dc[s].hFile)
        /\ handle[dc[s].hFile] = [file |-> f, access |-> Access(hist[s].cmd), pos |-> m + k, by |-> s]
        /\ disk[f].data = IF k = 0 THEN <<>> ELSE Written(<<>>, m, SubSeq(sent, 1, k))
  BY <1>2, UploadKnown
<1>5. k = Len(sent)
  BY <1>3, <1>4 DEF RecvEnd, Unread
<1>6. SubSeq(sent, 1, k) = sent
  BY <1>5, SubSeqFull
<1>7. k = 0 <=> sent = <<>>
  BY <1>5
<1>8. DataClose(hist, peer, s) /\ UNCHANGED <<user, disk>>
  BY DEF RecvEnd
<1>9. Stored(s)
  BY <1>4, <1>6, <1>7, <1>8 DEF Stored
<1>10. dc'[s] = ZeroData /\ user'[s].dlcommand = 0
  BY <1>1, <1>3, <1>8 DEF DataClose
<1>11. QED
  BY <1>3, <1>9, <1>10, TransferClosed

\* A step of the loop for the careful session itself.
LEMMA TransferServed ==
  ASSUME TypeOK, HFileLive, NEW s \in Careful, CarefulAt(s), TransferAt(s), Served(s)
  PROVE  TransferAt(s)'
<1>1. user \in [Sessions -> UserRecords] /\ dc \in [Sessions -> DataRecords] /\ s \in Sessions
  BY DEF TypeOK, Careful
<1>2. CASE SecondStageFails(s)
  <2>1. dc'[s] = ZeroData /\ user'[s].dlcommand = 0
    BY <1>1, <1>2 DEF SecondStageFails, DataClose, WildClose, UserRecords
  <2>2. QED
    BY <2>1, TransferClosed
<1>3. CASE SendCut(s)
  BY <1>3 DEF SendCut, Running, CarefulAt
<1>4. QED
  BY <1>2, <1>3, TransferBegins, DownloadBlock, UploadBlock, UploadEnds DEF Served

\* The client's end of a careful session.
LEMMA TransferClient ==
  ASSUME TypeOK, HFileLive, NEW s \in Careful, CarefulAt(s), TransferAt(s),
         ClientSend(s) \/ ClientEnd(s)
  PROVE  TransferAt(s)'
<1>1. /\ peer \in [Sessions -> PeerRecords] /\ s \in Sessions /\ \A fault : ~May(s, fault)
      /\ peer[s] \in PeerRecords
  BY DEF TypeOK, Careful, May
<1>2. Running(s, "RECV_FP") /\ UNCHANGED <<user, dc, handle, disk, hist>>
  BY <1>1 DEF ClientSend, ClientEnd
<1>3. Uploading(s) /\ dc[s].type = "CONNECTED" /\ dc[s].mode = "RECV_FP" /\ AnnouncedAt(s)
  BY <1>2 DEF TransferAt, Running
<1>4. PICK k \in Nat, sent \in Seq(Bytes) : k = peer[s].read /\ sent = peer[s].sent /\ k <= Len(sent)
  BY <1>1, <1>3 DEF Uploading, PeerRecords
<1>5. PICK more \in Seq(Bytes) :
        /\ peer'[s].read = k /\ peer'[s].sent = more /\ peer'[s].ended # "reset" /\ k <= Len(more)
        /\ SubSeq(more, 1, k) = SubSeq(sent, 1, k)
  <2>1. CASE ClientSend(s)
    <3>1. PICK x \in Bytes : x = <<s, Len(sent) + 1>>
      <4>1. Len(sent) + 1 \in Nat
        OBVIOUS
      <4>2. <<s, Len(sent) + 1>> \in Bytes
        BY <1>1, <4>1 DEF Bytes
      <4>3. QED
        BY <4>2
    <3>2. peer' = [peer EXCEPT ![s].sent = Append(sent, x)]
      BY <1>1, <1>4, <2>1, <3>1 DEF ClientSend
    <3>3. peer'[s].read = k /\ peer'[s].sent = Append(sent, x) /\ peer'[s].ended = peer[s].ended
      BY <1>1, <1>4, <3>2 DEF PeerRecords
    <3>4. Append(sent, x) \in Seq(Bytes) /\ k <= Len(Append(sent, x))
      BY <1>4
    <3>5. SubSeq(Append(sent, x), 1, k) = SubSeq(sent, 1, k)
      <4>1. \A i \in 1 .. k : sent[i] \in Bytes /\ Append(sent, x)[i] = sent[i]
        BY <1>4
      <4>2. QED
        BY <1>4, <3>4, <4>1
    <3>6. QED
      BY <1>3, <3>3, <3>4, <3>5 DEF Uploading
  <2>2. CASE ClientEnd(s)
    <3>1. peer'[s].read = k /\ peer'[s].sent = sent /\ peer'[s].ended = "fin"
      BY <1>1, <1>2, <1>4, <2>2 DEF ClientEnd, PeerRecords, Running
    <3>2. QED
      BY <1>4, <3>1
  <2>3. QED
    BY <2>1, <2>2
<1>6. Content(s)' = Content(s) /\ Received(s)' = Received(s)
  BY <1>2, <1>4, <1>5 DEF Content, Received
<1>7. FileOf(s, hist[s].rest + k)'
  BY <1>2, <1>3, <1>4 DEF Uploading, FileOf
<1>8. Uploading(s)'
  BY <1>2, <1>3, <1>5, <1>6, <1>7 DEF Uploading
<1>9. AnnouncedAt(s)'
  BY <1>2, <1>3 DEF AnnouncedAt, FileOf, Content
<1>10. QED
  BY <1>2, <1>3, <1>8, <1>9 DEF TransferAt, Downloading

\* All that is known of the sessions, where no name is odd and no close is wild.
LiveInv == IInv /\ HFileLive /\ CarefulInv

LEMMA BringsInductive ==
  ASSUME "wild" \notin Faults, LiveInv, BringsInv, [Next]_vars
  PROVE  BringsInv'
<1>1. TypeOK /\ HFileLive /\ Exclusive /\ \A s \in Careful : CarefulAt(s) /\ TransferAt(s)
  BY DEF LiveInv, IInv, CarefulInv, BringsInv
<1>2. CASE UNCHANGED vars
  <2>1. UNCHANGED <<user, dc, handle, disk, peer, hist>>
    BY <1>2 DEF vars
  <2>2. Exclusive'
    BY <1>1, <2>1 DEF Exclusive, Open, CanWrite
  <2>3. \A s \in Careful : TransferAt(s)'
    BY <1>1, <2>1, TransferKept
  <2>4. QED
    BY <2>2, <2>3 DEF BringsInv
<1>3. CASE Next
  <2>1. PICK t \in Sessions : Commanded(t) \/ Served(t) \/ ClientSend(t) \/ ClientEnd(t)
    BY <1>3 DEF Next
  <2>2. Effect(t)
    BY <1>1, <2>1, CommandEffect, ServedHas, ClientEffect
  <2>3. Exclusive'
    BY <1>1, <2>2, ExclusiveStep
  <2>4. ASSUME NEW s \in Careful PROVE TransferAt(s)'
    <3>1. CASE s = t
      BY <1>1, <2>1, <3>1, TransferCommand, TransferServed, TransferClient
    <3>2. CASE s # t
      <4>1. s \in Sessions /\ s \in Sessions \ {t} /\ t \in Sessions \ {s}
        BY <3>2 DEF Careful
      <4>2. SameAt(s)
        BY <1>1, <2>1, <4>1, OthersSame DEF HitAt
      <4>3. dc[s].hFile \in Handles =>
              /\ handle'[dc[s].hFile] = handle[dc[s].hFile]
              /\ disk'[handle[dc[s].hFile].file] = disk[handle[dc[s].hFile].file]
        BY <1>1, <2>2, <4>1, FileLeft
      <4>4. QED
        BY <1>1, <4>2, <4>3, TransferKept DEF SameAt
    <3>3. QED
      BY <3>1, <3>2
  <2>5. QED
    BY <2>3, <2>4 DEF BringsInv
<1>4. QED
  BY <1>2, <1>3

LEMMA BringsInitial == Init => BringsInv
<1> SUFFICES ASSUME Init PROVE BringsInv
  OBVIOUS
<1>1. Exclusive
  BY DEF Init, Exclusive, CanWrite, Closed
<1>2. ASSUME NEW s \in Careful PROVE TransferAt(s)
  <2>1. user[s].dlcommand = 0 /\ dc[s].type = "ACTIVE"
    BY DEF Init, Careful, ZeroUser, ZeroData
  <2>2. QED
    BY <2>1 DEF TransferAt, AnnouncedAt, Downloading, Uploading
<1>3. QED
  BY <1>1, <1>2 DEF BringsInv

LEMMA BringsInvariance == ASSUME Faults \cap {"odd", "wild"} = {} PROVE Spec => [](LiveInv /\ BringsInv)
<1>1. "odd" \notin Faults /\ "wild" \notin Faults
  OBVIOUS
<1>2. Spec => [](IInv /\ HFileLive)
  BY <1>1, LiveInvariance
<1>3. Spec => [](IInv /\ CarefulInv)
  BY <1>1, CarefulInvariance
<1>4. LiveInv /\ BringsInv /\ [Next]_vars => BringsInv'
  BY <1>1, BringsInductive
<1>5. IInv /\ HFileLive /\ CarefulInv => LiveInv
  BY DEF LiveInv
<1>6. QED
  BY <1>2, <1>3, <1>4, <1>5, BringsInitial, PTL DEF Spec

\* A careful client's 226 comes with the last block of a download or at the end of
\* an upload.
LEMMA CompletesHow ==
  ASSUME "wild" \notin Faults, LiveInv, BringsInv, Next, NEW s \in Careful, Completes(s)
  PROVE  SendBlock(s) \/ RecvEnd(s)
<1>1. TypeOK /\ HFileLive /\ CarefulAt(s) /\ TransferAt(s) /\ s \in Sessions /\ \A fault : ~May(s, fault)
  BY DEF LiveInv, IInv, CarefulInv, BringsInv, Careful, May
<1>2. hist[s].due = 1 /\ hist'[s].due = 0 /\ hist'[s].reply = "226" /\ hist'[s] # hist[s]
  BY DEF Completes
<1>3. hist \in [Sessions -> HistRecords] /\ hist[s] \in HistRecords
  BY <1>1 DEF TypeOK
<1>4. PICK t \in Sessions : Commanded(t) \/ Served(t) \/ ClientSend(t) \/ ClientEnd(t)
  BY DEF Next
<1>5. t = s
  BY <1>1, <1>2, <1>4, OthersSame DEF SameAt, HitAt
<1>6. ~Commanded(s)
  <2>1. ~(Pasv(s) \/ EndSession(s))
    BY <1>1, <1>2, <1>3 DEF Pasv, EndSession, ZeroHist
  <2>2. \A cmd \in Commands, f \in Files : ~FirstStage(s, cmd, f)
    <3>1. ASSUME NEW cmd \in Commands, NEW f \in Files, FirstStage(s, cmd, f)
          PROVE  hist'[s].due = hist[s].due + 1
      BY <1>1, <1>3, <3>1 DEF FirstStage, HistRecords
    <3>2. QED
      BY <1>2, <3>1
  <2>3. QED
    BY <1>2, <2>1, <2>2 DEF Commanded, Rest, FirstStageRefused, FirstStageOdd, Size, Dele
<1>7. ~ClientSend(s) /\ ~ClientEnd(s)
  BY <1>2 DEF ClientSend, ClientEnd
<1>8. ~SecondStage(s)
  <2>1. SecondStage(s) => hist'[s].due = hist[s].due
    BY <1>1, <1>3 DEF SecondStage, HistRecords
  <2>2. QED
    BY <1>2, <2>1
<1>9. ~SecondStageFails(s)
  <2>1. SecondStageFails(s) => DataClose(Answer(hist, s, "425"), peer, s) /\ ~dc[s].close
    BY <1>1 DEF SecondStageFails, CarefulAt, Idle
  <2>2. SecondStageFails(s) => hist' = Answer(hist, s, "425")
    BY <2>1 DEF DataClose, Callback
  <2>3. s \in DOMAIN hist => Answer(hist, s, "425")[s].reply = "425"
    BY DEF Answer, ZeroHist
  <2>4. s \in DOMAIN hist
    BY <1>1 DEF LiveInv, IInv, TypeOK, Careful
  <2>5. hist'[s].reply = "226"
    BY DEF Completes
  <2>6. QED
    BY <2>2, <2>3, <2>4, <2>5
<1>10. ~SendCut(s)
  BY <1>1 DEF SendCut, Running, CarefulAt
<1>11. ~RecvBlock(s)
  BY <1>1, <1>2, UploadBlock
<1>12. QED
  BY <1>4, <1>5, <1>6, <1>7, <1>8, <1>9, <1>10, <1>11 DEF Served

\* A download a careful client is told is complete brought the file from the offset
\* of REST on, as it was when the transfer began.
THEOREM DownloadsExact == ASSUME Faults \cap {"odd", "wild"} = {} PROVE Spec => DownloadExact
<1> DEFINE Brought == \A s \in Careful : Completes(s) /\ hist[s].cmd = "RETR" => peer'[s].got = hist[s].want
<1>1. LiveInv /\ BringsInv /\ [Next]_vars => [Brought]_vars
  <2> SUFFICES ASSUME LiveInv, BringsInv, Next, NEW s \in Careful, Completes(s), hist[s].cmd = "RETR"
               PROVE  peer'[s].got = hist[s].want
    OBVIOUS
  <2>1. TypeOK /\ HFileLive /\ CarefulAt(s) /\ TransferAt(s) /\ hist' # hist
    BY DEF LiveInv, IInv, CarefulInv, BringsInv, Completes
  <2>2. CASE SendBlock(s)
    BY <2>1, <2>2, DownloadBlock
  <2>3. CASE RecvEnd(s)
    BY <2>1, <2>3, UploadEnds
  <2>4. QED
    BY <2>2, <2>3, CompletesHow
<1>2. QED
  BY <1>1, BringsInvariance, PTL DEF Spec, DownloadExact

\* An upload of a careful client is in its file when the client is told so.
THEOREM UploadsStored == ASSUME Faults \cap {"odd", "wild"} = {} PROVE Spec => UploadStored
<1> DEFINE Brought == \A s \in Careful : Completes(s) /\ hist[s].cmd \in {"STOR", "APPE"} => Stored(s)
<1>1. LiveInv /\ BringsInv /\ [Next]_vars => [Brought]_vars
  <2> SUFFICES ASSUME LiveInv, BringsInv, Next, NEW s \in Careful, Completes(s), hist[s].cmd \in {"STOR", "APPE"}
               PROVE  Stored(s)
    OBVIOUS
  <2>1. TypeOK /\ HFileLive /\ CarefulAt(s) /\ TransferAt(s)
    BY DEF LiveInv, IInv, CarefulInv, BringsInv
  <2>2. CASE SendBlock(s)
    BY <2>1, <2>2, DownloadBlock
  <2>3. CASE RecvEnd(s)
    BY <2>1, <2>3, UploadEnds
  <2>4. QED
    BY <2>2, <2>3, CompletesHow
<1>2. QED
  BY <1>1, BringsInvariance, PTL DEF Spec, UploadStored
=============================================================================
