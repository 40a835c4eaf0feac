--------------------------- MODULE FileTransfers ----------------------------
(***************************************************************************)
(* RETR, STOR and APPE with the files and the handles they open: the two   *)
(* stages of mod_mnt.c and ftpd_vfs.c, the blocks of ftpd_data_send and    *)
(* ftpd_data_recv, and ftpd_data_close.  Each session has one channel; the *)
(* loop that brings the server from one to the next is in EventLoop.       *)
(*                                                                         *)
(* Data are sequences of bytes, and a byte is known by where it comes from *)
(* and which one it is there, so that a lost, repeated or foreign byte     *)
(* shows.  Windows' files and handles are external: CreateFile with its    *)
(* share modes, ReadFile, WriteFile, SetFilePointer, DeleteFile.           *)
(***************************************************************************)
EXTENDS Integers, Sequences, FiniteSets

CONSTANTS
  Sessions,
  Files,
  Handles,   \* the file handles Windows can give out
  BLOCK,     \* bytes of a block, 1024 in the code
  MaxLen,    \* bound: bytes of a file at first, and of an upload
  MaxRest,   \* bound: the offset of a REST
  Resuming,  \* the sessions whose clients give REST
  Rough,     \* the sessions whose clients do not behave
  Faults     \* what may go wrong with those, see AllFaults

\* "size"    clients ask for the size of files
\* "unasked" a client starts a transfer without PASV before it
\* "again"   a client starts a transfer on a channel that has one running
\* "cut"     a client closes the connection of a download
\* "short"   send() takes a part of a block
\* "fin"     the end of an upload is polled while data is still unread
\* "reset"   a client breaks the connection of an upload
\* "odd"     a client downloads a name that CreateFile opens, but whose attributes,
\*           which are used whether they could be read or not, are a directory's
\* "wild"    the pointer that a failed second stage has not set names the channel
\*           of another session
AllFaults == {"size", "unasked", "again", "cut", "short", "fin", "reset", "odd", "wild"}

ASSUME TransfersAssumption ==
  /\ Handles \subseteq Nat \ {0}
  /\ BLOCK \in Nat \ {0} /\ MaxLen \in Nat /\ MaxRest \in Nat
  /\ Rough \subseteq Sessions /\ Resuming \subseteq Sessions /\ Faults \subseteq AllFaults

May(s, fault) == s \in Rough /\ fault \in Faults

VARIABLES
  user,    \* dlcommand, command and rest of each session
  dc,      \* its channel
  handle,  \* file handles, as Windows sees them, and (history) for whom they were opened
  disk,    \* the files
  peer,    \* the client's end of the data connection
  hist     \* history: what a transfer should bring, and how it was answered

vars == <<user, dc, handle, disk, peer, hist>>

\* NULL, of a cleared channel, and INVALID_HANDLE_VALUE, of a refused CreateFile:
\* ftpd_data_close does not close the one, and closing the other does nothing.
NoHandle == 0

Commands == {"RETR", "STOR", "APPE"}
Access(cmd) == [RETR |-> "read", STOR |-> "write", APPE |-> "both"][cmd]

NoFile == [data |-> <<>>, exists |-> FALSE]
Closed == [file |-> "none", access |-> "closed", pos |-> 0, by |-> "nobody"]
Open(h) == handle[h].access # "closed"
CanRead(h) == handle[h].access \in {"read", "both"}
CanWrite(h) == handle[h].access \in {"write", "both"}
OnFile(f) == {h \in Handles : Open(h) /\ handle[h].file = f}

ZeroUser == [dlcommand |-> 0, cmd |-> "none", rest |-> 0]
ZeroData ==
  [used |-> FALSE, type |-> "ACTIVE", mode |-> "SEND", hFile |-> NoHandle, event |-> FALSE, close |-> FALSE]

\* The client's end: what it sent, how much of that was read, what it got, and
\* how it ended.
ZeroPeer == [sent |-> <<>>, read |-> 0, got |-> <<>>, ended |-> "no"]
ZeroHist == [due |-> 0, reply |-> "none", cmd |-> "none", file |-> "none", rest |-> 0, want |-> <<>>]

Init ==
  /\ user = [s \in Sessions |-> ZeroUser]
  /\ dc = [s \in Sessions |-> ZeroData]
  /\ handle = [h \in Handles |-> Closed]
  /\ \E n \in 0 .. MaxLen :
       disk = [f \in Files |-> [data |-> [i \in 1 .. n |-> <<"old", i>>], exists |-> TRUE]]
  /\ peer = [s \in Sessions |-> ZeroPeer]
  /\ hist = [s \in Sessions |-> ZeroHist]

-----------------------------------------------------------------------------
\* Windows.

\* Mutant: files are opened to be shared with everybody.
CanOpenShared(f, access) == access = "read" => disk[f].exists

\* CreateFile: a reader shares with readers, a writer with nobody.
CanOpen(f, access) ==
  IF access = "read" THEN disk[f].exists /\ \A h \in OnFile(f) : handle[h].access = "read"
  ELSE OnFile(f) = {}

\* The file is opened with h, which is not in use.
OpenAs(s, h, f, access) ==
  /\ ~Open(h)
  /\ handle' = [handle EXCEPT ![h] = [file |-> f, access |-> access, pos |-> 0, by |-> s]]

\* ReadFile of a block.
BlockAt(data, pos) ==
  SubSeq(data, pos + 1, IF pos + BLOCK < Len(data) THEN pos + BLOCK ELSE Len(data))

\* WriteFile; what lies between the end of the file and pos reads as zeros.
Written(data, pos, bytes) ==
  [i \in 1 .. (IF pos + Len(bytes) > Len(data) THEN pos + Len(bytes) ELSE Len(data)) |->
     IF i > pos /\ i <= pos + Len(bytes) THEN bytes[i - pos]
     ELSE IF i <= Len(data) THEN data[i] ELSE <<"zero", 0>>]

-----------------------------------------------------------------------------
\* Replies to session s: 150 is owed an answer, 226 and 425 are one.
Answer(H, s, text) == [H EXCEPT ![s] = [ZeroHist EXCEPT !.due = H[s].due - 1, !.reply = text]]

\* Mutant: the close callback is not called.
CallbackNot(H, c, s) == H

\* The close callback of the channel of c tells s: 226.
Callback(H, c, s) == IF dc[c].close THEN Answer(H, s, "226") ELSE H

\* The connection is gone, and the client has what it got.
Hung(p) == [ZeroPeer EXCEPT !.got = p.got]

\* Mutant: the channel keeps the number of the handle that was closed.
DataCloseKeeps(H, P, s) ==
  /\ dc' = [dc EXCEPT ![s] = [ZeroData EXCEPT !.hFile = dc[s].hFile]]
  /\ peer' = [P EXCEPT ![s] = Hung(@)]
  /\ hist' = Callback(H, s, s)

\* The channel's part of ftpd_data_close: the callback, then the record is cleared.
DataClose(H, P, s) ==
  /\ dc' = [dc EXCEPT ![s] = ZeroData]
  /\ peer' = [P EXCEPT ![s] = Hung(@)]
  /\ hist' = Callback(H, s, s)

\* Mutant: the file stays open when its channel is closed.
CloseFileNot(s) == handle' = handle

\* The other part: CloseHandle on hFile.
CloseFile(s) ==
  handle' = [h \in Handles |-> IF h = dc[s].hFile THEN Closed ELSE handle[h]]

\* PASV: the record's file handle and mode stay what they were.  What was owed
\* on the channel before is forgotten.
Pasv(s) ==
  /\ user[s].dlcommand = 0 /\ ~dc[s].used
  /\ dc' = [dc EXCEPT ![s] = [@ EXCEPT !.used = TRUE, !.type = "PASSIVE", !.event = FALSE, !.close = FALSE]]
  /\ peer' = [peer EXCEPT ![s] = ZeroPeer]
  /\ hist' = [hist EXCEPT ![s] = ZeroHist]
  /\ UNCHANGED <<user, handle, disk>>

\* REST: kept until the next one, whatever is transferred meanwhile.
Rest(s, n) ==
  /\ s \in Resuming /\ user[s].dlcommand = 0
  /\ user' = [user EXCEPT ![s].rest = n]
  /\ UNCHANGED <<dc, handle, disk, peer, hist>>

\* A client opens a channel first, unless "unasked", and waits for the end of its
\* transfer, unless "again" (and then once: a bound).
MayStart(s) ==
  /\ user[s].dlcommand = 0
  /\ dc[s].used \/ May(s, "unasked")
  /\ dc[s].type # "CONNECTED" \/ (May(s, "again") /\ hist[s].due < 2)

\* First stage: the file is opened, STOR and APPE empty it, and 150 is sent.  It
\* makes no difference that the channel has not been opened (503 and on it goes).
FirstStage(s, cmd, f) ==
  /\ MayStart(s)
  /\ CanOpen(f, Access(cmd)) /\ (cmd = "APPE" => disk[f].exists)
  /\ \E h \in Handles : OpenAs(s, h, f, Access(cmd)) /\ dc' = [dc EXCEPT ![s].hFile = h]
  /\ user' = [user EXCEPT ![s] = [@ EXCEPT !.dlcommand = 1, !.cmd = cmd]]
  /\ disk' = IF cmd = "RETR" THEN disk ELSE [disk EXCEPT ![f] = [data |-> <<>>, exists |-> TRUE]]
  /\ hist' = [hist EXCEPT ![s] =
       [@ EXCEPT !.due = hist[s].due + 1, !.reply = "none", !.cmd = cmd, !.file = f]]
  /\ UNCHANGED peer

\* 550: the file cannot be opened, and the channel's handle is the invalid one, or
\* CreateFile is not reached, and it is what it was.
FirstStageRefused(s) ==
  /\ MayStart(s)
  /\ \E h \in {NoHandle, dc[s].hFile} : dc' = [dc EXCEPT ![s].hFile = h]
  /\ UNCHANGED <<user, handle, disk, peer, hist>>

\* 550 for what looks like a directory: the file has been opened and is closed again,
\* and the channel keeps the number.
FirstStageOdd(s) ==
  /\ MayStart(s) /\ May(s, "odd")
  /\ \E h \in Handles : ~Open(h) /\ dc' = [dc EXCEPT ![s].hFile = h]
  /\ UNCHANGED <<user, handle, disk, peer, hist>>

\* Mutant: the position is not moved to the offset of REST.
MovedNot(s) == handle

\* Mutant: the offset is counted backwards.
MovedBack(s) ==
  [h \in Handles |->
     IF h = dc[s].hFile /\ Open(h) THEN [handle[h] EXCEPT !.pos = @ - user[s].rest] ELSE handle[h]]

\* SetFilePointer from where the file is.
Moved(s) ==
  [h \in Handles |->
     IF h = dc[s].hFile /\ Open(h) THEN [handle[h] EXCEPT !.pos = @ + user[s].rest] ELSE handle[h]]

\* Second stage: the connection is there or comes; the mode and the callback of
\* the transfer are set.
SecondStage(s) ==
  LET c == dc[s] IN
  /\ user[s].dlcommand = 1
  /\ c.type = "CONNECTED" \/ c.type = "PASSIVE"
  /\ handle' = Moved(s)
  /\ dc' = [dc EXCEPT ![s] =
       IF user[s].cmd = "RETR" THEN [c EXCEPT !.type = "CONNECTED", !.mode = "SEND_FP", !.event = TRUE]
       ELSE [c EXCEPT !.type = "CONNECTED", !.mode = "RECV_FP", !.close = TRUE]]
  /\ user' = [user EXCEPT ![s] = [@ EXCEPT !.dlcommand = 0, !.cmd = "none"]]
  /\ hist' = [hist EXCEPT ![s] = [@ EXCEPT !.rest = user[s].rest,
       !.want = SubSeq(disk[hist[s].file].data, user[s].rest + 1, Len(disk[hist[s].file].data))]]
  /\ UNCHANGED <<disk, peer>>

\* The second ftpd_data_close of a failed second stage, through the pointer not set:
\* the channel of t is closed as if it were one of s.  Its callback tells s, and its
\* slot stays taken.
WildClose(s, t) ==
  /\ dc' = [dc EXCEPT ![s] = ZeroData, ![t] = [ZeroData EXCEPT !.used = dc[t].used]]
  /\ handle' = [h \in Handles |-> IF h \in {dc[s].hFile, dc[t].hFile} THEN Closed ELSE handle[h]]
  /\ peer' = [peer EXCEPT ![s] = Hung(@), ![t] = Hung(@)]
  /\ hist' = Answer(Callback(Callback(hist, s, s), t, s), s, "425")

\* The connection fails: channel and file are closed, and 425 is sent.  The pointer
\* names the same channel again, another one (a bound: not for a session that was
\* told of too many ends already), or none (then the server dies, as in EventLoop).
SecondStageFails(s) ==
  /\ user[s].dlcommand = 1
  /\ dc[s].type # "CONNECTED"
  /\ \/ DataClose(Answer(hist, s, "425"), peer, s) /\ CloseFile(s)
     \/ May(s, "wild") /\ hist[s].due > 0 /\ \E t \in Sessions \ {s} : WildClose(s, t)
  /\ user' = [user EXCEPT ![s] = [@ EXCEPT !.dlcommand = 0, !.cmd = "none"]]
  /\ UNCHANGED disk

Running(s, mode) == dc[s].used /\ dc[s].type = "CONNECTED" /\ dc[s].mode = mode

LastBlock(block) == Len(block) < BLOCK

\* What ReadFile finds for the channel of s, n bytes of it sent, and the reply of
\* the event callback.
Block(s) ==
  LET h == dc[s].hFile IN
  IF h \in Handles /\ CanRead(h) THEN BlockAt(disk[handle[h].file].data, handle[h].pos) ELSE <<>>
Delivered(s, n) == [peer EXCEPT ![s].got = @ \o SubSeq(Block(s), 1, n)]
EventReply(s) == IF dc[s].event THEN Answer(hist, s, "226") ELSE hist

\* ftpd_data_send: one block; behind a short one, 226 and the close.  What
\* send() did not take is gone.
SendBlock(s) ==
  /\ Running(s, "SEND_FP")
  /\ \E n \in 0 .. Len(Block(s)) :
       /\ n < Len(Block(s)) => May(s, "short")
       /\ IF LastBlock(Block(s)) THEN DataClose(EventReply(s), Delivered(s, n), s) /\ CloseFile(s)
          ELSE /\ handle' = [handle EXCEPT ![dc[s].hFile].pos = @ + BLOCK]
               /\ peer' = Delivered(s, n)
               /\ UNCHANGED <<dc, hist>>
  /\ UNCHANGED <<user, disk>>

Unread(s) == Len(peer[s].sent) - peer[s].read

\* ftpd_data_recv with data to read: up to a block of it is written.  With
\* POLLHUP in the same events all that is to come has come, a block of it or what
\* there is of one is read, and the channel is closed behind it.
RecvBlock(s) ==
  LET h == dc[s].hFile
      most == IF Unread(s) < BLOCK THEN Unread(s) ELSE BLOCK
      writes == h \in Handles /\ CanWrite(h) IN
  /\ Running(s, "RECV_FP") /\ peer[s].ended # "reset" /\ Unread(s) > 0
  /\ \E n \in 1 .. most, hup \in BOOLEAN :
       LET bytes == SubSeq(peer[s].sent, peer[s].read + 1, peer[s].read + n) IN
       /\ hup => n = most /\ peer[s].ended = "fin" /\ May(s, "fin")
       /\ disk' = IF writes THEN [disk EXCEPT ![handle[h].file].data = Written(@, handle[h].pos, bytes)]
                  ELSE disk
       /\ IF hup THEN DataClose(hist, peer, s) /\ CloseFile(s)
          ELSE /\ peer' = [peer EXCEPT ![s].read = @ + n]
               /\ handle' = IF writes THEN [handle EXCEPT ![h].pos = @ + n] ELSE handle
               /\ UNCHANGED <<dc, hist>>
  /\ UNCHANGED user

\* Mutant: a broken connection does not close the channel.
RecvEndOrderly(s) ==
  /\ Running(s, "RECV_FP")
  /\ peer[s].ended = "fin" /\ Unread(s) = 0
  /\ DataClose(hist, peer, s) /\ CloseFile(s)
  /\ UNCHANGED <<user, disk>>

\* ftpd_data_recv with nothing more to come, in order or not: the channel is
\* closed, whose callback says 226.
RecvEnd(s) ==
  /\ Running(s, "RECV_FP")
  /\ peer[s].ended = "reset" \/ (peer[s].ended = "fin" /\ Unread(s) = 0)
  /\ DataClose(hist, peer, s) /\ CloseFile(s)
  /\ UNCHANGED <<user, disk>>

\* POLLHUP on a download: the channel is closed.
SendCut(s) ==
  /\ Running(s, "SEND_FP") /\ peer[s].ended # "no"
  /\ DataClose(hist, peer, s) /\ CloseFile(s)
  /\ UNCHANGED <<user, disk>>

\* The session ends, between the stages of a transfer too (RETR may be read in the
\* pass that finds the hang-up), and its channel, if allocated, with it; the slot's
\* next session starts from zeros.
EndSession(s) ==
  /\ handle' = IF dc[s].used THEN [h \in Handles |-> IF h = dc[s].hFile THEN Closed ELSE handle[h]] ELSE handle
  /\ dc' = [dc EXCEPT ![s] = ZeroData]
  /\ user' = [user EXCEPT ![s] = ZeroUser]
  /\ peer' = [peer EXCEPT ![s] = ZeroPeer]
  /\ hist' = [hist EXCEPT ![s] = ZeroHist]
  /\ UNCHANGED disk

\* SIZE: the file is opened as for RETR and not closed.
Size(s, f) ==
  /\ May(s, "size") /\ user[s].dlcommand = 0
  /\ CanOpen(f, "read")
  /\ \E h \in Handles : OpenAs(s, h, f, "read")
  /\ UNCHANGED <<user, dc, disk, peer, hist>>

\* DELE: Windows deletes a file nobody has open.
Dele(s, f) ==
  /\ user[s].dlcommand = 0
  /\ disk[f].exists /\ OnFile(f) = {}
  /\ disk' = [disk EXCEPT ![f] = NoFile]
  /\ UNCHANGED <<user, dc, handle, peer, hist>>

-----------------------------------------------------------------------------
\* The client's end of a data connection.

ClientSend(s) ==
  /\ Running(s, "RECV_FP") /\ peer[s].ended = "no" /\ Len(peer[s].sent) < MaxLen
  /\ peer' = [peer EXCEPT ![s].sent = Append(@, <<s, Len(@) + 1>>)]
  /\ UNCHANGED <<user, dc, handle, disk, hist>>

\* Without "fin" the end arrives once everything was read.
ClientEnd(s) ==
  /\ peer[s].ended = "no"
  /\ \E how \in {"fin", "reset"} :
       /\ \/ Running(s, "RECV_FP") /\ how = "fin" /\ (May(s, "fin") \/ Unread(s) = 0)
          \/ Running(s, "RECV_FP") /\ how = "reset" /\ May(s, "reset")
          \/ Running(s, "SEND_FP") /\ how = "fin" /\ May(s, "cut")
       /\ peer' = [peer EXCEPT ![s].ended = how]
  /\ UNCHANGED <<user, dc, handle, disk, hist>>

-----------------------------------------------------------------------------
Commanded(s) ==
  \/ Pasv(s)
  \/ \E n \in 0 .. MaxRest : Rest(s, n)
  \/ \E cmd \in Commands, f \in Files : FirstStage(s, cmd, f)
  \/ FirstStageRefused(s) \/ FirstStageOdd(s)
  \/ EndSession(s)
  \/ \E f \in Files : Size(s, f) \/ Dele(s, f)

\* What the loop does for a session by itself.
Served(s) ==
  \/ SecondStage(s) \/ SecondStageFails(s)
  \/ SendBlock(s) \/ RecvBlock(s) \/ RecvEnd(s) \/ SendCut(s)

Next == \E s \in Sessions : Commanded(s) \/ Served(s) \/ ClientSend(s) \/ ClientEnd(s)

Spec == Init /\ [][Next]_vars

\* Every pass of the loop handles each session with an event, and a client that
\* uploads comes to an end.
FairSpec == Spec /\ \A s \in Sessions : WF_vars(Served(s)) /\ WF_vars(ClientEnd(s))
-----------------------------------------------------------------------------
\* What transfers must keep.

\* Where a byte comes from and which one it is there.
Bytes == (Sessions \cup {"old", "zero"}) \X Nat

UserRecords == [dlcommand : {0, 1}, cmd : Commands \cup {"none"}, rest : Nat]
DataRecords ==
  [used : BOOLEAN, type : {"ACTIVE", "PASSIVE", "CONNECTED"}, mode : {"SEND", "SEND_FP", "RECV_FP"},
   hFile : Handles \cup {NoHandle}, event : BOOLEAN, close : BOOLEAN]
HandleRecords ==
  [file : Files, access : {"read", "write", "both"}, pos : Nat, by : Sessions] \cup {Closed}
FileRecords == [data : Seq(Bytes), exists : BOOLEAN]
PeerRecords == [sent : Seq(Bytes), read : Nat, got : Seq(Bytes), ended : {"no", "fin", "reset"}]
HistRecords ==
  [due : Int, reply : {"none", "226", "425"}, cmd : Commands \cup {"none"}, file : Files \cup {"none"},
   rest : Nat, want : Seq(Bytes)]

TypeOK ==
  /\ user \in [Sessions -> UserRecords]
  /\ dc \in [Sessions -> DataRecords]
  /\ handle \in [Handles -> HandleRecords]
  /\ disk \in [Files -> FileRecords]
  /\ peer \in [Sessions -> PeerRecords]
  /\ hist \in [Sessions -> HistRecords]

\* A handle number in a channel is that of an open file, and no other channel
\* has it: no close reaches a file that has been closed or opened by somebody
\* else since (dc->hFile in mod_retr, mod_stor and ftpd_data_close).  Not so with
\* "odd".
HFileLive ==
  \A s \in Sessions :
    dc[s].hFile \in Handles =>
      Open(dc[s].hFile) /\ \A t \in Sessions \ {s} : dc[t].hFile # dc[s].hFile

Careful == Sessions \ Rough

\* A file opened for a careful client is in its channel until it is closed, however
\* the transfer and the session end, and whatever the others do (a second transfer on
\* a busy channel and the end of a session that opened a file without a channel lose
\* one, but these are not what a careful client does).
NoneLost == \A h \in Handles : Open(h) /\ handle[h].by \in Careful => dc[handle[h].by].hFile = h

\* A transfer of a careful client that was announced with 150 is answered once:
\* with its channel gone nothing is owed, whatever the other clients do.
Answered ==
  \A s \in Careful :
    /\ hist[s].due \in {0, 1}
    /\ user[s].dlcommand = 0 /\ dc[s].type # "CONNECTED" => hist[s].due = 0

\* Session s gets the 226 it is owed in this step.
Completes(s) == hist[s].due = 1 /\ hist'[s].due = 0 /\ hist'[s].reply = "226"

\* A download that ends with 226 brought the file from the offset of REST on, as
\* it was when the transfer began, whatever other sessions did to it.
DownloadExact ==
  [][\A s \in Careful : Completes(s) /\ hist[s].cmd = "RETR" => peer'[s].got = hist[s].want]_vars

\* The upload of s is in its file: what the client sent, from the offset of REST
\* on, and nothing else.
Stored(s) ==
  disk'[hist[s].file].data =
    IF peer[s].sent = <<>> THEN <<>> ELSE Written(<<>>, hist[s].rest, peer[s].sent)

\* When an upload ends with "226 Transfer complete." it is in its file, if its
\* end is found after its data ...
UploadStored ==
  [][\A s \in Careful : Completes(s) /\ hist[s].cmd \in {"STOR", "APPE"} => Stored(s)]_vars

\* ... and, for what the reply says, in any case.
UploadComplete ==
  [][\A s \in Sessions : Completes(s) /\ hist[s].cmd \in {"STOR", "APPE"} => Stored(s)]_vars

\* Files are read by many or written by one, and change in no other way.
Locks ==
  INSTANCE FileLocks WITH
    readers <- [f \in Files |-> {h \in OnFile(f) : ~CanWrite(h)}],
    writers <- [f \in Files |-> {h \in OnFile(f) : CanWrite(h)}],
    data <- disk

ImplementsLocks == Locks!Spec

\* A file a transfer has opened is given back.
FilesFreed == \A s \in Sessions : dc[s].hFile \in Handles ~> dc[s].hFile \notin Handles
=============================================================================
