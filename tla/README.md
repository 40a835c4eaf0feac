# ftpd.c in TLA+

`ftpd.c` is a small FTP server for Windows: one thread, one `WSAPoll` over every
control and data connection, fixed tables of sessions and data channels, and a
virtual file system with a few mount points. This directory holds TLA+ modules
of it, the TLC configurations that check them on small instances, and theorems
about them that TLAPS checks for every value of the constants.

- [The system](#the-system)
- [The modules and the code](#the-modules-and-the-code)
- [What the runs check](#what-the-runs-check)
- [What is proved](#what-is-proved)
- [Where code and comments disagree](#where-code-and-comments-disagree)
- [What is not modelled](#what-is-not-modelled)
- [Plan](#plan)

Run a check with `tlc -config Sessions.cfg MCEventLoop.tla`, a proof with
`tlapm SlotsProofs.tla`.

## The system

| Component | Code | State | Operations |
|---|---|---|---|
| Session table | `ftpd.c` 116-147, 247-268 | `server.userslots`, `server.user[]`: control connection, `command[]`, `dlcommand`, `disconnected`, `lastdc` | `ftpd_open_session`, `ftpd_close_session` |
| Channel tables | `ftpd.c` 149-245, 362-418 | per session `dataslots`, `data[]`: two sockets, type, mode, file handle, two callbacks | `ftpd_data_open_active`, `ftpd_data_open_passive`, `ftpd_user_make_dataconn`, `ftpd_data_close` |
| Send buffers | `ftpd.c` 72-114 | `sendbuf`, `sendbufsize`, `sendbufoff` of each connection | `ftpd_conn_send`, `ftpd_conn_do_send` |
| Server loop | `ftpd.c` 798-975 | `polls[]`, `ppair[]` of the current pass | poll, accept, control entries, data entries |
| Command execution | `ftpd.c` 459-744 | works on the session | `ftpd_user_recv`, `ftpd_user_exec_command` |
| Transfers | `ftpd.c` 751-796, `ftpd_vfs.c` 44-116 | mode, callbacks, file handle of a channel | two stages, `ftpd_data_recv`, `ftpd_data_send` |
| Virtual file system | `ftpd_vfs.c` | the list of modules, `wdir` | dispatch by path, `vfs_changepath` |
| Mount points | `mod_root.c`, `mod_mnt.c`, `mod_home.c`, `mod_tmp.c` | file handles, the disk behind them | list, cwd, retr, stor, appe, dele, size, mkd |
| Bitmaps, poll table | `ftpd.h` 15-27 | words of bits, fixed array | `BMP_GET`, `BMP_ON`, `BMP_OFF` |
| Addresses | `ftpd.c` 339-360, 487-496 | none | `is_private_ip`, `get_local_ip` |

How they interact. Everything runs in one thread and shares the global `server`.
The loop takes a snapshot of the tables into `polls[]`, sleeps in `WSAPoll`, and
then handles the entries one by one: the listener first, then for each session
its control connection and its channels. An entry holds pointers to a session
and a channel, so an entry can be handled after the handling of an earlier entry
has closed what it points to. A control entry reads command lines and executes
each one at once. `LIST`, `MLSD`, `RETR`, `STOR` and `APPE` are executed twice:
the first time they reply 150 and set `dlcommand`; when the loop comes to the
session again it executes `command[]` a second time, which makes the data
connection (and for a passive channel waits for the client in a `WSAPoll` of its
own, with the whole server) and starts the transfer. Channels call back into
their session: `event` at the end of a download and `close` at the end of an
upload append a 226 to the session's send buffer.

A command with a path goes to the first module whose prefix the path has: the
argument if it begins with a slash, the working directory otherwise. The modules
of `/home` and `/tmp` have no file operations of their own: they put a directory
below `/mnt` in the place of `wdir`, call the handler of `mod_mnt` and put `wdir`
back. `mod_mnt` turns `/mnt/D/...` into `D:\...` by cutting strings at fixed
offsets and calls Windows. `RETR`, `STOR` and `APPE` open the file in their first
stage and keep the handle in the session's current channel, whose close closes
it; from then on the loop moves one block of 1024 bytes a pass.

What is hard about it:

- *Entries that outlive what they point to.* Closing, opening and closing again
  happen between the poll and the handling of an entry; the code relies on table
  order and on zeroed slots to make the late handling harmless.
- *Slot and handle reuse.* Slots and Windows handles are reused at once, so any
  stale number reaches somebody else's connection.
- *Delayed commands.* A delayed command has no event of its own, is executed
  again from a buffer that reading may overwrite, and blocks the server.
- *Failures half way:* no free handle, no free port, a connection that fails in
  the second stage, a client that gives up in a backlog or hangs up at any time.
- *Buffers sent in pieces* while more text is appended.
- *Files shared between sessions* over many passes of the loop, with handles that
  live in channels which other commands reuse.
- *Paths that are strings:* three modules name the same directory in different
  ways and must agree; the disk changes between two commands.

What makes each component correct:

- tables: a table entry names open handles of the right kind, no handle has two
  owners, none has no owner, a free slot is clean;
- loop: no entry is handled for another connection than the polled one; one
  session's end takes all of its channels and nothing else; one step touches one
  session; a client that hangs up is found out;
- delayed commands: executed as received, after the 150, and in the end at all;
- send buffer: bytes leave in order, each once, from inside the block;
- transfers: a 150 is answered once; what is downloaded is the file, what is
  uploaded is in the file; a file handle has one channel and is closed once;
- paths: a working directory has a module; `CWD` leads where it says and into what
  is there; what is listed can be opened by its name;
- bitmaps: taking and freeing a slot changes that slot; entries fit `polls[]`;
- addresses: the numbers of 227 are those of the channel.

## The modules and the code

```
SessionService       ByteStream     FileLocks           abstract specifications
      ^ refines          ^ refines       ^ refines
EventLoopProperties  SendBuffer     FileTransfers       VirtualFiles
      |
EventLoop                                               Bitmap, Addresses
      |
ServerMemory
```

`MCEventLoop`, `MCSendBuffer`, `MCFileTransfers` and `MCVirtualFiles` are what TLC
is run on. `EventLoopProofs`, `SlotsProofs` and `SessionProofs`, each on top of the
one before, `SendBufferProofs`, `FileTransferProofs` and `VirtualFileProofs` hold the
proofs;
`Bitmap` and `Addresses` are operators with theorems beside them. The modules share the code
between them by what they look at: `EventLoop` has every session, channel and
socket and no bytes; `FileTransfers` has the bytes, the files and what is owed to
a client, of one channel a session; `VirtualFiles` has the names.

`ServerMemory` is the global `server` together with the socket handles of the
process: one record `m` with `userslots`, `user`, `dataslots`, `dc` and `sock`. A
C function that changes it is an operator from memories to memories
(`OpenSession`, `OpenActive`, `OpenPassive`, `DataClose`, `CloseSession`, ...), so
that a handler that calls several is their composition, in the order of the code.
Abstracted: a control connection's send buffer is empty or not; a command line
is a member of `Commands` or one of the shapes `LONG` (overflows `command[]`),
`BLANK` (a bare newline), `PART` (bytes without a newline); `NOOP` stands for
every command that only replies, refused and failed ones included. Files, paths
and addresses are in the other modules.

`EventLoop` is the loop and its environment. An action is the stretch between two
system calls whose outcome another process decides, because only there can the
environment act so that the server notices:

| Action | Code |
|---|---|
| `Poll` | `ftpd_server_loop` up to the return of `WSAPoll`, lines 798-876 |
| `Listener`, `ListenerFull` | the accept and `ftpd_open_session`, 941-965; the second with a full table |
| `RecvLine` | one turn of the loop of `ftpd_user_recv` with the command it completes |
| `Flush` | the rest of a control entry: send, then close if asked to, 906-918 |
| `Delayed` | a control entry with a delayed command, 886-898 |
| `AcceptData` | the return of the `WSAPoll` in `ftpd_user_make_dataconn` and the rest of the stage |
| `ProcessData` | a data entry, 920-939 |
| `Connect`, `GiveUp`, `ClientSend`, `ClientClose`, `Knock`, `KnockGivenUp` | clients |

`polls` keeps the entries still to be handled, each with the handle and the events
the poll recorded; `pc` says where in the loop the server is. `Current` picks the
entry next in table order. The constant `Faults` says which of the hard things
happen in an instance (no port, no handle, an aborted connection, a full table,
pipelined or fragmented lines, slow readers, hang-ups, cut downloads, wild closes);
without `"pipeline"` a client waits for the reply to its last command and for the end
of its transfer, as most clients do. `LowestFirst` chooses between a system
that gives out the lowest free handle and one that may give out any.

Undefined behaviour is a choice. The uninitialised `user` of a full table ends the
process (`pc = "crashed"`, which is final) or is some slot of the table. The
uninitialised `dc` that `vfs_fallback_start_retr` and `vfs_fallback_start_stor` close
(`StageFails`) ends the process, is a channel of the session itself, or, with the fault
`"wild"`, a channel of a session behind it in the table (`WildClose`): its sockets are
closed and its record is zeroed, its callback replies to the wrong session, and its bit
stays set, since `BMP_OFF` is done on the bitmap of the other one. What that clears
behind `dataslots` is left out; for a channel of a session further up the index of the
bit wraps round and leads out of the process. A reply into a freed buffer may end the
process (`UseAfterFree`).

`EventLoopProperties` states what the loop must keep, and the refinement mapping
to `SessionService`: sessions open and close; a channel lives in an open session,
is offered, connected and dropped, in this order; a session takes all of its
channels with it; one step concerns one session, but for `Strike`, where a failed
transfer takes the connection of a channel elsewhere.

`SendBuffer` is the buffer of a `conn_t` byte by byte: a byte is its number in the
order of appending, so that loss, repetition and reordering are visible. Its
abstract specification is `ByteStream`, a queue.

`FileTransfers` is what happens to a file. Its actions are the two stages
(`FirstStage`, `FirstStageRefused`, `FirstStageOdd`, `SecondStage`,
`SecondStageFails`), one block of a
download or an upload (`SendBlock`, `RecvBlock`), the ends (`RecvEnd`, `SendCut`,
`EndSession`), the commands beside them (`Pasv`, `Rest`, `Size`, `Dele`) and the
client's end of the connection (`ClientSend`, `ClientEnd`). `DataClose` and
`CloseFile` are the two halves of `ftpd_data_close`, and `WildClose` is the one through
the pointer not set. `FirstStageOdd` is the branch of `mod_retr` for what has, or after a
`GetFileInformationByHandle` that failed seems to have, the attributes of a directory
(`mod_mnt.c` 199-204): the handle is closed and its number stays in the channel. Nor
does a refusal before `CreateFileW` touch the number (`FirstStageRefused`). A session may
end between the two stages (`EndSession`): `RETR` may be read in the very pass that finds
the hang-up, and a file opened while no channel is allocated is then lost. An upload
whose end is polled with its data has one block read, or all there is of less
(`RecvBlock`). A byte is where it comes from
and which one it is there; Windows' files with their share modes, `ReadFile`,
`WriteFile` and `SetFilePointer` are external. `hist` is a history variable: what
the client of a session asked for, what it should get, and how many answers it is
owed; no action of the code looks at it. A session has one channel here, reused
from one transfer to the next, since a file belongs to the channel that is
current when it is opened. Clients in `Rough` do what `Faults` lists: ask for
sizes, transfer without having opened a channel or on a busy one, cut, reset, name what
looks like a directory, have a second stage whose close is wild, or are served by sockets
that take half a block or whose end overtakes their data. The others open a channel
first and wait for the end of a transfer before the next; they may leave at any time.

`FileLocks` is what that promises to other users of the files: many readers or one
writer, and no change behind their backs. Several files may be closed in one step
(`Close(H)`), as a wild close does.

`VirtualFiles` is a working directory and a disk. Strings are sequences of tokens,
chosen so that the offsets of the code (`orig+5`, `orig[5]`, `orig+7`, `newpath+2`)
mean the same as in C; see the head of the module. `Cwd` is `vfs_changepath` with
`vfs_cwd` behind it, `Mkd`, `Stor` and `Dele` put things on the disk and take them
off, and `Removed` is another session, or another program, taking them off.
`FileName` is the path a file command ends up with: dispatch, the rewriting by
`/home` and `/tmp`, the translation of `mod_mnt`, and what Windows makes of the
text (`WinPath`: slashes, `.` and `..`, doubled slashes).

`Bitmap` has the macros of `ftpd.h` on words that are sets of bits, the clearing at
the start and the entries of a poll against the size of `polls[]`. It is the
reason why the other modules may take a table for the set of its taken slots.
`Addresses` has the numbers of `PORT` and of the reply 227.

## What the runs check

| Run | Instance | Distinct states | Question |
|---|---|---|---|
| `sessions` | 2 sessions x 1 channel, `STOR`, `PASV`, 5 handles, hang-ups, wild closes | 952,000 | do two sessions stay apart whatever the order of events? is `SessionService` implemented? |
| `transfers` | 1 session x 2 channels, every command, 4 handles in any order, hang-ups, cuts, aborts, fairness | 77,000 | do tables, handles and transfers stay consistent? do delayed commands run, waits end, hang-ups get noticed? |
| `rough_clients` | 1 session x 1 channel, 3 handles, pipelining, fragments, slow readers, more clients than slots, no free handle | 265,000 | what still holds when clients and system are at their worst? |
| `paths` | one drive, `Users`, `Temp`, three directories that come and go, 18 arguments | 6,800 | does every directory have a module, does `CWD` lead where it says, do the modules agree on names? |
| `files` | 2 sessions, 1 file of up to 2 bytes, blocks of 2, 2 handles, all faults but `"odd"` and `"wild"`, fairness | 116,000 | do clients get and store what they should while others share the file? are handles live, files given back? |
| `rough_files` | 2 sessions, 1 file of up to 1 byte, blocks of 3, 2 handles, all faults | 186,000 | what still holds when a close may meet another's file? are locks kept, is no file lost? |
| `fill_then_drain` | pieces of 2 bytes, texts of up to 3, 9 bytes in all | 3,000 | is a buffer that is filled and then drained a byte stream? |

*Bounds.* `MaxInbox` (lines of a client not yet read) is 1; `MaxBacklog` (clients waiting to be accepted)
is 1. Two sessions are enough for anything one session does to another, since
no step of the code looks at more than the session it handles and, in
`ftpd_open_session`, the first free one, or, in a wild close, one other; two channels suffice for the same
reason and for a session that fills its table. Two sessions with two channels
each are beyond a few minutes of TLC, so the two dimensions have a run each, and
the proofs below cover all sizes. In `sessions` there are five handles, one less than
two sessions and their channels can hold at once (one control, one listening and one
connected handle each): a step that would open a sixth is not taken. With six every
property of the run holds as well (1,678,000 states), in twice the time. `transfers` has
the four that its session can hold, given out in any order;
in `rough_clients` there are too few on purpose. The send
buffer's piece is 2 bytes instead of 1024, so that texts are shorter, equal and
longer than a piece.

In `files` a block is 2 bytes and `MaxLen` is 2: a file is empty, a part of a block,
or a whole one, after which the last, empty block is still to come. `MaxRest` is 1:
a transfer starts at the beginning or inside the file, and an upload behind the
end of its emptied file. `s1` resumes and behaves, `s2` has every fault; two
handles are what two transfers need, and a size that is never closed takes one of
them for ever. One file is enough because files meet only in the handles. In
`rough_files` a block is longer than any file: through a handle number that is
another's by then, one session could otherwise read the same whole block for ever. A wild
close there is one of a session that is still owed an answer (`hist.due > 0`), as the
callbacks it meets would else count the answers down without end; no property
of the run looks at them. `upload_truncated` has uploads of three bytes and blocks of two, so that
more than a block can be unread when the end is polled. In
`paths` the arguments are the shapes the code tells apart: a name, the parent with
and without more, `..` inside and at the start of a name, absolute names of each
module, a name that only begins like a mount point, the other slash, a slash too
many, nothing. `MaxPath` is 8 tokens, three directories below a drive (a deeper one
is treated like those); `MaxMade` is one file or directory beside those there at
first, so that a name can be either, or none.

*Fairness.* `FairSpec` is weak fairness of `Server`: the operating system keeps
running the one thread. That is all the code can rely on. `FairSpecKnocking`
adds that a client which was told a passive port connects to it, which the code
needs in order to come back from its wait without a timeout; `transfers` has it, and the
run `no_timeout` shows what happens without. The buffer's `FairSpec` is weak fairness
of sending, since the loop asks for `POLLOUT` as long as there is a buffer; its
`Drains` then also holds because a failed send gives the buffer up.

In `files`, `FairSpec` is weak fairness of `Served(s)` for each session: every pass
of the loop handles each channel that is ready, and a second stage waits for a
client that comes or fails. `ClientEnd(s)` is fair too: an upload ends because its
client ends it, and the code has no timeout that would do it instead.

*Deadlock* is checked in `paths`, `files` and `rough_files`, where a client can always
act. It is switched off where `pc = "crashed"` can be reached (a failed second stage of
`STOR` is enough), where a full inbox and backlog stop a client, and where the byte
count has reached its bound.

*How far each property goes.* These were tried with each fault alone:

- `HandlesFit`, `HandlesUnshared`, `FreeSlotsClean`, `WaitsOnOwnChannel` and
  `ImplementsService` survive pipelining, slow readers, a full table, missing
  handles and wild closes. The invariants were also checked with two channels, four
  handles and hang-ups (14 million states), which takes too long to be a run.
- A wild close (`"wild"`) reaches into a second session. `Isolation` and `PolledCurrent` say
  exactly what it may do there: in a step that opens and ends no session, zero records of
  channels, which then have no connection. Everything else of the second
  session stays; that its client finds its transfer gone is what the code does.
- A full table (`"crowd"`) re-initialises a live session: `HandlesOwned` and
  `PolledCurrent` do not survive it, its handles are lost.
- Pipelining breaks `DelayedWoken`, `DelayedRuns`, `SentBeforeWait` and
  `NoUseAfterFree`: these rest on clients that wait, and are checked with such clients. A
  `LIST` read in a pass in which the connection was polled as writable has its 150 sent at
  once, and nothing brings the server back to it, although `dlcommand` is a "Delayed
  command after send" (`ftpd.h:86`). Slow readers (`"slow"`) break `SentBeforeWait`: the
  second stage runs in the next pass, whether or not the 150 could be sent, and may
  block first; and they break `NoUseAfterFree`. To see it, give `Transfers.cfg` the fault
  `"pipeline"` with `MaxInbox = 2`, and `Sessions.cfg` the fault `"slow"`.
- That what is executed after the send is the command that was put off has no property,
  because only the clients see to it. `command[]` is the buffer lines are read into, and
  `ftpd_user_recv` takes every line that has arrived: after `LIST` and `PASV` in one
  burst, the second stage executes `PASV` again, the `LIST` that was answered with 150
  never, and `dlcommand` stays 1 (`Overwrite` and `Delayed` do the same; `rough_clients`
  goes through it).
- `ImplementsLocks` survives every fault of `FileTransfers`, and so does `NoneLost`, which is
  about the files of clients that behave. Those of others do get lost: that of a size,
  that of a transfer whose channel is taken by a second one, that of a session that ended
  between the stages without a channel.
- `HFileLive` survives every fault but `"odd"`. With it a closed number stays in `dc->hFile`;
  Windows gives the number out again for another session's download, and when
  the first session ends, `ftpd_data_close`
  closes that file. The next `ReadFile` finds nothing, which is taken for the end, and the
  other client is told "226 Transfer complete." with a part of its file. To see it, check
  `DownloadExact` with the faults `{"odd"}`, one handle, `BLOCK = 1` and `MaxLen = 1`.
- `Answered`, `DownloadExact` and `UploadStored` are about clients that behave, next to one
  that does not: a cut download is not answered, a short `send` loses bytes, an upload
  whose end is polled with its data loses what is behind its first block, and a reset
  upload is called complete. They do not survive `"wild"`, which may end anybody's
  transfer, and the latter two not `"odd"`. What a transfer is to bring is counted from
  the offset `REST` has left in the session, although one may expect an offset to be good
  for one transfer only.
- `ChangeMeant` leaves out three shapes (`CutsElsewhere`): a name that begins with two
  dots, a parent that is the root with more behind it, and a directory whose last
  part is not a name. There `vfs_changepath` cuts the string elsewhere.
- `EntersReal` and `AbsoluteAgrees` are about `/mnt`. The directory checks of `/home`
  and `/tmp` ask about the directory the session is in, and their absolute file
  names are translated as if they began with `/mnt`. `ListedEntered` is about names that were
  listed below `/mnt` and `/home`; below `/tmp` it is false (`temp_names`).
- When no port can be bound (`"bind"`), the closed handle's number stays in the
  `lconn` of a free slot. `FreeSlotsClean` says this is all that stays
  (`LeftBehind`); `Isolation`, `HandlesFit` and `HandlesUnshared` do not survive it, as a
  `LIST` on that slot closes the number, which may be another session's by then. No
  passing run has this fault; the theorems that hold with it are those without a
  condition on it.

## What is proved

Assumptions are those named beside the constants: at least one session slot and
one channel, handles are positive numbers, bounds are positive. Nothing is
assumed of `Faults` but what the table says: a theorem without a condition holds with
every fault. Those about files assume in addition that `Rough` and `Resuming` are sets of
sessions. Those about paths assume of the arguments only that they are sequences of
strings. Of the disk they assume what Windows sees to (`DirsAssumption`): names are not
empty, not `.` or `..` and without slashes, a drive is a letter, what a directory is in is a
directory, and the drives and Windows' own `Users` and `Temp` stay; everything else may be
there or not, and come and go. That the constants of the runs meet all this, TLC evaluates.

| Theorem | States |
|---|---|
| `EventLoopProofs!TypeCorrect` | `Spec => []TypeOK` |
| `SlotsProofs!SlotsCorrect` | `Spec => []SlotsInv /\ []FreeSlotsClean` |
| `SlotsProofs!LoopImplementsService` | `Spec => ImplementsService` |
| `SlotsProofs!ChannelsOwned` | `Spec => []Service!ChannelsInSessions`, a corollary |
| `SessionProofs!HandlesCorrect` | `Spec => []HandlesFit /\ []HandlesUnshared`, without `"bind"` |
| `SessionProofs!NoHandleLeaks` | `Spec => []HandlesOwned`, without `"crowd"` and `"handles"` |
| `SessionProofs!SessionsEndWhole` | `Spec => SessionEndsWhole` |
| `SessionProofs!SessionsIsolated` | `Spec => Isolation`, without `"bind"` |
| `SessionProofs!WaitsCorrect` | `Spec => []WaitsOnOwnChannel`, without `"bind"` |
| `SessionProofs!DelayedIsWoken` | `Spec => []DelayedWoken`, without `"pipeline"` |
| `SessionProofs!SentFirst` | `Spec => []SentBeforeWait`, without `"pipeline"` and `"slow"` |
| `SessionProofs!BuffersSafe` | `Spec => []NoUseAfterFree`, without `"pipeline"` and `"slow"` |
| `SessionProofs!PollStaysCurrent` | `Spec => []PolledCurrent`, without `"crowd"`, `"handles"` and `"pipeline"` |
| `SendBufferProofs!BufferCorrect` | `Spec => []ReadsInside /\ []SentInOrder`, if nothing is appended to a half-sent buffer |
| `SendBufferProofs!BufferImplementsStream` | `Spec => ImplementsStream`, under the same condition |
| `FileTransferProofs!TransfersTyped` | `Spec => []TypeOK` |
| `FileTransferProofs!HandlesLive` | `Spec => []HFileLive`, without `"odd"` |
| `FileTransferProofs!TransfersAnswered` | `Spec => []Answered`, without `"wild"` |
| `FileTransferProofs!HandlesKept` | `Spec => []NoneLost` |
| `FileTransferProofs!DownloadsExact` | `Spec => DownloadExact`, without `"odd"` and `"wild"` |
| `FileTransferProofs!UploadsStored` | `Spec => UploadStored`, without `"odd"` and `"wild"` |
| `FileTransferProofs!TransfersImplementLocks` | `Spec => ImplementsLocks` |
| `VirtualFileProofs!WdirAlwaysServed` | `Spec => []WdirServed` |
| `VirtualFileProofs!ChangesMeant` | `Spec => []ChangeMeant` |
| `VirtualFileProofs!EntersOnlyReal` | `Spec => []EntersReal` |
| `VirtualFileProofs!NamesAgree` | `Spec => []AbsoluteAgrees` |
| `VirtualFileProofs!ListedNamesOpen` | `Spec => []ListedOpens` |
| `VirtualFileProofs!ListedDirectoriesEntered` | `Spec => []ListedEntered` |
| `Bitmap!SlotsIndependent` | a slot's bit is set, cleared and read in one place, and no other slot changes |
| `Bitmap!StartWritesBeyond` | the start clears every slot, and writes past the bitmap |
| `Bitmap!PollFits`, `Bitmap!PollOverruns` | the entries of a poll fit `polls[]` up to 31 sessions; those of a full server with more do not |
| `Addresses!PasvNamesChannel` | the numbers of 227 give the address and the port back |
| `Addresses!PortReverses` | `PORT` keeps the address written backwards |
| `Addresses!ExtipUnused` | 227 names the host's first address, whoever asks |

*The loop.* The first part of `EventLoopProofs` shows that each memory operator keeps
the type of a memory, the second that each action keeps `TypeOK`. `FreeSlotsClean` is not
inductive by itself: after a session has ended, its data entries are still
handled, and such an entry closes the channel of a slot nobody owns. That is
harmless only because the slot is clean, so that no callback replies into a
session that is gone, and because the control entries left belong to open
sessions. The inductive invariant `SlotsInv` adds exactly this: `PolledOwned` (a
control entry is that of an open session), `PolledOnce` (a connection has one
entry, so a handled entry does not come back after its session ended) and
`InControl` (inside a read or a wait the current entry is a control entry, and a
wait is for a passive channel). For the proof the memory operators fall into
three kinds: those that leave sessions and channels the same, those that drop
channels of one session, and those that offer or connect one channel. Each keeps
free slots clean, and each is a step of `SessionService`, or a stutter, so the
same lemmas give the invariant and the refinement.

*Handles.* `SessionProofs` first says of each function on the memory what it leaves
in each field, then builds one invariant after the other on that. `HandlesInv` adds
two facts to `SlotsInv`. `Sound` says that a session's connection is an open control
handle no other session names, that a listening and a data handle are in one channel
each and are of the kind its type says, and that no handle is both. `Owned` says that
an open handle is named somewhere. Each function on the memory keeps both (`Keep`): it
opens a handle nobody names and names it once, or closes the handles of a channel and
clears their names in the same step, or moves neither. A step of the server keeps
them for all and changes the record, channels and handles of one session only, but for a
channel's record that a wild close has zeroed (`Serves`, `Others`), and not even that in a
step that opens or ends a session (`SessionStepsApart`), from which `Isolation`, `SessionEndsWhole` and the invariants
follow. Each condition is one the code needs, since TLC finds the property broken
with that fault alone: after `"bind"` a free slot names a closed socket, whose number
another session gets, so that `LIST` closes it there (`Sound`); with `"crowd"` a client
finds the table full and its session is opened over a live one, whose handles nobody
names then (`Owned`), and with `"handles"` the sessions with the handle -1, which keep
their slots, fill the table to the same end.

*Delayed commands and the poll.* These need to know what a client that waits for its
replies can have sent. `PoliteInv` says it: at most one line is unread, and only of a
session that has nothing to send, nothing delayed and no transfer; a session with a
delayed command has no transfer, and none has two; a channel that is not connected has
no callbacks. On it rest `WokenInv` (a delayed command has its 150 to send unless it is
being executed, and an entry whose line is read was not polled as writable),
`AnnouncedInv` (when replies are taken at once, a delayed command is executed only
after its 150 is sent, and no upload runs beside an unsent reply) and `CurrentInv` (as
long as a session's control entry is to come, none of its polled channels is given back,
and that entry has no command that would connect one of them anew, so that a record
zeroed by a wild close stays zeroed).
The proof is one of structure: each step of the server behind the poll is a turn of
one entry or ends the process (`Turned`). A control turn leaves the other sessions
alone, but for a record a wild close zeroes, and its own polite, goes on to the next entry or stays with this one, and changes
channels only if the session had no transfer, or drops some; a data turn drops at most
the entry's own channel and replies at most once (`Tidies`). The invariants follow from
that alone (`TurnWoken`, `TurnAnnounced`, `TurnCurrent`), and the poll, the listener
and the clients have a lemma each. The conditions are again those TLC shows to be needed: a
second line in one burst overwrites `command[]` (`"pipeline"`), the second stage waits
although the 150 is still in the buffer (`"slow"`), and a session opened over another
one takes its entries (`"crowd"`, `"handles"`).

*The buffer.* `SentInOrder` needs to know that what waits is what was put in last
(`Waiting`) and that what was sent came before it (`Gone`), and both need the block
to end where the unsent bytes end (`Filled`). `Filled` is what an append to a
half-sent buffer destroys: it writes at `sendbufsize` instead of `sendbufoff +
sendbufsize`. The condition `AppendWhileDraining = FALSE` holds for a data
connection with one listing, which fills the buffer before the loop first sends from
it. It does not hold for one on which a second `LIST` arrives while the first is being
sent, as nothing refuses it, nor for a control connection; see `append_half_sent`.

*Files.* The inductive invariant is built in layers, each with the faults it survives.
`IInv`, with every fault, is `TypeOK` with `Pending` (a delayed command on an opened
channel has named a file) and `HoldsInv`: of a client that behaves, an idle channel has no
file, a channel with one is allocated, so that whatever closes the channel or ends the
session closes the file, and no other file is open for that client. `NoneLost` is a part
of it. `HFileLive` comes on top, without `"odd"`: each
step either opens a free handle into one channel, closes the handles of channels and
clears their numbers, or leaves handles and numbers alone; the lemma `StepEffect` sorts
all steps into these, and the same sorting gives the steps of `FileLocks`. `CarefulInv`,
without `"wild"`, says what a client that behaves is owed in each stage, and with which
callbacks its channel will pay: one answer from the 150 on, an `event` on a download, a
`close` on an upload, none on a channel that is not connected. `Answered` is a part of
it. It needs that a step concerns one session (`OthersSame`). `LiveInv` is the three
together.

*What a transfer brings.* On top of `LiveInv`, `BringsInv` follows the bytes of such a client's transfer from
the 150 to the 226 (`TransferAt`). From the 150 on its channel has the file it named, at
the beginning, and empty if it is to be written; during a download the position is that of
what the client got, which is the file from the offset up to there; during an upload the
file is what was read of what the client sent, written at the offset, and the position
is behind it. Other sessions cannot disturb this because of `Exclusive` (whoever
writes a file has it alone): their steps leave the file and its position as they are
(`FileLeft`), so what is said of a transfer stays true (`TransferKept`). Its own steps
move it by a block: `BlockFetched` and `WrittenBehind` say that a block read or written
behind the earlier ones joins them. `DownloadExact` and `UploadStored` then say
what is true at the last step, which is a short block or the end found
behind the data (`CompletesHow`).

*Paths.* `WdirServed` is inductive once the working directory is known to be a
sequence of tokens (`IInv`). `NewPathAbsolute` is the work: `vfs_changepath` makes an
absolute path out of an absolute one, whatever the argument. The parent is cut at the
last slash, which exists (`LastSlashInside`, with the least member of a set of
naturals by well-foundedness) and is not the first, or the result is the root; and
taking off a last slash cannot empty a path, since the root is left alone. That a
module serves the result is then what `vfs_cwd` has looked for.

*What a path names.* The other path theorems rest on one algebra of paths. `Names` and `Walk`
are recursive functions over a string and over its names; what holds of all of them is
proved by the shortest string for which it would fail (`LeastOf`, `SeqInduct`). The laws
are: names of two strings with a slash between them are those of the one and those of the
other (`NamesJoin`), whichever slash it is (`NamesSlashes`), and a walk along both is a walk
along the second from where the first ends (`WalkJoin`). So a slash at the end leads
nowhere else (`VirtualStrip`), a name leads below (`EnterProper`), and `..` behind it back
(`ParentMeant`). `ChangesMeant` compares with these what `vfs_changepath` does to the string
with what a client means by it, and needs no more than the type of the working directory.
The rest need `PathInv`, which adds two parts. `Named` says that a working directory below
`/mnt` names a drive: without it the fixed offset of the translation (`MntPath`) cuts
elsewhere, and `AbsoluteAgrees` would fail, as in a directory `/mnta`, which `mod_mnt` takes
for its own. It is kept because a directory that Windows finds is below a drive
(`MntPathDrive`), and because what plain `..` leaves behind the end of the string is read
only at the root of a drive, so that the path itself names one (`ResidueAtDrive`). `DiskInv` says that what a directory is in is there, that names are
proper, and that Windows keeps its own; from it come the directory checks of `/home` and
`/tmp`, which ask about the directory the session is in and are right for a listed
name only because the directory with that name in it is there (`ListedAccepted`). The lemmas
`MntJoined` and `HomeJoined` are where the two ways of naming a directory meet: the
translation of a longer path is a walk from that of the shorter one. There is none for `/tmp`,
where five characters are three tokens, and `temp_names` shows that it is false there.

*Bitmaps and the poll table.* Two slots with the same word and the same bit are the
same slot (`SameBit`), for words of four and of eight bytes. The entries of a poll
are at most the listener and, for each session, its control connection and its
channels: a set of pairs, whose size is a product.

*Only model-checked:* the liveness properties (`DelayedRuns`, `WaitEnds`, `HangupNoticed`,
`Drains`, `FilesFreed`), which are out of reach of the prover. Every safety property of a
passing run is a theorem.

## Where code and comments disagree

The runs that end in a counterexample:

| Run | Property | What happens |
|---|---|---|
| `no_timeout` | `WaitEnds` | The wait for a data connection is marked `//3 seconds`, but its timeout is -1. A client that does not connect stops the server. |
| `full_table` | `RefusedWhenFull` | The caller expects NULL of a full table; the code has `NULL;` where it means `return NULL;`. |
| `append_half_sent` | `SentInOrder` | Text appended to a half-sent buffer overwrites unsent bytes, and the buffer is then read behind its end. |
| `temp_names` | `TempEntered` | `/tmp/dir1` is to be a directory of `%TEMP%`, but five characters of it are skipped, as of `/home/...`, and it becomes `%TEMP%dir1`. |
| `upload_truncated` | `UploadComplete` | "226 Transfer complete." is sent for an upload of more than a block whose end was polled together with its data, after one block was read. |

Other disagreements, which the models follow as the code has them: a delayed command
that is executed before its 150 is sent, or never, or as another command, and a channel
that keeps the number of a closed file are under [How far each property
goes](#what-the-runs-check); the poll
table has 32 entries "reserved to special purposes", which the control connections
use up (`PollOverruns`); `PORT` and `is_private_ip` do not do what their arguments
say (`PortReverses`, `ExtipUnused`); `APPE` empties the file, `REST` stays in force
for every later transfer, and a session whose `accept` failed keeps its slot.

## What is not modelled

- *Which reply.* `EventLoop` knows that something waits to be sent, `FileTransfers`
  how many answers a transfer is owed. The texts, the order of replies and their
  loss at the end of a session are not in a module. Nor is how a command is
  recognised, by its first letters.
- *Listings.* What a listing shows is in `VirtualFiles`, its text and how it is put
  into the channel's buffer are not; sending it is `SendBuffer`.
- *Long names.* A path has `MAX_PATH` characters in the code; what `strncat` does with
  one that is longer than what is left of its buffer is not modelled, and
  `MaxPath` keeps the runs away from it.
- *Names of other alphabets:* the conversions between UTF-8 and UTF-16.
- *Several channels of one session* in `FileTransfers`; they are in `EventLoop`, with no
  files. That the file follows the current channel is in the code of both stages.
- *Addresses an active connection goes to:* the copy of a whole `conn_t` over the
  address takes memory nobody wrote; in `EventLoop` a connection succeeds or fails.
- *A server that did not start.* `main` ignores it; the models begin behind
  `ftpd_start_server`.
- `mod_ftpd.c` and `scap.c` are compiled only with `MOD_FTPD`, which is off by default
  (and which `CMakeLists.txt`, when it is on, hands to the compiler under another
  name and without `-D`). `ftpd_util.c` and `main.c` hold no state of the server.
- *Memory exhaustion:* `malloc` succeeds.

## Plan

Done, in this order: the tables and the loop (`ServerMemory`, `EventLoop`,
`EventLoopProperties`, `SessionService`), the send buffer (`SendBuffer`,
`ByteStream`), the type theorem, the slots theorem and both refinements; then
handles, delayed commands and the poll (`SessionProofs`), every safety property of the
loop that a passing run checks;
paths (`VirtualFiles`) with a theorem for each property of their run, files and transfers
(`FileTransfers`, `FileLocks`) with theorems and a refinement, the bitmaps and the poll
table (`Bitmap`) and the addresses (`Addresses`).

Next, in order of importance:

1. `Replies`: one session's replies as a sequence, with the order of `recv`, send and
   close in a control entry, which would take the place of one of the runs.
