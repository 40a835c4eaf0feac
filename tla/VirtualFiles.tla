---------------------------- MODULE VirtualFiles ----------------------------
(***************************************************************************)
(* The virtual file system: the working directory of a session, the        *)
(* modules that serve it, and the Windows path each command ends up with.  *)
(* What the other sessions do to the disk is the environment.              *)
(*                                                                         *)
(* A string is a sequence of tokens.  "/" and "\\" are tokens, and so are  *)
(* the words the code compares with ("mnt", "home", "tmp", "Users",        *)
(* "Temp"); every other token is one character, ".." being two of them.    *)
(* That is what the code's offsets need: "/home" is five characters and    *)
(* two tokens, "/mnt/" and "/tmp/" are five characters and three tokens.   *)
(*                                                                         *)
(* A Windows path is a sequence of names, the drive first; a name is the   *)
(* sequence of its tokens.  The disk is external: what directories and     *)
(* files there are, and when Windows makes, removes and finds them.        *)
(***************************************************************************)
EXTENDS Integers, Sequences, FiniteSets, SequencesExt, FiniteSetsExt

CONSTANTS
  Args,       \* the arguments clients give to commands, empty ones too
  Dirs0,      \* the directories that exist at first, drives among them
  Kept,       \* those of Dirs0 that Windows does not let go
  MaxPath,    \* bound: tokens of a working directory (MAX_PATH characters)
  MaxMade     \* bound: files and directories clients made that are on the disk

ASSUME ArgsAssumption == \A a \in Args : a \in Seq(STRING)
ASSUME BoundsAssumption == MaxPath \in Nat \ {0} /\ MaxMade \in Nat

VARIABLES
  wdir,      \* user->wdir of one session
  dirs,      \* directories on the disk
  files      \* files on the disk

vars == <<wdir, dirs, files>>

Root == <<"/">>
Mnt == <<"/", "mnt">>
Home == <<"/", "home">>
Tmp == <<"/", "tmp">>
Up == <<".", ".">>

Absolute(a) == a # <<>> /\ a[1] = "/"

\* vfs_fix_slashes and ftpd_fix_slashes: one kind of slash, the one or the other.
FixSlashes(s) == [i \in DOMAIN s |-> IF s[i] = "\\" THEN "/" ELSE s[i]]
WinSlashes(s) == [i \in DOMAIN s |-> IF s[i] = "/" THEN "\\" ELSE s[i]]

-----------------------------------------------------------------------------
\* The Windows side.

Nowhere == <<>>
WinDrive == "c"                       \* where Windows, and the server's own directory, are
TempDir == Mnt \o <<"/", WinDrive, "/", "Temp">>
Drives == {p[1] : p \in {q \in Dirs0 : Len(q) = 1}}

\* What a file or a directory can be called.
ProperName(n) ==
  /\ n \in Seq(STRING) /\ n \notin {<<>>, <<".">>, Up}
  /\ \A i \in DOMAIN n : n[i] \notin {"/", "\\"}

\* Drives have letters and stay; the directories of Windows are there and stay.
ASSUME DirsAssumption ==
  /\ \A p \in Dirs0 : p \in Seq(Seq(STRING)) /\ p # <<>> /\ \A i \in DOMAIN p : ProperName(p[i])
  /\ \A p \in Dirs0 : IF Len(p) = 1 THEN Len(p[1]) = 1 /\ p \in Kept ELSE Front(p) \in Dirs0
  /\ Kept \subseteq Dirs0
  /\ << <<WinDrive>>, <<"Users">> >> \in Kept /\ << <<WinDrive>>, <<"Temp">> >> \in Kept

\* The names so far, with one more token.
WithToken(names, t) ==
  IF t \in {"/", "\\"} THEN Append(names, <<>>)
  ELSE Append(Front(names), Append(Last(names), t))

\* The names between the slashes of s.
Names(s) ==
  LET upto[i \in 0 .. Len(s)] == IF i = 0 THEN << <<>> >> ELSE WithToken(upto[i - 1], s[i])
  IN upto[Len(s)]

\* Where name n leads from directory d; nothing is above a directory of `floor'
\* names.
Enter(d, n, floor) ==
  IF n \in {<<>>, <<".">>} THEN d
  ELSE IF n = Up THEN (IF Len(d) > floor THEN Front(d) ELSE d)
  ELSE Append(d, n)

\* Names taken one after the other from directory `from'.
Walk(from, names, floor) ==
  LET at[i \in 0 .. Len(names)] == IF i = 0 THEN from ELSE Enter(at[i - 1], names[i], floor)
  IN at[Len(names)]

\* What Windows makes of the text of a path.
WinPath(text) ==
  IF Len(text) > 1 /\ text[2] = ":"
  THEN IF <<text[1]>> \in Drives
       THEN Walk(<< <<text[1]>> >>, Names(SubSeq(text, 3, Len(text))), 1) ELSE Nowhere
  ELSE IF Len(text) > 0 /\ text[1] = "\\" THEN Walk(<< <<WinDrive>> >>, Names(text), 1) ELSE Nowhere

\* There is room for one more file or directory (the bound MaxMade).
Room == Cardinality((dirs \ Dirs0) \cup files) < MaxMade

Inside(p) == {q \in dirs \cup files : Len(q) > 1 /\ Front(q) = p}

-----------------------------------------------------------------------------
\* The modules.

\* vfs_add_mod: a module is asked after those that were there.
AddMod(mods, mod) == Append(mods, mod)

ModuleList == AddMod(AddMod(AddMod(AddMod(<<>>, "root"), "mnt"), "home"), "tmp")

Check(mod, path) ==
  \/ mod = "root" /\ path = Root
  \/ mod = "mnt" /\ IsPrefix(Mnt, path)
  \/ mod = "home" /\ IsPrefix(Home, path)
  \/ mod = "tmp" /\ IsPrefix(Tmp, path)

\* vfs_get_mod: the first module of the list that takes the path.
GetMod(path) ==
  LET i == SelectInSeq(ModuleList, LAMBDA mod : Check(mod, path))
  IN IF i = 0 THEN "none" ELSE ModuleList[i]

\* The module for a command with argument a in directory wd.
Dispatch(wd, a) == GetMod(IF Absolute(a) THEN a ELSE wd)

\* LIST has no argument to ask with.
ListModule(wd) == GetMod(wd)

\* The handlers the root has; the other modules have them all.
RootHandlers == {"LIST", "CWD"}
Serves(mod, cmd) == mod # "none" /\ (mod = "root" => cmd \in RootHandlers)

\* s + 5: what lies behind five characters.
Skip5(s) == SubSeq(s, IF IsPrefix(Home, s) THEN 3 ELSE 4, Len(s))

\* mod_mnt's translation: drive letter s[5], then everything from s + 7.
Translate(path) ==
  LET rest == Skip5(path) IN
  IF rest = <<>> THEN <<>> ELSE WinSlashes(<<rest[1], ":", "/">> \o SubSeq(rest, 3, Len(rest)))

\* Mutant: six characters of the working directory are skipped instead of five.
HomeDirShort(wd) == Mnt \o <<"/", WinDrive, "/", "Users">> \o SubSeq(wd, 4, Len(wd))

\* The directories below /mnt that stand for those below /home and /tmp.
HomeDir(wd) == Mnt \o <<"/", WinDrive, "/", "Users">> \o Skip5(wd)
TmpDir(wd) == TempDir \o Skip5(wd)

\* The directory a module asks mod_mnt about when the working directory is wd.
MntDir(mod, wd) ==
  IF mod = "home" THEN HomeDir(wd) ELSE IF mod = "tmp" THEN TmpDir(wd) ELSE wd

\* Mutant: no slash between the directory and the name.
MntFileNoSlash(wd, a) == WinSlashes(IF Absolute(a) THEN Translate(a) ELSE Translate(wd) \o a)

\* mod_get_path: the text of the Windows path of a in wd.
MntFile(wd, a) == WinSlashes(IF Absolute(a) THEN Translate(a) ELSE Translate(wd) \o <<"/">> \o a)

\* Mutant: /home does not replace the working directory.
HomeFileUnwrapped(wd, a) == MntFile(wd, a)

\* Each handler of /home and /tmp replaces the working directory, calls that of
\* mod_mnt with the argument as it is, and puts the working directory back.
HomeFile(wd, a) == MntFile(HomeDir(wd), a)
TmpFile(wd, a) == MntFile(TmpDir(wd), a)

\* The Windows path of command cmd with argument a, or Nowhere if it is refused.
FileName(wd, cmd, a) ==
  LET mod == Dispatch(wd, a)
      text == IF mod = "home" THEN HomeFile(wd, a) ELSE IF mod = "tmp" THEN TmpFile(wd, a)
              ELSE MntFile(wd, a)
  IN IF ~Serves(mod, cmd) \/ (cmd \in {"RETR", "STOR", "APPE"} /\ a = Mnt) THEN Nowhere
     ELSE WinPath(text)

\* The Windows directory LIST shows in wd, where it is one.
ListedDir(wd) == WinPath(Translate(MntDir(ListModule(wd), wd)))

\* The directories of the root, those a module serves.
RootListing == {<<"mnt">>, <<"tmp">>, <<"home">>}

\* The names LIST shows in wd.
Listing(wd) ==
  IF wd = Root THEN RootListing
  ELSE IF wd = Mnt THEN {<<Last(d)>> : d \in Drives}
  ELSE {Last(p) : p \in Inside(ListedDir(wd))}

-----------------------------------------------------------------------------
\* vfs_changepath.

\* The argument is taken for the parent directory, with or without more.
GoesUp(wd, a) == IsPrefix(Up, a) /\ wd # Root

LastSlash(wd) == Max({i \in DOMAIN wd : wd[i] = "/"})

StripSlash(path) ==
  IF path # Root /\ path # <<>> /\ Last(path) = "/" THEN Front(path) ELSE path

\* What is left of wd, and what follows the two dots unless that is the root.
Parent(wd, a) ==
  IF LastSlash(wd) = 1 THEN Root
  ELSE StripSlash(SubSeq(wd, 1, LastSlash(wd) - 1) \o SubSeq(a, 3, Len(a)))

\* Mutant: the slash between the directory and the name is forgotten.
NewPathNoSlash(wd, arg) ==
  LET a == FixSlashes(arg) IN
  IF GoesUp(wd, a) THEN Parent(wd, a)
  ELSE StripSlash(IF Absolute(a) THEN a ELSE wd \o a)

NewPath(wd, arg) ==
  LET a == FixSlashes(arg) IN
  IF GoesUp(wd, a) THEN Parent(wd, a)
  ELSE StripSlash(IF Absolute(a) THEN a ELSE wd \o (IF wd = Root THEN <<>> ELSE <<"/">>) \o a)

\* Plain ".." leaves the cut name behind the end of the string, where the
\* translation of the root of a drive still reads it.
Residue(wd, arg) ==
  IF arg = Up /\ wd # Root /\ LastSlash(wd) = 5 THEN SubSeq(wd, 6, Len(wd)) ELSE <<>>

\* mod_cwd of /mnt: /mnt itself, or what Windows says is a directory.
MntAccepts(path, residue) == path = Mnt \/ WinPath(Translate(path) \o residue) \in dirs

\* mod_cwd of /home and of /tmp.
HomeAccepts(wd) == MntAccepts(HomeDir(wd), <<>>)
TmpAccepts(wd) == MntAccepts(TmpDir(wd), <<>>)

\* Mutant: vfs_cwd's answer is not looked at.
AcceptsAll(wd, a) == TRUE

\* Mutant: every module asks about the working directory there was.
AcceptsOldDir(wd, a) ==
  LET mod == Dispatch(wd, NewPath(wd, a)) IN
  mod # "none" /\ (mod = "root" \/ wd = Root \/ MntAccepts(MntDir(mod, wd), <<>>))

\* vfs_cwd: /mnt asks about the new path, /home and /tmp ask about the working
\* directory there was.
Accepts(wd, a) ==
  LET path == NewPath(wd, a)
      mod == Dispatch(wd, path)
  IN /\ mod # "none"
     /\ mod = "mnt" => MntAccepts(path, Residue(wd, a))
     /\ mod = "home" => HomeAccepts(wd)
     /\ mod = "tmp" => TmpAccepts(wd)

-----------------------------------------------------------------------------
Init ==
  /\ wdir = Root
  /\ dirs = Dirs0
  /\ files = {}

\* CWD, and CDUP, which is CWD "..".
Cwd(a) ==
  /\ Len(NewPath(wdir, a)) <= MaxPath
  /\ Accepts(wdir, a)
  /\ wdir' = NewPath(wdir, a)
  /\ UNCHANGED <<dirs, files>>

\* MKD: CreateDirectory, in a directory that exists.
Mkd(a) ==
  LET p == FileName(wdir, "MKD", a) IN
  /\ Room /\ Len(p) > 1
  /\ Front(p) \in dirs /\ p \notin dirs \cup files
  /\ dirs' = dirs \cup {p}
  /\ UNCHANGED <<wdir, files>>

\* STOR: CREATE_ALWAYS makes the file unless a directory has the name.
Stor(a) ==
  LET p == FileName(wdir, "STOR", a) IN
  /\ Room /\ Len(p) > 1
  /\ Front(p) \in dirs /\ p \notin dirs
  /\ files' = files \cup {p}
  /\ UNCHANGED <<wdir, dirs>>

\* DELE and RMD, which are the same: the directory if empty, or the file.
Dele(a) ==
  LET p == FileName(wdir, "DELE", a) IN
  /\ p \in (dirs \ Kept) \cup files
  /\ p \in dirs => Inside(p) = {}
  /\ dirs' = dirs \ {p} /\ files' = files \ {p}
  /\ UNCHANGED wdir

\* Another session, or another program, removes a file or an empty directory.
Removed(p) ==
  /\ p \in (dirs \ Kept) \cup files
  /\ Inside(p) = {}
  /\ dirs' = dirs \ {p} /\ files' = files \ {p}
  /\ UNCHANGED wdir

Next ==
  \/ \E a \in Args : Cwd(a) \/ Mkd(a) \/ Stor(a) \/ Dele(a)
  \/ \E p \in dirs \cup files : Removed(p)

Spec == Init /\ [][Next]_vars
-----------------------------------------------------------------------------
\* What the file system must keep, in every state and for every argument.

\* The names of a virtual directory, as a client reads them.
Virtual(path) == Walk(<<>>, Names(path), 0)

\* What a client means by a in directory wd.
Meant(wd, a) ==
  Walk(IF Absolute(FixSlashes(a)) THEN <<>> ELSE Virtual(wd), Names(FixSlashes(a)), 0)

\* Where changepath cuts a string and so does not go where a client means to:
\* a name that only begins with two dots, a parent that is the root with more
\* behind it, and a directory whose last part is not a name.
CutsElsewhere(wd, a) ==
  /\ GoesUp(wd, a)
  /\ \/ Len(a) > 2 /\ a[3] # "/"
     \/ LastSlash(wd) = 1 /\ Len(a) > 3
     \/ Last(Names(wd)) \in {<<>>, <<".">>, Up}

\* The working directory is absolute, and one of the modules serves it,
\* however it was reached: otherwise every relative name would be refused from
\* then on (vfs_changepath asks vfs_cwd first).
WdirServed ==
  Absolute(wdir) /\ Dispatch(wdir, <<>>) # "none"

\* A CWD or CDUP that is accepted leads where its argument says: down, up,
\* across and to absolute names, with either slash, the three cases of
\* CutsElsewhere apart (vfs_changepath).
ChangeMeant ==
  \A a \in Args :
    Accepts(wdir, a) /\ ~CutsElsewhere(wdir, FixSlashes(a)) =>
      Virtual(NewPath(wdir, a)) = Meant(wdir, a)

\* CWD into /mnt/... is accepted for directories that are there at that time and
\* for no others, whatever other sessions removed; only plain ".." to the root
\* of a drive may be refused, when the directory it leaves is gone (mod_cwd of
\* mod_mnt.c).
EntersReal ==
  \A a \in Args :
    LET path == NewPath(wdir, a) IN
    IsPrefix(Mnt, path) /\ path # Mnt =>
      /\ Accepts(wdir, a) => WinPath(Translate(path)) \in dirs
      /\ WinPath(Translate(path)) \in dirs => Accepts(wdir, a) \/ a = Up

\* What LIST shows in a directory the file commands open under that name and
\* CWD accepts, so the two ways a module names a directory (mod_list and
\* mod_get_path, with the working directory rewritten or not) agree.
ListedOpens ==
  \A n \in Listing(wdir) :
    LET p == Append(ListedDir(wdir), n) IN
    /\ wdir \notin {Root, Mnt} => FileName(wdir, "RETR", n) = p /\ FileName(wdir, "DELE", n) = p
    /\ wdir \in {Root, Mnt} \/ p \in dirs => Accepts(wdir, n) \/ IsPrefix(Up, n)

\* A directory LIST shows is the directory LIST shows the inside of after CWD
\* (a name that begins with two dots is taken for the parent instead).
EntersListed ==
  \A n \in Listing(wdir) :
    LET p == Append(ListedDir(wdir), n) IN
    p \in dirs /\ ~IsPrefix(Up, n) => ListedDir(NewPath(wdir, n)) = p

\* It is so below the drives and in the home directories ...
ListedEntered ==
  Dispatch(wdir, <<>>) \in {"mnt", "home"} /\ wdir # Mnt => EntersListed

\* ... and, "/tmp/dir1/dir2" being a directory of %TEMP%, in that of /tmp too.
TempEntered ==
  Dispatch(wdir, <<>>) = "tmp" => EntersListed

\* A file has the same name whether it is given relative to a directory below
\* /mnt or absolutely, for every command (mod_get_path).
AbsoluteAgrees ==
  \A a \in Args, cmd \in {"RETR", "DELE"} :
    IsPrefix(Mnt, wdir) /\ wdir # Mnt /\ a # <<>> /\ ~Absolute(a) =>
      FileName(wdir, cmd, a) = FileName(wdir, cmd, wdir \o <<"/">> \o a)
=============================================================================
