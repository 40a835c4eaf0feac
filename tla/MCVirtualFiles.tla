--------------------------- MODULE MCVirtualFiles ---------------------------
(***************************************************************************)
(* The virtual file system for TLC: one drive with Windows' directories,   *)
(* and the shapes of argument the code tells apart.                        *)
(***************************************************************************)
EXTENDS VirtualFiles

C == << <<"c">> >>
MCDirs == {C, C \o << <<"Users">> >>, C \o << <<"Temp">> >>, C \o << <<"a">> >>,
           C \o << <<"Users">>, <<"a">> >>}
MCKept == {C, C \o << <<"Users">> >>, C \o << <<"Temp">> >>}

\* Names, the parent in its forms, absolute names of each module, either slash,
\* a slash too many, a prefix that is not a mount point, and nothing at all.
MCArgs == {
  <<"a">>, <<"c">>, <<"home">>, <<".", ".">>, <<".", ".", "/">>, <<".", ".", "/", "a">>, <<".", ".", "a">>,
  <<"a", "/", ".", ".">>, <<"/">>, <<"/", "mnt">>, <<"/", "tmp">>, <<"/", "home">>, <<"/", "home", "/", "a">>,
  <<"/", "mnt", "/", "c", "/", "a">>, <<"/", "mnt", "/", "c", "/", "/">>, <<"\\", "mnt", "\\", "c">>,
  <<"/", "mnt", "a", "c", "/", "a">>, <<>>}

\* Fewer shapes, to look at the naming in /tmp alone.
TempArgs == {<<"a">>, <<"tmp">>}
=============================================================================
