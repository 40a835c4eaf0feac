----------------------------- MODULE FileLocks ------------------------------
(***************************************************************************)
(* What transfers promise about files: a file has readers or one writer,   *)
(* and changes only while its writer holds it or when nobody does.         *)
(***************************************************************************)
CONSTANTS Files, Handles

VARIABLES
  readers,   \* the handles a file is open for reading with
  writers,   \* the handles it is open for writing with, at most one
  data       \* what is in it

vars == <<readers, writers, data>>

Held(h) == \E f \in Files : h \in readers[f] \cup writers[f]

Init ==
  /\ readers = [f \in Files |-> {}]
  /\ writers = [f \in Files |-> {}]

\* The other files stay what they are.
OnlyAt(f) == \A g \in Files \ {f} : data'[g] = data[g]

OpenToRead(f, h) ==
  /\ writers[f] = {} /\ ~Held(h)
  /\ readers' = [readers EXCEPT ![f] = @ \cup {h}]
  /\ UNCHANGED <<writers, data>>

\* The file is emptied, or made.
OpenToWrite(f, h) ==
  /\ writers[f] = {} /\ readers[f] = {} /\ ~Held(h)
  /\ writers' = [writers EXCEPT ![f] = {h}]
  /\ OnlyAt(f)
  /\ UNCHANGED readers

Write(f) ==
  /\ writers[f] # {}
  /\ OnlyAt(f)
  /\ UNCHANGED <<readers, writers>>

\* Of the files whose writers are among those closed the last block may be
\* written on the way.
Close(H) ==
  /\ readers' = [f \in Files |-> readers[f] \ H]
  /\ writers' = [f \in Files |-> writers[f] \ H]
  /\ \A f \in Files : writers[f] \cap H = {} => data'[f] = data[f]

Remove(f) ==
  /\ readers[f] = {} /\ writers[f] = {}
  /\ OnlyAt(f)
  /\ UNCHANGED <<readers, writers>>

Next ==
  \/ \E f \in Files : Write(f) \/ Remove(f)
  \/ \E f \in Files, h \in Handles : OpenToRead(f, h) \/ OpenToWrite(f, h)
  \/ \E H \in SUBSET Handles : Close(H)

Spec == Init /\ [][Next]_vars
=============================================================================
