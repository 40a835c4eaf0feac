-------------------------- MODULE MCFileTransfers ---------------------------
(***************************************************************************)
(* Transfers for TLC: two sessions and one file they both want.            *)
(***************************************************************************)
EXTENDS FileTransfers
=============================================================================
