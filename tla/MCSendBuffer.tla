---------------------------- MODULE MCSendBuffer ----------------------------
(***************************************************************************)
(* The send buffer for TLC: pieces and texts of a few bytes.               *)
(***************************************************************************)
EXTENDS SendBuffer
=============================================================================
