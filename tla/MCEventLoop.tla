---------------------------- MODULE MCEventLoop -----------------------------
(***************************************************************************)
(* The server loop for TLC; the instances are in the .cfg files beside it. *)
(***************************************************************************)
EXTENDS EventLoopProperties
=============================================================================
