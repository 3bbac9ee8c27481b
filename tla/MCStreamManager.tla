---------------------------- MODULE MCStreamManager ----------------------------
(***************************************************************************)
(* Small instances of StreamManager for TLC.                               *)
(***************************************************************************)
EXTENDS StreamManager
=============================================================================
