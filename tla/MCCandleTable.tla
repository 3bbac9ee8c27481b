---------------------------- MODULE MCCandleTable ----------------------------
(***************************************************************************)
(* Small instances of CandleTable for TLC.                                 *)
(***************************************************************************)
EXTENDS CandleTable
=============================================================================
