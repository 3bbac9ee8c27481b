----------------------------- MODULE MCOrderFlow -----------------------------
(***************************************************************************)
(* A small instance of OrderFlow for TLC: two chunks that overlap by one   *)
(* bar, and messages enough for a change between two bars.                 *)
(***************************************************************************)
EXTENDS OrderFlow

MCEmaPeriods == <<1, 1, 1>>
MCReturnPeriods == <<1, 1, 1>>
MCVolWindows == <<2, 2>>
=============================================================================
