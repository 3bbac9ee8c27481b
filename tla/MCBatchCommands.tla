--------------------------- MODULE MCBatchCommands ---------------------------
(***************************************************************************)
(* A small instance of BatchCommands for TLC: the periods keep their order *)
(* (every one fits the warm-up, the longest exactly), two builds of which  *)
(* the second changed a file, histories of a chunk that is not full and of *)
(* one with a hole that goes on into the next, and a study of a column of  *)
(* the order flow and a mandatory one.                                     *)
(***************************************************************************)
EXTENDS BatchCommands, TLC

MCBinaries == {<<1, 1>>, <<1, 2>>}
MCInitially == {{1, 2, 3}, {1, 2, 3, 5}}
MCEmaPeriods == <<1, 1, 2>>
MCReturnPeriods == <<1, 1, 2>>
MCVolWindows == <<2, 2>>
MCNames == <<13, 8>>
MCStudyHorizons == <<1, 2>>
Symmetry == Permutations(Jobs)
=============================================================================
