---------------------------- MODULE MCPaperEngine ----------------------------
(***************************************************************************)
(* Small instances of PaperEngine for TLC.                                 *)
(***************************************************************************)
EXTENDS PaperEngine

MCSignal(tech, flow, regimeScore, regime, mlPass) ==
    [tech |-> tech, flow |-> flow, regimeScore |-> regimeScore, finite |-> TRUE,
     regime |-> regime, mlPass |-> mlPass]

\* A long of full size, a short of two sixteenths (a long signal is strong because
\* the technical score counts for both), and no direction.
LongSignal == MCSignal(90, 90, 80, "trending_low_vol", TRUE)
ShortSignal == MCSignal(30, 100, 100, "ranging_high_vol", TRUE)
NoSignal == MCSignal(50, 50, 50, "trending_low_vol", TRUE)
\* A long the model rejects: an opposite signal for a short, no entry.
RejectedLong == MCSignal(90, 90, 80, "trending_low_vol", FALSE)

AllSignals == {LongSignal, ShortSignal, NoSignal, RejectedLong}
LongSignals == {LongSignal, NoSignal}

TwoPrices == {10, 14}
=============================================================================
