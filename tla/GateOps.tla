------------------------------- MODULE GateOps -------------------------------
(***************************************************************************)
(* The trade gate of internal/agent/tradegate/gate.go: the risk state      *)
(* machine every entry passes through.  Each method of Gate takes the      *)
(* gate's mutex for its whole body, so each is an operator from the gate   *)
(* before the call to the gate after it, and a caller composes the calls.  *)
(*                                                                         *)
(* Abstractions.  Scores are integers 0..100 and confidence is kept in     *)
(* hundredths, so the weighted sum is exact; position sizes are in         *)
(* sixteenths of the computed size, which makes every size * override      *)
(* product exact.  Money is an integer and the drawdown limit is the loss  *)
(* that reaches it.  The reason texts and the write-only currentDay field  *)
(* are left out.                                                           *)
(***************************************************************************)
EXTENDS Integers

CONSTANTS
    CooldownBars,      \* GateConfig.CooldownBars
    MaxTradesPerDay,   \* GateConfig.MaxTradesPerDay
    GateLossLimit      \* -DrawdownLimit * StartingCapital: a day's loss that stops the gate

ASSUME GateAssumption ==
    /\ CooldownBars \in Nat
    /\ MaxTradesPerDay \in Nat
    /\ GateLossLimit \in Int

GateStates == {"idle", "cooldown", "stopped"}

Gate == [state : GateStates, cooldown : Int, tradeCount : Nat, dayPnl : Int]

NewGate == [state |-> "idle", cooldown |-> 0, tradeCount |-> 0, dayPnl |-> 0]

(***************************************************************************)
(* What one evaluation looks at: three scores, whether they are finite,    *)
(* the regime label and whether the model's probability reaches its        *)
(* threshold.                                                              *)
(***************************************************************************)
RegimeLabels == {"trending_low_vol", "trending_high_vol", "ranging_high_vol",
                 "ranging_low_vol", "unknown"}

Signal == [tech : 0..100, flow : 0..100, regimeScore : 0..100,
           finite : BOOLEAN, regime : RegimeLabels, mlPass : BOOLEAN]

RawConfidence(sig) == 40 * sig.tech + 40 * sig.flow + 20 * sig.regimeScore

\* Mutant: sizes in per cent of a half.
DoubleSize(conf) ==
    IF conf >= 8000 THEN 32 ELSE IF conf >= 7000 THEN 16 ELSE IF conf >= 6000 THEN 8 ELSE 0
SizeFromConfidence(conf) ==
    IF conf >= 8000 THEN 16 ELSE IF conf >= 7000 THEN 8 ELSE IF conf >= 6000 THEN 4 ELSE 0

DecisionFromSize(size) ==
    IF size >= 16 THEN "full_size"
    ELSE IF size >= 8 THEN "normal_size"
    ELSE IF size > 0 THEN "small_size"
    ELSE "no_trade"

ApplyRegimeOverride(size, label) ==
    CASE label = "trending_low_vol"  -> size
      [] label = "trending_high_vol" -> (size * 3) \div 4
      [] label = "ranging_high_vol"  -> size \div 4
      [] OTHER -> 0

(***************************************************************************)
(* Evaluate: the checks on the signal, then the checks on the gate's own   *)
(* state under the mutex.  Every rejection is the same "no_trade" of size  *)
(* zero, so their order does not show.                                     *)
(***************************************************************************)
SignalPasses(sig) ==
    /\ sig.finite
    /\ sig.mlPass
    /\ sig.regime \notin {"ranging_low_vol", "unknown"}

\* Mutant: the day's trades are not limited.
AdmitsAnyCount(g) == g.state \notin {"stopped", "cooldown"}
Admits(g) ==
    /\ g.state # "stopped"
    /\ g.tradeCount < MaxTradesPerDay
    /\ g.state # "cooldown"

Evaluate(g, sig) ==
    LET base == SizeFromConfidence(RawConfidence(sig))
    IN  IF SignalPasses(sig) /\ Admits(g) /\ base # 0
          THEN [decision |-> DecisionFromSize(base),
                size |-> ApplyRegimeOverride(base, sig.regime)]
          ELSE [decision |-> "no_trade", size |-> 0]

-----------------------------------------------------------------------------
OnTradePlaced(g) == [g EXCEPT !.tradeCount = @ + 1]

OnTradeClosed(g) == [g EXCEPT !.state = "cooldown", !.cooldown = CooldownBars]

OnBar(g) ==
    IF g.state = "cooldown"
      THEN [g EXCEPT !.cooldown = @ - 1,
                     !.state = IF g.cooldown - 1 <= 0 THEN "idle" ELSE @]
      ELSE g

UpdatePnl(g, pnl) ==
    [g EXCEPT !.dayPnl = @ + pnl,
              !.state = IF g.dayPnl + pnl <= -GateLossLimit THEN "stopped" ELSE @]

\* Mutant: a new day also ends a cooldown.
ResetToIdle(g, startingPnl) ==
    [g EXCEPT !.tradeCount = 0, !.dayPnl = startingPnl, !.state = "idle"]
ResetDay(g, startingPnl) ==
    [g EXCEPT !.tradeCount = 0,
              !.dayPnl = startingPnl,
              !.state = IF @ = "stopped" THEN "idle" ELSE @]
=============================================================================
