------------------------------ MODULE GateProofs ------------------------------
(***************************************************************************)
(* What the methods of the trade gate return, for every gate: the facts    *)
(* the proofs about the engines that use it rest on.                       *)
(***************************************************************************)
EXTENDS GateOps, TLAPS

\* Every method of the gate returns a gate.
LEMMA GateType ==
    ASSUME NEW g \in Gate, NEW x \in Int, NEW h,
           \/ h = OnTradePlaced(g)
           \/ h = OnTradeClosed(g)
           \/ h = OnBar(g)
           \/ h = UpdatePnl(g, x)
           \/ h = ResetDay(g, x)
    PROVE  h \in Gate
<1> USE GateAssumption DEF Gate, GateStates
<1>1. CASE h = OnTradePlaced(g)
  BY <1>1 DEF OnTradePlaced
<1>2. CASE h = OnTradeClosed(g)
  <2>1. h = [state |-> "cooldown", cooldown |-> CooldownBars,
             tradeCount |-> g.tradeCount, dayPnl |-> g.dayPnl]
    BY <1>2 DEF OnTradeClosed
  <2> QED BY <2>1
<1>3. CASE h = OnBar(g)
  <2>1. CASE g.state # "cooldown"
    BY <1>3, <2>1 DEF OnBar
  <2>2. CASE g.state = "cooldown"
    <3>1. h = [state |-> IF g.cooldown - 1 <= 0 THEN "idle" ELSE g.state,
               cooldown |-> g.cooldown - 1,
               tradeCount |-> g.tradeCount, dayPnl |-> g.dayPnl]
      BY <1>3, <2>2 DEF OnBar
    <3> QED BY <3>1
  <2> QED BY <2>1, <2>2
<1>4. CASE h = UpdatePnl(g, x)
  <2>1. h = [state |-> IF g.dayPnl + x <= -GateLossLimit THEN "stopped" ELSE g.state,
             cooldown |-> g.cooldown,
             tradeCount |-> g.tradeCount, dayPnl |-> g.dayPnl + x]
    BY <1>4 DEF UpdatePnl
  <2> QED BY <2>1
<1>5. CASE h = ResetDay(g, x)
  <2>1. h = [state |-> IF g.state = "stopped" THEN "idle" ELSE g.state,
             cooldown |-> g.cooldown, tradeCount |-> 0, dayPnl |-> x]
    BY <1>5 DEF ResetDay
  <2> QED BY <2>1
<1> QED BY <1>1, <1>2, <1>3, <1>4, <1>5

\* An admitted signal is sized between nothing and the full size.
LEMMA SizeType ==
    ASSUME NEW g \in Gate, NEW sig \in Signal
    PROVE  Evaluate(g, sig).size \in 0..16
<1> DEFINE base == SizeFromConfidence(RawConfidence(sig))
<1>1. base \in {0, 4, 8, 16}
  BY DEF SizeFromConfidence
<1>2. ApplyRegimeOverride(base, sig.regime) \in 0..16
  <2> HIDE DEF base
  <2> QED BY <1>1 DEF ApplyRegimeOverride
<1> QED BY <1>2 DEF Evaluate

\* A decision for a trade has a size of at least a sixteenth, and is only made by a
\* gate that is not cooling.
LEMMA AdmittedSize ==
    ASSUME NEW g \in Gate, NEW sig \in Signal, Evaluate(g, sig).decision # "no_trade"
    PROVE  Evaluate(g, sig).size \in 1..16 /\ g.state # "cooldown"
<1> DEFINE base == SizeFromConfidence(RawConfidence(sig))
<1>1. base \in {0, 4, 8, 16}
  BY DEF SizeFromConfidence
<1>2. SignalPasses(sig) /\ Admits(g) /\ base # 0
  BY DEF Evaluate
<1>3. Evaluate(g, sig).size = ApplyRegimeOverride(base, sig.regime)
  BY <1>2 DEF Evaluate
<1>4. sig.regime \in {"trending_low_vol", "trending_high_vol", "ranging_high_vol"}
  BY <1>2 DEF SignalPasses, Signal, RegimeLabels
<1> HIDE DEF base
<1>5. ApplyRegimeOverride(base, sig.regime) \in 1..16
  <2>1. CASE sig.regime = "trending_low_vol"
    BY <1>1, <1>2, <2>1 DEF ApplyRegimeOverride
  <2>2. CASE sig.regime = "trending_high_vol"
    BY <1>1, <1>2, <2>2 DEF ApplyRegimeOverride
  <2>3. CASE sig.regime = "ranging_high_vol"
    BY <1>1, <1>2, <2>3 DEF ApplyRegimeOverride
  <2> QED BY <1>4, <2>1, <2>2, <2>3
<1> QED BY <1>2, <1>3, <1>5 DEF Admits

\* A placed trade is counted, and changes nothing else.
LEMMA PlacedFields ==
    ASSUME NEW g \in Gate
    PROVE  /\ OnTradePlaced(g).state = g.state
           /\ OnTradePlaced(g).cooldown = g.cooldown
           /\ OnTradePlaced(g).tradeCount = g.tradeCount + 1
           /\ OnTradePlaced(g).dayPnl = g.dayPnl
BY DEF OnTradePlaced, Gate

\* A closed trade's PnL is added and the gate cools, also one that the PnL stopped.
LEMMA ClosedFields ==
    ASSUME NEW g \in Gate, NEW x \in Int, NEW h, h = OnTradeClosed(UpdatePnl(g, x))
    PROVE  /\ h \in Gate
           /\ h.state = "cooldown" /\ h.cooldown = CooldownBars
           /\ h.tradeCount = g.tradeCount /\ h.dayPnl = g.dayPnl + x
<1>1. UpdatePnl(g, x) \in Gate
  BY GateType
<1>2. UpdatePnl(g, x).tradeCount = g.tradeCount /\ UpdatePnl(g, x).dayPnl = g.dayPnl + x
  BY DEF UpdatePnl, Gate
<1>3. h \in Gate
  BY <1>1, GateType
<1> QED BY <1>1, <1>2, <1>3 DEF OnTradeClosed, Gate

\* A bar takes one off the cooldown, and ends it at zero.
LEMMA BarFields ==
    ASSUME NEW g \in Gate
    PROVE  /\ OnBar(g).tradeCount = g.tradeCount /\ OnBar(g).dayPnl = g.dayPnl
           /\ OnBar(g).state = "cooldown" =>
                 g.state = "cooldown" /\ OnBar(g).cooldown = g.cooldown - 1 /\ g.cooldown > 1
           /\ g.state = "cooldown" /\ OnBar(g).state # "cooldown" => g.cooldown <= 1
<1>1. CASE g.state # "cooldown"
  BY <1>1 DEF OnBar
<1>2. CASE g.state = "cooldown"
  <2>1. OnBar(g) = [state |-> IF g.cooldown - 1 <= 0 THEN "idle" ELSE g.state,
                    cooldown |-> g.cooldown - 1,
                    tradeCount |-> g.tradeCount, dayPnl |-> g.dayPnl]
    BY <1>2 DEF OnBar, Gate
  <2> QED BY <1>2, <2>1 DEF Gate
<1> QED BY <1>1, <1>2
=============================================================================
