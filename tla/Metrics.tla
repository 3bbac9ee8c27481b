-------------------------------- MODULE Metrics --------------------------------
(***************************************************************************)
(* The metrics of internal/backtest/metrics.go, over the trades of a run.  *)
(*                                                                         *)
(* Abstractions.  What the code divides is kept as its numerator: the      *)
(* rates and averages are these numbers over totalTrades or totalBars.     *)
(* Time is the number of the bar.  The Sharpe and Sortino ratios are left  *)
(* out.                                                                    *)
(***************************************************************************)
EXTENDS Integers, Sequences, FiniteSets

CONSTANTS
    Capital,         \* Config.InitialCapital
    BarsPerDay       \* candles of one calendar day

ASSUME MetricsAssumption == Capital \in Nat \ {0} /\ BarsPerDay \in Nat \ {0}

DayOf(b) == (b - 1) \div BarsPerDay

\* The sum of f over its domain 1..n.
Total(f) ==
    LET upTo[n \in 0..Len(f)] == IF n = 0 THEN 0 ELSE upTo[n - 1] + f[n]
    IN  upTo[Len(f)]

Largest(S) == IF S = {} THEN 0 ELSE CHOOSE x \in S : \A y \in S : y <= x
Smallest(S) == IF S = {} THEN 0 ELSE CHOOSE x \in S : \A y \in S : x <= y

-----------------------------------------------------------------------------
\* The drawdown fall/from, the worst so far, follows the equity and its peak.
\* Mutant: the peak does not follow the equity.
LowerStart(d, pnl) ==
    LET equity == d.equity + pnl
    IN  IF (d.peak - equity) * d.from > d.fall * d.peak
          THEN [d EXCEPT !.equity = equity, !.fall = d.peak - equity, !.from = d.peak]
          ELSE [d EXCEPT !.equity = equity]
Lower(d, pnl) ==
    LET equity == d.equity + pnl
        peak   == IF equity > d.peak THEN equity ELSE d.peak
    IN  IF (peak - equity) * d.from > d.fall * peak
          THEN [equity |-> equity, peak |-> peak, fall |-> peak - equity, from |-> peak]
          ELSE [d EXCEPT !.equity = equity, !.peak = peak]

calcMaxDrawdown(trades) ==
    LET start == [equity |-> Capital, peak |-> Capital, fall |-> 0, from |-> Capital]
        after[n \in 0..Len(trades)] ==
            IF n = 0 THEN start ELSE Lower(after[n - 1], trades[n].pnl)
    IN  after[Len(trades)]

\* Calendar days are full days between the first entry and the last exit, and one.
calcTradeDistribution(trades) ==
    LET entries == {trades[k].bar : k \in DOMAIN trades}
        exits   == {trades[k].exitBar : k \in DOMAIN trades}
    IN  [tradingDays  |-> Cardinality({DayOf(b) : b \in entries \cup exits}),
         calendarDays |-> (Largest(entries \cup exits) - Smallest(entries)) \div BarsPerDay + 1]

NoTrades(fees) == [totalTrades |-> 0, fees |-> fees]

CalculateMetrics(trades, totalBars, barsInMarket, fees) ==
    IF trades = << >> THEN NoTrades(fees)
    ELSE LET returns == [k \in DOMAIN trades |-> trades[k].returnPct]
             winners == {k \in DOMAIN trades : returns[k] > 0}
             losers  == DOMAIN trades \ winners
             part(S) == Total([k \in DOMAIN trades |-> IF k \in S THEN returns[k] ELSE 0])
         IN  [totalTrades  |-> Len(trades), totalBars |-> totalBars, fees |-> fees,
              winning      |-> Cardinality(winners), losing |-> Cardinality(losers),
              netPnL       |-> Total([k \in DOMAIN trades |-> trades[k].pnl]),
              totalReturn  |-> Total(returns),
              grossProfit  |-> part(winners), grossLoss |-> -part(losers),
              largestWinner |-> Largest({returns[k] : k \in winners}),
              largestLoser |-> Smallest({returns[k] : k \in losers}),
              holdingBars  |-> Total([k \in DOMAIN trades |-> trades[k].holdingBars]),
              exposure     |-> barsInMarket,
              drawdown     |-> calcMaxDrawdown(trades),
              days         |-> calcTradeDistribution(trades)]
=============================================================================
