------------------------------ MODULE MCBacktest ------------------------------
(***************************************************************************)
(* Small instances of Backtest for TLC, on signals the score agents give.  *)
(***************************************************************************)
EXTENDS Backtest, Scoring

\* A bar in an uptrend with the order flow behind it: a long of full size.
Rising ==
    [price |-> 1000, ema20 |-> 990, ema50 |-> 980, ema200 |-> 970, rsi |-> 60, atr |-> 12,
     adx |-> 34, logVolume |-> 1300, funding |-> 19, oiDelta |-> 100, ls |-> 130,
     longLiq |-> 40, shortLiq |-> 0, volatility |-> 90]

\* Below every average and oversold, in a range: a short of two sixteenths.
Falling ==
    [Rising EXCEPT !.price = 900, !.ema20 = 920, !.ema50 = 940, !.ema200 = 960, !.rsi = 20,
                   !.atr = 30, !.adx = 24, !.volatility = 240]

\* The same in a trend, less oversold: between the thresholds, a quarter.
Turning == [Falling EXCEPT !.rsi = 45, !.adx = 34, !.atr = 12, !.volatility = 90]

\* The rising bar before its slow average and its order flow are there.
Unknown ==
    [Rising EXCEPT !.ema200 = NaN, !.funding = NaN, !.oiDelta = NaN, !.ls = 0,
                   !.longLiq = 0, !.shortLiq = 0]

Rows == {Rising, Falling, Turning, Unknown}

\* The model's probability falls short only where it matters, on the rising bar.
AllSignals == {SignalOf(row, TRUE) : row \in Rows} \cup {SignalOf(Rising, FALSE)}
LongSignals == {SignalOf(Rising, TRUE), SignalOf(Unknown, TRUE)}

TwoPrices == {6, 12}
=============================================================================
