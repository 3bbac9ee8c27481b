------------------------------- MODULE Backtest -------------------------------
(***************************************************************************)
(* The backtest of internal/backtest/engine.go: one pass over the candles, *)
(* with the same trade gate as the paper engine.  A bar is four steps, the *)
(* blocks of the loop: the signal schedules an entry for the next bar, a   *)
(* scheduled entry is filled, the open position is checked for an exit,    *)
(* and the bar ends with the gate's OnBar.                                 *)
(*                                                                         *)
(* Abstractions, as in PaperEngine: prices are levels of a logarithmic     *)
(* scale, sizes are in sixteenths, money is an integer, and the fee of an  *)
(* exit is taken on the entry's size.  Prices are positive and finite, so  *)
(* the guards of closeTrade against others do not show.  A candle is       *)
(* chosen when it is looked at: its open when an entry is priced at it,    *)
(* the rest when an exit is checked.  The equity curve, which nothing in   *)
(* the run reads, is left out.                                             *)
(***************************************************************************)
EXTENDS GateOps, Metrics

CONSTANTS
    Bars,            \* candles after the warm-up
    HoldingBars, LongThreshold, ShortThreshold,
    Slip, StopDistance, FeeRate,
    Modes,           \* values of Config.Direction
    Prices,          \* levels a candle can have
    Signals          \* what the agents can score

ASSUME BacktestAssumption ==
    /\ Bars \in Nat /\ Bars >= 2
    /\ HoldingBars \in Nat \ {0}
    /\ LongThreshold \in Int /\ ShortThreshold \in Int /\ ShortThreshold < LongThreshold
    /\ Slip \in Nat /\ StopDistance \in Nat /\ FeeRate \in Int
    /\ Modes \subseteq {"both", "long", "short"}
    /\ Prices \subseteq Int
    /\ Signals \subseteq Signal

VARIABLES
    mode,                \* e.cfg.Direction
    bar, step,           \* the bar, and the block of the loop
    gate,
    pending, position,   \* sequences of at most one entry: nil is the empty one
    trades,
    cumulativePnL, totalFees, barsInMarket,
    lastClose            \* the close of the last candle a position was held over

books == <<trades, cumulativePnL, totalFees, barsInMarket>>
vars == <<mode, bar, step, gate, pending, position, books, lastClose>>

\* decideDir returns "" between the thresholds; "both" trades it all the same.
Directions == {"long", "short", ""}

Candles == {c \in [open : Prices, low : Prices, close : Prices, high : Prices] :
               c.low <= c.open /\ c.open <= c.high /\ c.low <= c.close /\ c.close <= c.high}

Entry == [dir : Directions, bar : 1..Bars, price : Int, stop : Int, size : 1..16]

Trade == [dir : Directions, bar : 1..Bars, exitBar : 1..Bars, holdingBars : 1..Bars,
          pnl : Int, returnPct : Int]

Nil == << >>

-----------------------------------------------------------------------------
decideDir(sig) ==
    IF sig.tech >= LongThreshold THEN "long"
    ELSE IF sig.tech <= ShortThreshold THEN "short"
    ELSE ""

\* x in the direction of the trade; without one the prices are those of a long.
Directed(dir, x) == IF dir = "short" THEN -x ELSE x

entryPriceForDir(ref, dir) == ref + Directed(dir, Slip)
exitPriceForDir(ref, dir) == ref - Directed(dir, Slip)
stopPriceForDir(price, dir) == price - Directed(dir, StopDistance)

\* closeTrade: a trade without a direction has fees and no gross PnL.
ReturnPct(p, price) ==
    (IF p.dir = "" THEN 0 ELSE Directed(p.dir, price - p.price)) - 2 * FeeRate
NetPnL(p, price) == ReturnPct(p, price) * p.size
Fee(p) == 2 * FeeRate * p.size

-----------------------------------------------------------------------------
(***************************************************************************)
(* The signal of a bar.                                                    *)
(***************************************************************************)
\* Mutant: the direction filter is asked before the gate is.
WantsBeforeGate(sig) == position = Nil /\ pending = Nil /\ bar < Bars
Wants(sig) ==
    /\ Evaluate(gate, sig).decision # "no_trade"
    /\ position = Nil /\ pending = Nil
    /\ bar < Bars

Allowed(sig) == mode = "both" \/ decideDir(sig) = mode

\* The filter's `continue` ends the bar: the gate hears of no bar.
Refuse(sig) ==
    /\ step = "signal"
    /\ Wants(sig) /\ ~Allowed(sig)
    /\ bar' = bar + 1
    /\ UNCHANGED <<mode, step, gate, pending, position, books, lastClose>>

\* The next candle's open prices the entry.  A decision that is not "no_trade" never
\* has size zero, so the fallback to a quarter does not show.
Scheduled(sig, open) ==
    LET dir   == decideDir(sig)
        price == entryPriceForDir(open, dir)
    IN  [dir |-> dir, bar |-> bar + 1, price |-> price, stop |-> stopPriceForDir(price, dir),
         size |-> Evaluate(gate, sig).size]

\* The gate counts the trade when it is scheduled.
\* Mutant: it is not told.
ScheduleUntold(sig, open) ==
    /\ step = "signal"
    /\ Wants(sig) /\ Allowed(sig)
    /\ pending' = <<Scheduled(sig, open)>>
    /\ step' = "fill"
    /\ UNCHANGED <<mode, bar, gate, position, books, lastClose>>
Schedule(sig, open) ==
    /\ step = "signal"
    /\ Wants(sig) /\ Allowed(sig)
    /\ pending' = <<Scheduled(sig, open)>>
    /\ gate' = OnTradePlaced(gate)
    /\ step' = "fill"
    /\ UNCHANGED <<mode, bar, position, books, lastClose>>

Pass(sig) ==
    /\ step = "signal"
    /\ ~Wants(sig)
    /\ step' = "fill"
    /\ UNCHANGED <<mode, bar, gate, pending, position, books, lastClose>>

(***************************************************************************)
(* The scheduled entry is filled at its bar, and can exit on the same bar. *)
(***************************************************************************)
Due == position = Nil /\ pending # Nil /\ pending[1].bar = bar

Fill ==
    /\ step = "fill"
    /\ IF Due THEN position' = pending /\ pending' = Nil
              ELSE UNCHANGED <<pending, position>>
    /\ step' = "exit"
    /\ UNCHANGED <<mode, bar, gate, books, lastClose>>

-----------------------------------------------------------------------------
(***************************************************************************)
(* The exit: the stop at its own price, the holding time at the close.     *)
(***************************************************************************)
\* Mutant: the entry's bar is not counted.
HeldLess(p) == bar - p.bar
Held(p) == bar - p.bar + 1

StopHit(p, c) ==
    \/ p.dir = "long" /\ c.low <= p.stop
    \/ p.dir = "short" /\ c.high >= p.stop

ExitDue(p, c) == StopHit(p, c) \/ Held(p) >= HoldingBars
ExitPrice(p, c) == IF StopHit(p, c) THEN p.stop ELSE exitPriceForDir(c.close, p.dir)

\* What a closed trade adds to the books.
Book(p, price) ==
    /\ trades' = Append(trades, [dir |-> p.dir, bar |-> p.bar, exitBar |-> bar,
                                 holdingBars |-> Held(p), pnl |-> NetPnL(p, price),
                                 returnPct |-> ReturnPct(p, price)])
    /\ cumulativePnL' = cumulativePnL + NetPnL(p, price)
    /\ totalFees' = totalFees + Fee(p)
Record(p, price) == Book(p, price) /\ barsInMarket' = barsInMarket + Held(p)

NoExit ==
    /\ step = "exit"
    /\ position = Nil
    /\ step' = "end"
    /\ UNCHANGED <<mode, bar, gate, pending, position, books, lastClose>>

Exit(p, c) ==
    /\ step = "exit"
    /\ p.bar = bar => p.price = entryPriceForDir(c.open, p.dir)
    /\ IF ExitDue(p, c)
         THEN /\ Record(p, ExitPrice(p, c))
              /\ gate' = OnTradeClosed(UpdatePnl(gate, NetPnL(p, ExitPrice(p, c))))
              /\ position' = Nil
         ELSE UNCHANGED <<gate, position, books>>
    /\ lastClose' = c.close
    /\ step' = "end"
    /\ UNCHANGED <<mode, bar, pending>>

EndBar ==
    /\ step = "end"
    /\ gate' = OnBar(gate)
    /\ IF bar = Bars THEN step' = "finish" /\ bar' = bar
                     ELSE step' = "signal" /\ bar' = bar + 1
    /\ UNCHANGED <<mode, pending, position, books, lastClose>>

\* What is still open is closed at the last close; the gate is not told.
Finish ==
    /\ step = "finish"
    /\ IF position = Nil THEN UNCHANGED books
       ELSE Record(position[1], exitPriceForDir(lastClose, position[1].dir))
    /\ position' = Nil
    /\ step' = "done"
    /\ UNCHANGED <<mode, bar, gate, pending, lastClose>>

-----------------------------------------------------------------------------
Init ==
    /\ mode \in Modes
    /\ bar = 1 /\ step = "signal"
    /\ gate = NewGate
    /\ pending = Nil /\ position = Nil /\ trades = Nil
    /\ cumulativePnL = 0 /\ totalFees = 0 /\ barsInMarket = 0
    /\ lastClose \in Prices

Next ==
    \/ \E sig \in Signals :
          \/ Refuse(sig)
          \/ Pass(sig)
          \/ \E open \in Prices : Schedule(sig, open)
    \/ Fill
    \/ NoExit
    \/ \E k \in DOMAIN position, c \in Candles : Exit(position[k], c)
    \/ EndBar
    \/ Finish

Spec == Init /\ [][Next]_vars

-----------------------------------------------------------------------------
(***************************************************************************)
(* Properties.                                                             *)
(***************************************************************************)

\* Every variable has its type.
TypeOK ==
    /\ mode \in Modes
    /\ bar \in 1..Bars /\ step \in {"signal", "fill", "exit", "end", "finish", "done"}
    /\ gate \in Gate
    /\ pending \in Seq(Entry) /\ position \in Seq(Entry) /\ trades \in Seq(Trade)
    /\ Len(pending) + Len(position) <= 1
    /\ cumulativePnL \in Int /\ totalFees \in Int /\ barsInMarket \in Nat
    /\ lastClose \in Prices

\* The abstract specification of the trades, on the bars of this run.
Promised ==
    INSTANCE SinglePosition
        WITH MaxHeld <- HoldingBars, Pause <- CooldownBars, now <- bar,
             open <- [k \in DOMAIN position |-> position[k].bar],
             log <- [k \in DOMAIN trades |-> [from |-> trades[k].bar, to |-> trades[k].exitBar]]

\* The run's trades are those of SinglePosition, step by step: one at a time, none
\* longer than HoldingBars, each at its distance from the one before, the entry
\* scheduled before a refused bar and the trade closed at the end included.
Implements == Promised!Spec

\* The exposure is the bars on which a trade was held, none counted twice and none
\* missed, and the bars of the trades add up to it.
ExposureExact(m) ==
    /\ m.exposure = Cardinality({b \in 1..Bars : \E k \in DOMAIN trades :
                                   trades[k].bar <= b /\ b <= trades[k].exitBar})
    /\ m.holdingBars = m.exposure

\* No fall of the equity between two trades is worse than the drawdown, from the highest
\* equity so far, or from any other one while the equity is not below zero; and one is as
\* bad (metrics.go follows a running peak; this compares every pair).
DrawdownExact(m) ==
    LET equity == [n \in 0..Len(trades) |->
                      Capital + Total([k \in 1..n |-> trades[k].pnl])]
        falls == {s \in (0..Len(trades)) \X (0..Len(trades)) :
                    /\ s[1] <= s[2]
                    /\ \/ \A n \in 0..s[2] : equity[n] <= equity[s[1]]
                       \/ 0 < equity[s[1]] /\ 0 <= equity[s[2]]}
    IN  /\ \A s \in falls : (equity[s[1]] - equity[s[2]]) * m.drawdown.from
                              <= m.drawdown.fall * equity[s[1]]
        /\ \E s \in falls : /\ equity[s[1]] = m.drawdown.from
                             /\ equity[s[1]] - equity[s[2]] = m.drawdown.fall

\* The days between the first entry and the last exit are the calendar days, or one
\* more when the span crosses midnight once more than it has full days: the days
\* traded exceed the calendar days by at most that one.
DaysCounted(m) ==
    LET span == DayOf(trades[Len(trades)].exitBar) - DayOf(trades[1].bar) + 1
    IN  /\ m.days.calendarDays \in {span - 1, span}
        /\ 1 <= m.days.tradingDays /\ m.days.tradingDays <= span

\* The summary of a finished run says what happened in it: the PnL is that of the
\* books, winners and losers make up the returns, and exposure, drawdown and days
\* are those of the trades.
MetricsExact ==
    LET m == CalculateMetrics(trades, Bars, barsInMarket, totalFees)
    IN  step = "done" =>
          IF trades = Nil THEN m.fees = 0 /\ barsInMarket = 0
          ELSE /\ m.netPnL = cumulativePnL
               /\ m.winning + m.losing = m.totalTrades
               /\ m.grossProfit - m.grossLoss = m.totalReturn
               /\ m.largestLoser <= 0 /\ 0 <= m.largestWinner
               /\ ExposureExact(m) /\ DrawdownExact(m) /\ DaysCounted(m)

\* The gate's count is the trades there are, closed, open or scheduled, and its PnL
\* that of the closed ones: nothing in the run undoes a scheduled entry.
GateKeepsCount ==
    /\ gate.tradeCount = Len(trades) + (IF step = "done" THEN 0 ELSE Len(position) + Len(pending))
    /\ step # "done" => gate.dayPnl = cumulativePnL

\* The gate cools for exactly CooldownBars bars of the candles: the bars the
\* direction filter ends before OnBar are none of them.
CooldownExact ==
    step = "signal" /\ trades # Nil =>
        (gate.state = "cooldown" <=> bar < trades[Len(trades)].exitBar + CooldownBars)

-----------------------------------------------------------------------------
(***************************************************************************)
(* What the program's own texts say and the backtest does not do.          *)
(***************************************************************************)
EntriesToday ==
    {k \in DOMAIN trades : DayOf(bar) \in {DayOf(trades[k].bar - 1), DayOf(trades[k].bar)}}

\* gate.go:118, "max trades per day reached": when the gate refuses for it, that
\* many trades were entered on the day of the bar.  The backtest never resets it.
LimitIsDaily ==
    step = "signal" /\ gate.tradeCount >= MaxTradesPerDay =>
        Cardinality(EntriesToday) + Len(position) + Len(pending) >= MaxTradesPerDay
=============================================================================
