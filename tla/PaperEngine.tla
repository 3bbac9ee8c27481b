----------------------------- MODULE PaperEngine -----------------------------
(***************************************************************************)
(* The paper-trading engine of internal/papertrade: one goroutine that on  *)
(* every poll looks at the newest candle, manages the open position or     *)
(* opens one through the trade gate, and keeps its books in PostgreSQL.    *)
(*                                                                         *)
(* A tick is cut at every store call, because the process can be killed    *)
(* between two of them (and on SIGTERM the cancelled context makes the     *)
(* remaining calls of the tick fail); the code between two calls runs in   *)
(* one goroutine and is one step.  Each call ends in an outcome: "ok",     *)
(* "failed" (not applied, an error returned) or "lost" (applied, but the   *)
(* reply was lost and an error returned).                                  *)
(*                                                                         *)
(* Abstractions.  Prices are levels of a logarithmic scale, so a relative  *)
(* move is a difference of levels, and slippage, stop distance and trail   *)
(* are numbers of levels.  Money is an integer.  A size is in sixteenths   *)
(* of the size CalcPositionSize computes (GateOps), of which only the sign *)
(* of the equity is kept.  A table row has the fields the program reads    *)
(* back; paper_trades is kept as the two aggregates the program queries    *)
(* and a count of rows per position; account snapshots, which nothing in   *)
(* the engine reads, are left out.  BarsHeld is only ever compared with    *)
(* HoldingBars, so it is counted up to HoldingBars.                        *)
(***************************************************************************)
EXTENDS GateOps, FiniteSets

CONSTANTS
    Capital,         \* EngineConfig.InitialCapital
    HoldingBars,     \* EngineConfig.HoldingBars
    MaxDailyLoss,    \* MaxDailyDrawdownPct of the capital
    MaxTotalLoss,    \* MaxTotalDrawdownPct of the capital
    LongThreshold, ShortThreshold,
    Slip,            \* EngineConfig.Slippage, in levels
    StopDistance,    \* ATR14 * ATRMultiplier, in levels
    TrailDistance,   \* ATRMultiplier * 1%, in levels
    FeeRate,         \* commission of one size unit
    Notional,        \* quote value of one size unit (Position.Quantity)
    Prices,          \* levels a candle can have
    Signals,         \* what the agents can score
    Outcomes,        \* how a store call can end
    TradeOutcomes,   \* how InsertTrade can end
    MaxDay, MaxEntries, MaxCrashes   \* bounds of the model

ASSUME PaperAssumption ==
    /\ Capital \in Int /\ MaxDailyLoss \in Int /\ MaxTotalLoss \in Int
    /\ HoldingBars \in Nat
    /\ LongThreshold \in Int /\ ShortThreshold \in Int /\ ShortThreshold < LongThreshold
    /\ Slip \in Nat /\ StopDistance \in Nat /\ TrailDistance \in Int
    /\ FeeRate \in Int /\ Notional \in Int
    /\ Prices \subseteq Int
    /\ Signals \subseteq Signal
    /\ Outcomes \subseteq {"ok", "failed", "lost"}
    /\ TradeOutcomes \subseteq {"ok", "failed", "lost"}
    /\ MaxDay \in Nat \ {0} /\ MaxEntries \in Nat /\ MaxCrashes \in Nat

VARIABLES
    \* the market-data tables, written by the collector
    day,          \* the calendar day of the newest candle
    \* the engine's memory
    pc,           \* where the tick stands ("down": the process is not running)
    seen,         \* lastBarTS against the newest candle: "zero", "older", "current"
    fresh,        \* isNewBar of the tick
    posId,        \* e.position.ID; 0 when e.position is nil
    position,     \* the other fields of e.position
    account,      \* balance, equity, day and total PnL, current day, engine state
    gate,         \* e.gate
    draft, net,   \* the position a tick is opening; the net PnL of one it is closing
    \* the paper_* tables
    rows, status, \* paper_positions: the rows, and their status by id
    lastId,       \* the last id paper_positions assigned
    orders, fills,
    recorded,     \* rows of paper_trades for each position
    ledger,       \* SUM(net_pnl), and SUM and COUNT by day of entry
    \* observation only
    crashes,      \* times the process died
    age,          \* candles since a position was opened, up to HoldingBars
    sinceClose    \* bars this process has seen since it last closed a position

memory == <<seen, fresh, posId, position, account, gate, draft, net>>
positionTable == <<rows, status, lastId>>
tables == <<positionTable, orders, fills, recorded, ledger>>
observed == <<crashes, age, sinceClose>>
vars == <<day, pc, memory, tables, observed>>

Days == 1..MaxDay
Ids == 1..MaxEntries
Directions == {"long", "short"}
Steps == {"down", "idle", "held", "reset", "decide", "order", "fill", "position",
          "trade", "close"}

Position == [dir : Directions, qty : 0..16, entry : Int, stop : Int,
             held : 0..HoldingBars, day : Days]

Nothing == [dir |-> "long", qty |-> 0, entry |-> 0, stop |-> 0, held |-> 0, day |-> 1]

Account == [balance : Int, equity : Int, totalPnL : Int, dayPnL : Int, dayTrades : Nat,
            currentDay : 0..MaxDay, state : {"running", "stopped"}]

\* New: what the engine holds before recoverState.
NewAccount == [balance |-> Capital, equity |-> Capital, totalPnL |-> 0, dayPnL |-> 0,
               dayTrades |-> 0, currentDay |-> 0, state |-> "running"]

Candles == {c \in [low : Prices, close : Prices, high : Prices] :
               c.low <= c.close /\ c.close <= c.high}

CountTo(bound, n) == IF n < bound THEN n + 1 ELSE bound

OpenIds == {i \in Ids : status[i] = "open"}

-----------------------------------------------------------------------------
(***************************************************************************)
(* Simulated execution: executor.go.                                       *)
(***************************************************************************)
\* x in the direction of the trade: a long gains when the price rises.
Directed(dir, x) == IF dir = "long" THEN x ELSE -x

\* Extra slippage when the size exceeds 1% of the candle's volume: the ratio is
\* above one then and capped at two.
Premiums == {0} \cup (Slip .. 2 * Slip)

EntryFill(ref, dir, premium) == ref + Directed(dir, Slip + premium)
ExitFill(ref, dir) == ref - Directed(dir, Slip)
Commission(qty) == qty * FeeRate
GrossPnL(p, price) == Directed(p.dir, price - p.entry) * p.qty

Direction(sig) ==
    IF sig.tech >= LongThreshold THEN "long"
    ELSE IF sig.tech <= ShortThreshold THEN "short"
    ELSE "no_trade"

(***************************************************************************)
(* checkExit: the stop against the candle's extremes, then the holding     *)
(* time, then an opposite signal.  The last two exit at the close with     *)
(* slippage already taken, and SimulateExit takes it again.                *)
(***************************************************************************)
StopHit(p, c) ==
    \/ p.dir = "long" /\ c.low <= p.stop
    \/ p.dir = "short" /\ c.high >= p.stop

\* Mutant: only a long ever reaches its holding time.
LongOverdue(p) == p.dir = "long" /\ p.held >= HoldingBars
Overdue(p) == p.held >= HoldingBars

Opposed(p, sig) == Direction(sig) \in Directions /\ Direction(sig) # p.dir

ExitDue(p, c, sig) == StopHit(p, c) \/ Overdue(p) \/ Opposed(p, sig)

ExitPrice(p, c) == IF StopHit(p, c) THEN p.stop ELSE ExitFill(c.close, p.dir)

NetPnL(p, price) == GrossPnL(p, ExitFill(price, p.dir)) - 2 * Commission(p.qty)

TrailedStop(p, c) ==
    IF p.dir = "long" /\ c.close - TrailDistance > p.stop
      THEN c.close - TrailDistance
      ELSE p.stop

-----------------------------------------------------------------------------
(***************************************************************************)
(* The market: a candle closes, on the same day or the next.  A tick reads *)
(* the newest candle once, when it begins, so an arrival in the middle of  *)
(* a tick is the same as one after it.                                     *)
(***************************************************************************)
NewCandle ==
    /\ pc \in {"idle", "down"}
    /\ day' \in {day, day + 1} \cap Days
    /\ seen' = IF seen = "current" THEN "older" ELSE seen
    /\ age' = [i \in Ids |-> IF status[i] = "open" THEN CountTo(HoldingBars, age[i])
                                                  ELSE age[i]]
    /\ UNCHANGED <<pc, fresh, posId, position, account, gate, draft, net, tables,
                   crashes, sinceClose>>

\* A new bar, unless the candle is the first this process sees.
\* Mutant: the candle a restart finds counts again.
AnyCandle == seen # "current"
NewBar == seen = "older"

\* processTick up to its first store call: only a candle not seen before.
BeginTick ==
    /\ pc = "idle"
    /\ seen # "current"
    /\ seen' = "current"
    /\ fresh' = NewBar
    /\ gate' = IF fresh' THEN OnBar(gate) ELSE gate
    /\ position' = IF fresh' /\ posId # 0
                     THEN [position EXCEPT !.held = CountTo(HoldingBars, @)]
                     ELSE position
    /\ pc' = IF fresh' /\ posId # 0 THEN "held"
             ELSE IF fresh' /\ day # account.currentDay THEN "reset"
             ELSE "decide"
    /\ sinceClose' = IF fresh' THEN CountTo(CooldownBars, sinceClose) ELSE sinceClose
    /\ UNCHANGED <<day, posId, account, draft, net, tables, crashes, age>>

\* UpdatePositionBarsHeld: an error is ignored.
PersistBarsHeld(outcome) ==
    /\ pc = "held"
    /\ rows' = IF outcome = "failed" THEN rows
               ELSE [rows EXCEPT ![posId].held = position.held]
    /\ pc' = "decide"
    /\ UNCHANGED <<day, memory, status, lastId, orders, fills, recorded, ledger, observed>>

\* resetDay: a failed query keeps the old day's PnL but sets its trades to zero.
StartDay(outcome) ==
    /\ pc = "reset"
    /\ account' = [account EXCEPT
                     !.dayPnL = IF outcome = "ok" THEN ledger.pnl[day] ELSE @,
                     !.dayTrades = IF outcome = "ok" THEN ledger.count[day] ELSE 0,
                     !.currentDay = day,
                     !.state = "running"]
    /\ gate' = ResetDay(gate, account'.dayPnL)
    /\ pc' = "decide"
    /\ UNCHANGED <<day, seen, fresh, posId, position, draft, net, tables, observed>>

\* No feature row within the lookback, or an error loading one: the tick ends
\* before the exit checks.
NoFeatures ==
    /\ pc = "decide"
    /\ pc' = "idle"
    /\ UNCHANGED <<day, memory, tables, observed>>

\* A position is held: checkExit finds a reason, and closePosition begins.
\* Mutant: the position is closed in the table before its trade is written.
CloseThenRecord(sig, c) ==
    /\ pc = "decide"
    /\ posId # 0
    /\ ExitDue(position, c, sig)
    /\ net' = NetPnL(position, ExitPrice(position, c))
    /\ status' = [status EXCEPT ![posId] = "closed"]
    /\ pc' = "trade"
    /\ UNCHANGED <<day, seen, fresh, posId, position, account, gate, draft, rows, lastId,
                   orders, fills, recorded, ledger, observed>>
DecideExit(sig, c) ==
    /\ pc = "decide"
    /\ posId # 0
    /\ ExitDue(position, c, sig)
    /\ net' = NetPnL(position, ExitPrice(position, c))
    /\ pc' = "trade"
    /\ UNCHANGED <<day, seen, fresh, posId, position, account, gate, draft, tables, observed>>

\* A position is held and stays: the stop trails a long, in memory only, and
\* updateUnrealized marks the equity.
DecideHold(sig, c) ==
    /\ pc = "decide"
    /\ posId # 0
    /\ ~ExitDue(position, c, sig)
    /\ position' = [position EXCEPT !.stop = TrailedStop(position, c)]
    /\ account' = [account EXCEPT !.equity = account.balance + GrossPnL(position, c.close)]
    /\ pc' = "idle"
    /\ UNCHANGED <<day, seen, fresh, posId, gate, draft, net, tables, observed>>

\* When an entry is made: a new bar, the engine not stopped, a direction, the
\* gate's decision, and a size CalcPositionSize finds positive.
EntryDue(sig) ==
    /\ fresh
    /\ account.state # "stopped"
    /\ Direction(sig) \in Directions
    /\ Evaluate(gate, sig).decision # "no_trade"
    /\ account.equity > 0

DecideFlat(sig) ==
    /\ pc = "decide"
    /\ posId = 0
    /\ ~EntryDue(sig)
    /\ pc' = "idle"
    /\ UNCHANGED <<day, memory, tables, observed>>

DecideEntry(sig, c, premium) ==
    /\ pc = "decide"
    /\ posId = 0
    /\ EntryDue(sig)
    /\ orders < MaxEntries                            \* a bound of the model
    /\ LET dir   == Direction(sig)
           price == EntryFill(c.close, dir, premium)
       IN  draft' = [dir |-> dir, qty |-> Evaluate(gate, sig).size, entry |-> price,
                     stop |-> price - Directed(dir, StopDistance), held |-> 0, day |-> day]
    /\ pc' = "order"
    /\ UNCHANGED <<day, seen, fresh, posId, position, account, gate, net, tables, observed>>

-----------------------------------------------------------------------------
(***************************************************************************)
(* openPosition: order, fill, position.  Only a failed fill is survived;   *)
(* an error on the order or the position ends the entry, and what was      *)
(* written stays.                                                          *)
(***************************************************************************)
\* Mutant: an order that is not confirmed does not end the entry.
UnconfirmedOrder(outcome) ==
    /\ pc = "order"
    /\ orders' = orders
    /\ pc' = "fill"
    /\ UNCHANGED <<day, memory, positionTable, fills, recorded, ledger, observed>>
InsertOrder(outcome) ==
    /\ pc = "order"
    /\ orders' = IF outcome = "failed" THEN orders ELSE orders + 1
    /\ pc' = IF outcome = "ok" THEN "fill" ELSE "idle"
    /\ draft' = IF outcome = "ok" THEN draft ELSE Nothing
    /\ UNCHANGED <<day, seen, fresh, posId, position, account, gate, net, positionTable,
                   fills, recorded, ledger, observed>>

InsertFill(outcome) ==
    /\ pc = "fill"
    /\ fills' = IF outcome = "failed" THEN fills ELSE fills + 1
    /\ pc' = "position"
    /\ UNCHANGED <<day, memory, positionTable, orders, recorded, ledger, observed>>

\* The row gets the next id.  Only after an "ok" does the engine hold it, pay
\* the entry fee and tell the gate.
InsertPosition(outcome) ==
    /\ pc = "position"
    /\ IF outcome = "failed" THEN UNCHANGED <<positionTable, age>>
       ELSE /\ lastId' = lastId + 1
            /\ rows' = [rows EXCEPT ![lastId'] = draft]
            /\ status' = [status EXCEPT ![lastId'] = "open"]
            /\ age' = [age EXCEPT ![lastId'] = 0]
    /\ IF outcome = "ok"
         THEN /\ posId' = lastId'
              /\ position' = draft
              /\ account' = [account EXCEPT !.balance = @ - Commission(draft.qty)]
              /\ gate' = OnTradePlaced(gate)
         ELSE UNCHANGED <<posId, position, account, gate>>
    /\ draft' = Nothing
    /\ pc' = "idle"
    /\ UNCHANGED <<day, seen, fresh, net, orders, fills, recorded, ledger, crashes, sinceClose>>

(***************************************************************************)
(* closePosition: the trade row, the position's status, then the books.    *)
(* Neither error is acted on.                                              *)
(***************************************************************************)
RecordTrade ==
    /\ recorded' = [recorded EXCEPT ![posId] = @ + 1]
    /\ ledger' = [total |-> ledger.total + net,
                  pnl |-> [ledger.pnl EXCEPT ![position.day] = @ + net],
                  count |-> [ledger.count EXCEPT ![position.day] = @ + 1]]

\* Mutant: the insert is retried until its reply arrives.
InsertTradeRetried(outcome) ==
    /\ pc = "trade"
    /\ IF outcome = "failed" THEN UNCHANGED <<recorded, ledger>> ELSE RecordTrade
    /\ pc' = IF outcome = "ok" THEN "close" ELSE "trade"
    /\ UNCHANGED <<day, memory, positionTable, orders, fills, observed>>
InsertTrade(outcome) ==
    /\ pc = "trade"
    /\ IF outcome = "failed" THEN UNCHANGED <<recorded, ledger>> ELSE RecordTrade
    /\ pc' = "close"
    /\ UNCHANGED <<day, memory, positionTable, orders, fills, observed>>

\* Whether the losses stop the engine.
\* Mutant: the day's loss before this trade is what is compared.
StaleLossLimit(dayPnL, totalPnL) ==
    account.dayPnL <= -MaxDailyLoss \/ totalPnL <= -MaxTotalLoss
LossLimit(dayPnL, totalPnL) == dayPnL <= -MaxDailyLoss \/ totalPnL <= -MaxTotalLoss

\* e.balance is credited with the quantity, which the entry never debited; the
\* entry fee, paid at entry, is in net again; the gate hears of the PnL first
\* and of the close second.
BookClose ==
    LET dayPnL   == account.dayPnL + net
        totalPnL == account.totalPnL + net
        balance  == account.balance + net + Notional * position.qty
    IN  /\ account' = [account EXCEPT
                         !.balance = balance, !.equity = balance,
                         !.totalPnL = totalPnL, !.dayPnL = dayPnL, !.dayTrades = @ + 1,
                         !.state = IF LossLimit(dayPnL, totalPnL) THEN "stopped" ELSE @]
        /\ gate' = OnTradeClosed(UpdatePnl(gate, net))

\* Mutant: e.position is not set to nil.
KeepPosition == UNCHANGED <<posId, position>>
ForgetPosition == posId' = 0 /\ position' = Nothing

ClosePosition(outcome) ==
    /\ pc = "close"
    /\ status' = IF outcome = "failed" THEN status
                 ELSE [status EXCEPT ![posId] = "closed"]
    /\ BookClose
    /\ ForgetPosition
    /\ net' = 0
    /\ sinceClose' = 0
    /\ pc' = "idle"
    /\ UNCHANGED <<day, seen, fresh, draft, rows, lastId, orders, fills, recorded, ledger,
                   crashes, age>>

-----------------------------------------------------------------------------
(***************************************************************************)
(* The process dies, at any point of a tick, and is started again.         *)
(***************************************************************************)
Boot ==
    /\ seen' = "zero"
    /\ fresh' = FALSE
    /\ posId' = 0
    /\ position' = Nothing
    /\ account' = NewAccount
    /\ gate' = NewGate
    /\ draft' = Nothing
    /\ net' = 0
    /\ sinceClose' = CooldownBars

Crash ==
    /\ pc # "down"
    /\ crashes < MaxCrashes                           \* a bound of the model
    /\ crashes' = crashes + 1
    /\ Boot
    /\ pc' = "down"
    /\ UNCHANGED <<day, tables, age>>

\* LoadOpenPosition: the open row with the greatest id, or nil.
\* Mutant: the position is not looked for.
NoPosition == 0
StoredPosition ==
    IF OpenIds = {} THEN 0 ELSE CHOOSE i \in OpenIds : \A j \in OpenIds : j <= i

\* The sums recoverState loads; an error loading one leaves its initial value.
\* Mutant: the balance is restored and the total is not.
BalanceOnly(loadTotal, loadDay, today) ==
    [NewAccount EXCEPT
       !.balance = Capital + ledger.total, !.equity = Capital + ledger.total,
       !.dayPnL = ledger.pnl[today], !.dayTrades = ledger.count[today],
       !.currentDay = today]
StoredAccount(loadTotal, loadDay, today) ==
    LET total == IF loadTotal = "ok" THEN ledger.total ELSE 0
    IN  [NewAccount EXCEPT
           !.balance = Capital + total, !.equity = Capital + total, !.totalPnL = total,
           !.dayPnL = IF loadDay = "ok" THEN ledger.pnl[today] ELSE 0,
           !.dayTrades = IF loadDay = "ok" THEN ledger.count[today] ELSE 0,
           !.currentDay = today]

\* recoverState.  An error loading the position leaves everything as New made it,
\* and the engine runs all the same.  The current day is the wall clock's, which
\* may be ahead of the newest candle's.  Neither a stop nor the gate is restored.
Recover(loadPosition, loadTotal, loadDay) ==
    /\ pc = "down"
    /\ pc' = "idle"
    /\ IF loadPosition # "ok" THEN UNCHANGED <<posId, position, account>>
       ELSE /\ posId' = StoredPosition
            /\ position' = IF StoredPosition = 0 THEN Nothing ELSE rows[StoredPosition]
            /\ \E today \in {day, day + 1} \cap Days :
                 account' = StoredAccount(loadTotal, loadDay, today)
    /\ UNCHANGED <<day, seen, fresh, gate, draft, net, tables, observed>>

-----------------------------------------------------------------------------
Init ==
    /\ day = 1
    /\ pc = "down"
    /\ seen = "zero" /\ fresh = FALSE
    /\ posId = 0 /\ position = Nothing /\ draft = Nothing /\ net = 0
    /\ account = NewAccount
    /\ gate = NewGate
    /\ rows = [i \in Ids |-> Nothing]
    /\ status = [i \in Ids |-> "absent"]
    /\ lastId = 0 /\ orders = 0 /\ fills = 0
    /\ recorded = [i \in Ids |-> 0]
    /\ ledger = [total |-> 0, pnl |-> [d \in Days |-> 0], count |-> [d \in Days |-> 0]]
    /\ crashes = 0
    /\ age = [i \in Ids |-> 0]
    /\ sinceClose = CooldownBars

\* What a tick decides once it has a candle and its features.
Decide ==
    \E sig \in Signals :
        \/ DecideFlat(sig)
        \/ \E c \in Candles :
              \/ DecideExit(sig, c)
              \/ DecideHold(sig, c)
              \/ \E premium \in Premiums : DecideEntry(sig, c, premium)

StoreCall ==
    \/ \E outcome \in Outcomes :
          \/ PersistBarsHeld(outcome)
          \/ StartDay(outcome)
          \/ InsertOrder(outcome)
          \/ InsertFill(outcome)
          \/ InsertPosition(outcome)
          \/ ClosePosition(outcome)
    \/ \E outcome \in TradeOutcomes : InsertTrade(outcome)

Start == \E p, t, d \in Outcomes : Recover(p, t, d)

Next ==
    \/ NewCandle
    \/ BeginTick
    \/ NoFeatures
    \/ Decide
    \/ StoreCall
    \/ Crash
    \/ Start

Spec == Init /\ [][Next]_vars

(***************************************************************************)
(* Candles keep closing, the process is restarted, a tick runs to its end, *)
(* and features are not missing at every tick for ever (they are computed  *)
(* by a periodic job and looked up hours back).                            *)
(***************************************************************************)
Fairness ==
    /\ WF_vars(NewCandle)
    /\ WF_vars(Start)
    /\ WF_vars(BeginTick)
    /\ WF_vars(StoreCall)
    /\ SF_vars(Decide)

FairSpec == Spec /\ Fairness

-----------------------------------------------------------------------------
(***************************************************************************)
(* Properties.                                                             *)
(***************************************************************************)

\* Every variable has its type.
TypeOK ==
    /\ day \in Days
    /\ pc \in Steps
    /\ seen \in {"zero", "older", "current"} /\ fresh \in BOOLEAN
    /\ posId \in 0..MaxEntries /\ position \in Position /\ draft \in Position /\ net \in Int
    /\ account \in Account
    /\ gate \in Gate
    /\ rows \in [Ids -> Position]
    /\ status \in [Ids -> {"absent", "open", "closed"}]
    /\ lastId \in 0..MaxEntries /\ orders \in 0..MaxEntries /\ fills \in Nat
    /\ recorded \in [Ids -> Nat]
    /\ ledger \in [total : Int, pnl : [Days -> Int], count : [Days -> Nat]]
    /\ crashes \in 0..MaxCrashes
    /\ age \in [Ids -> 0..HoldingBars]
    /\ sinceClose \in 0..CooldownBars

\* paper_positions never holds two open positions of the symbol and timeframe.
OneOpenPosition == \A i, j \in Ids : status[i] = "open" /\ status[j] = "open" => i = j

\* The position in memory is an open row of the table: same trade, a stop no looser
\* than the stored one, and no fewer bars held.
HeldMatchesStore ==
    posId # 0 =>
        /\ status[posId] = "open"
        /\ \A field \in {"dir", "qty", "entry", "day"} : rows[posId][field] = position[field]
        /\ Directed(position.dir, position.stop - rows[posId].stop) >= 0
        /\ rows[posId].held <= position.held

\* A position is written to paper_trades at most once in each life of the process:
\* only a crash between the trade row and the status update can repeat it.
TradedOncePerLife == \A i \in Ids : recorded[i] <= crashes + 1

\* The max-hold exit never comes early: BarsHeld counts no bar twice, whatever
\* restarts and failed updates happen.
BarsHeldNotAhead == posId # 0 => position.held <= age[posId]

\* A position is opened only when CooldownBars bars have passed since this process
\* last closed one, across day changes and drawdown stops.
CooldownRespected == [][lastId' # lastId => sinceClose >= CooldownBars]_vars

-----------------------------------------------------------------------------

\* With a store that does not fail: a closed position has its trade row.
ClosedIsRecorded == \A i \in Ids : status[i] = "closed" => recorded[i] >= 1

\* With a store that does not fail: between ticks the PnL in memory is the sum of
\* the trade rows, also after restarts and trades recorded twice.
TotalAgrees == pc = "idle" => account.totalPnL = ledger.total

\* With a store that does not fail: an order without a position is the work of a
\* crash, and each crash leaves at most one.
OrphansBounded == pc \in {"idle", "down"} => orders - lastId \in 0..crashes

EntriesOn(d) == Cardinality({i \in Ids : status[i] # "absent" /\ rows[i].day = d})

\* Each life of the process opens at most MaxTradesPerDay positions on one
\* calendar day of candles.
DailyEntryBudget == \A d \in Days : EntriesOn(d) <= MaxTradesPerDay * (crashes + 1)

\* As long as the process lives, a day's loss that reaches the limit has stopped
\* the engine, and stays so until the first bar of another day.
LossLimitStops ==
    crashes = 0 /\ pc = "idle" /\ account.dayPnL <= -MaxDailyLoss => account.state = "stopped"

\* A position opened is closed at last: the max-hold exit survives restarts.
OpenPositionCloses == \A i \in Ids : status[i] = "open" ~> status[i] = "closed"

-----------------------------------------------------------------------------
(***************************************************************************)
(* What the documents say and the engine does not do.                      *)
(***************************************************************************)

\* assignment-11.md:2881-2882: a day's loss beyond the limit stops the gate, and
\* only ResetDay releases it.  OnTradeClosed, called right after, puts it in cooldown.
DrawdownHoldsGate == pc = "idle" /\ gate.dayPnl <= -GateLossLimit => gate.state = "stopped"
=============================================================================
