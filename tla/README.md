# Verification of the trading system

TLA+ models of the system in `src/`, checked with TLC on small instances and, where marked, proved with TLAPS for every
value of the constants. The inventory lists every part of the system, the tables after it say which module models which part,
what each run shows and what is proved.

## The system

A Go collector (`cmd/trader`) keeps market data in PostgreSQL; jobs compute features and labels from it
(`cmd/feature-backfill`) and study them (`cmd/edge-study`); a paper trader (`cmd/paper-trader`) polls the tables and
trades on paper; a backtest (`cmd/backtest`) replays them; a FastAPI service and a React page show the tables. The
processes share nothing but the database, and each runs its migrations when it starts.

| Component (source) | State it keeps | Operations | What is hard | What makes it correct |
|---|---|---|---|---|
| Trade gate (`agent/tradegate/gate.go`) | state idle / cooldown / stopped, cooldown counter, trade count, day PnL | Evaluate, OnTradePlaced, OnTradeClosed, OnBar, UpdatePnl, ResetDay | three writers of one state field | cooldown respected, limits in force |
| Paper engine (`papertrade`) | position, balance, equity, day and total PnL, last bar; five `paper_*` tables | processTick, openPosition, closePosition, resetDay, recoverState | errors ignored between two writes, crash in a tick, restart | memory agrees with the tables, one open position, no trade lost or repeated, positions close |
| Backtest (`backtest/engine.go`, `metrics.go`) | bar, pending entry, position, trades, sums | the blocks of the loop in Run, CalculateMetrics | entry a bar later, early `continue`, close outside the loop | trades keep length and distance, books and metrics agree with trades |
| Score agents (`agent/technical`, `orderflow`, `regime`) | none | Calculate | missing values, bonuses that add up | scores in range, no trade on missing inputs |
| Historical backfill (`collector/poll/backfill.go`) | paging cursor | page backwards, retry, store | page boundaries, an error in the middle | the window is complete |
| Gap recovery (`collector/recovery`) | none beside the table | detect, fetch, store | concurrent with the stream, stale reads | the table keeps up |
| Stream manager (`collector/stream/manager.go`, `conn.go`) | the socket, the goroutine's place | connect, subscribe, read, retry, stop | Stop at any point, two dials in a row | reads what it subscribed, recovers, ends |
| Stream handlers, mappers, validators (`stream/handlers.go`) | counters | one insert or several for a message | duplicates after reconnects, partial tickers | a row for what was said, read by the right bar |
| Collector service (`collector/service.go`) | running | Start, Stop, heartbeat | order of start, shutdown | nothing starts twice |
| REST client, rate limiter (`collector/bybit`) | tokens, last refill | Wait | fractions of tokens, concurrent callers | never above the rate |
| Feature computation (`feature`) | none | recurrences over candles | warm-up, windows | a row depends on past candles only |
| Order-flow join (`db/feature_store.go`) | none | merge three series into candle times, sum a fourth | equal times, missing series, chunk ends | a row reads its own interval |
| Labels (`label`) | none | returns over horizons | the tail of the data, doubled candles | a label of a bar ahead |
| Feature backfill (`cmd/feature-backfill`, `db/jobs.go`) | job row, chunk position | load, compute, upsert, checkpoint, label | chunk overlap, kill, two at a time | every bar written, job row true |
| Migrations (`db/migrate.go`) | `schema_migrations` | check, execute, record | kill between two statements, two processes, two builds | every file a command needs is recorded as its own, and so are its tables unless another build made them unrecorded |
| Edge study (`edge`, `cmd/edge-study`) | run row, results | create, analyse, rank, save, finish | failure in the middle, tables written meanwhile | a completed run has all its results |
| Data quality (`db/quality.go`, `feature/validate.go`) | none | queries, one filter on feature rows | none | the filter accepts complete chunks |
| Dashboard push (`api/routers/ws.py`, `useWebSocket.ts`) | client set; one socket in the page | connect, broadcast, reconnect | set changed during an await, stale `onclose` | the page hears again, sockets do not multiply |
| Dashboard and model API (`api`) | a model cache | queries, predictions | none | - |
| Model training (`scripts/xgb_meta`), web pages (`web/src`) | files | batch scripts, rendering | none | - |

How they interact: the collector's stream, backfill and recovery all insert into `candles` (`ON CONFLICT DO NOTHING`).
The feature job reads candles and order flow and upserts feature rows and labels; the edge study reads those two tables query
by query. The paper trader reads the newest candle, the newest feature row and, over HTTP, the model's probability; it
alone writes the `paper_*` tables. The backtest runs the same gate on the same scores. The dashboard only reads, and each
request to it can start another feature backfill as a child process. `BatchCommands` composes the commands that share tables;
the engines compose the gate and the scores; `SinglePosition` is the abstract trader the backtest implements.

## Modules

| Module | Models | Used by |
|---|---|---|
| `GateOps` | every method of `Gate`, as an operator from the gate before to the gate after | the two engines |
| `Scoring` | the three score agents, from a feature row to a signal | `MCBacktest`, `BacktestProofs` |
| `PaperEngine`, `MCPaperEngine` | `PaperEngine` and its store, crash and restart | `paper_*`, `gate_stop` |
| `Backtest`, `Metrics`, `MCBacktest` | `Engine.Run` and `CalculateMetrics` | `backtest*` |
| `SinglePosition` | what a backtest promises of its trades | refined by `Backtest` |
| `CandleTable`, `MCCandleTable` | the candles of one symbol and timeframe and their three writers | `candles*` |
| `StreamManager`, `MCStreamManager` | `Manager.run` with `waitRetry`, `readLoop`, `Stop` and `WSConn` | `stream` |
| `Features` | which bars each column of a feature row and each label is computed from | `FeatureJob`, `OrderFlow` |
| `FeatureJob` | `processPair`, one process of the feature backfill | `BatchCommands` |
| `Migrations` | `RunMigrations`, several processes of several builds | `BatchCommands` |
| `EdgeStudy` | `cmd/edge-study` and its run row | `BatchCommands` |
| `BatchCommands`, `MCBatchCommands` | the three above on one database, beside the collector | `batch` |
| `OrderFlow`, `MCOrderFlow` | ticker, liquidation and ratio writers, `LoadOrderFlow`, the upsert of its columns | `orderflow` |
| `DashboardPush`, `MCDashboardPush` | `ConnectionManager`, the broadcast loop, the page's hook | `dashboard` |
| `*Proofs` | proofs about the module they are named after | TLAPS |

**GateOps.** Every method of `Gate` holds its mutex from beginning to end, so a call is one operator application and
the engines compose them in the order of their calls: `OnTradeClosed(UpdatePnl(gate, net))`. Scores are whole points and
confidence hundredths of a point; sizes are sixteenths, which makes 0.25, 0.75 and their products exact.

**Scoring.** A feature row is a record of integers in units fine enough for the thresholds of the code; NaN is a value of its
own, and every comparison with it is false, as in Go. The one transcendental function, the logarithm of the volume ratio, is
an input. Scores are hundredths of a point until the gate rounds them.

**PaperEngine.** The engine is one goroutine. `pc` is the place of a tick, cut at each store call: `BeginTick` is
`processTick` up to its first call, `PersistBarsHeld` and `StartDay` are the two calls a new bar can make, the four
`Decide...` actions are the decision after the features are loaded, `InsertOrder`, `InsertFill`, `InsertPosition` are
`openPosition`, `InsertTrade` and `ClosePosition` are `closePosition`, `Recover` is `recoverState`. A call ends "ok",
"failed" (not applied) or "lost" (applied, error returned). `Crash` can come between any two steps and loses the memory
variables. `rows`, `status`, `recorded` and `ledger` are what the program reads back from `paper_positions` and
`paper_trades`. `age`, `sinceClose` and `crashes` only observe. `seen` tells how `lastBarTS` stands to the newest
candle. A tick reads the newest candle once, so a candle that closes in the middle of a tick is one that closes
after it. Account snapshots are written and never read by the engine, and are left out.

**Backtest.** A bar is the steps "signal", "fill", "exit", "end" of the loop's blocks; `Refuse` is the direction
filter's `continue`; `Finish` is the close after the loop. Candles are chosen when they are looked at. The equity
curve, which nothing reads, is left out. `Metrics` keeps the numerators of what `CalculateMetrics` divides, and the whole
drawdown and calendar computations. The refinement maps an open position to the bar it began at and the trades to the
bars they began and ended at.

**CandleTable.** Bars are numbers and `now` is the bar still forming. A stored candle is "partial" or "final". `from`
and `to` are the range left to fetch, `page` what was fetched and not stored yet: backfill and filler run one after the
other (`Service.Start` waits for the backfill), so they share these, while the stream's `HandleKline` runs beside them.
What the exchange answers (the newest bars of the range, at most a page) is external; the code relies on it where the
backfill pages backwards and where `LatestCandleTime` takes the first element.

**StreamManager.** `pc` is the place of the goroutine; the two connects of a retry ("dial" and "redial") and the
assignment after each are steps of their own. `Cancel` and `CloseStopped` are the two halves of `Stop`; the command
cancels the context first as well. `Finalize` is the runtime closing a socket nobody refers to.

**Features.** A number is the set of the bars it was computed from, NaN is a value of its own, and a column is a recursive function
over the index with the loop bounds of the code. So a row shows what it read: the warm-up, look-ahead, and the label's bar are
facts about these sets, which the floating-point values do not change.

**FeatureJob.** `place` is the next statement of `processPair`. Load and compute are one step (computing is local); each
write is one, ended "ok", "failed" or "lost"; `Kill` can come between any two. `known`, `upserted` and `blame` observe:
the bars stored when the job was created, who wrote labels since it began to load, and which failure excuses the job row.

**Migrations.** Check, execute and record are the three statements of the loop; the content of a file stands for its checksum.
Two builds that differ in a file take part, so a process may find a file recorded that is not its own. `schema` is the content
that made a file's tables: the first one executed, because every statement is `IF NOT EXISTS` and what another build executes
over existing tables changes nothing.

**EdgeStudy.** One symbol and timeframe. A result is its metric, its cell and the number of rows it was computed from;
`Analyse` is one horizon's queries, any of which can fail and is logged, `Ranking` the scores, `SaveResult` one insert. A query
joins the rows without a NULL in the columns it reads: a mandatory column, and the ATR and the ADX that tell the regimes,
are NULL where the stored row has NaN (`features[b].nan`); which rows lack a column of the order flow is chosen anew for each
feature and horizon, so nothing is claimed of how many rows such a column has.

**BatchCommands.** The processes share the tables by sharing the variables of the three instances; `faults` bounds the
statements that fail and the processes killed, over all of them.

**OrderFlow.** Time goes in ticks, several to a bar. A record is its time, a liquidation row its time and the number of
the delivery. `handleTicker` stores a rate of zero for a message without one and refuses an open interest of zero, as the two
validators do. `Load` joins a chunk as the loops and queries do, `Upsert` stores it, later messages and a chunk
computed again change what a bar's row says. A poll stores the ratios of the periods so far, or of
the newest few; `RatioPeriod` is their length, which the run takes as one tick, two to a bar. The candles of a chunk are closed and without a hole between them: what a bar after a hole
(it reads the missing bars' interval as well) and a forming bar of a REST page read is not modelled.

**DashboardPush.** The server's steps are cut at its awaits: `Visit` takes the next client from the set's iterator, `Sent` ends
the await, `Changed` is the `RuntimeError` of a set whose size changed. On the page `Mount`, `Timeout` and the
socket's events are tasks; `Onclose` clears the module's variable whichever socket it holds, and an error closes whichever it
holds (`Errored`). A socket closed before it opened ("failing") fires an error of its own before its close.

## Runs

Each property is defined, with a comment, at the end of its module.

| Run | Shows |
|---|---|
| `paper_crash` | with a store that works and a crash anywhere: one open position, no closed position without its trade row, total PnL equal to the table's, at most one orphaned order for each crash, the day's entry budget per life of the process, the loss limit |
| `paper_faults` | with every call failing or losing its reply and a crash: memory agrees with the table, a trade is written once per life, bars held never run ahead, the cooldown is respected |
| `paper_live` | an open position is closed at last, with a restart and trade rows that cannot be written |
| `backtest` | on scored bars: the trades are those of `SinglePosition`, the metrics say what happened, gate and books agree, refused bars do not stretch a cooldown |
| `candles` | complete windows, final candles stay, the table keeps up with the exchange |
| `stream` | the socket read is the one subscribed on, leaks are bounded, the stream recovers, Stop ends it |
| `batch` | commands run on recorded files of their own and on their own tables, or on those another build made and did not record; feature rows are warm, complete and see nothing ahead; labels look ahead and are erased only by overlapping jobs; job and run rows tell how they ended, and a completed run has every result it computed |
| `orderflow` | a row reads the order flow of its own interval and counts its own liquidations; only a chunk's last bar misses some |
| `dashboard` | a page has one socket, or one more for each that was made while the last was closing, and hears broadcasts again after any breaks |

Three runs violate what a text of the repository says; the findings in `PROJECT.json` quote it.

| Run | Violates | What happens |
|---|---|---|
| `gate_stop` | `DrawdownHoldsGate` | the close that stops the gate also puts it in cooldown, which ends by itself (`gate.go:153`) |
| `backtest_days` | `LimitIsDaily` | the backtest never resets the day: the daily limit is one for the whole run |
| `candles_partial` | `ClosedBarsFinal` | the forming candle of a REST page is stored and never replaced |

Behaviour the models show and no text of the repository speaks against, which has no run of its own:

- A failed status update of a closed position is ignored (`engine.go:340`), the row stays open, and the next entry makes two:
  `OneOpenPosition` holds only with the store of `paper_crash`.
- The balance pays the entry fee twice and is credited a quantity it never paid (`engine.go:342`); a restart sets it to the
  capital and the total PnL again (`engine.go:420`).
- A gap longer than a page is filled with its newest page and reported filled (`filler.go:67`); this is why `WindowStored`
  speaks of gap fills within a page.
- A bar the stream missed before a stored one is not a gap for the detector (`detector.go:66`); `KeepsUp` is about
  the newest bar for this reason.
- A backfill that runs beside another can set a label back to "not known yet" (`LabelsErasedByOverlap` says when).
- The maximum drawdown is measured from the running peak (`metrics.go:165`). It is the worst relative fall as long as the equity is
  not below zero; after that a lower earlier equity has a greater one (`DrawdownExact` says which falls are compared).
- A migration executed and not recorded (a kill, or another process that records first) is executed again by the next process.
  As another build it changes nothing of the tables that exist and then records its own checksum (`migrate.go:73`), so every command
  of that build goes on over the other build's tables. `SchemaReady` says that this is the only way to such tables.
- In the study a feature of the order flow has the rows in which it is not NULL (`edge_store.go:30`), so its correlation can be
  of fewer rows than one asked for before; `RowsTellEnd` compares the mandatory columns only.

## Bounds

A bound is a constant named in its module, and each is large enough for the cases the properties are about.

| Runs | Bounds | Why they are enough |
|---|---|---|
| `paper_*`, `gate_stop` | 2 entries, 2 days, 1 crash, cooldown and holding time 2, a limit of 1 trade a day | a second entry comes after a close, a restart or a day change; the counters pass both ends; a trade can be held over midnight |
| | two price levels with the stop between them, or one level where prices do not matter | a stop is hit or not, a trade wins or loses, a loss limit is reached by one trade or by two |
| | four signals: a long of full size, a reduced short, none, one the model rejects | every branch of `Evaluate`, an opposite signal in both directions |
| `backtest*` | 13 (8) bars, 4 to a day, holding 3, cooldown 2, the three direction filters, signals from four scored feature rows | three trades, two day ends, a trade open at the end; with the capital of `backtest`, losses that take the equity below zero |
| `candles*` | 6 bars, a history of 5, pages of 2, 1 crash | a window of several pages, a last page that is not full, a gap on both sides of a page |
| `stream` | 4 failures, 6 sockets | both dials of a retry fail twice; sockets suffice for every dial that can succeed |
| `batch` | 5 bars, chunks of 4 with a warm-up of 2, histories of 3 bars and of 4 with a hole; 2 processes begun of two jobs and a study; one failure or kill; two builds; periods that fit the warm-up exactly; a study of an order-flow and a mandatory column and two horizons | a chunk that is not full, two chunks and a remainder, a chunk boundary in and after the hole, every pair of commands, a fault at every statement, correlations that grow while bars are written, and later ones of fewer rows |
| `orderflow` | bars of 2 ticks, 5 bars, chunks of 3 overlapping by 1, 2 messages, a delay of 1 tick, a ratio of every tick | messages at equal times and between bars, a late message after its bar was computed |
| `dashboard` | 3 sockets, whose names are used again, and 3 breaks | a break while the socket before is still closing; an error that closes a socket still connecting, whose own error comes after the next was made |

A history of no more than the warm-up, of which a job writes nothing but labels, is left to the proofs.

In `batch` a call that is applied and answered with an error ("lost") is left to the proofs, which have it for every statement
of the migrations and of the rows of jobs and runs. `batch` numbers the longest period as 2 where the code has 200 and a
warm-up of 200: what matters is that the longest period is within the warm-up and that a period one longer would not be.

`CHECK_DEADLOCK FALSE` is set where the system may stop: a backtest ends at its last candle, a stopped stream stays stopped,
batch processes end, the bounds of messages and of time are reached (`orderflow`), and a page that is never opened does
nothing (`dashboard`). The paper engine and the candle table are checked for deadlock.

## Fairness

| Run | Assumed | Why the code justifies it |
|---|---|---|
| `paper_live` | weak: candles close, a dead process is started, a tick begins and its store calls return; strong: a tick decides, rather than finding no features at every tick | the loop is a ticker, a process that dies is started again by whoever runs it, a failed call is an outcome of its own, features are looked up hours back |
| `candles` | weak: restart, the scheduler's tick, the calls of a started fetch return; strong: a call does not fail every time | the scheduler is a ticker and tries again at each tick, the backfill retries a page |
| `stream` | weak: the goroutine runs, a started `Stop` closes the socket; failures are bounded | `readLoop` has a read deadline, so no read blocks for ever |
| `dashboard` | weak: time-outs fire, a closing handshake ends, the server accepts and notices a socket that is gone, a round goes on; sockets made while the error of another is still to come are bounded like breaks, and then a time-out waits for it | browser and event loop: an error is queued at once, a time-out is a second or more; a failed send disconnects the client |

Nothing is assumed of opening the page, of connections breaking, of crashes, of Stop or of what is decided.

## Refinement

`SinglePosition` promises of a trader: one trade at a time, a trade ends at most `HoldingBars` bars after it began, more than `CooldownBars`
bars pass between the end of a trade and the next, and a trade that has ended stays as it was. `Backtest` implements it (`Implements`): the
mapping takes the open position to the bar it began at, and the trades to the bars of their beginning and end. The pending entry,
the gate, prices and the direction filter have no image, so signals and refused bars are stutters. The run `backtest` checks
it and `BacktestImplements` proves it.

## Proofs

| Module | Theorem | Of |
|---|---|---|
| `PaperEngineProofs` | `TypeCorrect`, `MemoryMatchesTable`, `TradesNotRepeated`, `HoldingTimeNotAhead`, `CooldownKept` | `TypeOK`, `HeldMatchesStore`, `TradedOncePerLife`, `BarsHeldNotAhead`, `CooldownRespected`, with every call failing, losing its reply, and crashes |
| | `OnePositionOpen`, `ClosedPositionsRecorded`, `TotalsAgree`, `OrphansCounted`, `EntriesWithinBudget`, `LossesStop` | `OneOpenPosition`, `ClosedIsRecorded`, `TotalAgrees`, `OrphansBounded`, `DailyEntryBudget`, `LossLimitStops`, with a store that works and crashes |
| `BacktestProofs` | `BacktestTypes`, `GateCountKept`, `PauseExact`, `BacktestImplements`, `SummaryExact` | `TypeOK`, `GateKeepsCount`, `CooldownExact`, `Implements`, `MetricsExact` |
| | `SignalIsSignal`, `UnknownNeverTrades`, `ShortsNeverFull`, `NoFlowNeverFull` | the scores of every feature row, with the gate's decision |
| `BatchCommandsProofs` | `BatchTypes`, `SchemaAlwaysReady`, `RowsAlwaysTellEnd` | `TypeOK`, `SchemaReady`, `RowsTellEnd` |
| | `EveryBarAlwaysWritten`, `RowsAlwaysWarm`, `LabelsAlwaysLookAhead`, `LabelsOnlyErasedByOverlap` | `EveryBarWritten`, `RowsWarm`, `LabelsLookAhead`, `LabelsErasedByOverlap`, with every statement failing or losing its reply, kills, and candles stored meanwhile |
| `OrderFlowProofs` | `OrderFlowTypes`, `OwnIntervalRead`, `OwnLiquidationsCounted` | `TypeOK`, `ReadsOwnInterval`, `LiquidationsCounted` |
| `StreamManagerProofs` | `StreamTypes`, `ReadsWhatItAsked`, `LeaksCounted` | `TypeOK`, `ReadsSubscribed`, `LeaksBounded` |
| `DashboardPushProofs` | `PushTypes`, `PageSocketsBounded` | `TypeOK`, `SocketsBounded` |
| `CandleTableProofs` | `CandleTypes`, `WindowsComplete`, `FinalCandlesStay` | `TypeOK`, `WindowStored`, `FinalStays` |
| `GateProofs` | lemmas | what each method of the gate returns |

So every invariant a passing run checks is a theorem, and so are the three action properties and the refinement.

They rest on the ASSUMEs of the modules and nothing else, but for two hypotheses that are stated where they are used:
`StoreWorks` (no outcome but "ok"), and `MaxDailyLoss > 0` for `LossesStop`. The ASSUMEs are types and signs of the constants,
and for the feature job `WarmupCovers`: there are three averages, three returns and two volatility windows, and the bars each
column needs before its first value are at most the warm-up. In the code both are constants, a warm-up of 200 and a longest
period of 200, so the assumption is tight; the run `batch` takes periods that fit exactly. The longest label horizon is within
the warm-up as well. `OrderFlow` assumes that the first return period (there is one) and the window of the open interest's
z-score are within the warm-up.

- **PaperEngine.** `HeldMatchesStore`, `TradedOncePerLife`, `BarsHeldNotAhead` and the cooldown are not inductive: they say
  nothing of a tick in the middle. `ControlInv` ties the place of the tick to whether a position is held; `IdInv` keeps the ids
  beyond the last one unused, so a new position does not meet an old trade; `RecordedInv` counts one trade less while a position is
  held than once it is recorded; `BarsInv` adds the bar a pending candle still has to count, and the stored rows a
  restart takes up; `CooldownInv` says the gate's counter and the bars since the close add up, and that nothing but a
  new day can cut a cooldown short.
- **PaperEngine with a store that works.** `AloneInv`: while the process runs no row is open but its own, so the one a crash
  leaves is the one `LoadOpenPosition` finds. `BooksInv`: the total in memory lags the table's by the trade written and not
  booked. `DayInv`: an entry is made on the day the account is at. `BudgetInv`: on that day the entries are at most those of
  earlier lives and the gate's count; on any day not begun they are those of earlier lives. `FirstLifeInv`: no trade belongs
  to a day the process has not begun, so `resetDay` begins a day without a loss and cannot undo a stop that is due.
- **Backtest.** `PendingInv` and `PositionInv` place a pending entry and an open position among the bars and say that only one
  of them exists; `PauseInv` relates the gate's counter to the last close, an early `continue` included, which is why a
  refused bar does not stretch a cooldown. The refinement follows step by step.
- **The metrics.** `BooksInv` says that the books the loop keeps are sums over the trades made so far, that the trades are in
  order and disjoint, and that the bars in the market are as many as the bars some trade covers. The rest is about
  `CalculateMetrics`: sums and extremes are taken over the trades in order, and each lemma follows such an iteration step by
  step. The drawdown keeps a running peak and the worst fall from it; that this is the worst over all pairs of moments is true
  only as long as it is the ratio that grows with the peak, which fails once the equity is below zero, where a lower earlier
  equity has the greater relative fall. `DrawdownExact` therefore compares falls from the highest equity so far, and from any
  other only while the equity is not below zero; the run's capital is small enough for losses to pass zero.
- **BatchCommands.** `SchemaReady` says nothing of a process that is still migrating. `MigrationInv` adds, for each
  process, that the files before the one it is at are recorded with its own contents (`Passed`); another process can only
  record a file nobody has recorded, so it cannot disturb this. `SchemaTold` adds that a file's tables are what is recorded of it, or
that a process of the build that made them stands after executing the file and before recording it, dead or alive; it
cannot record later, since the file is recorded by then. `RowsTellEnd` rests on three invariants: `JobInv` says what a
  job row may be at each place its process is at, `DataInv` that the two tables a study joins are finite and only grow, and
  `StudyInv` that no result is of more rows than they hold now and that the results inserted so far are the first ones
  computed; since stored rows have all their mandatory columns (`RowsWarm`), a correlation of a mandatory column asked for later
is never of fewer rows, whatever a backfill writes between two queries.
- **The backfill's chunks.** `ReadInv` says of each place in what a job has loaded (`allCandles`, doubled where two chunks
  overlap) that the label computed there is the one that will stand, or that the bar comes again further on, or that the loop
  will still load it again; of each bar the job knew that it has its row, or is among the valid rows of the loaded chunk, or
  lies far enough behind the next cursor; and of each stored label that the candles between it and its bar are as many as its
  horizon. The first makes `LabelsLookAhead` hold over doubled candles (`UpsertLabels` keeps the last copy, and every earlier
  copy that looks back has a later one), the second `EveryBarWritten`.
- **Warm rows.** `RowsWarm` is a fact about columns. A recursive column is a function chosen to satisfy its equation, so that
  there is one is proved first, from a recurrence that stays within the chunk; then a least index at which a number is missing
  or reads a later bar would have an earlier one. `WarmInv` carries the result to what is stored.
- **OrderFlow.** `Flow` adds to the types that liquidation rows are numbered without a gap, so two deliveries at one moment
  stay two rows; that a chunk begins at a multiple of the stride; that a row, loaded or stored, was computed from its own
  interval; and that no row is stored of the bar after a chunk that was not full, which is why only a chunk's last bar can
  miss liquidations.
- **StreamManager.** `LeakInv` counts the open sockets beside the stored one, and one more that the second dial of a retry
  owes, against the retries made.
- **DashboardPush.** A page's sockets are the one its variable holds and those it let go of, and no more of these are left than
  sockets were made while the last was closing, which a break began; an error lets go of a socket and ends another.
- **CandleTable.** What a backfill still has to fetch ends where its stored pages begin (`BackInv`), a page is the newest
  bars of the range asked for (`PageInv`), and the gap filler's first page is its whole gap when the gap is within a page (`FillInv`).
- **Scoring.** The bounds of each score follow by cases on the thresholds; the size follows from the greatest sum the gate can
  form of them.

## Only model-checked

Liveness: `OpenPositionCloses`, `KeepsUp`, `StreamRecovers`, `StopEnds`, `KeepsHearing`. The prover has no rules for fairness
or `ENABLED`, so these hold on the instances of their runs. The three violated properties are counterexamples of their runs.
Everything else a run checks is proved.

## Not modelled

- **REST client and rate limiter**: the rate limiter divides elapsed time by a rate in floating point; the client's
  calls appear as calls that succeed, fail, or lose their reply.
- **Collector service** beyond the order of its start: heartbeat, status table and log lines. `Service.Start` waits for the
  backfill, which `CandleTable` has; the rest starts goroutines and waits for them.
- **The watchdog** of the stream reads message times nothing writes, so it never acts.
- **Dashboard and model API, web pages, model training**: requests that read tables or files and render them.
- **Database set-up and metrics counters**: connection strings, pools, Prometheus counters.
- **Values**: floating-point results of indicators, correlations, Sharpe and Sortino ratios; `Features` keeps what they
  are computed from. The ranges the validators accept are kept only where a branch depends on them.
- **In the paper engine**: the HTTP call to the model is an input of the signal, and its hanging is not modelled; the status
  goroutine reads fields without a lock and writes nothing; account snapshots are written and not read.
- **In the feature job and the study**: the heartbeat of a job row and the exported files.

## What could follow

- The rate limiter over integer time, with concurrent callers.
- A composition of the stream with the candle table, in which the stream's `readLoop` drives the table's confirmations, in place of the
  table's own `connected`.
- A composition of `OrderFlow` with the backfill of `BatchCommands`, so that one feature row carries both, in place of the
  upsert `OrderFlow` has of its own.
