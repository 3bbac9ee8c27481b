-------------------------- MODULE PaperEngineProofs --------------------------
(***************************************************************************)
(* Proofs about PaperEngine, for every number of days, ids and crashes,    *)
(* every price set, every signal set and every outcome of a store call.    *)
(*                                                                         *)
(* The module goes from the types of the helpers and of each action to one *)
(* lemma for each part of the inductive invariant; each of these has one   *)
(* case for each action.  The theorems after them are its consequences.    *)
(* The last part is about a store that works: a second invariant on top of *)
(* the first, and what a crash at any point of a tick cannot undo then.    *)
(***************************************************************************)
EXTENDS PaperEngine, GateProofs, FiniteSetTheorems, WellFoundedInduction

-----------------------------------------------------------------------------
(***************************************************************************)
(* What makes the type and the properties that hold with any failures      *)
(* inductive.                                                              *)
(***************************************************************************)
EntrySteps == {"order", "fill", "position"}
HoldingSteps == {"held", "trade", "close"}

\* Where the tick stands tells whether a position is held and a candle was read.
ControlInv ==
    /\ pc = "down" => seen = "zero" /\ posId = 0
    /\ pc \notin {"down", "idle"} => seen = "current"
    /\ pc \in HoldingSteps => posId # 0
    /\ pc \in EntrySteps \cup {"reset"} => posId = 0

\* Ids are assigned in order, each after an order of its own, and the ids beyond
\* the last belong to no position and no trade.
IdInv ==
    /\ lastId <= orders
    /\ pc = "order" => orders < MaxEntries
    /\ pc \in {"fill", "position"} => lastId < orders
    /\ \A i \in Ids : i > lastId => status[i] = "absent" /\ recorded[i] = 0

\* A position recorded in this life is not held again in it.
RecordedInv ==
    /\ TradedOncePerLife
    /\ pc = "down" => \A i \in Ids : recorded[i] <= crashes
    /\ posId # 0 /\ pc # "close" => recorded[posId] <= crashes

\* A bar still to be counted has already aged the position.
BarsInv ==
    /\ BarsHeldNotAhead
    /\ \A i \in OpenIds : rows[i].held <= age[i]
    /\ posId # 0 /\ seen = "older" => CountTo(HoldingBars, position.held) <= age[posId]
    /\ pc \in EntrySteps => draft.held = 0

\* The gate counts down the bars still missing, and no stop ever cuts them short.
CooldownInv ==
    /\ gate.state # "stopped"
    /\ gate.state = "cooldown" => sinceClose + gate.cooldown >= CooldownBars
    /\ gate.state = "idle" \/ pc \in EntrySteps => sinceClose >= CooldownBars

\* All of them together.
Inductive ==
    TypeOK /\ ControlInv /\ IdInv /\ HeldMatchesStore /\ RecordedInv /\ BarsInv /\ CooldownInv

-----------------------------------------------------------------------------
\* A non-empty set of ids has a greatest one: the row LoadOpenPosition's ORDER BY id
\* DESC LIMIT 1 returns.
LEMMA MaximumExists ==
    ASSUME NEW n \in Nat, NEW T, T \subseteq 1..n, T # {}
    PROVE  \E i \in T : \A j \in T : j <= i
<1> DEFINE Less == {p \in Nat \X Nat : p[1] < p[2]}
           R == {n - i : i \in T}
<1>1. IsWellFoundedOn(Less, Nat)
  BY NatLessThanWellFounded DEF OpToRel
<1>2. R \subseteq Nat
  OBVIOUS
<1>3. R # {}
  <2>1. PICK i \in T : TRUE
    OBVIOUS
  <2>2. n - i \in R
    BY <2>1
  <2> QED BY <2>2
<1>4. PICK x \in R : \A y \in R : <<y, x>> \notin Less
  <2> HIDE DEF Less, R
  <2> QED BY <1>1, <1>2, <1>3, WFMin
<1>5. PICK i \in T : x = n - i
  BY <1>4
<1>6. ASSUME NEW j \in T PROVE j <= i
  <2>1. n - j \in R /\ n - j \in Nat /\ x \in Nat
    BY <1>2, <1>4
  <2>2. ~(n - j < x)
    BY <2>1, <1>4
  <2> QED BY <2>2, <1>5
<1> QED BY <1>6

\* A price move seen from the side of the trade is an integer.
LEMMA DirectedType == ASSUME NEW d, NEW x \in Int PROVE Directed(d, x) \in Int
BY DEF Directed

\* The entry fill and the stop distance of openPosition are integers.
LEMMA EntryPriceType ==
    ASSUME NEW c \in Candles, NEW premium \in Premiums, NEW dir
    PROVE  /\ EntryFill(c.close, dir, premium) \in Int
           /\ Directed(dir, StopDistance) \in Int
<1> USE PaperAssumption
<1>1. c.close \in Int
  BY DEF Candles
<1>2. premium \in Int
  BY DEF Premiums
<1> QED BY <1>1, <1>2, DirectedType DEF EntryFill

\* What an exit and a hold compute from a candle are integers.
LEMMA PriceType ==
    ASSUME NEW p \in Position, NEW c \in Candles
    PROVE  /\ NetPnL(p, ExitPrice(p, c)) \in Int
           /\ GrossPnL(p, c.close) \in Int
           /\ TrailedStop(p, c) \in Int
           /\ Commission(p.qty) \in Int
           /\ Notional * p.qty \in Int
<1> USE PaperAssumption
<1>1. /\ c.low \in Int /\ c.close \in Int /\ c.high \in Int
      /\ p.qty \in Int /\ p.entry \in Int /\ p.stop \in Int
  <2>1. c \in [low : Prices, close : Prices, high : Prices]
    BY DEF Candles
  <2>2. p.qty \in Int /\ p.entry \in Int /\ p.stop \in Int
    BY DEF Position
  <2> QED BY <2>1, <2>2
<1>2. Commission(p.qty) \in Int
  BY <1>1 DEF Commission
<1>3. \A x : x \in Int => GrossPnL(p, x) \in Int
  BY <1>1, DirectedType DEF GrossPnL
<1>4. \A x, d : x \in Int => ExitFill(x, d) \in Int
  BY DirectedType DEF ExitFill
<1>5. NetPnL(p, ExitPrice(p, c)) \in Int
  BY <1>1, <1>2, <1>3, <1>4 DEF NetPnL, ExitPrice
<1>6. TrailedStop(p, c) \in Int
  BY <1>1 DEF TrailedStop
<1>7. Notional * p.qty \in Int
  BY <1>1
<1> QED BY <1>1, <1>2, <1>3, <1>5, <1>6, <1>7

\* A capped counter stays in its range and never goes down.
LEMMA CountToType ==
    ASSUME NEW bound \in Nat, NEW n \in 0..bound
    PROVE  CountTo(bound, n) \in 0..bound /\ CountTo(bound, n) >= n
BY DEF CountTo

\* What New builds has its type.
LEMMA NothingType == Nothing \in Position /\ NewAccount \in Account /\ NewGate \in Gate
BY PaperAssumption DEF Nothing, Position, Directions, Days, NewAccount, Account, NewGate,
   Gate, GateStates

\* The row recoverState takes is open and no open row has a greater id.
LEMMA StoredPositionType ==
    ASSUME TypeOK, OpenIds # {}
    PROVE  StoredPosition \in OpenIds /\ \A j \in OpenIds : j <= StoredPosition
<1>1. OpenIds \subseteq 1..MaxEntries /\ MaxEntries \in Nat
  BY PaperAssumption DEF OpenIds, Ids
<1>2. \E i \in OpenIds : \A j \in OpenIds : j <= i
  BY <1>1, MaximumExists
<1> QED BY <1>2 DEF StoredPosition

\* The sums recoverState loads make an account.
LEMMA StoredAccountType ==
    ASSUME TypeOK, NEW t, NEW d, NEW today \in Days, NEW a, a = StoredAccount(t, d, today)
    PROVE  a \in Account
<1> DEFINE total == IF t = "ok" THEN ledger.total ELSE 0
<1>1. /\ total \in Int /\ ledger.pnl[today] \in Int /\ ledger.count[today] \in Nat
      /\ Capital \in Int /\ today \in 0..MaxDay
  BY PaperAssumption DEF TypeOK, Days
<1>2. a = [balance |-> Capital + total, equity |-> Capital + total, totalPnL |-> total,
           dayPnL |-> IF d = "ok" THEN ledger.pnl[today] ELSE 0,
           dayTrades |-> IF d = "ok" THEN ledger.count[today] ELSE 0,
           currentDay |-> today, state |-> "running"]
  BY DEF StoredAccount, NewAccount
<1> QED
  <2> HIDE DEF total
  <2> QED BY <1>1, <1>2 DEF Account

\* The tables before the first start, and the engine not running, have their types.
THEOREM TypeInit == Init => TypeOK
<1> SUFFICES ASSUME Init PROVE TypeOK
  OBVIOUS
<1> USE PaperAssumption, GateAssumption, NothingType DEF Init, Days, Ids
<1>1. ledger \in [total : Int, pnl : [Days -> Int], count : [Days -> Nat]]
  OBVIOUS
<1>2. sinceClose \in 0..CooldownBars /\ crashes \in 0..MaxCrashes /\ day \in Days
  OBVIOUS
<1>3. rows \in [Ids -> Position] /\ age \in [Ids -> 0..HoldingBars]
  OBVIOUS
<1>4. status \in [Ids -> {"absent", "open", "closed"}] /\ recorded \in [Ids -> Nat]
  OBVIOUS
<1>5. pc \in Steps /\ seen \in {"zero", "older", "current"} /\ fresh \in BOOLEAN
  BY DEF Steps
<1>6. /\ posId \in 0..MaxEntries /\ lastId \in 0..MaxEntries /\ orders \in 0..MaxEntries
      /\ fills \in Nat /\ net \in Int
  OBVIOUS
<1>7. position \in Position /\ draft \in Position /\ account \in Account /\ gate \in Gate
  OBVIOUS
<1> QED BY ONLY <1>1, <1>2, <1>3, <1>4, <1>5, <1>6, <1>7 DEF TypeOK

\* A candle keeps the types.
LEMMA TypeNewCandle == TypeOK /\ NewCandle => TypeOK'
<1> SUFFICES ASSUME TypeOK, NewCandle PROVE TypeOK'
  OBVIOUS
<1>1. age' \in [Ids -> 0..HoldingBars]
  BY PaperAssumption, CountToType DEF NewCandle, TypeOK
<1> QED BY <1>1 DEF NewCandle, TypeOK, tables, positionTable

\* The head of processTick keeps the types.
LEMMA TypeBeginTick == TypeOK /\ BeginTick => TypeOK'
<1> SUFFICES ASSUME TypeOK, BeginTick PROVE TypeOK'
  OBVIOUS
<1>1. gate' \in Gate
  BY GateType DEF BeginTick, TypeOK
<1>2. position' \in Position
  <2>1. CountTo(HoldingBars, position.held) \in 0..HoldingBars
    BY PaperAssumption, CountToType DEF TypeOK, Position
  <2> QED BY <2>1 DEF BeginTick, TypeOK, Position
<1>3. sinceClose' \in 0..CooldownBars
  BY GateAssumption, CountToType DEF BeginTick, TypeOK
<1>4. fresh' \in BOOLEAN /\ pc' \in Steps
  BY DEF BeginTick, Steps, NewBar
<1> QED BY <1>1, <1>2, <1>3, <1>4 DEF BeginTick, TypeOK, tables, positionTable

\* UpdatePositionBarsHeld keeps the types, whatever its outcome.
LEMMA TypePersist == ASSUME TypeOK, NEW outcome, PersistBarsHeld(outcome) PROVE TypeOK'
<1>1. rows' \in [Ids -> Position]
  <2>1. CASE outcome = "failed"
    BY <2>1 DEF PersistBarsHeld, TypeOK
  <2>2. CASE outcome # "failed" /\ posId \in Ids
    <3>1. rows' = [rows EXCEPT ![posId] = [rows[posId] EXCEPT !.held = position.held]]
      BY <2>2 DEF PersistBarsHeld
    <3>2. [rows[posId] EXCEPT !.held = position.held] \in Position
      BY <2>2 DEF TypeOK, Position
    <3> QED BY <2>2, <3>1, <3>2 DEF TypeOK
  <2>3. CASE posId \notin Ids
    BY <2>3 DEF PersistBarsHeld, TypeOK
  <2> QED BY <2>1, <2>2, <2>3
<1> QED BY <1>1 DEF PersistBarsHeld, TypeOK, memory, observed, Steps

\* resetDay keeps the types.
LEMMA TypeStartDay == ASSUME TypeOK, NEW outcome, StartDay(outcome) PROVE TypeOK'
<1>1. /\ ledger.pnl[day] \in Int /\ ledger.count[day] \in Nat /\ day \in 0..MaxDay
      /\ account.dayPnL \in Int
  BY PaperAssumption DEF TypeOK, Days, Account
<1>2. account' = [balance |-> account.balance, equity |-> account.equity,
                  totalPnL |-> account.totalPnL,
                  dayPnL |-> IF outcome = "ok" THEN ledger.pnl[day] ELSE account.dayPnL,
                  dayTrades |-> IF outcome = "ok" THEN ledger.count[day] ELSE 0,
                  currentDay |-> day, state |-> "running"]
  BY DEF StartDay, TypeOK, Account
<1>3. account' \in Account
  BY <1>1, <1>2 DEF TypeOK, Account
<1>4. gate' \in Gate
  BY <1>3, GateType DEF StartDay, TypeOK, Account
<1> QED BY <1>3, <1>4 DEF StartDay, TypeOK, tables, positionTable, observed, Steps

\* A tick that decides nothing keeps the types.
LEMMA TypeNothingDone ==
    ASSUME TypeOK, NoFeatures \/ (\E sig \in Signals : DecideFlat(sig)) \/ UNCHANGED vars
    PROVE  TypeOK'
BY DEF NoFeatures, DecideFlat, TypeOK, vars, memory, tables, positionTable, observed, Steps

\* The decision to exit keeps the types.
LEMMA TypeDecideExit ==
    ASSUME TypeOK, NEW sig \in Signals, NEW c \in Candles, DecideExit(sig, c)
    PROVE  TypeOK'
<1>1. net' \in Int
  BY PriceType DEF DecideExit, TypeOK
<1> QED BY <1>1 DEF DecideExit, TypeOK, tables, positionTable, observed, Steps

\* Trailing the stop and marking the position to market keep the types.
LEMMA TypeDecideHold ==
    ASSUME TypeOK, NEW sig \in Signals, NEW c \in Candles, DecideHold(sig, c)
    PROVE  TypeOK'
<1>1. TrailedStop(position, c) \in Int /\ GrossPnL(position, c.close) \in Int
  BY PriceType DEF TypeOK
<1>2. position' \in Position
  BY <1>1 DEF DecideHold, TypeOK, Position
<1>3. account' \in Account
  BY <1>1 DEF DecideHold, TypeOK, Account
<1> QED BY <1>2, <1>3 DEF DecideHold, TypeOK, tables, positionTable, observed, Steps

\* The decision to enter keeps the types.
LEMMA TypeDecideEntry ==
    ASSUME TypeOK, NEW sig \in Signals, NEW c \in Candles, NEW premium \in Premiums,
           DecideEntry(sig, c, premium)
    PROVE  TypeOK'
<1>1. Direction(sig) \in Directions
  BY DEF DecideEntry, EntryDue
<1>2. Evaluate(gate, sig).size \in 0..16
  BY PaperAssumption, SizeType DEF TypeOK
<1>3. /\ EntryFill(c.close, Direction(sig), premium) \in Int
      /\ Directed(Direction(sig), StopDistance) \in Int
  BY EntryPriceType
<1>4. draft' \in Position
  BY <1>1, <1>2, <1>3, PaperAssumption DEF DecideEntry, Position, TypeOK
<1> QED BY <1>4 DEF DecideEntry, TypeOK, tables, positionTable, observed, Steps

\* InsertOrder keeps the types: the number of orders stays within the bound.
LEMMA TypeInsertOrder ==
    ASSUME TypeOK, IdInv, NEW outcome, InsertOrder(outcome)
    PROVE  TypeOK'
<1>1. orders' \in 0..MaxEntries
  BY PaperAssumption DEF InsertOrder, TypeOK, IdInv
<1>2. draft' \in Position /\ pc' \in Steps
  BY NothingType DEF InsertOrder, TypeOK, Steps
<1> QED BY <1>1, <1>2 DEF InsertOrder, TypeOK, positionTable, observed

\* InsertFill keeps the types.
LEMMA TypeInsertFill ==
    ASSUME TypeOK, NEW outcome, InsertFill(outcome)
    PROVE  TypeOK'
<1>1. fills' \in Nat /\ pc' \in Steps
  BY DEF InsertFill, TypeOK, Steps
<1> QED BY <1>1 DEF InsertFill, TypeOK, memory, positionTable, observed

\* InsertPosition keeps the types: the next id is one of the ids.
LEMMA TypeInsertPosition ==
    ASSUME TypeOK, IdInv, NEW outcome, InsertPosition(outcome)
    PROVE  TypeOK'
<1>1. /\ rows' \in [Ids -> Position]
      /\ status' \in [Ids -> {"absent", "open", "closed"}]
      /\ age' \in [Ids -> 0..HoldingBars]
      /\ lastId' \in 0..MaxEntries
  <2>1. CASE outcome = "failed"
    BY <2>1 DEF InsertPosition, positionTable, TypeOK
  <2>2. CASE outcome # "failed"
    <3>1. lastId' \in Ids
      <4>1. lastId \in 0..MaxEntries /\ orders \in 0..MaxEntries /\ lastId < orders
        BY DEF InsertPosition, TypeOK, IdInv
      <4>2. lastId' = lastId + 1
        BY <2>2 DEF InsertPosition
      <4> QED BY <4>1, <4>2, PaperAssumption DEF Ids
    <3>2. rows' \in [Ids -> Position]
      BY <2>2, <3>1 DEF InsertPosition, TypeOK
    <3>3. status' \in [Ids -> {"absent", "open", "closed"}]
      BY <2>2, <3>1 DEF InsertPosition, TypeOK
    <3>4. age' \in [Ids -> 0..HoldingBars]
      BY <2>2, <3>1, PaperAssumption DEF InsertPosition, TypeOK
    <3> QED BY <3>1, <3>2, <3>3, <3>4 DEF Ids
  <2> QED BY <2>1, <2>2
<1>2. /\ posId' \in 0..MaxEntries
      /\ position' \in Position
      /\ account' \in Account
      /\ gate' \in Gate
  <2>1. CASE outcome = "ok"
    <3>1. Commission(draft.qty) \in Int
      BY PaperAssumption DEF TypeOK, Position, Commission
    <3>2. account' \in Account
      BY <2>1, <3>1 DEF InsertPosition, TypeOK, Account
    <3>3. gate' \in Gate
      BY <2>1, GateType DEF InsertPosition, TypeOK
    <3> QED BY <1>1, <2>1, <3>2, <3>3 DEF InsertPosition, TypeOK
  <2>2. CASE outcome # "ok"
    BY <2>2 DEF InsertPosition, TypeOK
  <2> QED BY <2>1, <2>2
<1>3. draft' \in Position /\ pc' \in Steps
  BY NothingType DEF InsertPosition, Steps
<1> QED BY <1>1, <1>2, <1>3 DEF InsertPosition, TypeOK

\* InsertTrade keeps the types of the trade counts and sums.
LEMMA TypeInsertTrade ==
    ASSUME TypeOK, NEW outcome, InsertTrade(outcome)
    PROVE  TypeOK'
<1>1. /\ recorded' \in [Ids -> Nat]
      /\ ledger' \in [total : Int, pnl : [Days -> Int], count : [Days -> Nat]]
  <2>1. CASE outcome = "failed"
    BY <2>1 DEF InsertTrade, TypeOK
  <2>2. CASE outcome # "failed"
    <3>1. RecordTrade
      BY <2>2 DEF InsertTrade
    <3>2. recorded' \in [Ids -> Nat]
      <4>1. CASE posId \in Ids
        BY <3>1, <4>1 DEF RecordTrade, TypeOK
      <4>2. CASE posId \notin Ids
        BY <3>1, <4>2 DEF RecordTrade, TypeOK
      <4> QED BY <4>1, <4>2
    <3>3. position.day \in Days /\ net \in Int
      BY DEF TypeOK, Position
    <3>4. /\ ledger.total \in Int
          /\ ledger.pnl \in [Days -> Int]
          /\ ledger.count \in [Days -> Nat]
      BY DEF TypeOK
    <3>5. [ledger.pnl EXCEPT ![position.day] = @ + net] \in [Days -> Int]
      BY <3>3, <3>4
    <3>6. [ledger.count EXCEPT ![position.day] = @ + 1] \in [Days -> Nat]
      BY <3>3, <3>4
    <3> QED BY <3>1, <3>2, <3>3, <3>4, <3>5, <3>6 DEF RecordTrade
  <2> QED BY <2>1, <2>2
<1> QED BY <1>1 DEF InsertTrade, TypeOK, memory, positionTable, observed, Steps

\* The end of closePosition keeps the types.
LEMMA TypeClosePosition ==
    ASSUME TypeOK, NEW outcome, ClosePosition(outcome)
    PROVE  TypeOK'
<1>1. status' \in [Ids -> {"absent", "open", "closed"}]
  BY DEF ClosePosition, TypeOK
<1>2. gate' \in Gate
  <2>1. UpdatePnl(gate, net) \in Gate
    BY GateType DEF TypeOK
  <2>2. gate' = OnTradeClosed(UpdatePnl(gate, net))
    BY DEF ClosePosition, BookClose
  <2> QED
    <3> DEFINE g == UpdatePnl(gate, net)
    <3>1. gate' = OnTradeClosed(g) /\ g \in Gate
      BY <2>1, <2>2
    <3> HIDE DEF g
    <3> QED BY <3>1, GateType
<1>3. account' \in Account
  <2> DEFINE dayPnL == account.dayPnL + net
             totalPnL == account.totalPnL + net
             balance == account.balance + net + Notional * position.qty
             state == IF LossLimit(dayPnL, totalPnL) THEN "stopped" ELSE account.state
  <2>1. account' = [balance |-> balance, equity |-> balance, totalPnL |-> totalPnL,
                    dayPnL |-> dayPnL, dayTrades |-> account.dayTrades + 1,
                    currentDay |-> account.currentDay, state |-> state]
    BY DEF ClosePosition, BookClose, TypeOK, Account
  <2>2. Notional * position.qty \in Int
    BY PaperAssumption DEF TypeOK, Position
  <2>3. balance \in Int /\ totalPnL \in Int /\ dayPnL \in Int
    BY <2>2 DEF TypeOK, Account
  <2>4. /\ state \in {"running", "stopped"}
        /\ account.dayTrades + 1 \in Nat
        /\ account.currentDay \in 0..MaxDay
    BY DEF TypeOK, Account
  <2> QED
    <3> HIDE DEF dayPnL, totalPnL, balance, state
    <3> QED BY <2>1, <2>3, <2>4 DEF Account
<1>4. posId' \in 0..MaxEntries /\ position' \in Position /\ sinceClose' \in 0..CooldownBars
  BY NothingType, PaperAssumption, GateAssumption DEF ClosePosition, ForgetPosition
<1> QED BY <1>1, <1>2, <1>3, <1>4 DEF ClosePosition, TypeOK, Steps

\* A crash keeps the types.
LEMMA TypeCrash == ASSUME TypeOK, Crash PROVE TypeOK'
<1>1. crashes' \in 0..MaxCrashes /\ sinceClose' \in 0..CooldownBars /\ posId' \in 0..MaxEntries
  BY PaperAssumption, GateAssumption DEF Crash, Boot, TypeOK
<1>2. /\ account' \in Account /\ gate' \in Gate
      /\ position' \in Position /\ draft' \in Position
  BY NothingType DEF Crash, Boot
<1>3. seen' \in {"zero", "older", "current"} /\ net' \in Int /\ pc' \in Steps
  BY DEF Crash, Boot, Steps
<1>4. fresh' \in BOOLEAN
  BY DEF Crash, Boot
<1> QED BY <1>1, <1>2, <1>3, <1>4 DEF Crash, TypeOK, tables, positionTable

\* recoverState keeps the types.
LEMMA TypeRecover ==
    ASSUME TypeOK, NEW p, NEW t, NEW d, Recover(p, t, d)
    PROVE  TypeOK'
<1>1. posId' \in 0..MaxEntries /\ position' \in Position
  <2>1. CASE p # "ok"
    BY <2>1 DEF Recover, TypeOK
  <2>2. CASE p = "ok" /\ OpenIds = {}
    BY <2>2, NothingType, PaperAssumption DEF Recover, StoredPosition
  <2>3. CASE p = "ok" /\ OpenIds # {}
    <3>1. StoredPosition \in Ids
      BY <2>3, StoredPositionType DEF OpenIds
    <3> QED BY <2>3, <3>1, PaperAssumption DEF Recover, TypeOK, Ids
  <2> QED BY <2>1, <2>2, <2>3
<1>2. account' \in Account
  <2>1. CASE p # "ok"
    BY <2>1 DEF Recover, TypeOK
  <2>2. CASE p = "ok"
    <3>1. PICK today \in Days : account' = StoredAccount(t, d, today)
      BY <2>2 DEF Recover
    <3> QED BY <3>1, StoredAccountType
  <2> QED BY <2>1, <2>2
<1> QED BY <1>1, <1>2 DEF Recover, TypeOK, tables, positionTable, observed, Steps

-----------------------------------------------------------------------------
(***************************************************************************)
(* The shape every proof about a step shares: the actions a step can be.   *)
(***************************************************************************)
\* Every step is one of the actions, with its arguments named.
LEMMA StepCases ==
    ASSUME Next
    PROVE  \/ NewCandle
           \/ BeginTick
           \/ NoFeatures
           \/ \E sig \in Signals, c \in Candles, premium \in Premiums :
                 \/ DecideExit(sig, c)
                 \/ DecideHold(sig, c)
                 \/ DecideEntry(sig, c, premium)
           \/ \E sig \in Signals : DecideFlat(sig)
           \/ \E outcome \in Outcomes :
                 \/ PersistBarsHeld(outcome)
                 \/ StartDay(outcome)
                 \/ InsertOrder(outcome)
                 \/ InsertFill(outcome)
                 \/ InsertPosition(outcome)
                 \/ ClosePosition(outcome)
           \/ \E outcome \in TradeOutcomes : InsertTrade(outcome)
           \/ Crash
           \/ \E p, t, d \in Outcomes : Recover(p, t, d)
<1>1. \E premium : premium \in Premiums
  BY DEF Premiums
<1> QED BY <1>1 DEF Next, Decide, StoreCall, Start

\* Each step keeps what the tick's place says of the memory.
LEMMA ControlStep ==
    ASSUME TypeOK, ControlInv, [Next]_vars
    PROVE  ControlInv'
<1> USE DEF ControlInv, EntrySteps, HoldingSteps
<1>1. CASE NewCandle
  BY <1>1 DEF NewCandle, tables, positionTable
<1>2. CASE BeginTick
  BY <1>2 DEF BeginTick, tables, positionTable
<1>3. CASE NoFeatures
  BY <1>3 DEF NoFeatures, memory, tables, positionTable, observed
<1>4. ASSUME NEW sig \in Signals, DecideFlat(sig) PROVE ControlInv'
  BY <1>4 DEF DecideFlat, memory, tables, positionTable, observed
<1>5. ASSUME NEW sig \in Signals, NEW c \in Candles, DecideExit(sig, c) PROVE ControlInv'
  BY <1>5 DEF DecideExit, memory, tables, positionTable, observed
<1>6. ASSUME NEW sig \in Signals, NEW c \in Candles, DecideHold(sig, c) PROVE ControlInv'
  BY <1>6 DEF DecideHold, tables, positionTable, observed
<1>7. ASSUME NEW sig \in Signals, NEW c \in Candles, NEW premium \in Premiums,
             DecideEntry(sig, c, premium)
      PROVE  ControlInv'
  BY <1>7 DEF DecideEntry, tables, positionTable, observed
<1>8. ASSUME NEW outcome \in Outcomes, PersistBarsHeld(outcome) PROVE ControlInv'
  BY <1>8 DEF PersistBarsHeld, memory, observed
<1>9. ASSUME NEW outcome \in Outcomes, StartDay(outcome) PROVE ControlInv'
  BY <1>9 DEF StartDay, tables, positionTable, observed
<1>10. ASSUME NEW outcome \in Outcomes, InsertOrder(outcome) PROVE ControlInv'
  BY <1>10 DEF InsertOrder, positionTable, observed
<1>11. ASSUME NEW outcome \in Outcomes, InsertFill(outcome) PROVE ControlInv'
  BY <1>11 DEF InsertFill, memory, positionTable, observed
<1>12. ASSUME NEW outcome \in Outcomes, InsertPosition(outcome) PROVE ControlInv'
  BY <1>12 DEF InsertPosition, positionTable
<1>13. ASSUME NEW outcome \in Outcomes, ClosePosition(outcome) PROVE ControlInv'
  BY <1>13 DEF ForgetPosition, ClosePosition
<1>14. ASSUME NEW outcome \in TradeOutcomes, InsertTrade(outcome) PROVE ControlInv'
  BY <1>14 DEF InsertTrade, memory, positionTable, observed
<1>15. CASE Crash
  BY <1>15 DEF Boot, Crash, tables, positionTable
<1>16. ASSUME NEW p \in Outcomes, NEW t \in Outcomes, NEW d \in Outcomes,
              Recover(p, t, d)
       PROVE  ControlInv'
  BY <1>16 DEF Recover, tables, positionTable, observed
<1>17. CASE UNCHANGED vars
  BY <1>17 DEF vars, memory, tables, positionTable, observed
<1> QED
  BY <1>1, <1>2, <1>3, <1>4, <1>5, <1>6, <1>7, <1>8, <1>9, <1>10,
     <1>11, <1>12, <1>13, <1>14, <1>15, <1>16, <1>17, StepCases

\* A held position is an open row with an id already assigned.
LEMMA HeldIsOpen ==
    ASSUME TypeOK, HeldMatchesStore, IdInv, posId # 0
    PROVE  posId \in Ids /\ status[posId] = "open" /\ posId <= lastId
BY PaperAssumption DEF TypeOK, HeldMatchesStore, IdInv, Ids

\* Each step keeps ids assigned in order, each after an order of its own.
LEMMA IdStep ==
    ASSUME TypeOK, ControlInv, HeldMatchesStore, IdInv, [Next]_vars
    PROVE  IdInv'
<1> USE PaperAssumption DEF IdInv, TypeOK
<1>1. CASE NewCandle
  BY <1>1 DEF NewCandle, tables, positionTable
<1>2. CASE BeginTick
  BY <1>2 DEF BeginTick, tables, positionTable
<1>3. CASE NoFeatures
  BY <1>3 DEF NoFeatures, memory, tables, positionTable, observed
<1>4. ASSUME NEW sig \in Signals, DecideFlat(sig) PROVE IdInv'
  BY <1>4 DEF DecideFlat, memory, tables, positionTable, observed
<1>5. ASSUME NEW sig \in Signals, NEW c \in Candles, DecideExit(sig, c) PROVE IdInv'
  BY <1>5 DEF DecideExit, memory, tables, positionTable, observed
<1>6. ASSUME NEW sig \in Signals, NEW c \in Candles, DecideHold(sig, c) PROVE IdInv'
  BY <1>6 DEF DecideHold, tables, positionTable, observed
<1>7. ASSUME NEW sig \in Signals, NEW c \in Candles, NEW premium \in Premiums,
             DecideEntry(sig, c, premium)
      PROVE  IdInv'
  BY <1>7 DEF DecideEntry, tables, positionTable, observed
<1>8. ASSUME NEW outcome \in Outcomes, PersistBarsHeld(outcome) PROVE IdInv'
  BY <1>8 DEF PersistBarsHeld, memory, observed
<1>9. ASSUME NEW outcome \in Outcomes, StartDay(outcome) PROVE IdInv'
  BY <1>9 DEF StartDay, tables, positionTable, observed
<1>10. ASSUME NEW outcome \in Outcomes, InsertOrder(outcome) PROVE IdInv'
  BY <1>10 DEF InsertOrder, positionTable, observed
<1>11. ASSUME NEW outcome \in Outcomes, InsertFill(outcome) PROVE IdInv'
  BY <1>11 DEF InsertFill, memory, positionTable, observed
<1>12. ASSUME NEW outcome \in Outcomes, InsertPosition(outcome) PROVE IdInv'
  <2>1. CASE outcome = "failed"
    BY <1>12, <2>1 DEF InsertPosition, positionTable
  <2>2. CASE outcome # "failed"
    <3>1. /\ lastId' = lastId + 1 /\ lastId' <= orders /\ orders' = orders /\ pc' = "idle"
          /\ recorded' = recorded /\ status' = [status EXCEPT ![lastId'] = "open"]
      BY <1>12, <2>2 DEF InsertPosition
    <3>2. ASSUME NEW i \in Ids, i > lastId'
          PROVE  status'[i] = "absent" /\ recorded'[i] = 0
      <4>1. i > lastId /\ i # lastId'
        BY <3>1, <3>2 DEF Ids
      <4> QED BY <3>1, <4>1
    <3> QED BY <3>1, <3>2
  <2> QED BY <2>1, <2>2
<1>13. ASSUME NEW outcome \in Outcomes, ClosePosition(outcome) PROVE IdInv'
  <2>1. posId \in Ids /\ posId <= lastId
    BY <1>13, HeldIsOpen DEF ClosePosition, ControlInv, HoldingSteps, IdInv
  <2>2. ASSUME NEW i \in Ids, i > lastId
        PROVE  status'[i] = "absent"
    <3>1. i # posId
      BY <2>1, <2>2 DEF Ids
    <3> QED BY <1>13, <2>2, <3>1 DEF ClosePosition
  <2> QED BY <1>13, <2>2 DEF ClosePosition
<1>14. ASSUME NEW outcome \in TradeOutcomes, InsertTrade(outcome) PROVE IdInv'
  <2>1. posId \in Ids /\ posId <= lastId
    BY <1>14, HeldIsOpen DEF InsertTrade, ControlInv, HoldingSteps, IdInv
  <2>2. ASSUME NEW i \in Ids, i > lastId
        PROVE  recorded'[i] = 0
    <3>1. i # posId
      BY <2>1, <2>2 DEF Ids
    <3> QED BY <1>14, <2>2, <3>1 DEF InsertTrade, RecordTrade
  <2> QED BY <1>14, <2>2 DEF InsertTrade, memory, positionTable, observed
<1>15. CASE Crash
  BY <1>15 DEF Crash, tables, positionTable
<1>16. ASSUME NEW p \in Outcomes, NEW t \in Outcomes, NEW d \in Outcomes,
              Recover(p, t, d)
       PROVE  IdInv'
  BY <1>16 DEF Recover, tables, positionTable, observed
<1>17. CASE UNCHANGED vars
  BY <1>17 DEF vars, memory, tables, positionTable, observed
<1> QED
  BY <1>1, <1>2, <1>3, <1>4, <1>5, <1>6, <1>7, <1>8, <1>9, <1>10,
     <1>11, <1>12, <1>13, <1>14, <1>15, <1>16, <1>17, StepCases

\* The stops and holding times compared by HeldMatchesStore are numbers.
LEMMA HeldTypes ==
    ASSUME TypeOK
    PROVE  /\ position.stop \in Int /\ position.held \in 0..HoldingBars
           /\ posId # 0 => /\ posId \in Ids
                           /\ rows[posId].stop \in Int
                           /\ rows[posId].held \in 0..HoldingBars
<1>1. position.stop \in Int /\ position.held \in 0..HoldingBars
  BY DEF TypeOK, Position
<1>2. ASSUME posId # 0
      PROVE  posId \in Ids /\ rows[posId].stop \in Int /\ rows[posId].held \in 0..HoldingBars
  <2>1. posId \in Ids
    BY <1>2, PaperAssumption DEF TypeOK, Ids
  <2>2. rows[posId] \in Position
    BY <2>1 DEF TypeOK
  <2> QED BY <2>1, <2>2 DEF Position
<1> QED BY <1>1, <1>2

\* A stop is no looser than itself.
LEMMA DirectedZero ==
    ASSUME NEW d, NEW x \in Int
    PROVE  Directed(d, x - x) >= 0
BY DEF Directed

\* Each step keeps the position in memory an open row of the table: only the close
\* ends the row, and it forgets the position whatever its outcome.
LEMMA HeldStep ==
    ASSUME TypeOK, ControlInv, IdInv, HeldMatchesStore, [Next]_vars
    PROVE  HeldMatchesStore'
<1> USE DEF HeldMatchesStore, ControlInv, HoldingSteps, EntrySteps
<1>1. CASE NewCandle
  BY <1>1 DEF NewCandle, tables, positionTable
<1>2. CASE BeginTick
  <2>1. CASE position' = position
    BY <1>2, <2>1 DEF BeginTick, tables, positionTable
  <2>2. CASE position' # position
    <3>1. position' = [position EXCEPT !.held = CountTo(HoldingBars, position.held)]
      BY <1>2, <2>2 DEF BeginTick
    <3>2. /\ position'.dir = position.dir /\ position'.qty = position.qty
          /\ position'.entry = position.entry /\ position'.day = position.day
          /\ position'.stop = position.stop
          /\ position'.held = CountTo(HoldingBars, position.held)
      BY <3>1 DEF TypeOK, Position
    <3>3. position.held \in 0..HoldingBars /\ position'.held >= position.held
      BY <3>2, CountToType, PaperAssumption DEF TypeOK, Position
    <3>4. posId # 0 => rows[posId].held <= position'.held
      <4>1. posId # 0 => rows[posId].held \in 0..HoldingBars
        BY HeldTypes
      <4> QED BY <3>2, <3>3, <4>1, PaperAssumption, CountToType
    <3> QED BY <1>2, <3>2, <3>4 DEF BeginTick, tables, positionTable
  <2> QED BY <2>1, <2>2
<1>3. CASE NoFeatures
  BY <1>3 DEF NoFeatures, memory, tables, positionTable, observed
<1>4. ASSUME NEW sig \in Signals, DecideFlat(sig) PROVE HeldMatchesStore'
  BY <1>4 DEF DecideFlat, memory, tables, positionTable, observed
<1>5. ASSUME NEW sig \in Signals, NEW c \in Candles,
             DecideExit(sig, c)
      PROVE  HeldMatchesStore'
  BY <1>5 DEF DecideExit, memory, tables, positionTable, observed
<1>6. ASSUME NEW sig \in Signals, NEW c \in Candles,
             DecideHold(sig, c)
      PROVE  HeldMatchesStore'
  <2>1. posId \in Ids /\ rows[posId].stop \in Int /\ position.stop \in Int
    BY <1>6, HeldTypes DEF DecideHold
  <2>2. /\ position'.dir = position.dir /\ position'.qty = position.qty
        /\ position'.entry = position.entry /\ position'.day = position.day
        /\ position'.held = position.held
        /\ position'.stop = TrailedStop(position, c)
    BY <1>6 DEF DecideHold, TypeOK, Position
  <2>3. Directed(position.dir, position'.stop - rows[posId].stop) >= 0
    <3>1. Directed(position.dir, position.stop - rows[posId].stop) >= 0
      BY <1>6 DEF DecideHold
    <3>2. c.close - TrailDistance \in Int
      <4>1. c \in [low : Prices, close : Prices, high : Prices]
        BY DEF Candles
      <4>2. c.close \in Int /\ TrailDistance \in Int
        BY <4>1, PaperAssumption
      <4> QED BY <4>2
    <3> QED BY <2>1, <2>2, <3>1, <3>2 DEF TrailedStop, Directed
  <2> QED BY <1>6, <2>2, <2>3 DEF DecideHold, tables, positionTable
<1>7. ASSUME NEW sig \in Signals, NEW c \in Candles, NEW premium \in Premiums,
             DecideEntry(sig, c, premium)
      PROVE  HeldMatchesStore'
  BY <1>7 DEF DecideEntry, tables, positionTable, observed
<1>8. ASSUME NEW outcome \in Outcomes, PersistBarsHeld(outcome) PROVE HeldMatchesStore'
  <2>1. posId \in Ids /\ position.held \in 0..HoldingBars
    BY <1>8, HeldTypes DEF PersistBarsHeld
  <2>2. CASE outcome = "failed"
    BY <1>8, <2>2 DEF PersistBarsHeld, memory
  <2>3. CASE outcome # "failed"
    <3>1. /\ rows'[posId].dir = rows[posId].dir /\ rows'[posId].qty = rows[posId].qty
          /\ rows'[posId].entry = rows[posId].entry /\ rows'[posId].day = rows[posId].day
          /\ rows'[posId].stop = rows[posId].stop
          /\ rows'[posId].held = position.held
      BY <1>8, <2>1, <2>3 DEF PersistBarsHeld, TypeOK, Position
    <3> QED BY <1>8, <2>1, <3>1, PaperAssumption DEF PersistBarsHeld, memory
  <2> QED BY <2>2, <2>3
<1>9. ASSUME NEW outcome \in Outcomes, StartDay(outcome) PROVE HeldMatchesStore'
  BY <1>9 DEF StartDay, tables, positionTable, observed
<1>10. ASSUME NEW outcome \in Outcomes, InsertOrder(outcome) PROVE HeldMatchesStore'
  BY <1>10 DEF InsertOrder, positionTable, observed
<1>11. ASSUME NEW outcome \in Outcomes, InsertFill(outcome) PROVE HeldMatchesStore'
  BY <1>11 DEF InsertFill, memory, positionTable, observed
<1>12. ASSUME NEW outcome \in Outcomes, InsertPosition(outcome) PROVE HeldMatchesStore'
  <2>1. CASE outcome = "ok"
    <3>1. lastId' \in Ids
      <4>1. lastId \in 0..MaxEntries /\ orders \in 0..MaxEntries /\ lastId < orders
        BY <1>12 DEF InsertPosition, TypeOK, IdInv
      <4>2. lastId' = lastId + 1
        BY <1>12, <2>1 DEF InsertPosition
      <4> QED BY <4>1, <4>2, PaperAssumption DEF Ids
    <3>2. /\ posId' = lastId' /\ position' = draft /\ rows'[lastId'] = draft
          /\ status'[lastId'] = "open"
      BY <1>12, <2>1, <3>1 DEF InsertPosition, TypeOK
    <3>3. draft.stop \in Int /\ draft.held \in 0..HoldingBars
      BY DEF TypeOK, Position
    <3>4. Directed(draft.dir, draft.stop - draft.stop) >= 0 /\ draft.held <= draft.held
      BY <3>3, DirectedZero, PaperAssumption
    <3> QED BY <3>2, <3>4
  <2>2. CASE outcome # "ok"
    BY <1>12, <2>2 DEF InsertPosition
  <2> QED BY <2>1, <2>2
<1>13. ASSUME NEW outcome \in Outcomes, ClosePosition(outcome) PROVE HeldMatchesStore'
  BY <1>13 DEF ClosePosition, ForgetPosition
<1>14. ASSUME NEW outcome \in TradeOutcomes, InsertTrade(outcome) PROVE HeldMatchesStore'
  BY <1>14 DEF InsertTrade, memory, positionTable, observed
<1>15. CASE Crash
  BY <1>15 DEF Crash, Boot
<1>16. ASSUME NEW p \in Outcomes, NEW t \in Outcomes, NEW d \in Outcomes,
              Recover(p, t, d)
       PROVE  HeldMatchesStore'
  <2>1. CASE p # "ok" \/ OpenIds = {}
    BY <1>16, <2>1 DEF Recover, StoredPosition, tables, positionTable
  <2>2. CASE p = "ok" /\ OpenIds # {}
    <3>1. StoredPosition \in OpenIds
      BY <2>2, StoredPositionType
    <3>2. StoredPosition # 0 /\ StoredPosition \in Ids /\ status[StoredPosition] = "open"
      BY <3>1, PaperAssumption DEF OpenIds, Ids
    <3>3. /\ posId' = StoredPosition /\ position' = rows[StoredPosition]
          /\ rows' = rows /\ status' = status
      BY <1>16, <2>2, <3>2 DEF Recover, tables, positionTable
    <3>4. rows[StoredPosition].stop \in Int /\ rows[StoredPosition].held \in 0..HoldingBars
      BY <3>2 DEF TypeOK, Position
    <3>5. Directed(rows[StoredPosition].dir,
                   rows[StoredPosition].stop - rows[StoredPosition].stop) >= 0
      BY <3>4, DirectedZero
    <3>6. rows[StoredPosition].held <= rows[StoredPosition].held
      BY <3>4, PaperAssumption
    <3> HIDE DEF HeldMatchesStore
    <3> DEFINE s == StoredPosition
    <3>7. posId' = s /\ position' = rows'[s] /\ status'[s] = "open" /\ s \in Ids
      BY <3>2, <3>3
    <3>8. Directed(position'.dir, position'.stop - rows'[s].stop) >= 0
          /\ rows'[s].held <= position'.held
      BY <3>3, <3>5, <3>6
    <3> HIDE DEF s
    <3> QED BY <3>7, <3>8 DEF HeldMatchesStore
  <2> QED BY <2>1, <2>2
<1>17. CASE UNCHANGED vars
  BY <1>17 DEF vars, memory, tables, positionTable, observed
<1> QED
  BY <1>1, <1>2, <1>3, <1>4, <1>5, <1>6, <1>7, <1>8, <1>9, <1>10,
     <1>11, <1>12, <1>13, <1>14, <1>15, <1>16, <1>17, StepCases

\* Each step keeps a trade to one row per life of the process.
LEMMA RecordedStep ==
    ASSUME TypeOK, ControlInv, IdInv, RecordedInv, [Next]_vars
    PROVE  RecordedInv'
<1> USE DEF RecordedInv, TradedOncePerLife, ControlInv, HoldingSteps, EntrySteps
<1>1. CASE NewCandle
  BY <1>1 DEF NewCandle, tables, positionTable
<1>2. CASE BeginTick
  BY <1>2 DEF BeginTick, tables, positionTable
<1>3. CASE NoFeatures
  BY <1>3 DEF NoFeatures, memory, tables, positionTable, observed
<1>4. ASSUME NEW sig \in Signals, DecideFlat(sig) PROVE RecordedInv'
  BY <1>4 DEF DecideFlat, memory, tables, positionTable, observed
<1>5. ASSUME NEW sig \in Signals, NEW c \in Candles, DecideExit(sig, c) PROVE RecordedInv'
  BY <1>5 DEF DecideExit, memory, tables, positionTable, observed
<1>6. ASSUME NEW sig \in Signals, NEW c \in Candles, DecideHold(sig, c) PROVE RecordedInv'
  BY <1>6 DEF DecideHold, tables, positionTable, observed
<1>7. ASSUME NEW sig \in Signals, NEW c \in Candles, NEW premium \in Premiums,
             DecideEntry(sig, c, premium)
      PROVE  RecordedInv'
  BY <1>7 DEF DecideEntry, tables, observed
<1>8. ASSUME NEW outcome \in Outcomes, PersistBarsHeld(outcome) PROVE RecordedInv'
  BY <1>8 DEF PersistBarsHeld, memory, observed
<1>9. ASSUME NEW outcome \in Outcomes, StartDay(outcome) PROVE RecordedInv'
  BY <1>9 DEF StartDay, tables, positionTable, observed
<1>10. ASSUME NEW outcome \in Outcomes, InsertOrder(outcome) PROVE RecordedInv'
  BY <1>10 DEF InsertOrder, positionTable, observed
<1>11. ASSUME NEW outcome \in Outcomes, InsertFill(outcome) PROVE RecordedInv'
  BY <1>11 DEF InsertFill, memory, positionTable, observed
<1>12. ASSUME NEW outcome \in Outcomes, InsertPosition(outcome) PROVE RecordedInv'
  <2>1. recorded' = recorded /\ crashes' = crashes /\ pc' = "idle"
    BY <1>12 DEF InsertPosition
  <2>2. CASE outcome = "ok"
    <3>1. /\ lastId \in 0..MaxEntries /\ orders \in 0..MaxEntries /\ lastId < orders
          /\ lastId' = lastId + 1 /\ posId' = lastId'
      BY <1>12, <2>2 DEF InsertPosition, TypeOK, IdInv
    <3>2. posId' \in Ids /\ posId' > lastId
      BY <3>1, PaperAssumption DEF Ids
    <3>3. recorded[posId'] = 0
      BY <3>2 DEF IdInv
    <3>4. crashes \in Nat
      BY PaperAssumption DEF TypeOK
    <3> QED BY <2>1, <3>3, <3>4
  <2>3. CASE outcome # "ok"
    BY <1>12, <2>1, <2>3 DEF InsertPosition
  <2> QED BY <2>2, <2>3
<1>13. ASSUME NEW outcome \in Outcomes, ClosePosition(outcome) PROVE RecordedInv'
  BY <1>13 DEF ClosePosition, ForgetPosition
<1>14. ASSUME NEW outcome \in TradeOutcomes, InsertTrade(outcome) PROVE RecordedInv'
  <2>1. posId \in Ids /\ pc' = "close" /\ crashes' = crashes
    BY <1>14, HeldTypes DEF InsertTrade, observed
  <2>2. ASSUME NEW i \in Ids PROVE recorded'[i] <= crashes + 1
    <3>1. recorded[i] \in Nat /\ recorded[posId] \in Nat /\ crashes \in Nat
      BY <2>1, PaperAssumption DEF TypeOK
    <3>2. recorded[i] <= crashes + 1 /\ recorded[posId] <= crashes
      BY <1>14 DEF InsertTrade
    <3>3. recorded' = recorded \/ recorded' = [recorded EXCEPT ![posId] = @ + 1]
      BY <1>14 DEF InsertTrade, RecordTrade
    <3>4. CASE i = posId
      BY <2>1, <3>1, <3>2, <3>3, <3>4 DEF TypeOK
    <3>5. CASE i # posId
      BY <2>1, <3>2, <3>3, <3>5 DEF TypeOK
    <3> QED BY <3>4, <3>5
  <2> QED BY <2>1, <2>2
<1>15. CASE Crash
  <2>1. /\ recorded' = recorded /\ crashes' = crashes + 1 /\ posId' = 0
        /\ crashes \in Nat /\ \A i \in Ids : recorded[i] \in Nat
    BY <1>15, PaperAssumption DEF Crash, Boot, tables, TypeOK
  <2>2. \A i \in Ids : recorded[i] <= crashes + 1
    OBVIOUS
  <2> QED BY <2>1, <2>2
<1>16. ASSUME NEW p \in Outcomes, NEW t \in Outcomes, NEW d \in Outcomes,
              Recover(p, t, d)
       PROVE  RecordedInv'
  <2>1. recorded' = recorded /\ crashes' = crashes /\ pc' = "idle" /\ pc = "down"
    BY <1>16 DEF Recover, tables, observed
  <2>2. posId' = posId \/ posId' = 0 \/ posId' \in Ids
    <3>1. OpenIds # {} => StoredPosition \in Ids
      BY StoredPositionType DEF OpenIds
    <3> QED BY <1>16, <3>1 DEF Recover, StoredPosition
  <2> QED BY <2>1, <2>2
<1>17. CASE UNCHANGED vars
  BY <1>17 DEF vars, memory, tables, positionTable, observed
<1> QED
  BY <1>1, <1>2, <1>3, <1>4, <1>5, <1>6, <1>7, <1>8, <1>9, <1>10,
     <1>11, <1>12, <1>13, <1>14, <1>15, <1>16, <1>17, StepCases

\* Counting keeps an order between two capped counters.
LEMMA CountToMonotone ==
    ASSUME NEW bound \in Nat, NEW m \in 0..bound, NEW n \in 0..bound, m <= n
    PROVE  CountTo(bound, m) <= CountTo(bound, n)
BY DEF CountTo

\* Ages and stored holding times are capped counters.
LEMMA BarsTypes ==
    ASSUME TypeOK
    PROVE  \A i \in Ids : /\ age[i] \in 0..HoldingBars
                          /\ rows[i].held \in 0..HoldingBars
<1> SUFFICES ASSUME NEW i \in Ids
             PROVE  age[i] \in 0..HoldingBars /\ rows[i].held \in 0..HoldingBars
  OBVIOUS
<1>1. rows[i] \in Position
  BY DEF TypeOK
<1> QED BY <1>1 DEF TypeOK, Position

\* Each step keeps BarsHeld behind the candles since the position was opened.
LEMMA BarsStep ==
    ASSUME TypeOK, ControlInv, IdInv, HeldMatchesStore, BarsInv, [Next]_vars
    PROVE  BarsInv'
<1> USE DEF BarsInv, BarsHeldNotAhead, ControlInv, HoldingSteps, EntrySteps
<1>1. CASE NewCandle
  <2>1. /\ posId' = posId /\ position' = position /\ draft' = draft /\ pc' = pc
        /\ rows' = rows /\ status' = status
        /\ age' = [i \in Ids |-> IF status[i] = "open" THEN CountTo(HoldingBars, age[i])
                                                       ELSE age[i]]
    BY <1>1 DEF NewCandle, tables, positionTable
  <2>2. ASSUME NEW i \in OpenIds
        PROVE  /\ i \in Ids
               /\ age'[i] = CountTo(HoldingBars, age[i])
               /\ age[i] \in 0..HoldingBars /\ age'[i] \in 0..HoldingBars
               /\ age[i] <= age'[i]
    <3>1. i \in Ids /\ status[i] = "open" /\ age[i] \in 0..HoldingBars
      BY <2>2, BarsTypes DEF OpenIds
    <3> QED BY <2>1, <3>1, CountToType, PaperAssumption
  <2>3. ASSUME NEW i \in OpenIds' PROVE rows'[i].held <= age'[i]
    <3>1. i \in OpenIds /\ rows[i].held <= age[i] /\ rows[i].held \in 0..HoldingBars
      BY <2>1, <2>3, BarsTypes DEF OpenIds
    <3> QED BY <2>1, <2>2, <3>1, PaperAssumption
  <2>4. ASSUME posId' # 0
        PROVE  /\ position'.held <= age'[posId']
               /\ CountTo(HoldingBars, position'.held) <= age'[posId']
    <3>1. posId \in OpenIds /\ position.held <= age[posId] /\ position.held \in 0..HoldingBars
      BY <2>1, <2>4, HeldTypes DEF HeldMatchesStore, OpenIds
    <3>2. CountTo(HoldingBars, position.held) <= CountTo(HoldingBars, age[posId])
      BY <2>2, <3>1, CountToMonotone, PaperAssumption
    <3> QED BY <2>1, <2>2, <3>1, <3>2, PaperAssumption
  <2> QED BY <2>1, <2>3, <2>4
<1>2. CASE BeginTick
  <2>1. /\ posId' = posId /\ draft' = draft /\ age' = age /\ rows' = rows /\ status' = status
        /\ seen' = "current" /\ pc' \notin EntrySteps
    BY <1>2 DEF BeginTick, tables, positionTable
  <2>2. OpenIds' = OpenIds
    BY <2>1 DEF OpenIds
  <2>3. ASSUME posId # 0 PROVE position'.held <= age[posId]
    <3>1. CASE position' = position
      BY <2>3, <3>1
    <3>2. CASE position' # position
      <4>1. seen = "older" /\ position' = [position EXCEPT !.held = CountTo(HoldingBars, position.held)]
        BY <1>2, <3>2 DEF BeginTick, NewBar
      <4>2. position'.held = CountTo(HoldingBars, position.held)
        BY <4>1 DEF TypeOK, Position
      <4> QED BY <2>3, <4>1, <4>2
    <3> QED BY <3>1, <3>2
  <2> QED BY <2>1, <2>2, <2>3
<1>3. CASE NoFeatures
  BY <1>3 DEF NoFeatures, memory, tables, positionTable, observed, OpenIds
<1>4. ASSUME NEW sig \in Signals, DecideFlat(sig) PROVE BarsInv'
  BY <1>4 DEF DecideFlat, memory, tables, positionTable, observed, OpenIds
<1>5. ASSUME NEW sig \in Signals, NEW c \in Candles, DecideExit(sig, c) PROVE BarsInv'
  BY <1>5 DEF DecideExit, memory, tables, positionTable, observed, OpenIds
<1>6. ASSUME NEW sig \in Signals, NEW c \in Candles, DecideHold(sig, c) PROVE BarsInv'
  <2>1. position'.held = position.held
    BY <1>6 DEF DecideHold, TypeOK, Position
  <2> QED BY <1>6, <2>1 DEF DecideHold, tables, positionTable, observed, OpenIds
<1>7. ASSUME NEW sig \in Signals, NEW c \in Candles, NEW premium \in Premiums,
             DecideEntry(sig, c, premium)
      PROVE  BarsInv'
  <2>1. draft'.held = 0
    BY <1>7 DEF DecideEntry
  <2> QED BY <1>7, <2>1 DEF DecideEntry, tables, positionTable, observed, OpenIds
<1>8. ASSUME NEW outcome \in Outcomes, PersistBarsHeld(outcome) PROVE BarsInv'
  <2>1. /\ posId' = posId /\ position' = position /\ draft' = draft /\ age' = age
        /\ status' = status /\ seen' = seen /\ pc' = "decide"
    BY <1>8 DEF PersistBarsHeld, memory, observed
  <2>2. posId \in Ids /\ position.held \in 0..HoldingBars /\ position.held <= age[posId]
    BY <1>8, HeldTypes DEF PersistBarsHeld
  <2>3. ASSUME NEW i \in OpenIds PROVE rows'[i].held <= age[i]
    <3>1. i \in Ids /\ rows[i] \in Position /\ rows[i].held <= age[i]
      BY <2>3 DEF OpenIds, TypeOK
    <3>2. CASE i = posId /\ rows' # rows
      <4>1. rows'[i].held = position.held
        BY <1>8, <3>1, <3>2 DEF PersistBarsHeld, TypeOK, Position
      <4> QED BY <2>2, <3>2, <4>1
    <3>3. CASE i # posId \/ rows' = rows
      <4>1. rows'[i] = rows[i]
        BY <1>8, <3>1, <3>3 DEF PersistBarsHeld, TypeOK
      <4> QED BY <3>1, <4>1
    <3> QED BY <3>2, <3>3
  <2>4. OpenIds' = OpenIds
    BY <2>1 DEF OpenIds
  <2> QED BY <2>1, <2>2, <2>3, <2>4
<1>9. ASSUME NEW outcome \in Outcomes, StartDay(outcome) PROVE BarsInv'
  BY <1>9 DEF StartDay, memory, tables, positionTable, observed, OpenIds
<1>10. ASSUME NEW outcome \in Outcomes, InsertOrder(outcome) PROVE BarsInv'
  BY <1>10 DEF InsertOrder, memory, tables, positionTable, observed, OpenIds
<1>11. ASSUME NEW outcome \in Outcomes, InsertFill(outcome) PROVE BarsInv'
  BY <1>11 DEF InsertFill, memory, tables, positionTable, observed, OpenIds
<1>12. ASSUME NEW outcome \in Outcomes, InsertPosition(outcome) PROVE BarsInv'
  <2>1. pc = "position" /\ pc' = "idle" /\ seen' = seen /\ seen = "current" /\ posId = 0
    BY <1>12 DEF InsertPosition
  <2>2. CASE outcome = "failed"
    BY <1>12, <2>1, <2>2 DEF InsertPosition, positionTable, OpenIds
  <2>3. CASE outcome # "failed"
    <3>1. lastId' \in Ids
      <4>1. lastId \in 0..MaxEntries /\ orders \in 0..MaxEntries /\ lastId < orders
            /\ lastId' = lastId + 1
        BY <1>12, <2>3 DEF InsertPosition, TypeOK, IdInv
      <4> QED BY <4>1, PaperAssumption DEF Ids
    <3>2. /\ rows'[lastId'] = draft /\ age'[lastId'] = 0 /\ draft.held = 0
          /\ \A i \in Ids : i # lastId' => /\ rows'[i] = rows[i] /\ age'[i] = age[i]
                                           /\ status'[i] = status[i]
      BY <1>12, <2>3, <3>1 DEF InsertPosition, TypeOK
    <3>3. ASSUME NEW i \in OpenIds' PROVE rows'[i].held <= age'[i]
      <4>1. i \in Ids /\ (i = lastId' \/ i \in OpenIds)
        BY <3>2, <3>3 DEF OpenIds
      <4> QED BY <3>2, <4>1 DEF OpenIds
    <3>4. posId' # 0 => posId' = lastId' /\ position' = draft
      BY <1>12, <2>1 DEF InsertPosition
    <3> QED BY <2>1, <3>2, <3>3, <3>4
  <2> QED BY <2>2, <2>3
<1>13. ASSUME NEW outcome \in Outcomes, ClosePosition(outcome) PROVE BarsInv'
  <2>1. \A i \in OpenIds' : i \in OpenIds
    BY <1>13 DEF ClosePosition, OpenIds, TypeOK
  <2> QED BY <1>13, <2>1 DEF ClosePosition, ForgetPosition
<1>14. ASSUME NEW outcome \in TradeOutcomes, InsertTrade(outcome) PROVE BarsInv'
  BY <1>14 DEF InsertTrade, memory, tables, positionTable, observed, OpenIds
<1>15. CASE Crash
  BY <1>15 DEF Crash, Boot, tables, positionTable, OpenIds
<1>16. ASSUME NEW p \in Outcomes, NEW t \in Outcomes, NEW d \in Outcomes,
              Recover(p, t, d)
       PROVE  BarsInv'
  <2>1. /\ age' = age /\ rows' = rows /\ status' = status /\ seen' = seen /\ seen = "zero"
        /\ pc' = "idle" /\ posId = 0
    BY <1>16 DEF Recover, tables, positionTable, observed
  <2>2. OpenIds' = OpenIds
    BY <2>1 DEF OpenIds
  <2>3. posId' = 0 \/ (posId' \in OpenIds /\ position' = rows[posId'])
    <3>1. OpenIds # {} => StoredPosition \in OpenIds
      BY StoredPositionType
    <3>2. \A i \in OpenIds : i # 0
      BY PaperAssumption DEF OpenIds, Ids
    <3> QED BY <1>16, <2>1, <3>1, <3>2 DEF Recover, StoredPosition
  <2> QED BY <2>1, <2>2, <2>3
<1>17. CASE UNCHANGED vars
  BY <1>17 DEF vars, memory, tables, positionTable, observed, OpenIds
<1> QED
  BY <1>1, <1>2, <1>3, <1>4, <1>5, <1>6, <1>7, <1>8, <1>9, <1>10,
     <1>11, <1>12, <1>13, <1>14, <1>15, <1>16, <1>17, StepCases

\* Each step keeps the gate's countdown no shorter than the bars still missing.
LEMMA CooldownStep ==
    ASSUME TypeOK, ControlInv, CooldownInv, [Next]_vars
    PROVE  CooldownInv'
<1> USE GateAssumption DEF CooldownInv, EntrySteps
<1>1. CASE NewCandle
  BY <1>1 DEF NewCandle, tables, positionTable
<1>2. CASE BeginTick
  <2>1. pc' \notin EntrySteps
    BY <1>2 DEF BeginTick
  <2>2. CASE ~fresh'
    BY <1>2, <2>1, <2>2 DEF BeginTick
  <2>3. CASE fresh'
    <3>1. gate' = OnBar(gate) /\ sinceClose' = CountTo(CooldownBars, sinceClose)
      BY <1>2, <2>3 DEF BeginTick
    <3>2. /\ gate.state \in {"idle", "cooldown"} /\ gate.cooldown \in Int
          /\ sinceClose \in 0..CooldownBars
      BY DEF TypeOK, Gate, GateStates
    <3>3. CASE gate.state = "idle"
      BY <2>1, <3>1, <3>2, <3>3 DEF OnBar, CountTo
    <3>4. CASE gate.state = "cooldown"
      <4>1. /\ gate'.cooldown = gate.cooldown - 1
            /\ gate'.state = IF gate.cooldown - 1 <= 0 THEN "idle" ELSE "cooldown"
        BY <3>1, <3>4 DEF OnBar, TypeOK, Gate
      <4> QED BY <2>1, <3>1, <3>2, <3>4, <4>1 DEF CountTo
    <3> QED BY <3>2, <3>3, <3>4
  <2> QED BY <2>2, <2>3
<1>3. CASE NoFeatures
  BY <1>3 DEF NoFeatures, memory, tables, positionTable, observed
<1>4. ASSUME NEW sig \in Signals, DecideFlat(sig) PROVE CooldownInv'
  BY <1>4 DEF DecideFlat, memory, tables, positionTable, observed
<1>5. ASSUME NEW sig \in Signals, NEW c \in Candles, DecideExit(sig, c) PROVE CooldownInv'
  BY <1>5 DEF DecideExit, memory, tables, positionTable, observed
<1>6. ASSUME NEW sig \in Signals, NEW c \in Candles, DecideHold(sig, c) PROVE CooldownInv'
  BY <1>6 DEF DecideHold, tables, positionTable, observed
<1>7. ASSUME NEW sig \in Signals, NEW c \in Candles, NEW premium \in Premiums,
             DecideEntry(sig, c, premium)
      PROVE  CooldownInv'
  <2>1. gate' = gate /\ sinceClose' = sinceClose
    BY <1>7 DEF DecideEntry, observed
  <2>2. gate.state = "idle"
    <3>1. Admits(gate)
      BY <1>7 DEF DecideEntry, EntryDue, Evaluate
    <3> QED BY <3>1 DEF Admits, TypeOK, Gate, GateStates
  <2> QED BY <2>1, <2>2
<1>8. ASSUME NEW outcome \in Outcomes, PersistBarsHeld(outcome) PROVE CooldownInv'
  BY <1>8 DEF PersistBarsHeld, memory, observed
<1>9. ASSUME NEW outcome \in Outcomes, StartDay(outcome) PROVE CooldownInv'
  <2>1. gate' = ResetDay(gate, account'.dayPnL) /\ sinceClose' = sinceClose /\ pc' = "decide"
    BY <1>9 DEF StartDay, observed
  <2>2. gate'.state = gate.state /\ gate'.cooldown = gate.cooldown
    BY <2>1 DEF ResetDay, TypeOK, Gate
  <2> QED BY <2>1, <2>2
<1>10. ASSUME NEW outcome \in Outcomes, InsertOrder(outcome) PROVE CooldownInv'
  BY <1>10 DEF InsertOrder, positionTable, observed
<1>11. ASSUME NEW outcome \in Outcomes, InsertFill(outcome) PROVE CooldownInv'
  BY <1>11 DEF InsertFill, memory, positionTable, observed
<1>12. ASSUME NEW outcome \in Outcomes, InsertPosition(outcome) PROVE CooldownInv'
  <2>1. sinceClose' = sinceClose /\ pc' = "idle"
    BY <1>12 DEF InsertPosition
  <2>2. gate'.state = gate.state /\ gate'.cooldown = gate.cooldown
    BY <1>12 DEF InsertPosition, OnTradePlaced, TypeOK, Gate
  <2> QED BY <2>1, <2>2, <1>12 DEF InsertPosition
<1>13. ASSUME NEW outcome \in Outcomes, ClosePosition(outcome) PROVE CooldownInv'
  <2>1. sinceClose' = 0 /\ pc' = "idle"
    BY <1>13 DEF ClosePosition
  <2>2. gate'.state = "cooldown" /\ gate'.cooldown = CooldownBars
    <3>1. UpdatePnl(gate, net) \in Gate
      BY GateType DEF TypeOK
    <3>2. gate' = OnTradeClosed(UpdatePnl(gate, net))
      BY <1>13 DEF ClosePosition, BookClose
    <3> HIDE DEF CooldownInv
    <3> QED BY <3>1, <3>2 DEF OnTradeClosed, Gate
  <2> QED BY <2>1, <2>2, GateAssumption
<1>14. ASSUME NEW outcome \in TradeOutcomes, InsertTrade(outcome) PROVE CooldownInv'
  BY <1>14 DEF InsertTrade, memory, positionTable, observed
<1>15. CASE Crash
  BY <1>15, GateAssumption DEF Crash, Boot, NewGate
<1>16. ASSUME NEW p \in Outcomes, NEW t \in Outcomes, NEW d \in Outcomes,
              Recover(p, t, d)
       PROVE  CooldownInv'
  BY <1>16 DEF Recover, tables, positionTable, observed
<1>17. CASE UNCHANGED vars
  BY <1>17 DEF vars, memory, tables, positionTable, observed
<1> QED
  BY <1>1, <1>2, <1>3, <1>4, <1>5, <1>6, <1>7, <1>8, <1>9, <1>10,
     <1>11, <1>12, <1>13, <1>14, <1>15, <1>16, <1>17, StepCases

-----------------------------------------------------------------------------
\* Every step keeps the types, given that ids stay within their bound.
LEMMA TypeStep ==
    ASSUME TypeOK, IdInv, [Next]_vars
    PROVE  TypeOK'
<1>1. CASE NewCandle
  BY <1>1, TypeNewCandle
<1>2. CASE BeginTick
  BY <1>2, TypeBeginTick
<1>3. CASE NoFeatures
  BY <1>3, TypeNothingDone
<1>4. ASSUME NEW sig \in Signals, DecideFlat(sig) PROVE TypeOK'
  BY <1>4, TypeNothingDone
<1>5. ASSUME NEW sig \in Signals, NEW c \in Candles, DecideExit(sig, c) PROVE TypeOK'
  BY <1>5, TypeDecideExit
<1>6. ASSUME NEW sig \in Signals, NEW c \in Candles, DecideHold(sig, c) PROVE TypeOK'
  BY <1>6, TypeDecideHold
<1>7. ASSUME NEW sig \in Signals, NEW c \in Candles, NEW premium \in Premiums,
             DecideEntry(sig, c, premium)
      PROVE  TypeOK'
  BY <1>7, TypeDecideEntry
<1>8. ASSUME NEW outcome \in Outcomes, PersistBarsHeld(outcome) PROVE TypeOK'
  BY <1>8, TypePersist
<1>9. ASSUME NEW outcome \in Outcomes, StartDay(outcome) PROVE TypeOK'
  BY <1>9, TypeStartDay
<1>10. ASSUME NEW outcome \in Outcomes, InsertOrder(outcome) PROVE TypeOK'
  BY <1>10, TypeInsertOrder
<1>11. ASSUME NEW outcome \in Outcomes, InsertFill(outcome) PROVE TypeOK'
  BY <1>11, TypeInsertFill
<1>12. ASSUME NEW outcome \in Outcomes, InsertPosition(outcome) PROVE TypeOK'
  BY <1>12, TypeInsertPosition
<1>13. ASSUME NEW outcome \in Outcomes, ClosePosition(outcome) PROVE TypeOK'
  BY <1>13, TypeClosePosition
<1>14. ASSUME NEW outcome \in TradeOutcomes, InsertTrade(outcome) PROVE TypeOK'
  BY <1>14, TypeInsertTrade
<1>15. CASE Crash
  BY <1>15, TypeCrash
<1>16. ASSUME NEW p \in Outcomes, NEW t \in Outcomes, NEW d \in Outcomes,
              Recover(p, t, d)
       PROVE  TypeOK'
  BY <1>16, TypeRecover
<1>17. CASE UNCHANGED vars
  BY <1>17, TypeNothingDone
<1> QED
  BY <1>1, <1>2, <1>3, <1>4, <1>5, <1>6, <1>7, <1>8, <1>9, <1>10,
     <1>11, <1>12, <1>13, <1>14, <1>15, <1>16, <1>17, StepCases

(***************************************************************************)
(* The inductive invariant and what follows from it.                       *)
(***************************************************************************)
\* The initial state satisfies every part of the inductive invariant.
LEMMA InductiveInit == Init => Inductive
<1> SUFFICES ASSUME Init PROVE Inductive
  OBVIOUS
<1> USE PaperAssumption, GateAssumption DEF Init
<1>1. TypeOK
  BY TypeInit
<1>2. ControlInv
  BY DEF ControlInv, EntrySteps, HoldingSteps
<1>3. IdInv
  BY DEF IdInv, Ids
<1>4. HeldMatchesStore
  BY DEF HeldMatchesStore
<1>5. RecordedInv
  BY DEF RecordedInv, TradedOncePerLife, Ids
<1>6. BarsInv
  BY DEF BarsInv, BarsHeldNotAhead, OpenIds, EntrySteps
<1>7. CooldownInv
  BY DEF CooldownInv, NewGate, EntrySteps
<1> QED BY <1>1, <1>2, <1>3, <1>4, <1>5, <1>6, <1>7 DEF Inductive

\* Each part of the inductive invariant is kept by every step that starts where all
\* of them hold.
LEMMA InductiveStep == Inductive /\ [Next]_vars => Inductive'
BY TypeStep, ControlStep, IdStep, HeldStep, RecordedStep, BarsStep, CooldownStep
   DEF Inductive

\* Whatever store calls fail or lose their reply, and wherever the process crashes,
\* the inductive invariant holds.
THEOREM InductiveInvariant == Spec => []Inductive
BY InductiveInit, InductiveStep, PTL DEF Spec

\* Every variable keeps its type, for every number of ids, days and crashes.
THEOREM TypeCorrect == Spec => []TypeOK
<1>1. Inductive => TypeOK
  BY DEF Inductive
<1> QED BY <1>1, InductiveInvariant, PTL

\* Whatever store calls fail and wherever the process crashes, the position the
\* engine manages is an open row of paper_positions.
THEOREM MemoryMatchesTable == Spec => []HeldMatchesStore
<1>1. Inductive => HeldMatchesStore
  BY DEF Inductive
<1> QED BY <1>1, InductiveInvariant, PTL

\* A crash repeats a trade row at most once; nothing else repeats one.
THEOREM TradesNotRepeated == Spec => []TradedOncePerLife
<1>1. Inductive => TradedOncePerLife
  BY DEF Inductive, RecordedInv
<1> QED BY <1>1, InductiveInvariant, PTL

\* No restart and no failed update makes the holding time run ahead of the bars.
THEOREM HoldingTimeNotAhead == Spec => []BarsHeldNotAhead
<1>1. Inductive => BarsHeldNotAhead
  BY DEF Inductive, BarsInv
<1> QED BY <1>1, InductiveInvariant, PTL

\* No entry follows a close by fewer than CooldownBars bars.
THEOREM CooldownKept == Spec => CooldownRespected
<1>1. Inductive /\ [Next]_vars => [lastId' # lastId => sinceClose >= CooldownBars]_vars
  <2> SUFFICES ASSUME Inductive, Next, lastId' # lastId
               PROVE  sinceClose >= CooldownBars
    OBVIOUS
  <2>1. pc = "position"
    BY StepCases DEF NewCandle, BeginTick, NoFeatures, DecideExit, DecideHold, DecideEntry,
       DecideFlat, PersistBarsHeld, StartDay, InsertOrder, InsertFill, InsertPosition,
       ClosePosition, InsertTrade, Crash, Recover, tables, positionTable
  <2> QED BY <2>1 DEF Inductive, CooldownInv, EntrySteps
<1> QED BY <1>1, InductiveInvariant, PTL DEF Spec, CooldownRespected

-----------------------------------------------------------------------------
(***************************************************************************)
(* A store that works.  The invariant of this part is about which rows are *)
(* there for what the process remembers, so it needs every call to be      *)
(* applied and answered; a crash can still come between any two.           *)
(***************************************************************************)
\* No call of the store ends in an error.
StoreWorks == Outcomes \subseteq {"ok"} /\ TradeOutcomes \subseteq {"ok"}

\* One open row at most, and it is the one in memory.
AloneInv ==
    /\ OneOpenPosition
    /\ pc # "down" => \A i \in OpenIds : i = posId

\* The books in memory are the tables', but for the trade written and not booked yet.
BooksInv ==
    /\ pc # "down" => account.totalPnL = IF pc = "close" THEN ledger.total - net
                                                        ELSE ledger.total
    /\ ClosedIsRecorded
    /\ pc = "close" => recorded[posId] >= 1
    /\ orders - lastId <= IF pc \in {"fill", "position"} THEN crashes + 1 ELSE crashes

\* An entry is made on the day the account is at.
DayInv ==
    /\ pc = "reset" => day # account.currentDay
    /\ pc = "decide" /\ fresh /\ posId = 0 => day = account.currentDay
    /\ pc \in EntrySteps => day = account.currentDay /\ draft.day = day

\* A day on which this life of the process has opened nothing.
Untouched(d) == pc = "down" \/ d > day \/ (d = day /\ day # account.currentDay)

\* What earlier lives may have opened on one day.
Earlier == MaxTradesPerDay * crashes

\* The gate counts this life's entries of the day the account is at.
BudgetInv ==
    /\ gate.tradeCount <= MaxTradesPerDay
    /\ pc \in EntrySteps => gate.tradeCount < MaxTradesPerDay
    /\ \A d \in Days :
          /\ EntriesOn(d) <= Earlier + MaxTradesPerDay
          /\ Untouched(d) => EntriesOn(d) <= Earlier
          /\ d = day /\ day = account.currentDay => EntriesOn(d) <= Earlier + gate.tradeCount

\* In the first life no trade belongs to a day not entered yet, so a new day
\* begins without a loss, and a loss that reaches the limit has stopped the engine.
FirstLifeInv ==
    crashes = 0 =>
       /\ pc = "down" => OpenIds = {}
       /\ \A d \in Days : Untouched(d) => ledger.pnl[d] = 0
       /\ posId # 0 => /\ position.day <= day
                       /\ day # account.currentDay => position.day # day
       /\ account.dayPnL <= -MaxDailyLoss => account.state = "stopped"

-----------------------------------------------------------------------------
\* With a store that works, each step leaves one open row at most, and none but the
\* engine's while it runs.
LEMMA AloneStep ==
    ASSUME StoreWorks, Inductive, AloneInv, [Next]_vars
    PROVE  AloneInv'
<1> USE DEF StoreWorks, AloneInv, OneOpenPosition, OpenIds
<1>0. TypeOK /\ ControlInv /\ IdInv /\ HeldMatchesStore
  BY DEF Inductive
<1>1. CASE NewCandle
  BY <1>1 DEF NewCandle, memory, tables, positionTable, observed
<1>2. CASE BeginTick
  BY <1>2 DEF BeginTick, memory, tables, positionTable, observed
<1>3. CASE NoFeatures
  BY <1>3 DEF NoFeatures, memory, tables, positionTable, observed
<1>4. ASSUME NEW sig \in Signals, DecideFlat(sig) PROVE AloneInv'
  BY <1>4 DEF DecideFlat, memory, tables, positionTable, observed
<1>5. ASSUME NEW sig \in Signals, NEW c \in Candles, DecideExit(sig, c) PROVE AloneInv'
  BY <1>5 DEF DecideExit, memory, tables, positionTable, observed
<1>6. ASSUME NEW sig \in Signals, NEW c \in Candles, DecideHold(sig, c) PROVE AloneInv'
  BY <1>6 DEF DecideHold, memory, tables, positionTable, observed
<1>7. ASSUME NEW sig \in Signals, NEW c \in Candles, NEW premium \in Premiums,
             DecideEntry(sig, c, premium)
      PROVE  AloneInv'
  BY <1>7 DEF DecideEntry, memory, tables, positionTable, observed
<1>8. ASSUME NEW outcome \in Outcomes, PersistBarsHeld(outcome) PROVE AloneInv'
  BY <1>8 DEF PersistBarsHeld, memory, tables, positionTable, observed
<1>9. ASSUME NEW outcome \in Outcomes, StartDay(outcome) PROVE AloneInv'
  BY <1>9 DEF StartDay, memory, tables, positionTable, observed
<1>10. ASSUME NEW outcome \in Outcomes, InsertOrder(outcome) PROVE AloneInv'
  BY <1>10 DEF InsertOrder, memory, tables, positionTable, observed
<1>11. ASSUME NEW outcome \in Outcomes, InsertFill(outcome) PROVE AloneInv'
  BY <1>11 DEF InsertFill, memory, tables, positionTable, observed
<1>12. ASSUME NEW outcome \in Outcomes, InsertPosition(outcome) PROVE AloneInv'
  <2>1. /\ outcome = "ok" /\ posId = 0 /\ pc # "down"
        /\ status' = [status EXCEPT ![lastId'] = "open"] /\ posId' = lastId'
    BY <1>12, <1>0 DEF InsertPosition, ControlInv, EntrySteps
  <2>2. \A i \in Ids : status[i] # "open"
    BY <1>0, <2>1, PaperAssumption DEF Ids
  <2> QED BY <1>0, <2>1, <2>2 DEF TypeOK
<1>13. ASSUME NEW outcome \in Outcomes, ClosePosition(outcome) PROVE AloneInv'
  <2>1. /\ outcome = "ok" /\ pc # "down"
        /\ status' = [status EXCEPT ![posId] = "closed"]
    BY <1>13 DEF ClosePosition
  <2>2. \A i \in Ids : status'[i] # "open"
    BY <1>0, <2>1 DEF TypeOK
  <2> QED BY <2>2
<1>14. ASSUME NEW outcome \in TradeOutcomes, InsertTrade(outcome) PROVE AloneInv'
  BY <1>14 DEF InsertTrade, memory, tables, positionTable, observed
<1>15. CASE Crash
  BY <1>15 DEF Crash, memory, tables, positionTable, observed
<1>16. ASSUME NEW p \in Outcomes, NEW t \in Outcomes, NEW d \in Outcomes,
              Recover(p, t, d)
       PROVE  AloneInv'
  <2>1. p = "ok" /\ status' = status /\ posId' = StoredPosition
    BY <1>16 DEF Recover, tables, positionTable
  <2>2. OpenIds # {} => StoredPosition \in OpenIds
    BY <1>0, StoredPositionType
  <2> QED BY <2>1, <2>2
<1>17. CASE UNCHANGED vars
  BY <1>17 DEF vars, memory, tables, positionTable, observed
<1> QED
  BY <1>1, <1>2, <1>3, <1>4, <1>5, <1>6, <1>7, <1>8, <1>9, <1>10,
     <1>11, <1>12, <1>13, <1>14, <1>15, <1>16, <1>17, StepCases

\* With a store that works, each step keeps the books those of the tables.
LEMMA BooksStep ==
    ASSUME StoreWorks, Inductive, BooksInv, [Next]_vars
    PROVE  BooksInv'
<1> USE DEF StoreWorks, BooksInv, ClosedIsRecorded
<1>0. TypeOK /\ ControlInv /\ IdInv /\ HeldMatchesStore
  BY DEF Inductive
<1>a. lastId \in Int /\ orders \in Int /\ crashes \in Int
  BY <1>0 DEF TypeOK
<1>1. CASE NewCandle
  BY <1>1, <1>0 DEF NewCandle, memory, tables, positionTable, observed
<1>2. CASE BeginTick
  BY <1>2, <1>0 DEF BeginTick, memory, tables, positionTable, observed
<1>3. CASE NoFeatures
  BY <1>3, <1>0 DEF NoFeatures, memory, tables, positionTable, observed
<1>4. ASSUME NEW sig \in Signals, DecideFlat(sig) PROVE BooksInv'
  BY <1>4, <1>0 DEF DecideFlat, memory, tables, positionTable, observed
<1>5. ASSUME NEW sig \in Signals, NEW c \in Candles, DecideExit(sig, c) PROVE BooksInv'
  BY <1>5, <1>0 DEF DecideExit, memory, tables, positionTable, observed
<1>6. ASSUME NEW sig \in Signals, NEW c \in Candles, DecideHold(sig, c) PROVE BooksInv'
  BY <1>6, <1>0 DEF DecideHold, memory, tables, positionTable, observed
<1>7. ASSUME NEW sig \in Signals, NEW c \in Candles, NEW premium \in Premiums,
             DecideEntry(sig, c, premium)
      PROVE  BooksInv'
  BY <1>7, <1>0 DEF DecideEntry, memory, tables, positionTable, observed
<1>8. ASSUME NEW outcome \in Outcomes, PersistBarsHeld(outcome) PROVE BooksInv'
  BY <1>8, <1>0 DEF PersistBarsHeld, memory, tables, positionTable, observed
<1>9. ASSUME NEW outcome \in Outcomes, StartDay(outcome) PROVE BooksInv'
  BY <1>9, <1>0 DEF StartDay, memory, tables, positionTable, observed
<1>10. ASSUME NEW outcome \in Outcomes, InsertOrder(outcome) PROVE BooksInv'
  <2>1. outcome = "ok" /\ pc = "order" /\ pc' = "fill" /\ orders' = orders + 1
    BY <1>10 DEF InsertOrder
  <2> QED BY <1>10, <2>1, <1>a DEF InsertOrder, memory, tables, positionTable, observed
<1>11. ASSUME NEW outcome \in Outcomes, InsertFill(outcome) PROVE BooksInv'
  BY <1>11, <1>0 DEF InsertFill, memory, tables, positionTable, observed
<1>12. ASSUME NEW outcome \in Outcomes, InsertPosition(outcome) PROVE BooksInv'
  <2>1. /\ outcome = "ok" /\ pc = "position" /\ pc' = "idle"
        /\ status' = [status EXCEPT ![lastId'] = "open"] /\ lastId' = lastId + 1
        /\ UNCHANGED <<orders, recorded, ledger, crashes>>
        /\ account' = [account EXCEPT !.balance = @ - Commission(draft.qty)]
    BY <1>12 DEF InsertPosition
  <2>2. account'.totalPnL = account.totalPnL
    BY <1>0, <2>1 DEF TypeOK, Account
  <2>3. ClosedIsRecorded'
    BY <1>0, <2>1 DEF TypeOK
  <2>4. orders' - lastId' <= crashes'
    BY <1>a, <2>1
  <2> QED BY <2>1, <2>2, <2>3, <2>4
<1>13. ASSUME NEW outcome \in Outcomes, ClosePosition(outcome) PROVE BooksInv'
  <2>1. /\ pc = "close" /\ pc' = "idle" /\ outcome = "ok"
        /\ status' = [status EXCEPT ![posId] = "closed"]
        /\ UNCHANGED <<orders, lastId, recorded, ledger, crashes>>
    BY <1>13 DEF ClosePosition
  <2>2. account'.totalPnL = account.totalPnL + net
    BY <1>13, <1>0 DEF ClosePosition, BookClose, TypeOK, Account
  <2>3. account'.totalPnL = ledger.total
    BY <1>0, <2>1, <2>2 DEF TypeOK
  <2>4. ClosedIsRecorded'
    BY <1>0, <2>1 DEF TypeOK
  <2> QED BY <2>1, <2>3, <2>4
<1>14. ASSUME NEW outcome \in TradeOutcomes, InsertTrade(outcome) PROVE BooksInv'
  <2>1. /\ pc = "trade" /\ pc' = "close" /\ outcome = "ok"
        /\ recorded' = [recorded EXCEPT ![posId] = @ + 1]
        /\ ledger'.total = ledger.total + net
        /\ UNCHANGED <<posId, net, account, status, orders, lastId, crashes>>
    BY <1>14 DEF InsertTrade, RecordTrade, memory, positionTable, observed
  <2>2. posId \in Ids
    BY <1>0, <2>1, HeldIsOpen DEF ControlInv, HoldingSteps
  <2>3. recorded'[posId] >= 1 /\ \A i \in Ids : recorded'[i] >= recorded[i]
    BY <1>0, <2>1, <2>2 DEF TypeOK
  <2>4. account.totalPnL = ledger'.total - net
    BY <1>0, <2>1 DEF TypeOK
  <2>5. ClosedIsRecorded'
    BY <1>0, <2>1, <2>3 DEF TypeOK
  <2>6. orders' - lastId' <= crashes'
    BY <2>1
  <2> QED BY <2>1, <2>3, <2>4, <2>5, <2>6
<1>15. CASE Crash
  BY <1>15, <1>a DEF Crash, tables, positionTable
<1>16. ASSUME NEW p \in Outcomes, NEW t \in Outcomes, NEW d \in Outcomes,
              Recover(p, t, d)
       PROVE  BooksInv'
  <2>1. /\ pc = "down" /\ pc' = "idle" /\ UNCHANGED <<tables, crashes>>
        /\ \E today \in Days : account' = StoredAccount("ok", d, today)
    BY <1>16 DEF Recover, observed
  <2>2. account'.totalPnL = ledger.total
    BY <2>1 DEF StoredAccount, NewAccount
  <2> QED BY <2>1, <2>2, <1>a DEF tables, positionTable
<1>17. CASE UNCHANGED vars
  BY <1>17, <1>0 DEF vars, memory, tables, positionTable, observed
<1> QED
  BY <1>1, <1>2, <1>3, <1>4, <1>5, <1>6, <1>7, <1>8, <1>9, <1>10,
     <1>11, <1>12, <1>13, <1>14, <1>15, <1>16, <1>17, StepCases

\* Each step keeps entries on the day the account is at.
LEMMA DayStep ==
    ASSUME Inductive, DayInv, [Next]_vars
    PROVE  DayInv'
<1> USE DEF DayInv, EntrySteps
<1>0. TypeOK /\ ControlInv
  BY DEF Inductive
<1>1. CASE NewCandle
  BY <1>1, <1>0 DEF NewCandle, memory, tables, positionTable, observed
<1>2. CASE BeginTick
  BY <1>2, <1>0 DEF BeginTick, memory, tables, positionTable, observed
<1>3. CASE NoFeatures
  BY <1>3, <1>0 DEF NoFeatures, memory, tables, positionTable, observed
<1>4. ASSUME NEW sig \in Signals, DecideFlat(sig) PROVE DayInv'
  BY <1>4, <1>0 DEF DecideFlat, memory, tables, positionTable, observed
<1>5. ASSUME NEW sig \in Signals, NEW c \in Candles, DecideExit(sig, c) PROVE DayInv'
  BY <1>5 DEF DecideExit, memory, tables, positionTable, observed
<1>6. ASSUME NEW sig \in Signals, NEW c \in Candles, DecideHold(sig, c) PROVE DayInv'
  BY <1>6 DEF DecideHold, memory, tables, positionTable, observed
<1>7. ASSUME NEW sig \in Signals, NEW c \in Candles, NEW premium \in Premiums,
             DecideEntry(sig, c, premium)
      PROVE  DayInv'
  BY <1>7 DEF DecideEntry, EntryDue
<1>8. ASSUME NEW outcome \in Outcomes, PersistBarsHeld(outcome) PROVE DayInv'
  BY <1>8, <1>0 DEF PersistBarsHeld, memory, tables, positionTable, observed, ControlInv, HoldingSteps
<1>9. ASSUME NEW outcome \in Outcomes, StartDay(outcome) PROVE DayInv'
  <2>1. account'.currentDay = day
    BY <1>9, <1>0 DEF StartDay, TypeOK, Account
  <2> QED BY <1>9, <2>1 DEF StartDay
<1>10. ASSUME NEW outcome \in Outcomes, InsertOrder(outcome) PROVE DayInv'
  BY <1>10, <1>0 DEF InsertOrder, memory, tables, positionTable, observed
<1>11. ASSUME NEW outcome \in Outcomes, InsertFill(outcome) PROVE DayInv'
  BY <1>11, <1>0 DEF InsertFill, memory, tables, positionTable, observed
<1>12. ASSUME NEW outcome \in Outcomes, InsertPosition(outcome) PROVE DayInv'
  BY <1>12, <1>0 DEF InsertPosition, memory, tables, positionTable, observed
<1>13. ASSUME NEW outcome \in Outcomes, ClosePosition(outcome) PROVE DayInv'
  BY <1>13, <1>0 DEF ClosePosition, memory, tables, positionTable, observed
<1>14. ASSUME NEW outcome \in TradeOutcomes, InsertTrade(outcome) PROVE DayInv'
  BY <1>14, <1>0 DEF InsertTrade, memory, tables, positionTable, observed
<1>15. CASE Crash
  BY <1>15, <1>0 DEF Crash, memory, tables, positionTable, observed
<1>16. ASSUME NEW p \in Outcomes, NEW t \in Outcomes, NEW d \in Outcomes,
              Recover(p, t, d)
       PROVE  DayInv'
  BY <1>16, <1>0 DEF Recover, memory, tables, positionTable, observed
<1>17. CASE UNCHANGED vars
  BY <1>17, <1>0 DEF vars, memory, tables, positionTable, observed
<1> QED
  BY <1>1, <1>2, <1>3, <1>4, <1>5, <1>6, <1>7, <1>8, <1>9, <1>10,
     <1>11, <1>12, <1>13, <1>14, <1>15, <1>16, <1>17, StepCases

\* Two states with the same rows have the same entries on every day.
LEMMA SameEntries ==
    ASSUME \A i \in Ids : /\ status'[i] = "absent" <=> status[i] = "absent"
                          /\ rows'[i].day = rows[i].day
    PROVE  \A d \in Days : EntriesOn(d)' = EntriesOn(d)
<1> TAKE d \in Days
<1>1. {i \in Ids : status'[i] # "absent" /\ rows'[i].day = d}
        = {i \in Ids : status[i] # "absent" /\ rows[i].day = d}
  OBVIOUS
<1> QED BY <1>1 DEF EntriesOn

\* The entries of a day are a number.
LEMMA EntriesType == \A d \in Days : EntriesOn(d) \in Nat
<1> TAKE d \in Days
<1>1. IsFiniteSet(Ids)
  BY PaperAssumption, FS_Interval DEF Ids
<1>2. IsFiniteSet({i \in Ids : status[i] # "absent" /\ rows[i].day = d})
  BY <1>1, FS_Subset
<1> QED BY <1>2, FS_CardinalityType DEF EntriesOn

\* A new row is one entry more on its day, and none on another.
LEMMA NewEntry ==
    ASSUME TypeOK, NEW n \in Ids, status[n] = "absent",
           status' = [status EXCEPT ![n] = "open"], rows' = [rows EXCEPT ![n] = draft]
    PROVE  \A d \in Days :
              EntriesOn(d)' = IF d = draft.day THEN EntriesOn(d) + 1 ELSE EntriesOn(d)
<1> TAKE d \in Days
<1> DEFINE Old == {i \in Ids : status[i] # "absent" /\ rows[i].day = d}
           New == {i \in Ids : status'[i] # "absent" /\ rows'[i].day = d}
<1>1. IsFiniteSet(Old)
  <2>1. IsFiniteSet(Ids)
    BY PaperAssumption, FS_Interval DEF Ids
  <2> QED BY <2>1, FS_Subset
<1>2. n \notin Old
  OBVIOUS
<1>3. \A i \in Ids \ {n} : status'[i] = status[i] /\ rows'[i] = rows[i]
  BY DEF TypeOK
<1>4. status'[n] = "open" /\ rows'[n] = draft
  BY DEF TypeOK
<1>5. CASE d = draft.day
  <2>1. New = Old \cup {n}
    BY <1>3, <1>4, <1>5
  <2>2. Cardinality(New) = Cardinality(Old) + 1
    <3> HIDE DEF Old, New
    <3> QED BY <1>1, <1>2, <2>1, FS_AddElement
  <2> QED BY <1>5, <2>2 DEF EntriesOn
<1>6. CASE d # draft.day
  <2>1. New = Old
    BY <1>3, <1>4, <1>6
  <2> QED BY <1>6, <2>1 DEF EntriesOn
<1> QED BY <1>5, <1>6

\* With a store that works, each step keeps the entries within what the gate counts.
LEMMA BudgetStep ==
    ASSUME StoreWorks, Inductive, DayInv, BudgetInv, [Next]_vars
    PROVE  BudgetInv'
<1> USE DEF BudgetInv, Untouched, EntrySteps
<1>0. TypeOK /\ ControlInv /\ IdInv /\ HeldMatchesStore
  BY DEF Inductive
<1>a. /\ day \in Nat /\ gate \in Gate /\ gate.tradeCount \in Nat /\ Days \subseteq Nat
      /\ MaxTradesPerDay \in Nat
  BY <1>0, GateAssumption DEF TypeOK, Days, Gate
<1>b. Earlier \in Nat
  BY <1>0, GateAssumption, PaperAssumption DEF TypeOK, Earlier
<1>c. \A d \in Days : EntriesOn(d) \in Nat
  BY EntriesType
<1>d. crashes' = crashes => Earlier' = Earlier
  BY DEF Earlier
<1>e. status' = status /\ rows' = rows => \A d \in Days : EntriesOn(d)' = EntriesOn(d)
  BY SameEntries
<1>1. CASE NewCandle
  <2>1. /\ UNCHANGED <<pc, gate, account, crashes, status, rows>>
        /\ day' \in Nat /\ day' >= day /\ pc \notin EntrySteps
    BY <1>1, <1>a DEF NewCandle, tables, positionTable, Days
  <2>2. ASSUME NEW d \in Days
        PROVE  /\ Untouched(d)' => Untouched(d)
               /\ d = day' /\ day' = account'.currentDay => d = day \/ Untouched(d)
    BY <2>1, <1>a
  <2> HIDE DEF Untouched
  <2> QED BY <2>1, <2>2, <1>a, <1>b, <1>c, <1>d, <1>e
<1>2. CASE BeginTick
  <2>1. gate'.tradeCount = gate.tradeCount
    BY <1>2, <1>a, BarFields DEF BeginTick
  <2>2. /\ UNCHANGED <<account, day, crashes, status, rows>>
        /\ pc # "down" /\ pc' # "down" /\ pc' \notin EntrySteps
    BY <1>2 DEF BeginTick, tables, positionTable
  <2> QED BY <2>1, <2>2, <1>d, <1>e
<1>3. CASE NoFeatures
  <2>1. /\ gate'.tradeCount = gate.tradeCount /\ account'.currentDay = account.currentDay
        /\ UNCHANGED <<day, crashes, status, rows>>
        /\ pc # "down" /\ pc' # "down" /\ (pc' \in EntrySteps => pc \in EntrySteps)
    BY <1>3, <1>0, <1>a DEF NoFeatures, memory, tables, positionTable, observed, TypeOK, Account
  <2> QED BY <2>1, <1>d, <1>e
<1>4. ASSUME NEW sig \in Signals, DecideFlat(sig) PROVE BudgetInv'
  <2>1. /\ gate'.tradeCount = gate.tradeCount /\ account'.currentDay = account.currentDay
        /\ UNCHANGED <<day, crashes, status, rows>>
        /\ pc # "down" /\ pc' # "down" /\ (pc' \in EntrySteps => pc \in EntrySteps)
    BY <1>4, <1>0, <1>a DEF DecideFlat, memory, tables, positionTable, observed, TypeOK, Account
  <2> QED BY <2>1, <1>d, <1>e
<1>5. ASSUME NEW sig \in Signals, NEW c \in Candles, DecideExit(sig, c) PROVE BudgetInv'
  <2>1. /\ gate'.tradeCount = gate.tradeCount /\ account'.currentDay = account.currentDay
        /\ UNCHANGED <<day, crashes, status, rows>>
        /\ pc # "down" /\ pc' # "down" /\ (pc' \in EntrySteps => pc \in EntrySteps)
    BY <1>5, <1>0, <1>a DEF DecideExit, memory, tables, positionTable, observed, TypeOK, Account
  <2> QED BY <2>1, <1>d, <1>e
<1>6. ASSUME NEW sig \in Signals, NEW c \in Candles, DecideHold(sig, c) PROVE BudgetInv'
  <2>1. /\ gate'.tradeCount = gate.tradeCount /\ account'.currentDay = account.currentDay
        /\ UNCHANGED <<day, crashes, status, rows>>
        /\ pc # "down" /\ pc' # "down" /\ (pc' \in EntrySteps => pc \in EntrySteps)
    BY <1>6, <1>0, <1>a DEF DecideHold, memory, tables, positionTable, observed, TypeOK, Account
  <2> QED BY <2>1, <1>d, <1>e
<1>7. ASSUME NEW sig \in Signals, NEW c \in Candles, NEW premium \in Premiums,
             DecideEntry(sig, c, premium)
      PROVE  BudgetInv'
  <2>1. /\ UNCHANGED <<gate, account, day, crashes, status, rows>>
        /\ pc # "down" /\ pc' # "down"
    BY <1>7 DEF DecideEntry, tables, positionTable, observed
  <2>2. gate.tradeCount < MaxTradesPerDay
    <3>1. Evaluate(gate, sig).decision # "no_trade"
      BY <1>7 DEF DecideEntry, EntryDue
    <3> QED BY <3>1 DEF Evaluate, Admits
  <2> QED BY <2>1, <2>2, <1>d, <1>e
<1>8. ASSUME NEW outcome \in Outcomes, PersistBarsHeld(outcome) PROVE BudgetInv'
  <2>1. /\ UNCHANGED <<gate, account, day, crashes, status>>
        /\ pc # "down" /\ pc' # "down" /\ pc' \notin EntrySteps
    BY <1>8 DEF PersistBarsHeld, memory, observed
  <2>2. \A i \in Ids : rows'[i].day = rows[i].day
    BY <1>8, <1>0 DEF PersistBarsHeld, TypeOK, Position
  <2>3. \A d \in Days : EntriesOn(d)' = EntriesOn(d)
    BY <2>1, <2>2, SameEntries
  <2> QED BY <2>1, <2>3, <1>d
<1>9. ASSUME NEW outcome \in Outcomes, StartDay(outcome) PROVE BudgetInv'
  <2>1. /\ UNCHANGED <<day, crashes, status, rows>> /\ pc' = "decide" /\ pc = "reset"
    BY <1>9 DEF StartDay, tables, positionTable, observed
  <2>2. gate'.tradeCount = 0
    BY <1>9, <1>a DEF StartDay, ResetDay, Gate
  <2>3. account'.currentDay = day
    BY <1>9, <1>0 DEF StartDay, TypeOK, Account
  <2>4. Untouched(day)
    BY <2>1 DEF DayInv
  <2>5. ASSUME NEW d \in Days
        PROVE  /\ Untouched(d)' => Untouched(d)
               /\ d = day' => Untouched(d)
    BY <2>1, <2>3, <2>4
  <2> HIDE DEF Untouched
  <2> QED BY <2>1, <2>2, <2>5, <1>a, <1>b, <1>c, <1>d, <1>e
<1>10. ASSUME NEW outcome \in Outcomes, InsertOrder(outcome) PROVE BudgetInv'
  <2>1. /\ gate'.tradeCount = gate.tradeCount /\ account'.currentDay = account.currentDay
        /\ UNCHANGED <<day, crashes, status, rows>>
        /\ pc # "down" /\ pc' # "down" /\ (pc' \in EntrySteps => pc \in EntrySteps)
    BY <1>10, <1>0, <1>a DEF InsertOrder, memory, tables, positionTable, observed, TypeOK, Account
  <2> QED BY <2>1, <1>d, <1>e
<1>11. ASSUME NEW outcome \in Outcomes, InsertFill(outcome) PROVE BudgetInv'
  <2>1. /\ gate'.tradeCount = gate.tradeCount /\ account'.currentDay = account.currentDay
        /\ UNCHANGED <<day, crashes, status, rows>>
        /\ pc # "down" /\ pc' # "down" /\ (pc' \in EntrySteps => pc \in EntrySteps)
    BY <1>11, <1>0, <1>a DEF InsertFill, memory, tables, positionTable, observed, TypeOK, Account
  <2> QED BY <2>1, <1>d, <1>e
<1>12. ASSUME NEW outcome \in Outcomes, InsertPosition(outcome) PROVE BudgetInv'
  <2>1. /\ outcome = "ok" /\ pc = "position" /\ pc' = "idle" /\ UNCHANGED <<day, crashes>>
        /\ gate' = OnTradePlaced(gate) /\ lastId' = lastId + 1
        /\ status' = [status EXCEPT ![lastId'] = "open"]
        /\ rows' = [rows EXCEPT ![lastId'] = draft]
    BY <1>12 DEF InsertPosition, StoreWorks
  <2>2. account'.currentDay = account.currentDay
    BY <1>12, <2>1, <1>0 DEF InsertPosition, TypeOK, Account
  <2>3. gate'.tradeCount = gate.tradeCount + 1
    BY <2>1, <1>a, PlacedFields
  <2>4. lastId' \in Ids /\ status[lastId'] = "absent"
    <3>1. lastId \in Nat /\ lastId < orders /\ orders \in 0..MaxEntries
      BY <1>0, <2>1, PaperAssumption DEF IdInv, TypeOK
    <3>2. lastId' \in Ids /\ lastId' > lastId
      BY <2>1, <3>1, PaperAssumption DEF Ids
    <3> QED BY <1>0, <3>2 DEF IdInv
  <2>5. \A d \in Days : EntriesOn(d)' = IF d = day THEN EntriesOn(d) + 1 ELSE EntriesOn(d)
    BY <1>0, <2>1, <2>4, NewEntry DEF DayInv
  <2>6. day = account.currentDay /\ gate.tradeCount < MaxTradesPerDay
    BY <2>1 DEF DayInv
  <2> QED BY <2>1, <2>2, <2>3, <2>5, <2>6, <1>a, <1>b, <1>c, <1>d
<1>13. ASSUME NEW outcome \in Outcomes, ClosePosition(outcome) PROVE BudgetInv'
  <2>1. /\ UNCHANGED <<day, crashes, rows>> /\ pc = "close" /\ pc' = "idle"
        /\ gate' = OnTradeClosed(UpdatePnl(gate, net))
        /\ status' = [status EXCEPT ![posId] = "closed"]
    BY <1>13 DEF ClosePosition, BookClose, StoreWorks
  <2>2. gate'.tradeCount = gate.tradeCount
    BY <1>0, <2>1, <1>a, ClosedFields DEF TypeOK
  <2>3. account'.currentDay = account.currentDay
    BY <1>13, <1>0 DEF ClosePosition, BookClose, TypeOK, Account
  <2>4. status[posId] = "open"
    BY <1>0, <2>1, HeldIsOpen DEF ControlInv, HoldingSteps
  <2>5. \A i \in Ids : status'[i] = "absent" <=> status[i] = "absent"
    BY <1>0, <2>1, <2>4 DEF TypeOK
  <2>6. \A d \in Days : EntriesOn(d)' = EntriesOn(d)
    BY <2>1, <2>5, SameEntries
  <2> QED BY <2>1, <2>2, <2>3, <2>6, <1>d
<1>14. ASSUME NEW outcome \in TradeOutcomes, InsertTrade(outcome) PROVE BudgetInv'
  <2>1. /\ gate'.tradeCount = gate.tradeCount /\ account'.currentDay = account.currentDay
        /\ UNCHANGED <<day, crashes, status, rows>>
        /\ pc # "down" /\ pc' # "down" /\ (pc' \in EntrySteps => pc \in EntrySteps)
    BY <1>14, <1>0, <1>a DEF InsertTrade, memory, tables, positionTable, observed, TypeOK, Account
  <2> QED BY <2>1, <1>d, <1>e
<1>15. CASE Crash
  <2>1. /\ UNCHANGED <<day, status, rows>> /\ pc' = "down" /\ crashes' = crashes + 1
        /\ gate'.tradeCount = 0
    BY <1>15 DEF Crash, Boot, NewGate, tables, positionTable
  <2>2. Earlier' = Earlier + MaxTradesPerDay
    BY <1>0, <2>1, <1>a DEF Earlier, TypeOK
  <2> QED BY <2>1, <2>2, <1>a, <1>b, <1>c, <1>e
<1>16. ASSUME NEW p \in Outcomes, NEW t \in Outcomes, NEW d \in Outcomes,
              Recover(p, t, d)
       PROVE  BudgetInv'
  <2>1. /\ UNCHANGED <<day, status, rows, crashes, gate>> /\ pc = "down" /\ pc' = "idle"
    BY <1>16 DEF Recover, tables, positionTable, observed
  <2> QED BY <2>1, <1>a, <1>b, <1>c, <1>d, <1>e
<1>17. CASE UNCHANGED vars
  <2>1. UNCHANGED <<pc, gate, account, day, crashes, status, rows>>
    BY <1>17 DEF vars, memory, tables, positionTable, observed
  <2> QED BY <2>1, <1>d, <1>e
<1> QED
  BY <1>1, <1>2, <1>3, <1>4, <1>5, <1>6, <1>7, <1>8, <1>9, <1>10,
     <1>11, <1>12, <1>13, <1>14, <1>15, <1>16, <1>17, StepCases

\* With a store that works, each step of the first life keeps the days apart and
\* the loss within the limit unless the engine is stopped.
LEMMA FirstLifeStep ==
    ASSUME StoreWorks, MaxDailyLoss > 0, Inductive, DayInv, FirstLifeInv, [Next]_vars
    PROVE  FirstLifeInv'
<1> USE DEF FirstLifeInv, Untouched, OpenIds
<1>0. TypeOK /\ ControlInv /\ IdInv /\ HeldMatchesStore
  BY DEF Inductive
<1>a. day \in Nat /\ Days \subseteq Nat /\ position.day \in Nat /\ MaxDailyLoss \in Int
  <2>1. day \in Days /\ position.day \in Days
    BY <1>0 DEF TypeOK, Position
  <2> QED BY <2>1, PaperAssumption DEF Days
<1>1. CASE NewCandle
  <2>1. /\ UNCHANGED <<pc, account, crashes, status, ledger, posId, position>>
        /\ day' \in Nat /\ day' >= day
    BY <1>1, <1>a DEF NewCandle, tables, positionTable, Days
  <2>2. ASSUME NEW d \in Days PROVE Untouched(d)' => Untouched(d)
    BY <2>1, <1>a
  <2>3. crashes = 0 /\ posId # 0 =>
           /\ position.day <= day'
           /\ day' # account.currentDay => position.day # day'
    BY <2>1, <1>a
  <2> HIDE DEF Untouched
  <2> QED BY <2>1, <2>2, <2>3
<1>2. CASE BeginTick
  <2>1. /\ UNCHANGED <<day, crashes, ledger, account, posId>>
        /\ pc # "down" /\ pc' # "down"
    BY <1>2 DEF BeginTick, tables, positionTable
  <2>2. position'.day = position.day
    BY <1>2, <1>0 DEF BeginTick, TypeOK, Position
  <2> QED BY <2>1, <2>2
<1>3. CASE NoFeatures
  <2>1. /\ UNCHANGED <<day, crashes, ledger, account, posId, position>>
        /\ pc # "down" /\ pc' # "down"
    BY <1>3 DEF NoFeatures, memory, tables, positionTable, observed
  <2> QED BY <2>1
<1>4. ASSUME NEW sig \in Signals, DecideFlat(sig) PROVE FirstLifeInv'
  <2>1. /\ UNCHANGED <<day, crashes, ledger, account, posId, position>>
        /\ pc # "down" /\ pc' # "down"
    BY <1>4 DEF DecideFlat, memory, tables, positionTable, observed
  <2> QED BY <2>1
<1>5. ASSUME NEW sig \in Signals, NEW c \in Candles, DecideExit(sig, c) PROVE FirstLifeInv'
  <2>1. /\ UNCHANGED <<day, crashes, ledger, account, posId, position>>
        /\ pc # "down" /\ pc' # "down"
    BY <1>5 DEF DecideExit, memory, tables, positionTable, observed
  <2> QED BY <2>1
<1>6. ASSUME NEW sig \in Signals, NEW c \in Candles, DecideHold(sig, c) PROVE FirstLifeInv'
  <2>1. /\ UNCHANGED <<day, crashes, ledger, posId>> /\ pc # "down" /\ pc' # "down"
    BY <1>6 DEF DecideHold, tables, observed
  <2>2. position'.day = position.day
    BY <1>6, <1>0 DEF DecideHold, TypeOK, Position
  <2>3. /\ account'.currentDay = account.currentDay /\ account'.dayPnL = account.dayPnL
        /\ account'.state = account.state
    BY <1>6, <1>0 DEF DecideHold, TypeOK, Account
  <2> QED BY <2>1, <2>2, <2>3
<1>7. ASSUME NEW sig \in Signals, NEW c \in Candles, NEW premium \in Premiums,
             DecideEntry(sig, c, premium)
      PROVE  FirstLifeInv'
  <2>1. /\ UNCHANGED <<day, crashes, ledger, account, posId, position>>
        /\ pc # "down" /\ pc' # "down"
    BY <1>7 DEF DecideEntry, memory, tables, positionTable, observed
  <2> QED BY <2>1
<1>8. ASSUME NEW outcome \in Outcomes, PersistBarsHeld(outcome) PROVE FirstLifeInv'
  <2>1. /\ UNCHANGED <<day, crashes, ledger, account, posId, position>>
        /\ pc # "down" /\ pc' # "down"
    BY <1>8 DEF PersistBarsHeld, memory, tables, positionTable, observed
  <2> QED BY <2>1
<1>9. ASSUME NEW outcome \in Outcomes, StartDay(outcome) PROVE FirstLifeInv'
  <2>1. /\ UNCHANGED <<day, crashes, ledger, posId, position>>
        /\ pc = "reset" /\ pc' = "decide" /\ posId = 0 /\ day # account.currentDay
    BY <1>9, <1>0 DEF StartDay, tables, observed, ControlInv, DayInv
  <2>2. account'.currentDay = day /\ account'.dayPnL = ledger.pnl[day]
    BY <1>9, <1>0 DEF StartDay, StoreWorks, TypeOK, Account
  <2>3. crashes = 0 => ledger.pnl[day] = 0
    BY <1>0, <2>1 DEF TypeOK
  <2>4. crashes = 0 => ~(account'.dayPnL <= -MaxDailyLoss)
    BY <2>2, <2>3, <1>a
  <2>5. \A d \in Days : Untouched(d)' => Untouched(d)
    BY <2>1, <2>2
  <2> HIDE DEF Untouched
  <2> QED BY <2>1, <2>4, <2>5
<1>10. ASSUME NEW outcome \in Outcomes, InsertOrder(outcome) PROVE FirstLifeInv'
  <2>1. /\ UNCHANGED <<day, crashes, ledger, account, posId, position>>
        /\ pc # "down" /\ pc' # "down"
    BY <1>10 DEF InsertOrder, memory, tables, positionTable, observed
  <2> QED BY <2>1
<1>11. ASSUME NEW outcome \in Outcomes, InsertFill(outcome) PROVE FirstLifeInv'
  <2>1. /\ UNCHANGED <<day, crashes, ledger, account, posId, position>>
        /\ pc # "down" /\ pc' # "down"
    BY <1>11 DEF InsertFill, memory, tables, positionTable, observed
  <2> QED BY <2>1
<1>12. ASSUME NEW outcome \in Outcomes, InsertPosition(outcome) PROVE FirstLifeInv'
  <2>1. /\ pc = "position" /\ pc' = "idle" /\ UNCHANGED <<day, crashes, ledger>>
        /\ posId' # 0 => position' = draft
    BY <1>12, <1>0 DEF InsertPosition, ControlInv, EntrySteps, StoreWorks
  <2>2. /\ account'.currentDay = account.currentDay /\ account'.dayPnL = account.dayPnL
        /\ account'.state = account.state
    BY <1>12, <1>0 DEF InsertPosition, TypeOK, Account
  <2>3. draft.day = day /\ day = account.currentDay
    BY <2>1 DEF DayInv, EntrySteps
  <2>4. \A d \in Days : Untouched(d)' => Untouched(d)
    BY <2>1, <2>2
  <2>5. posId' # 0 => position'.day = day' /\ day' = account'.currentDay
    BY <2>1, <2>2, <2>3
  <2> HIDE DEF Untouched
  <2> QED BY <2>1, <2>2, <2>4, <2>5, <1>a
<1>13. ASSUME NEW outcome \in Outcomes, ClosePosition(outcome) PROVE FirstLifeInv'
  <2>1. /\ UNCHANGED <<day, crashes, ledger>> /\ pc = "close" /\ pc' = "idle" /\ posId' = 0
    BY <1>13 DEF ClosePosition, ForgetPosition
  <2>2. /\ account'.currentDay = account.currentDay
        /\ account'.dayPnL = account.dayPnL + net
        /\ account'.dayPnL <= -MaxDailyLoss => account'.state = "stopped"
    BY <1>13, <1>0 DEF ClosePosition, BookClose, LossLimit, TypeOK, Account
  <2> QED BY <2>1, <2>2
<1>14. ASSUME NEW outcome \in TradeOutcomes, InsertTrade(outcome) PROVE FirstLifeInv'
  <2>1. /\ UNCHANGED <<day, crashes, account, posId, position>>
        /\ pc = "trade" /\ pc' = "close" /\ posId # 0
        /\ ledger'.pnl = [ledger.pnl EXCEPT ![position.day] = @ + net]
    BY <1>14, <1>0 DEF InsertTrade, RecordTrade, StoreWorks, memory, observed, ControlInv,
                    HoldingSteps
  <2>2. ASSUME NEW d \in Days, crashes = 0, Untouched(d) PROVE ledger'.pnl[d] = 0
    <3>1. d # position.day
      BY <2>1, <2>2, <1>a
    <3>2. ledger'.pnl[d] = ledger.pnl[d]
      BY <1>0, <2>1, <3>1 DEF TypeOK
    <3> QED BY <2>2, <3>2
  <2> QED BY <2>1, <2>2
<1>15. CASE Crash
  <2>1. crashes' # 0
    BY <1>15, <1>0, PaperAssumption DEF Crash, TypeOK
  <2> QED BY <2>1
<1>16. ASSUME NEW p \in Outcomes, NEW t \in Outcomes, NEW d \in Outcomes,
              Recover(p, t, d)
       PROVE  FirstLifeInv'
  <2>1. /\ pc = "down" /\ pc' = "idle" /\ UNCHANGED <<day, crashes, ledger>>
        /\ posId' = StoredPosition
        /\ \E today \in Days : account' = StoredAccount("ok", "ok", today)
    BY <1>16 DEF Recover, StoreWorks, tables, observed
  <2> SUFFICES ASSUME crashes = 0 PROVE FirstLifeInv'
    BY <2>1
  <2>2. posId' = 0
    BY <2>1 DEF StoredPosition
  <2>3. PICK today \in Days : account' = StoredAccount("ok", "ok", today)
    BY <2>1
  <2>4. account'.dayPnL = ledger.pnl[today]
    BY <2>3 DEF StoredAccount, NewAccount
  <2>5. account'.dayPnL = 0
    BY <2>1, <2>4
  <2> QED BY <2>1, <2>2, <2>5, <1>a
<1>17. CASE UNCHANGED vars
  BY <1>17 DEF vars, memory, tables, positionTable, observed
<1> QED
  BY <1>1, <1>2, <1>3, <1>4, <1>5, <1>6, <1>7, <1>8, <1>9, <1>10,
     <1>11, <1>12, <1>13, <1>14, <1>15, <1>16, <1>17, StepCases

-----------------------------------------------------------------------------
\* One open row, books that agree, entries within the gate's count.
Intact == Inductive /\ AloneInv /\ BooksInv /\ DayInv /\ BudgetInv

\* With a store that works, a crash at any point of a tick leaves the tables intact.
LEMMA IntactInvariant == ASSUME StoreWorks PROVE Spec => []Intact
<1>1. Init => Intact
  <2> SUFFICES ASSUME Init PROVE Intact
    OBVIOUS
  <2> USE DEF Init
  <2>1. Inductive
    BY InductiveInit
  <2>2. AloneInv
    BY DEF AloneInv, OneOpenPosition
  <2>3. BooksInv
    BY DEF BooksInv, ClosedIsRecorded
  <2>4. DayInv
    BY DEF DayInv, EntrySteps
  <2>5. BudgetInv
    <3>1. ASSUME NEW d \in Days PROVE EntriesOn(d) = 0
      <4>1. {i \in Ids : status[i] # "absent" /\ rows[i].day = d} = {}
        OBVIOUS
      <4> QED BY <4>1, FS_EmptySet DEF EntriesOn
    <3>2. Earlier = 0 /\ MaxTradesPerDay \in Nat
      BY GateAssumption DEF Earlier
    <3> QED BY <3>1, <3>2 DEF BudgetInv, EntrySteps, NewGate
  <2> QED BY <2>1, <2>2, <2>3, <2>4, <2>5 DEF Intact
<1>2. Intact /\ [Next]_vars => Intact'
  BY InductiveStep, AloneStep, BooksStep, DayStep, BudgetStep DEF Intact
<1> QED BY <1>1, <1>2, PTL DEF Spec

\* Where a crash comes in a tick, paper_positions holds one open position at most: the
\* one the next life recovers.
THEOREM OnePositionOpen == ASSUME StoreWorks PROVE Spec => []OneOpenPosition
<1>1. Intact => OneOpenPosition
  BY DEF Intact, AloneInv
<1> QED BY <1>1, IntactInvariant, PTL

\* closePosition writes the trade before the status, so no crash loses a trade.
THEOREM ClosedPositionsRecorded == ASSUME StoreWorks PROVE Spec => []ClosedIsRecorded
<1>1. Intact => ClosedIsRecorded
  BY DEF Intact, BooksInv
<1> QED BY <1>1, IntactInvariant, PTL

\* Between ticks the total PnL in memory is the table's, also after a restart and with
\* trades a crash repeated.
THEOREM TotalsAgree == ASSUME StoreWorks PROVE Spec => []TotalAgrees
<1>1. Intact => TotalAgrees
  BY DEF Intact, BooksInv, TotalAgrees
<1> QED BY <1>1, IntactInvariant, PTL

\* Each crash leaves at most one order without its position.
THEOREM OrphansCounted == ASSUME StoreWorks PROVE Spec => []OrphansBounded
<1>1. Intact => OrphansBounded
  <2> SUFFICES ASSUME Intact, pc \in {"idle", "down"} PROVE orders - lastId \in 0..crashes
    BY DEF OrphansBounded
  <2>1. lastId \in Int /\ orders \in Int /\ crashes \in Int /\ lastId <= orders
    BY DEF Intact, Inductive, TypeOK, IdInv
  <2>2. orders - lastId <= crashes
    BY DEF Intact, BooksInv
  <2> QED BY <2>1, <2>2
<1> QED BY <1>1, IntactInvariant, PTL

\* The gate counts the entries of the day in memory only: each life of the process has
\* the day's budget again, and never more.
THEOREM EntriesWithinBudget == ASSUME StoreWorks PROVE Spec => []DailyEntryBudget
<1>1. Intact => DailyEntryBudget
  <2> SUFFICES ASSUME Intact, NEW d \in Days
               PROVE  EntriesOn(d) <= MaxTradesPerDay * (crashes + 1)
    BY DEF DailyEntryBudget
  <2>1. EntriesOn(d) <= Earlier + MaxTradesPerDay
    BY DEF Intact, BudgetInv
  <2>2. Earlier + MaxTradesPerDay = MaxTradesPerDay * (crashes + 1)
    BY GateAssumption DEF Intact, Inductive, TypeOK, Earlier
  <2> QED BY <2>1, <2>2
<1> QED BY <1>1, IntactInvariant, PTL

\* A process that has not been restarted is stopped whenever the day's loss has reached
\* the limit: a day begins with the PnL of its own entries, of which there are none yet.
THEOREM LossesStop == ASSUME StoreWorks, MaxDailyLoss > 0 PROVE Spec => []LossLimitStops
<1>1. Init => FirstLifeInv
  BY PaperAssumption DEF Init, FirstLifeInv, OpenIds, NewAccount
<1>2. Intact /\ FirstLifeInv /\ [Next]_vars => FirstLifeInv'
  BY FirstLifeStep DEF Intact
<1>3. FirstLifeInv => LossLimitStops
  BY DEF FirstLifeInv, LossLimitStops
<1> QED BY <1>1, <1>2, <1>3, IntactInvariant, PTL DEF Spec
=============================================================================
