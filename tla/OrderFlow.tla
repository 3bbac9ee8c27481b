------------------------------- MODULE OrderFlow -------------------------------
(***************************************************************************)
(* Order flow from the socket to the feature row: the handlers for tickers *)
(* and liquidations and the poll of the long/short ratio store records,    *)
(* and the backfill joins them to the bars of a chunk (LoadOrderFlow) and  *)
(* upserts the columns.                                                    *)
(*                                                                         *)
(* Abstractions.  One symbol; time goes in ticks, TF to a bar, and bar b   *)
(* opens at TF * b; the bars are stored when they close, without holes and *)
(* without the forming bar of a REST page: after a missing bar a row would *)
(* read the missing bar's interval as well.  A number is the set of the    *)
(* times of the records it was computed from, as in Features.  A           *)
(* liquidation is known by its time and may be delivered late and again.   *)
(* A failed query of a table reads as no records.                          *)
(***************************************************************************)
EXTENDS Features

CONSTANTS
    TF,
    RatioPeriod,     \* ticks between two ratios: 15min, whatever the timeframe is
    MaxBar,          \* bound of the model
    ChunkSize, WarmupBars,
    MaxMessages,     \* bound of the model: messages handled and polls made
    MaxDelay         \* bound of the model: ticks from a liquidation to its delivery

ASSUME OrderFlowAssumption ==
    /\ TF \in Nat \ {0} /\ RatioPeriod \in Nat \ {0} /\ MaxBar \in Nat /\ MaxMessages \in Nat /\ MaxDelay \in Nat
    /\ ChunkSize \in Nat /\ WarmupBars \in Nat \ {0} /\ WarmupBars < ChunkSize
    /\ ReturnPeriods # << >> /\ ReturnPeriods[1] <= WarmupBars /\ ZWindow - 1 <= WarmupBars

VARIABLES
    now,
    openInterest,    \* times of the stored records
    fundingRates,    \* rate by time: Zero if the message had none
    lsRatios,        \* times of the stored records
    liquidations,    \* rows stored: <<t, n>> is the n-th of the liquidation of time t
    columns,         \* order-flow columns of feature_values, by bar
    start,           \* first bar of the chunk to load next, 0 between runs
    loaded,          \* columns computed from the chunk that was loaded
    messages,        \* messages so far
    delivered        \* observed: <<t, n>> for the n-th delivery of that liquidation

tables == <<openInterest, fundingRates, lsRatios, liquidations>>
vars == <<now, tables, columns, start, loaded, messages, delivered>>

opens(b) == TF * b
Times == opens(1)..opens(MaxBar + 1)
\* time.Truncate and time_bucket agree.
BarOf(t) == t \div TF

-----------------------------------------------------------------------------
(***************************************************************************)
(* The writers.                                                            *)
(***************************************************************************)
Tick ==
    /\ now < opens(MaxBar + 1)
    /\ now' = now + 1
    /\ UNCHANGED <<tables, columns, start, loaded, messages, delivered>>

Message == messages < MaxMessages /\ messages' = messages + 1

\* handleTicker: a field that is not in the message parses as zero, which ValidateOI
\* refuses and ValidateFunding does not; a time that is stored is left as it is.
handleTicker(oi, value, rate, oiStored, frStored) ==
    /\ Message
    /\ openInterest' = IF oi /\ value /\ oiStored THEN openInterest \cup {now} ELSE openInterest
    /\ fundingRates' = IF ~frStored \/ now \in DOMAIN fundingRates THEN fundingRates
                       ELSE [t \in DOMAIN fundingRates \cup {now} |->
                                IF t # now THEN fundingRates[t] ELSE IF rate THEN {now} ELSE Zero]
    /\ UNCHANGED <<now, lsRatios, liquidations, columns, start, loaded, delivered>>

\* handleLiquidation: one insert for each item, and the next whether it fails or not;
\* no key keeps out a liquidation that comes again.
Another(rows, T) == rows \cup {<<t, 1 + Cardinality({r \in rows : r[1] = t})>> : t \in T}

\* Mutant: an insert whose reply is lost is made once more.
LiquidationAgain(items, inserted) ==
    /\ Message
    /\ liquidations' = Another(Another(liquidations, items), inserted)
    /\ delivered' = Another(delivered, items)
    /\ UNCHANGED <<now, openInterest, fundingRates, lsRatios, columns, start, loaded>>
handleLiquidation(items, inserted) ==
    /\ Message
    /\ liquidations' = Another(liquidations, inserted)
    /\ delivered' = Another(delivered, items)
    /\ UNCHANGED <<now, openInterest, fundingRates, lsRatios, columns, start, loaded>>

\* Poll of the ratio: one record for each period so far, newest first; the first insert
\* that fails ends the poll.
Poll(kept) ==
    /\ Message
    /\ LET periods == {t \in Times : t <= now /\ t % RatioPeriod = 0}
       IN  lsRatios' = lsRatios \cup {t \in periods : Cardinality({u \in periods : u > t}) < kept}
    /\ UNCHANGED <<now, openInterest, fundingRates, liquidations, columns, start, loaded, delivered>>

-----------------------------------------------------------------------------
(***************************************************************************)
(* The reader.                                                             *)
(***************************************************************************)
Closed == {b \in 1..MaxBar : opens(b + 1) <= now}

\* LoadCandlesAfter: the bars of a chunk, none missing and none still forming.
Chunk(first) == [k \in 1..Cardinality({b \in Closed : first <= b /\ b < first + ChunkSize}) |-> first + k - 1]

\* The last record that the loop over the bars passes at index i: BETWEEN the first and
\* the last bar's time, after the bar before, and not after the bar itself.
\* Mutant: the loop passes what is not after the end of the bar.
PassedAhead(records, c, i) ==
    {t \in records : /\ opens(c[1]) <= t /\ t <= opens(c[Len(c)])
                     /\ i > 0 => t >= opens(c[i] + 1)
                     /\ t < opens(c[i + 1] + 1)}
Passed(records, c, i) ==
    {t \in records : /\ opens(c[1]) <= t /\ t <= opens(c[Len(c)])
                     /\ i > 0 => t > opens(c[i])
                     /\ t <= opens(c[i + 1])}
Latest(T) == {t \in T : \A u \in T : u <= t}

\* The rows of the bucket a bar opens in, summed by the query.
\* Mutant: the bar after it.
BucketAfter(c, i) ==
    {r \in liquidations : BarOf(r[1]) = c[i + 1] + 1 /\ opens(c[1]) <= r[1] /\ r[1] <= opens(c[Len(c)])}
Bucket(c, i) ==
    {r \in liquidations : BarOf(r[1]) = c[i + 1] /\ opens(c[1]) <= r[1] /\ r[1] <= opens(c[Len(c)])}

\* A bar has the zero of a new snapshot where nothing was passed since the bar before.
LoadOrderFlow(c) ==
    [i \in 0..Len(c) - 1 |->
        [oi      |-> Latest(Passed(openInterest, c, i)),
         funding |-> UNION {fundingRates[t] : t \in Latest(Passed(DOMAIN fundingRates, c, i))},
         ls      |-> Latest(Passed(lsRatios, c, i)),
         liq     |-> Bucket(c, i)]]

\* The chunk's columns, those of the warm-up left out; "whole" is observed, all rows that
\* were stored of the bar's liquidations.
Computed(c) ==
    LET cols == OrderFlowColumns(LoadOrderFlow(c))
    IN  [b \in {c[k] : k \in WarmupBars + 1..Len(c)} |->
            [name \in DOMAIN cols \cup {"whole"} |->
                IF name = "whole" THEN {r \in liquidations : BarOf(r[1]) = b} ELSE cols[name][b - c[1]]]]

Load ==
    /\ loaded = << >>
    /\ LET first == IF start = 0 THEN 1 ELSE start
           c == Chunk(first) IN
       /\ Len(c) > WarmupBars
       /\ loaded' = Computed(c)
       /\ start' = first
    /\ UNCHANGED <<now, tables, columns, messages, delivered>>

\* The next chunk begins WarmupBars before the end of a full one; a short one is the last.
Upsert ==
    /\ loaded # << >>
    /\ columns' = [b \in DOMAIN columns \cup DOMAIN loaded |->
                      IF b \in DOMAIN loaded THEN loaded[b] ELSE columns[b]]
    /\ loaded' = << >>
    /\ start' = IF Cardinality(DOMAIN loaded) = ChunkSize - WarmupBars
                THEN start + ChunkSize - WarmupBars ELSE 0
    /\ UNCHANGED <<now, tables, messages, delivered>>

\* No more bars than the warm-up, a failed query or upsert, or a kill: the run is over.
EndRun ==
    /\ start # 0
    /\ start' = 0 /\ loaded' = << >>
    /\ UNCHANGED <<now, tables, columns, messages, delivered>>

\* What a reader gets of a stored row: NULL was stored for NaN, and is read as zero.
LoadFeaturesAfter(b) ==
    [name \in DOMAIN columns[b] |->
        IF name \notin {"liq", "whole"} /\ columns[b][name] = NaN THEN Zero ELSE columns[b][name]]

-----------------------------------------------------------------------------
Init ==
    /\ now = opens(1)
    /\ openInterest = {} /\ fundingRates = << >> /\ lsRatios = {}
    /\ liquidations = {}
    /\ columns = << >> /\ start = 0 /\ loaded = << >> /\ messages = 0
    /\ delivered = {}

HandleMessage ==
    \/ \E oi, value, rate, oiStored, frStored \in BOOLEAN :
          handleTicker(oi, value, rate, oiStored, frStored)
    \/ \E items \in SUBSET {t \in Times : now - MaxDelay <= t /\ t <= now} :
          \E inserted \in SUBSET items : items # {} /\ handleLiquidation(items, inserted)

Next ==
    \/ Tick
    \/ HandleMessage
    \/ \E kept \in 0..Cardinality(Times) : Poll(kept)
    \/ Load \/ Upsert \/ EndRun

Spec == Init /\ [][Next]_vars

-----------------------------------------------------------------------------
(***************************************************************************)
(* Properties.                                                             *)
(***************************************************************************)

\* Every variable has its type; no liquidation has more rows than deliveries.
TypeOK ==
    /\ now \in Times /\ messages \in 0..MaxMessages
    /\ openInterest \subseteq Times /\ lsRatios \subseteq Times
    /\ DOMAIN fundingRates \subseteq Times
    /\ DOMAIN columns \subseteq 1..MaxBar /\ DOMAIN loaded \subseteq 1..MaxBar
    /\ start \in 0..MaxBar + 1
    /\ liquidations \subseteq delivered /\ delivered \subseteq Times \X (1..MaxMessages)

\* Wherever its chunk began and however often it is computed again, a row of bar b reads
\* rates and ratios only of the interval that ends when b opens and begins when the bar
\* before did, and its change of open interest only of that interval and the one before:
\* nothing from after the bar, and nothing older that was not renewed.
ReadsOwnInterval ==
    \A b \in DOMAIN columns :
        LET row == LoadFeaturesAfter(b)
            Since(k) == {t \in Times : opens(b - k) < t /\ t <= opens(b)}
        IN  /\ row.funding \subseteq Since(1) /\ row.lsRaw \subseteq Since(1)
            /\ row.oiDelta \subseteq Since(1 + ReturnPeriods[1])
            /\ row.oiZ \subseteq Since(ZWindow)
            /\ Cardinality(row.oiDelta) <= 2

\* A row counts the liquidations of its own bar and of no other, each as often as it was
\* stored when the chunk was loaded; only the last bar of a chunk misses what came after
\* the moment it opened.
LiquidationsCounted ==
    \A b \in DOMAIN columns :
        LET row == columns[b]
            last == b + 1 \notin DOMAIN columns \/ (b - WarmupBars) % (ChunkSize - WarmupBars) = 0
        IN  /\ row.liq \subseteq delivered
            /\ row.liq # row.whole => last /\ row.liq = {r \in row.whole : r[1] = opens(b)}
=============================================================================
