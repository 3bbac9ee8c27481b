------------------------------- MODULE Features -------------------------------
(***************************************************************************)
(* What the columns of a feature row are computed from: internal/feature,  *)
(* applied to a chunk of candles, and the labels of internal/label.        *)
(*                                                                         *)
(* Abstraction.  A number is the set of bars (or order-flow records) it    *)
(* was computed from, so that an operator shows which inputs the loop of   *)
(* the code reads at each index and where it leaves NaN.  A number that    *)
(* was never assigned, Go's zero, is computed from nothing.  Bars and      *)
(* records are numbered from 1.  Prices move: the division by a true range *)
(* of zero is left out.                                                    *)
(***************************************************************************)
EXTENDS Integers, Sequences, FiniteSets

CONSTANTS
    EmaPeriods,      \* 20, 50, 200 in ComputeFeatures
    Period,          \* 14, of RSI, ATR and ADX
    ReturnPeriods,   \* 1, 4, 12; of OIDeltaPct as well
    VolWindows,      \* 14, 50
    ZWindow,         \* 30
    Horizons         \* 4, 12, 24 bars ahead, of the labels

ASSUME FeatureAssumption ==
    /\ EmaPeriods \in Seq(Nat \ {0}) /\ ReturnPeriods \in Seq(Nat \ {0})
    /\ VolWindows \in Seq(Nat \ {0, 1}) /\ Period \in Nat \ {0} /\ ZWindow \in Nat \ {0, 1}
    /\ Horizons \subseteq Nat \ {0} /\ IsFiniteSet(Horizons)

NaN == {0}
Zero == {}

\* A number computed from the numbers of N.
From(N) == IF NaN \in N THEN NaN ELSE UNION N

\* The columns are indexed from 0, as in the code.
Series(chunk) == [i \in 0..Len(chunk) - 1 |-> {chunk[i + 1]}]

-----------------------------------------------------------------------------
(***************************************************************************)
(* The indicators of ema.go, rsi.go, atr.go, adx.go and market.go.         *)
(***************************************************************************)
EMA(v, p) ==
    LET e[i \in DOMAIN v] == IF i < p THEN NaN
                             ELSE IF i = p THEN From({v[k] : k \in 0..p})
                             ELSE From({v[i], e[i - 1]})
    IN  e

RSI(v, p) ==
    LET r[i \in DOMAIN v] == IF i < p THEN NaN
                             ELSE IF i = p THEN From({v[k] : k \in 0..p})
                             ELSE From({v[i], v[i - 1], r[i - 1]})
    IN  r

\* trueRange and directionalMovement read a bar and the one before.
trueRange(v, i) == IF i = 0 THEN v[0] ELSE From({v[i], v[i - 1]})

\* The smoothed range starts as the mean of the p ranges before it: its own is left out.
Smoothed(v, p) ==
    LET s[i \in DOMAIN v] == IF i < p THEN NaN
                             ELSE IF i = p THEN From({trueRange(v, k) : k \in 0..p - 1})
                             ELSE From({s[i - 1], trueRange(v, i)})
    IN  s

ATR(v, p) == Smoothed(v, p)

ADX(v, p) ==
    LET dx == Smoothed(v, p)
        a[i \in DOMAIN v] == IF i < 2 * p THEN NaN
                             ELSE IF i = 2 * p THEN From({dx[k] : k \in p + 1..2 * p})
                             ELSE From({a[i - 1], dx[i]})
    IN  a

LogReturn(v, k) == [i \in DOMAIN v |-> IF i < k THEN NaN ELSE From({v[i], v[i - k]})]

\* Volatility and ZScore read a window that ends at the index.
Window(v, w) == [i \in DOMAIN v |-> IF i < w - 1 THEN NaN ELSE From({v[k] : k \in i - w + 1..i})]

-----------------------------------------------------------------------------
(***************************************************************************)
(* ComputeFeatures: the twelve columns every row must have, and those of   *)
(* the order flow.                                                         *)
(***************************************************************************)
Mandatory(chunk) ==
    LET v == Series(chunk) IN
    << EMA(v, EmaPeriods[1]), EMA(v, EmaPeriods[2]), EMA(v, EmaPeriods[3]),
       RSI(v, Period), ATR(v, Period), ADX(v, Period), EMA(v, EmaPeriods[1]),
       LogReturn(v, ReturnPeriods[1]), LogReturn(v, ReturnPeriods[2]),
       LogReturn(v, ReturnPeriods[3]),
       Window(LogReturn(v, ReturnPeriods[1]), VolWindows[1]),
       Window(LogReturn(v, ReturnPeriods[1]), VolWindows[2]) >>

\* What is kept of a row: the bars its columns read, and which of them are NaN.
Row(columns, i) ==
    [reads |-> (UNION {columns[c][i] : c \in DOMAIN columns}) \ NaN,
     nan   |-> {c \in DOMAIN columns : columns[c][i] = NaN}]

hasNonZero(v) == \E i \in DOMAIN v : v[i] # Zero

\* A snapshot without a record before it makes the change NaN.
OIDeltaPct(oi, k) ==
    [i \in DOMAIN oi |-> IF i < k \/ oi[i - k] = Zero THEN NaN ELSE oi[i] \cup oi[i - k]]

LSRatioRaw(ls) == [i \in DOMAIN ls |-> IF ls[i] = Zero THEN NaN ELSE ls[i]]

\* Without a record in the whole chunk a column keeps Go's zero, and nanToNull stores it.
OrderFlowColumns(snaps) ==
    LET oi == [i \in DOMAIN snaps |-> snaps[i].oi]
        ls == [i \in DOMAIN snaps |-> snaps[i].ls]
        AllZero == [i \in DOMAIN snaps |-> Zero]
    IN  [oiDelta |-> IF hasNonZero(oi) THEN OIDeltaPct(oi, ReturnPeriods[1]) ELSE AllZero,
         oiZ     |-> IF hasNonZero(oi) THEN Window(oi, ZWindow) ELSE AllZero,
         funding |-> [i \in DOMAIN snaps |-> snaps[i].funding],
         lsRaw   |-> IF hasNonZero(ls) THEN LSRatioRaw(ls) ELSE AllZero,
         liq     |-> [i \in DOMAIN snaps |-> snaps[i].liq]]

-----------------------------------------------------------------------------
(***************************************************************************)
(* ValidateFeatureRows: no time twice, at most one NaN in twenty.          *)
(***************************************************************************)
ValidateFeatureRows(times, rows) ==
    /\ rows # << >>
    /\ \A i, j \in DOMAIN times : times[i] = times[j] => i = j
    /\ LET nan == UNION {{i} \X rows[i].nan : i \in DOMAIN rows}
       IN  Cardinality(nan) * 20 <= Len(rows) * 12

(***************************************************************************)
(* ComputeLabels: the bar h places further in the slice, 0 for none.       *)
(***************************************************************************)
ComputeLabels(all) ==
    [i \in DOMAIN all |-> [h \in Horizons |-> IF i + h > Len(all) THEN 0 ELSE all[i + h]]]
=============================================================================
