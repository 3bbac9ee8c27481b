---------------------------- MODULE BacktestProofs ----------------------------
(***************************************************************************)
(* Proofs about Backtest, for every number of bars, every holding time and *)
(* cooldown, every set of prices and every set of signals: the types, the  *)
(* gate's count, the exact length of the cooldown, that the run implements *)
(* SinglePosition, and that its metrics are those of its trades; and about *)
(* the signals it is given: the ranges the comments of the scorers give    *)
(* their components, and what follows for the trade gate.                  *)
(*                                                                         *)
(* The inductive invariant adds to the types when a scheduled entry can    *)
(* exist and when it is due, how long a position has been held at each     *)
(* step of a bar, and how the gate's cooldown counts down to the bar of    *)
(* the last exit.  For the metrics, the books of the run are sums over its *)
(* trades, which are in order and do not overlap.                          *)
(***************************************************************************)
EXTENDS Backtest, Scoring, GateProofs, FiniteSetTheorems, SequenceTheorems, WellFoundedInduction

-----------------------------------------------------------------------------
(***************************************************************************)
(* The signals: what the score agents return, for every candle and feature *)
(* row.                                                                    *)
(***************************************************************************)
\* A score between its bounds.
Within(x, lo, hi) == x \in Int /\ lo <= x /\ x <= hi

\* technical/scorer.go: the trend of a bar is 0 to 35 points.
LEMMA TrendRange ==
    \A p \in Int, a, b, c \in Number : Within(calcTrend(p, a, b, c), 0, 3500)
  BY NaNAssumption DEF Within, calcTrend, Number, valid

\* The momentum is 0 to 30 points, and whole hundredths.
LEMMA MomentumRange ==
    ASSUME NEW r \in Number
    PROVE  Within(calcMomentum(r), 0, 3000)
  BY NaNAssumption DEF Within, calcMomentum, Number, valid, AtLeast

\* The volume is 0 to 20 points.
LEMMA VolumeRange ==
    ASSUME NEW v \in Number
    PROVE  Within(calcVolume(v), 0, 2000)
  BY NaNAssumption DEF Within, calcVolume, Number, valid, Clamp

\* The volatility is 0 to 10 points.
LEMMA VolatilityRange ==
    ASSUME NEW a \in Number, NEW p \in Number
    PROVE  Within(calcVolatility(a, p), 0, 1000)
  BY NaNAssumption DEF Within, calcVolatility, Number, valid

\* The bonus of a trend is 0 to 10 points.
LEMMA ADXBonusRange ==
    ASSUME NEW a \in Number
    PROVE  Within(calcADXBonus(a), 0, 1000)
  BY NaNAssumption DEF Within, calcADXBonus, Number, valid

\* orderflow/scorer.go: the funding is 0 to 20 points.
LEMMA FundingRange ==
    ASSUME NEW f \in Number
    PROVE  Within(calcFundingScore(f), 0, 2000)
  BY NaNAssumption DEF Within, calcFundingScore, Number, valid, AtLeast

\* The open interest is 0 to 25 points.
LEMMA OIRange ==
    ASSUME NEW o \in Number
    PROVE  Within(calcOIScore(o), 0, 2500)
  BY NaNAssumption DEF Within, calcOIScore, Number, valid, Clamp

\* The long/short ratio is 0 to 18 points: the top of its range cannot be reached.
LEMMA LSRange ==
    ASSUME NEW r \in Number
    PROVE  Within(calcLSScore(r), 0, 1800)
  BY NaNAssumption DEF Within, calcLSScore, Number, valid, AtLeast

\* The quotient's sign and size do not matter: what it adds to is clamped.
LEMMA LiqRange ==
    ASSUME NEW l \in Number, NEW s \in Number
    PROVE  Within(calcLiqScore(l, s), 0, 2500)
  <1>1. CASE ~valid(l) \/ ~valid(s)
    BY <1>1 DEF calcLiqScore, Within
  <1>2. CASE valid(l) /\ valid(s)
    <2>1. l \in Int /\ s \in Int
      BY <1>2 DEF valid, Number
    <2>2. CASE l + s <= 0
      BY <1>2, <2>2 DEF calcLiqScore, Within
    <2>3. CASE l + s > 0
      <3> DEFINE total == l + s
                 norm == IF total > 50 THEN 50 ELSE total
                 pull == ((s - l) * norm * 16) \div total
      <3>1. norm \in Int /\ total \in Int /\ total > 0
        BY <2>1, <2>3
      <3>2. (s - l) * norm * 16 \in Int
        BY <2>1, <3>1
      <3> HIDE DEF norm
      <3>3. pull \in Int
        BY <3>1, <3>2
      <3>4. calcLiqScore(l, s) = Clamp(1250 - pull + norm * 9, 2500)
        BY <1>2, <2>1, <2>3 DEF calcLiqScore, norm
      <3> HIDE DEF pull
      <3>5. 1250 - pull + norm * 9 \in Int
        BY <3>1, <3>3
      <3> QED
        BY <3>4, <3>5 DEF Clamp, Within
    <2> QED
      BY <2>1, <2>2, <2>3
  <1> QED
    BY <1>1, <1>2

\* regime/scorer.go: the trend is 0 to 50 points.
LEMMA RegimeTrendRange ==
    ASSUME NEW a \in Number
    PROVE  Within(calcTrendScore(a), 0, 5000)
  BY NaNAssumption DEF Within, calcTrendScore, Number, valid

\* The volatility is 5 to 45 points, from the feature or the range of the bars.
LEMMA FeatureVolRange ==
    ASSUME NEW v \in Number
    PROVE  Within(calcVolFromFeature(v), 500, 4500)
  BY NaNAssumption DEF Within, calcVolFromFeature, Number, valid

\* From the range in per cent of the price.
LEMMA PctVolRange == \A v \in Int : Within(VolFromPct(v), 500, 4500)
  BY NaNAssumption DEF Within, VolFromPct

\* And from the range and the price.
LEMMA ATRVolRange ==
    ASSUME NEW a \in Number, NEW p \in Number
    PROVE  Within(calcVolFromATR(a, p), 500, 4500)
  <1>1. CASE ~valid(a) \/ ~valid(p)
    BY <1>1 DEF calcVolFromATR, Within
  <1>2. CASE valid(a) /\ valid(p)
    <2>1. a \in Int /\ p \in Int
      BY <1>2 DEF valid, Number
    <2>2. CASE p <= 0 \/ a <= 0
      BY <1>2, <2>1, <2>2 DEF calcVolFromATR, Within
    <2>3. CASE p > 0 /\ a > 0
      <3> DEFINE scaled == a * 10000
                 pct == scaled \div p
      <3>. scaled \in Int
        BY <2>1
      <3> HIDE DEF scaled
      <3>1. pct \in Int
        BY <2>1, <2>3
      <3>2. calcVolFromATR(a, p) = VolFromPct(pct)
        BY <1>2, <2>1, <2>3 DEF calcVolFromATR, scaled
      <3> HIDE DEF pct
      <3>3. Within(VolFromPct(pct), 500, 4500)
        BY <3>1, PctVolRange
      <3> QED
        BY <3>2, <3>3
    <2> QED
      BY <2>1, <2>2, <2>3
  <1> QED
    BY <1>1, <1>2

-----------------------------------------------------------------------------
(***************************************************************************)
(* The three scores.                                                       *)
(***************************************************************************)
\* technical.Calculate returns 0 to 100 points, whatever is missing.
THEOREM TechnicalRange ==
    ASSUME NEW in \in Input
    PROVE  Within(TechnicalScore(in), 0, 10000)
  <1>1. /\ in.price \in Number /\ in.ema20 \in Number /\ in.ema50 \in Number
        /\ in.ema200 \in Number /\ in.rsi \in Number /\ in.atr \in Number
        /\ in.adx \in Number /\ in.logVolume \in Number
    BY DEF Input
  <1>2. CASE ~valid(in.price)
    BY <1>2 DEF TechnicalScore, Within
  <1>3. CASE valid(in.price)
    <2> DEFINE trend      == calcTrend(in.price, in.ema20, in.ema50, in.ema200)
               momentum   == calcMomentum(in.rsi)
               volume     == calcVolume(in.logVolume)
               volatility == calcVolatility(in.atr, in.price)
               bonus      == calcADXBonus(in.adx)
    <2>1. Within(trend, 0, 3500)
      <3>1. in.price \in Int
        BY <1>1, <1>3 DEF valid, Number
      <3> QED
        BY <1>1, <3>1, TrendRange
    <2>2. Within(momentum, 0, 3000)
      BY <1>1, MomentumRange
    <2>3. Within(volume, 0, 2000)
      BY <1>1, VolumeRange
    <2>4. Within(volatility, 0, 1000)
      BY <1>1, VolatilityRange
    <2>5. Within(bonus, 0, 1000)
      BY <1>1, ADXBonusRange
    <2>6. TechnicalScore(in) = Clamp(trend + momentum + volume + volatility + bonus, 10000)
      BY <1>3 DEF TechnicalScore
    <2> HIDE DEF trend, momentum, volume, volatility, bonus
    <2>7. Within(Clamp(trend + momentum + volume + volatility + bonus, 10000), 0, 10000)
      BY <2>1, <2>2, <2>3, <2>4, <2>5 DEF Clamp, Within
    <2> QED
      BY <2>6, <2>7
  <1> QED
    BY <1>2, <1>3

\* orderflow.Calculate returns 0 to 88 points: its maxima add up to less than the
\* 100 it clamps to.
THEOREM OrderFlowRange ==
    ASSUME NEW in \in Input
    PROVE  Within(OrderFlowScore(in), 0, 8800)
  <1>1. /\ in.funding \in Number /\ in.oiDelta \in Number /\ in.ls \in Number
        /\ in.longLiq \in Number /\ in.shortLiq \in Number
    BY DEF Input
  <1> DEFINE f   == calcFundingScore(in.funding)
             oi  == calcOIScore(in.oiDelta)
             ls  == calcLSScore(in.ls)
             liq == calcLiqScore(in.longLiq, in.shortLiq)
  <1>2. Within(f, 0, 2000) /\ Within(oi, 0, 2500) /\ Within(ls, 0, 1800) /\ Within(liq, 0, 2500)
    BY <1>1, FundingRange, OIRange, LSRange, LiqRange
  <1>3. OrderFlowScore(in) = Clamp(f + oi + ls + liq, 10000)
    BY DEF OrderFlowScore
  <1> HIDE DEF f, oi, ls, liq
  <1>4. Within(Clamp(f + oi + ls + liq, 10000), 0, 8800)
    BY <1>2 DEF Clamp, Within
  <1> QED
    BY <1>3, <1>4

\* The two volatilities of regime.Calculate average to 5 to 45 points.
LEMMA VolScoreRange ==
    ASSUME NEW in \in Input
    PROVE  Within(VolScore(in), 500, 4500)
  <1>1. in.atr \in Number /\ in.price \in Number /\ in.volatility \in Number
    BY DEF Input
  <1> DEFINE a == calcVolFromATR(in.atr, in.price)
             f == calcVolFromFeature(in.volatility)
  <1>2. Within(a, 500, 4500) /\ Within(f, 500, 4500)
    BY <1>1, ATRVolRange, FeatureVolRange
  <1>3. VolScore(in) = (a + f) \div 2
    BY DEF VolScore
  <1> HIDE DEF a, f
  <1>4. Within((a + f) \div 2, 500, 4500)
    BY <1>2 DEF Within
  <1> QED
    BY <1>3, <1>4

\* regime.Calculate returns 5 to 95 points.
THEOREM RegimeRange ==
    ASSUME NEW in \in Input
    PROVE  Within(RegimeScore(in), 500, 9500)
  <1> DEFINE trend == calcTrendScore(in.adx)
             vol   == VolScore(in)
  <1>1. Within(trend, 0, 5000)
    BY RegimeTrendRange DEF Input
  <1>2. Within(vol, 500, 4500)
    BY VolScoreRange
  <1>3. RegimeScore(in) = IF NothingKnown(in) THEN 5000 ELSE Clamp(trend + vol, 10000)
    BY DEF RegimeScore
  <1> HIDE DEF trend, vol
  <1>4. Within(Clamp(trend + vol, 10000), 500, 9500)
    BY <1>1, <1>2 DEF Clamp, Within
  <1>5. CASE NothingKnown(in)
    BY <1>3, <1>5 DEF Within
  <1>6. CASE ~NothingKnown(in)
    BY <1>3, <1>4, <1>6
  <1> QED
    BY <1>5, <1>6

-----------------------------------------------------------------------------
(***************************************************************************)
(* The signal, and what the gate makes of it.                              *)
(***************************************************************************)
LEMMA RegimeLabelled ==
    ASSUME NEW in \in Input
    PROVE  Regime(in) \in RegimeLabels
  BY DEF Regime, classifyRegime, RegimeLabels

\* Rounding to points keeps whole points as bounds.
LEMMA PointsRange ==
    ASSUME NEW x \in Int, NEW lo \in Int, NEW hi \in Int, 100 * lo <= x, x <= 100 * hi
    PROVE  Within(x \div 100, lo, hi)
  BY DEF Within

\* The scores of a signal are within the ranges of the gate.
LEMMA ScoresOfSignal ==
    ASSUME NEW in \in Input, NEW pass
    PROVE  /\ Within(SignalOf(in, pass).tech, 0, 100)
           /\ Within(SignalOf(in, pass).flow, 0, 88)
           /\ Within(SignalOf(in, pass).regimeScore, 5, 95)
  <1> DEFINE t == TechnicalScore(in)
             f == OrderFlowScore(in)
             r == RegimeScore(in)
  <1>1. Within(t, 0, 10000) /\ Within(f, 0, 8800) /\ Within(r, 500, 9500)
    BY TechnicalRange, OrderFlowRange, RegimeRange
  <1> HIDE DEF t, f, r
  <1>2. Within(t \div 100, 0, 100)
    BY <1>1, PointsRange DEF Within
  <1>3. Within(f \div 100, 0, 88)
    BY <1>1, PointsRange DEF Within
  <1>4. Within(r \div 100, 5, 95)
    BY <1>1, PointsRange DEF Within
  <1> QED
    BY <1>2, <1>3, <1>4 DEF SignalOf, t, f, r

\* Every candle and feature row, with whatever is missing in it, gives a signal the
\* gate is modelled on, with scores narrower than 0..100 allows.
THEOREM SignalIsSignal ==
    ASSUME NEW in \in Input, NEW pass \in BOOLEAN
    PROVE  SignalOf(in, pass) \in Signal
  <1>1. /\ SignalOf(in, pass).tech \in 0..100
        /\ SignalOf(in, pass).flow \in 0..100
        /\ SignalOf(in, pass).regimeScore \in 0..100
    BY ScoresOfSignal DEF Within
  <1>2. SignalOf(in, pass).regime \in RegimeLabels
    BY RegimeLabelled DEF SignalOf
  <1> DEFINE t == TechnicalScore(in) \div 100
             f == OrderFlowScore(in) \div 100
             r == RegimeScore(in) \div 100
             l == Regime(in)
  <1>3. t \in 0..100 /\ f \in 0..100 /\ r \in 0..100 /\ l \in RegimeLabels
    BY <1>1, <1>2 DEF SignalOf
  <1>4. SignalOf(in, pass) = [tech |-> t, flow |-> f, regimeScore |-> r, finite |-> TRUE,
                              regime |-> l, mlPass |-> pass]
    BY DEF SignalOf
  <1> HIDE DEF t, f, r, l
  <1>5. [tech |-> t, flow |-> f, regimeScore |-> r, finite |-> TRUE, regime |-> l, mlPass |-> pass]
          \in Signal
    BY <1>3, Zenon DEF Signal
  <1> QED
    BY <1>4, <1>5

\* A row without ADX, as each of the first bars is, is never traded: the label is
\* "unknown" whatever else is known, and the gate refuses it in every state.
THEOREM UnknownNeverTrades ==
    ASSUME NEW in \in Input, NEW pass, NEW g, ~valid(in.adx)
    PROVE  Evaluate(g, SignalOf(in, pass)) = [decision |-> "no_trade", size |-> 0]
  <1>1. SignalOf(in, pass).regime = "unknown"
    BY DEF SignalOf, Regime, classifyRegime
  <1>2. ~SignalPasses(SignalOf(in, pass))
    BY <1>1 DEF SignalPasses
  <1> QED
    BY <1>2 DEF Evaluate

\* Below a confidence of 80 no state of the gate decides for a full size.
LEMMA NotFull ==
    ASSUME NEW sig, NEW g, NEW t \in Int, NEW f \in Int, NEW r \in Int,
           sig.tech = t, sig.flow = f, sig.regimeScore = r, 40 * t + 40 * f + 20 * r < 8000
    PROVE  Evaluate(g, sig).decision # "full_size"
  <1> DEFINE conf == 40 * t + 40 * f + 20 * r
  <1>1. conf \in Int /\ conf < 8000
    OBVIOUS
  <1>2. RawConfidence(sig) = conf
    BY DEF RawConfidence
  <1> HIDE DEF conf
  <1>3. SizeFromConfidence(conf) \in {0, 4, 8}
    BY <1>1 DEF SizeFromConfidence
  <1>4. DecisionFromSize(4) = "small_size" /\ DecisionFromSize(8) = "normal_size"
    BY DEF DecisionFromSize
  <1> QED
    BY <1>2, <1>3, <1>4 DEF Evaluate

\* A full size takes a confidence of 80, which the order flow and the regime cannot
\* make up for below 65 technical points: with the short threshold at 40 a short,
\* however good its other scores, is never of full size.
THEOREM ShortsNeverFull ==
    ASSUME NEW in \in Input, NEW pass, NEW g, SignalOf(in, pass).tech < 65
    PROVE  Evaluate(g, SignalOf(in, pass)).decision # "full_size"
  <1> DEFINE t == SignalOf(in, pass).tech
             f == SignalOf(in, pass).flow
             r == SignalOf(in, pass).regimeScore
  <1>1. Within(t, 0, 64) /\ Within(f, 0, 88) /\ Within(r, 5, 95)
    BY ScoresOfSignal DEF Within
  <1> HIDE DEF t, f, r
  <1>2. 40 * t + 40 * f + 20 * r < 8000
    BY <1>1 DEF Within
  <1>3. t \in Int /\ f \in Int /\ r \in Int
    BY <1>1 DEF Within
  <1> QED
    BY <1>2, <1>3, NotFull DEF t, f, r

\* Without any order-flow record a trade is never of full size, however good the
\* chart: the neutral scores add up to 47 points at most.
THEOREM NoFlowNeverFull ==
    ASSUME NEW in \in Input, NEW pass, NEW g,
           ~valid(in.funding), in.oiDelta \in {NaN, 0}, in.ls \in {NaN, 0},
           in.longLiq = 0, in.shortLiq = 0
    PROVE  Evaluate(g, SignalOf(in, pass)).decision # "full_size"
  <1>1. calcFundingScore(in.funding) = 1000
    BY DEF calcFundingScore
  <1>2. calcOIScore(in.oiDelta) \in {1250, 1500}
    BY NaNAssumption DEF calcOIScore, valid, Clamp
  <1>3. calcLSScore(in.ls) = 1000
    BY NaNAssumption DEF calcLSScore, valid
  <1>4. calcLiqScore(in.longLiq, in.shortLiq) = 1250
    BY NaNAssumption DEF calcLiqScore, valid
  <1>5. OrderFlowScore(in) \in {4500, 4750}
    BY <1>1, <1>2, <1>3, <1>4 DEF OrderFlowScore, Clamp
  <1> DEFINE t == SignalOf(in, pass).tech
             f == SignalOf(in, pass).flow
             r == SignalOf(in, pass).regimeScore
  <1>6. Within(f, 45, 47)
    BY <1>5 DEF SignalOf, Within
  <1>7. Within(t, 0, 100) /\ Within(r, 5, 95)
    BY ScoresOfSignal
  <1> HIDE DEF t, f, r
  <1>8. 40 * t + 40 * f + 20 * r < 8000
    BY <1>6, <1>7 DEF Within
  <1>9. t \in Int /\ f \in Int /\ r \in Int
    BY <1>6, <1>7 DEF Within
  <1> QED
    BY <1>8, <1>9, NotFull DEF t, f, r

-----------------------------------------------------------------------------
(***************************************************************************)
(* Sums over the trades.                                                   *)
(***************************************************************************)
\* A set of numbers that is not empty has a least one.
LEMMA LeastNumber ==
    ASSUME NEW T, T \subseteq Nat, T # {}
    PROVE  \E x \in T : \A y \in T : x <= y
<1> DEFINE R == OpToRel(<, Nat)
<1>1. PICK x \in T : \A y \in T : ~ (<<y, x>> \in R)
  <2>1. IsWellFoundedOn(R, Nat)
    BY NatLessThanWellFounded
  <2> HIDE DEF R
  <2> QED BY <2>1, WFMin
<1>2. \A y \in T : ~ (y < x)
  BY <1>1 DEF OpToRel
<1> HIDE DEF R
<1> QED BY <1>2

\* What holds at 0 and at each number after one at which it holds.
LEMMA FromZero ==
    ASSUME NEW n \in Nat, NEW T, 0 \in T, \A i \in 1..n : i - 1 \in T => i \in T
    PROVE  \A i \in 0..n : i \in T
<1> DEFINE Missing == (0..n) \ T
<1>1. SUFFICES ASSUME Missing # {} PROVE FALSE
  OBVIOUS
<1>2. PICK x \in Missing : \A y \in Missing : x <= y
  <2>1. Missing \subseteq Nat
    OBVIOUS
  <2> HIDE DEF Missing
  <2> QED BY <1>1, <2>1, LeastNumber
<1>3. x \in 0..n /\ x # 0 /\ x \notin T
  BY <1>2
<1>4. x \in 1..n /\ x - 1 \in 0..n /\ ~ (x <= x - 1)
  BY <1>3
<1>5. x - 1 \in T
  BY <1>2, <1>4
<1> QED BY <1>3, <1>4, <1>5

\* A function over the first numbers is a sequence.
LEMMA FunctionSeq ==
    ASSUME NEW n \in Nat, NEW S, NEW f \in [1..n -> S]
    PROVE  f \in Seq(S) /\ Len(f) = n /\ DOMAIN f = 1..n
OBVIOUS

\* f starts with d, and each value follows from the one before by F.
Iterates(f, n, V, d, F) ==
    f \in [0..n -> V] /\ f[0] = d /\ \A i \in 1..n : f[i] = F[<<i, f[i - 1]>>]

\* There is one.
LEMMA IterationExists ==
    ASSUME NEW n \in Nat, NEW V, NEW d \in V, NEW F \in [(1..n) \X V -> V]
    PROVE  \E f : Iterates(f, n, V, d, F)
<1> DEFINE T == {m \in 0..n : \E f : Iterates(f, m, V, d, F)}
<1>1. 0 \in T
  <2> DEFINE f == [k \in 0..0 |-> d]
  <2>1. Iterates(f, 0, V, d, F)
    BY DEF Iterates
  <2>2. 0 \in 0..n
    OBVIOUS
  <2> HIDE DEF f
  <2> QED BY <2>1, <2>2
<1>2. ASSUME NEW m \in 1..n, m - 1 \in T PROVE m \in T
  <2>1. PICK f : Iterates(f, m - 1, V, d, F)
    BY <1>2
  <2>2. m \in 1..n /\ m - 1 \in 0..m - 1 /\ f[m - 1] \in V
    BY <2>1 DEF Iterates
  <2>3. F[<<m, f[m - 1]>>] \in V
    BY <2>2
  <2> DEFINE g == [k \in 0..m |-> IF k = m THEN F[<<m, f[m - 1]>>] ELSE f[k]]
  <2>4. g \in [0..m -> V] /\ g[0] = d
    BY <2>1, <2>2, <2>3 DEF Iterates
  <2>5. \A k \in 1..m : g[k] = F[<<k, g[k - 1]>>]
    <3> TAKE k \in 1..m
    <3>1. k - 1 \in 0..m /\ k - 1 # m /\ k \in 0..m
      OBVIOUS
    <3>2. g[k - 1] = f[k - 1] /\ g[k] = IF k = m THEN F[<<m, f[m - 1]>>] ELSE f[k]
      BY <3>1
    <3>3. k # m => k \in 1..m - 1
      OBVIOUS
    <3> HIDE DEF g
    <3> QED BY <2>1, <3>2, <3>3 DEF Iterates
  <2>6. Iterates(g, m, V, d, F) /\ m \in 0..n
    <3> HIDE DEF g
    <3> QED BY <2>4, <2>5 DEF Iterates
  <2> HIDE DEF g
  <2> QED BY <2>6
<1>3. n \in T
  <2>1. n \in 0..n
    OBVIOUS
  <2> HIDE DEF T
  <2> QED BY <1>1, <1>2, <2>1, FromZero
<1> QED BY <1>3

\* The sums of the beginnings of f.
Sums(u, f) ==
    /\ u \in [0..Len(f) -> Int]
    /\ u[0] = 0 /\ \A n \in 1..Len(f) : u[n] = u[n - 1] + f[n]

\* Some function has them.
LEMMA SumsExist ==
    ASSUME NEW f \in Seq(Int)
    PROVE  \E u : Sums(u, f)
<1> DEFINE n == Len(f)
           F == [x \in (1..n) \X Int |-> x[2] + f[x[1]]]
<1>1. n \in Nat /\ f \in [1..n -> Int]
  BY LenProperties
<1>2. F \in [(1..n) \X Int -> Int] /\ \A i \in 1..n, y \in Int : F[<<i, y>>] = y + f[i]
  BY <1>1
<1> HIDE DEF F
<1>3. PICK u : Iterates(u, n, Int, 0, F)
  <2>1. 0 \in Int
    OBVIOUS
  <2> HIDE DEF n
  <2> QED BY <1>1, <1>2, <2>1, IterationExists
<1>4. \A i \in 1..n : u[i] = u[i - 1] + f[i]
  <2> TAKE i \in 1..n
  <2>1. i - 1 \in 0..n
    BY <1>1
  <2> QED BY <1>2, <1>3, <2>1 DEF Iterates
<1>5. Sums(u, f)
  BY <1>3, <1>4 DEF Iterates, Sums
<1> QED BY <1>5

\* The last of them is the total.
LEMMA TotalIsLast ==
    ASSUME NEW f \in Seq(Int), NEW u, Sums(u, f)
    PROVE  Total(f) = u[Len(f)]
<1> DEFINE n == Len(f)
           up[m \in 0..n] == IF m = 0 THEN 0 ELSE up[m - 1] + f[m]
<1>1. n \in Nat
  BY LenProperties
<1>2. u = [m \in 0..n |-> IF m = 0 THEN 0 ELSE u[m - 1] + f[m]]
  <2>1. u = [m \in 0..n |-> u[m]]
    BY DEF Sums
  <2>2. \A m \in 0..n : u[m] = IF m = 0 THEN 0 ELSE u[m - 1] + f[m]
    <3> TAKE m \in 0..n
    <3>1. m # 0 => m \in 1..n
      BY <1>1
    <3> HIDE DEF n
    <3> QED BY <3>1 DEF Sums, n
  <2> HIDE DEF n
  <2> QED BY <2>1, <2>2
<1>3. up = [m \in 0..n |-> IF m = 0 THEN 0 ELSE up[m - 1] + f[m]]
  BY <1>2, Zenon
<1>4. Total(f) = up[n]
  BY Zenon DEF Total
<1> HIDE DEF up
<1> DEFINE T == {m \in 0..n : up[m] = u[m]}
<1>5. 0 \in T
  <2>1. 0 \in 0..n
    BY <1>1
  <2> HIDE DEF n
  <2> QED BY <1>2, <1>3, <2>1
<1>6. \A m \in 1..n : m - 1 \in T => m \in T
  <2> TAKE m \in 1..n
  <2>1. m \in 0..n /\ m # 0
    BY <1>1
  <2> HIDE DEF n
  <2> QED BY <1>2, <1>3, <2>1
<1>7. n \in T
  <2>1. n \in 0..n
    BY <1>1
  <2> HIDE DEF T, n
  <2> QED BY <1>1, <1>5, <1>6, <2>1, FromZero
<1> QED BY <1>4, <1>7

\* There is no sum of nothing.
LEMMA TotalEmpty == Total(<< >>) = 0
<1>1. << >> \in Seq(Int) /\ Len(<< >>) = 0
  OBVIOUS
<1>2. PICK u : Sums(u, << >>)
  BY <1>1, SumsExist
<1> QED BY <1>1, <1>2, TotalIsLast DEF Sums

\* One more number.
LEMMA TotalAppend ==
    ASSUME NEW f \in Seq(Int), NEW x \in Int
    PROVE  Total(f) \in Int /\ Total(Append(f, x)) = Total(f) + x
<1> DEFINE g == Append(f, x)
           n == Len(f)
<1>1. PICK u : Sums(u, g)
  <2>1. g \in Seq(Int)
    OBVIOUS
  <2> HIDE DEF g
  <2> QED BY <2>1, SumsExist
<1>2. n \in Nat /\ g \in Seq(Int) /\ Len(g) = n + 1 /\ g[n + 1] = x /\ \A k \in 1..n : g[k] = f[k]
  BY LenProperties
<1> DEFINE v == [k \in 0..n |-> u[k]]
<1>3. Sums(v, f)
  <2>1. u \in [0..n + 1 -> Int] /\ u[0] = 0 /\ \A k \in 1..n + 1 : u[k] = u[k - 1] + g[k]
    BY <1>1, <1>2 DEF Sums
  <2>2. v \in [0..n -> Int] /\ v[0] = 0
    BY <1>2, <2>1
  <2>3. \A k \in 1..n : v[k] = v[k - 1] + f[k]
    <3> TAKE k \in 1..n
    <3>1. k \in 0..n /\ k - 1 \in 0..n /\ k \in 1..n + 1
      BY <1>2
    <3> HIDE DEF n, g
    <3> QED BY <1>2, <2>1, <3>1
  <2> HIDE DEF v
  <2> QED BY <2>2, <2>3 DEF Sums
<1>4. Total(g) = u[n + 1] /\ Total(f) = v[n]
  BY <1>1, <1>2, <1>3, TotalIsLast
<1>5. u[n + 1] = u[n] + x /\ u[n] \in Int /\ v[n] = u[n]
  <2>1. n + 1 \in 1..n + 1 /\ n \in 0..n /\ n \in 0..n + 1 /\ n + 1 - 1 = n
    BY <1>2
  <2> HIDE DEF g, n
  <2>2. u \in [0..n + 1 -> Int] /\ \A k \in 1..n + 1 : u[k] = u[k - 1] + g[k]
    BY <1>1, <1>2 DEF Sums
  <2> QED BY <1>2, <2>1, <2>2
<1> QED BY <1>4, <1>5

\* The sum of the numbers up to one.
LEMMA TotalPrefix ==
    ASSUME NEW f \in Seq(Int), NEW u, Sums(u, f), NEW n \in 0..Len(f)
    PROVE  Total([k \in 1..n |-> f[k]]) = u[n]
<1> DEFINE g == [k \in 1..n |-> f[k]]
           v == [k \in 0..n |-> u[k]]
<1>1. Len(f) \in Nat /\ f \in [1..Len(f) -> Int] /\ n \in Nat
  BY LenProperties
<1>2. g \in [1..n -> Int]
  BY <1>1
<1>3. g \in Seq(Int) /\ Len(g) = n
  <2> HIDE DEF g
  <2> QED BY <1>1, <1>2, FunctionSeq
<1>4. Sums(v, g)
  <2>1. v \in [0..n -> Int] /\ v[0] = 0
    BY <1>1 DEF Sums
  <2>2. \A k \in 1..n : v[k] = v[k - 1] + g[k]
    <3> TAKE k \in 1..n
    <3>1. k \in 0..n /\ k - 1 \in 0..n /\ k \in 1..Len(f)
      BY <1>1
    <3> QED BY <3>1 DEF Sums
  <2> HIDE DEF v, g
  <2> QED BY <1>3, <2>1, <2>2 DEF Sums
<1>5. Total(g) = v[n]
  <2> HIDE DEF v, g
  <2> QED BY <1>3, <1>4, TotalIsLast
<1> QED BY <1>1, <1>5

\* The sum of two sums.
LEMMA TotalAdds ==
    ASSUME NEW n \in Nat, NEW f \in [1..n -> Int], NEW g \in [1..n -> Int], NEW h \in [1..n -> Int],
           \A k \in 1..n : h[k] = f[k] + g[k]
    PROVE  /\ Total(f) \in Int /\ Total(g) \in Int
           /\ Total(h) = Total(f) + Total(g)
<1>1. /\ f \in Seq(Int) /\ Len(f) = n
      /\ g \in Seq(Int) /\ Len(g) = n
      /\ h \in Seq(Int) /\ Len(h) = n
  BY FunctionSeq
<1>2. PICK u, v : Sums(u, f) /\ Sums(v, g)
  BY <1>1, SumsExist
<1> DEFINE w == [k \in 0..n |-> u[k] + v[k]]
<1>3. Sums(w, h)
  <2>1. w \in [0..n -> Int] /\ w[0] = 0
    BY <1>1, <1>2 DEF Sums
  <2>2. \A k \in 1..n : w[k] = w[k - 1] + h[k]
    <3> TAKE k \in 1..n
    <3>1. k \in 0..n /\ k - 1 \in 0..n
      OBVIOUS
    <3>2. /\ u[k] = u[k - 1] + f[k] /\ v[k] = v[k - 1] + g[k]
          /\ u[k - 1] \in Int /\ v[k - 1] \in Int /\ f[k] \in Int /\ g[k] \in Int
      BY <1>1, <1>2, <3>1 DEF Sums
    <3> QED BY <3>1, <3>2
  <2> HIDE DEF w
  <2> QED BY <1>1, <2>1, <2>2 DEF Sums
<1>4. Total(f) = u[n] /\ Total(g) = v[n] /\ Total(h) = w[n]
  <2> HIDE DEF w
  <2> QED BY <1>1, <1>2, <1>3, TotalIsLast
<1>5. u[n] \in Int /\ v[n] \in Int /\ w[n] = u[n] + v[n]
  BY <1>1, <1>2 DEF Sums
<1> QED BY <1>4, <1>5

-----------------------------------------------------------------------------
(***************************************************************************)
(* The drawdown.                                                           *)
(***************************************************************************)
\* A product is not more than that of a greater number.
LEMMA Scaled ==
    ASSUME NEW a \in Int, NEW b \in Int, NEW c \in Int, a <= b, 0 <= c
    PROVE  a * c <= b * c
OBVIOUS

\* And the other way round.
LEMMA Cancelled ==
    ASSUME NEW a \in Int, NEW b \in Int, NEW c \in Int, 0 < c, a * c <= b * c
    PROVE  a <= b
<1> SUFFICES ASSUME b + 1 <= a PROVE FALSE
  OBVIOUS
<1>1. (b + 1) * c <= a * c
  BY Scaled
<1>2. (b + 1) * c = b * c + c
  OBVIOUS
<1> QED BY <1>1, <1>2

\* A fall by a from x is no greater a part than fall of from.
NotWorse(a, x, fall, from) == a * from <= fall * x

\* A fall to y from a peak is the worst: one from x, not above it, is a smaller part.
LEMMA FromBelow ==
    ASSUME NEW x \in Int, NEW peak \in Int, NEW y \in Int, NEW from \in Int, NEW fall \in Int,
           0 < x, x <= peak, 0 <= y, 0 < from, NotWorse(peak - y, peak, fall, from)
    PROVE  NotWorse(x - y, x, fall, from)
<1> DEFINE d == from - fall
<1>1. d * peak <= y * from
  <2>1. (peak - y) * from = peak * from - y * from /\ d * peak = from * peak - fall * peak
    OBVIOUS
  <2> QED BY <2>1 DEF NotWorse
<1>2. d * x <= y * from
  <2>1. CASE d <= 0
    <3>1. d * x <= 0 * x /\ 0 * from <= y * from
      BY <2>1, Scaled
    <3> QED BY <3>1
  <2>2. CASE d > 0
    <3>1. x * d <= peak * d
      BY <2>2, Scaled
    <3>2. x * d = d * x /\ peak * d = d * peak
      OBVIOUS
    <3> QED BY <1>1, <3>1, <3>2
  <2> QED BY <2>1, <2>2
<1>3. (x - y) * from = x * from - y * from /\ d * x = from * x - fall * x
  OBVIOUS
<1> QED BY <1>2, <1>3 DEF NotWorse

\* What is not worse than one fall is not worse than a worse one.
LEMMA WorseStill ==
    ASSUME NEW a \in Int, NEW x \in Int, 0 < x,
           NEW from \in Int, NEW fall \in Int, 0 < from, NotWorse(a, x, fall, from),
           NEW from2 \in Int, NEW fall2 \in Int, 0 < from2, NotWorse(fall, from, fall2, from2)
    PROVE  NotWorse(a, x, fall2, from2)
<1>1. (a * from) * from2 <= (fall * x) * from2
  BY Scaled DEF NotWorse
<1>2. (fall * from2) * x <= (fall2 * from) * x
  BY Scaled DEF NotWorse
<1>3. /\ (a * from) * from2 = (a * from2) * from
      /\ (fall * x) * from2 = (fall * from2) * x
      /\ (fall2 * from) * x = (fall2 * x) * from
  OBVIOUS
<1>4. (a * from2) * from <= (fall2 * x) * from
  BY <1>1, <1>2, <1>3
<1> QED BY <1>4, Cancelled DEF NotWorse

\* The state of calcMaxDrawdown.
Drawdown == [equity : Int, peak : Nat \ {0}, fall : Nat, from : Nat \ {0}]

\* A trade keeps its type; the new fall is measured from the peak.
LEMMA LowerFields ==
    ASSUME NEW d \in Drawdown, NEW pnl \in Int
    PROVE  LET e == Lower(d, pnl)
           IN  /\ e \in Drawdown
               /\ e.equity = d.equity + pnl
               /\ e.peak = IF e.equity > d.peak THEN e.equity ELSE d.peak
               /\ \/ e.fall = d.fall /\ e.from = d.from
                  \/ /\ e.fall = e.peak - e.equity /\ e.from = e.peak
                     /\ NotWorse(d.fall, d.from, e.fall, e.from)
               /\ NotWorse(e.peak - e.equity, e.peak, e.fall, e.from)
<1> DEFINE y == d.equity + pnl
           p == IF y > d.peak THEN y ELSE d.peak
<1>1. /\ d.equity \in Int /\ d.peak \in Nat \ {0} /\ d.fall \in Nat /\ d.from \in Nat \ {0}
      /\ d = [equity |-> d.equity, peak |-> d.peak, fall |-> d.fall, from |-> d.from]
  BY DEF Drawdown
<1>2. y \in Int /\ p \in Nat \ {0} /\ p - y \in Nat
  BY <1>1
<1>3. Lower(d, pnl) = IF (p - y) * d.from > d.fall * p
                        THEN [equity |-> y, peak |-> p, fall |-> p - y, from |-> p]
                        ELSE [d EXCEPT !.equity = y, !.peak = p]
  BY DEF Lower
<1>4. LET w == [d EXCEPT !.equity = y, !.peak = p]
      IN  w \in Drawdown /\ w.equity = y /\ w.peak = p /\ w.fall = d.fall /\ w.from = d.from
  <2> HIDE DEF y, p
  <2> QED BY <1>1, <1>2 DEF Drawdown
<1>5. p = IF y > d.peak THEN y ELSE d.peak
  OBVIOUS
<1>6. y = d.equity + pnl
  OBVIOUS
<1>7. (p - y) * d.from \in Int /\ d.fall * p \in Int
  BY <1>1, <1>2
<1> HIDE DEF y, p
<1>8. CASE (p - y) * d.from > d.fall * p
  <2>1. Lower(d, pnl) = [equity |-> y, peak |-> p, fall |-> p - y, from |-> p]
    BY <1>3, <1>8
  <2>2. d.fall * p <= (p - y) * d.from
    BY <1>7, <1>8
  <2>3. (p - y) * p <= (p - y) * p
    BY <1>2
  <2> QED BY <1>2, <1>5, <1>6, <2>1, <2>2, <2>3 DEF Drawdown, NotWorse
<1>9. CASE ~((p - y) * d.from > d.fall * p)
  <2> DEFINE w == Lower(d, pnl)
  <2>1. w \in Drawdown /\ w.equity = y /\ w.peak = p /\ w.fall = d.fall /\ w.from = d.from
    BY <1>3, <1>4, <1>9
  <2>2. (p - y) * d.from <= d.fall * p
    BY <1>7, <1>9
  <2> HIDE DEF w
  <2>3. (w.peak - w.equity) * w.from <= w.fall * w.peak
    BY <2>1, <2>2
  <2> QED BY <1>5, <1>6, <2>1, <2>3 DEF w, NotWorse
<1> QED BY <1>8, <1>9

\* The falls DrawdownExact compares, over the equity e after each trade.
Falls(e, n) == {s \in (0..n) \X (0..n) :
                  /\ s[1] <= s[2]
                  /\ \/ \A k \in 0..s[2] : e[k] <= e[s[1]]
                     \/ 0 < e[s[1]] /\ 0 <= e[s[2]]}

\* d is the worst of them.
Worst(d, e, n) ==
    /\ d \in Drawdown /\ d.equity = e[n]
    /\ \A k \in 0..n : e[k] <= d.peak
    /\ \E k \in 0..n : e[k] = d.peak
    /\ \A s \in Falls(e, n) : NotWorse(e[s[1]] - e[s[2]], e[s[1]], d.fall, d.from)
    /\ \E s \in Falls(e, n) : e[s[1]] = d.from /\ e[s[1]] - e[s[2]] = d.fall

\* Where a fall starts, the equity is positive.
LEMMA FallsPositive ==
    ASSUME NEW n \in Nat, NEW e, \A k \in 0..n : e[k] \in Int, e[0] > 0, NEW s \in Falls(e, n)
    PROVE  e[s[1]] \in Int /\ e[s[1]] > 0 /\ e[s[2]] \in Int
BY DEF Falls

\* After one more trade, what Lower returns is.
LEMMA LowerWorst ==
    ASSUME NEW n \in Nat \ {0}, NEW e, \A k \in 0..n : e[k] \in Int, e[0] > 0,
           NEW d, Worst(d, e, n - 1), NEW pnl \in Int, e[n] = e[n - 1] + pnl
    PROVE  Worst(Lower(d, pnl), e, n)
<1> DEFINE w == Lower(d, pnl)
<1>1. d \in Drawdown /\ d.equity = e[n - 1] /\ \A k \in 0..n - 1 : e[k] <= d.peak
  BY DEF Worst
<1>2. /\ w \in Drawdown
      /\ w.equity = e[n]
      /\ w.peak = IF w.equity > d.peak THEN w.equity ELSE d.peak
      /\ \/ w.fall = d.fall /\ w.from = d.from
         \/ /\ w.fall = w.peak - w.equity /\ w.from = w.peak
            /\ NotWorse(d.fall, d.from, w.fall, w.from)
      /\ NotWorse(w.peak - w.equity, w.peak, w.fall, w.from)
  BY <1>1, LowerFields
<1> HIDE DEF w
<1>3. /\ w.equity \in Int /\ w.peak \in Nat \ {0} /\ w.fall \in Nat /\ w.from \in Nat \ {0}
      /\ d.equity \in Int /\ d.peak \in Nat \ {0} /\ d.fall \in Nat /\ d.from \in Nat \ {0}
  BY <1>1, <1>2 DEF Drawdown
<1>4. \A k \in 0..n : e[k] <= w.peak
  <2> TAKE k \in 0..n
  <2>1. CASE k = n
    BY <1>2, <1>3, <2>1
  <2>2. CASE k # n
    <3>1. k \in 0..n - 1 /\ e[k] \in Int
      BY <2>2
    <3>2. e[k] <= d.peak
      BY <1>1, <3>1
    <3> QED BY <1>2, <1>3, <3>1, <3>2
  <2> QED BY <2>1, <2>2
<1>5. \E k \in 0..n : e[k] = w.peak
  <2>1. PICK k \in 0..n - 1 : e[k] = d.peak
    BY DEF Worst
  <2>2. k \in 0..n /\ n \in 0..n
    OBVIOUS
  <2> QED BY <1>2, <2>1, <2>2
<1>6. \A s \in Falls(e, n) : s[2] # n => s \in Falls(e, n - 1)
  BY DEF Falls
<1>7. \A s \in Falls(e, n - 1) : s \in Falls(e, n)
  BY DEF Falls
<1>8. ASSUME NEW s \in Falls(e, n)
      PROVE  NotWorse(e[s[1]] - e[s[2]], e[s[1]], w.fall, w.from)
  <2> DEFINE x == e[s[1]]
             y == e[s[2]]
  <2>1. x \in Int /\ x > 0 /\ y \in Int /\ s[1] \in 0..n
    BY FallsPositive DEF Falls
  <2>2. CASE s[2] # n
    <3>1. NotWorse(x - y, x, d.fall, d.from)
      BY <1>6, <2>2 DEF Worst
    <3> HIDE DEF x, y
    <3>2. w.fall = d.fall /\ w.from = d.from => NotWorse(x - y, x, w.fall, w.from)
      BY <3>1
    <3>3. NotWorse(d.fall, d.from, w.fall, w.from) => NotWorse(x - y, x, w.fall, w.from)
      <4>1. x - y \in Int
        BY <2>1
      <4>2. /\ x \in Int /\ d.from \in Int /\ d.fall \in Int /\ w.from \in Int /\ w.fall \in Int
            /\ 0 < x /\ 0 < d.from /\ 0 < w.from
        BY <1>3, <2>1
      <4> QED BY ONLY <3>1, <4>1, <4>2, WorseStill
    <3>4. NotWorse(x - y, x, w.fall, w.from)
      BY <1>2, <3>2, <3>3
    <3> QED BY <3>4 DEF x, y
  <2>3. CASE s[2] = n
    <3>1. y = w.equity /\ x <= w.peak
      BY <1>2, <1>4, <2>1, <2>3
    <3>2. CASE 0 <= y
      <4>1. NotWorse(x - y, x, w.fall, w.from)
        <5> HIDE DEF x, y
        <5>1. NotWorse(w.peak - y, w.peak, w.fall, w.from)
          BY <1>2, <3>1
        <5>2. x \in Int /\ w.peak \in Int /\ y \in Int /\ w.from \in Int /\ w.fall \in Int
          BY <1>3, <2>1
        <5>3. 0 < x /\ x <= w.peak /\ 0 <= y /\ 0 < w.from
          BY <1>3, <2>1, <3>1, <3>2
        <5> QED BY ONLY <5>1, <5>2, <5>3, FromBelow
      <4> QED BY <4>1
    <3>3. CASE ~(0 <= y)
      <4>1. \A k \in 0..n : e[k] <= x
        BY <2>3, <3>3 DEF Falls
      <4>2. x = w.peak
        <5>1. PICK k \in 0..n : e[k] = w.peak
          BY <1>5
        <5>2. w.peak <= x
          BY <4>1, <5>1
        <5> HIDE DEF x
        <5> QED BY <1>3, <2>1, <3>1, <5>2
      <4> HIDE DEF x, y
      <4>3. NotWorse(x - y, x, w.fall, w.from)
        BY <1>2, <3>1, <4>2
      <4> QED BY <4>3 DEF x, y
    <3> QED BY <3>2, <3>3
  <2> QED BY <2>2, <2>3
<1>9. \E s \in Falls(e, n) : e[s[1]] = w.from /\ e[s[1]] - e[s[2]] = w.fall
  <2>1. CASE w.fall = d.fall /\ w.from = d.from
    BY <1>7, <2>1 DEF Worst
  <2>2. CASE w.fall = w.peak - w.equity /\ w.from = w.peak
    <3>1. PICK k \in 0..n : e[k] = w.peak
      BY <1>5
    <3>2. <<k, n>> \in Falls(e, n)
      BY <1>4, <3>1 DEF Falls
    <3> QED BY <1>2, <2>2, <3>1, <3>2
  <2> QED BY <1>2, <2>1, <2>2
<1>10. Worst(w, e, n)
  BY <1>2, <1>4, <1>5, <1>8, <1>9 DEF Worst
<1> QED BY <1>10 DEF w

\* The money and the bars of a trade.
LEMMA TradeFields ==
    ASSUME NEW s \in Seq(Trade), NEW k \in 1..Len(s)
    PROVE  /\ s[k] \in Trade /\ s[k].pnl \in Int /\ s[k].returnPct \in Int
           /\ s[k].bar \in 1..Bars /\ s[k].exitBar \in 1..Bars /\ s[k].holdingBars \in 1..Bars
<1>1. s[k] \in Trade
  BY ElementOfSeq
<1> QED BY <1>1 DEF Trade

\* The equity after each trade.
Equity(s) == [n \in 0..Len(s) |-> Capital + Total([k \in 1..n |-> s[k].pnl])]

\* It starts with the capital, and each trade adds its PnL.
LEMMA EquityStep ==
    ASSUME NEW s \in Seq(Trade)
    PROVE  /\ Equity(s)[0] = Capital
           /\ \A n \in 0..Len(s) : Equity(s)[n] \in Int
           /\ \A n \in 1..Len(s) : Equity(s)[n] = Equity(s)[n - 1] + s[n].pnl
<1> DEFINE N == Len(s)
           p == [k \in 1..N |-> s[k].pnl]
<1>1. N \in Nat
  BY LenProperties
<1>2. p \in [1..N -> Int]
  BY TradeFields
<1>3. p \in Seq(Int) /\ Len(p) = N
  <2> HIDE DEF N, p
  <2> QED BY <1>1, <1>2, FunctionSeq
<1>4. PICK u : Sums(u, p)
  <2> HIDE DEF p
  <2> QED BY <1>3, SumsExist
<1>5. \A n \in 0..N : Equity(s)[n] = Capital + u[n]
  <2> TAKE n \in 0..N
  <2>1. Equity(s)[n] = Capital + Total([k \in 1..n |-> s[k].pnl])
    BY DEF Equity
  <2>2. [k \in 1..n |-> s[k].pnl] = [k \in 1..n |-> p[k]]
    <3>1. \A k \in 1..n : p[k] = s[k].pnl
      <4> TAKE k \in 1..n
      <4>1. k \in 1..N
        BY <1>1
      <4> QED BY <4>1
    <3> HIDE DEF p
    <3> QED BY <3>1
  <2>3. Total([k \in 1..n |-> p[k]]) = u[n]
    <3> HIDE DEF p, N
    <3>1. n \in 0..Len(p)
      BY <1>3
    <3> QED BY <1>3, <1>4, <3>1, TotalPrefix
  <2> QED BY <2>1, <2>2, <2>3
<1>6. /\ u[0] = 0 /\ \A n \in 0..N : u[n] \in Int
      /\ \A n \in 1..N : u[n] = u[n - 1] + p[n] /\ p[n] = s[n].pnl /\ p[n] \in Int
  <2>1. \A n \in 1..N : p[n] = s[n].pnl
    OBVIOUS
  <2> HIDE DEF p
  <2> QED BY <1>2, <1>3, <1>4, <2>1 DEF Sums
<1>7. Capital \in Int
  BY MetricsAssumption
<1> HIDE DEF p, N
<1>8. \A n \in 1..N : Equity(s)[n] = Equity(s)[n - 1] + s[n].pnl
  <2> TAKE n \in 1..N
  <2>1. n \in 0..N /\ n - 1 \in 0..N
    BY <1>1
  <2> QED BY <1>5, <1>6, <1>7, <2>1
<1>9. Equity(s)[0] = Capital
  <2>1. 0 \in 0..N
    BY <1>1
  <2> QED BY <1>5, <1>6, <1>7, <2>1
<1>10. \A n \in 0..N : Equity(s)[n] \in Int
  BY <1>5, <1>6, <1>7
<1> QED BY <1>8, <1>9, <1>10 DEF N

\* What calcMaxDrawdown returns is the worst of the falls.
LEMMA DrawdownIsWorst ==
    ASSUME NEW s \in Seq(Trade)
    PROVE  Worst(calcMaxDrawdown(s), Equity(s), Len(s))
<1> DEFINE n == Len(s)
           start == [equity |-> Capital, peak |-> Capital, fall |-> 0, from |-> Capital]
           F == [x \in (1..n) \X Drawdown |-> Lower(x[2], s[x[1]].pnl)]
           after[i \in 0..n] == IF i = 0 THEN start ELSE Lower(after[i - 1], s[i].pnl)
<1>1. n \in Nat
  BY LenProperties
<1>2. start \in Drawdown
  BY MetricsAssumption DEF Drawdown
<1>3. /\ F \in [(1..n) \X Drawdown -> Drawdown]
      /\ \A i \in 1..n, d \in Drawdown : F[<<i, d>>] = Lower(d, s[i].pnl)
  <2>1. \A i \in 1..n, d \in Drawdown : Lower(d, s[i].pnl) \in Drawdown
    BY TradeFields, LowerFields
  <2> HIDE DEF n
  <2> QED BY <2>1
<1>4. PICK d : Iterates(d, n, Drawdown, start, F)
  <2> HIDE DEF F, start, n
  <2> QED BY <1>1, <1>2, <1>3, IterationExists
<1>5. /\ d \in [0..n -> Drawdown] /\ d[0] = start
      /\ \A i \in 1..n : d[i - 1] \in Drawdown /\ d[i] = Lower(d[i - 1], s[i].pnl)
  <2>1. \A i \in 1..n : i - 1 \in 0..n
    BY <1>1
  <2> HIDE DEF F, start, n
  <2> QED BY <1>3, <1>4, <2>1 DEF Iterates
<1>6. d = [i \in 0..n |-> IF i = 0 THEN start ELSE Lower(d[i - 1], s[i].pnl)]
  <2>1. d = [i \in 0..n |-> d[i]]
    BY <1>5
  <2>2. \A i \in 0..n : d[i] = IF i = 0 THEN start ELSE Lower(d[i - 1], s[i].pnl)
    <3> TAKE i \in 0..n
    <3>1. i # 0 => i \in 1..n
      BY <1>1
    <3> HIDE DEF start, n
    <3> QED BY <1>5, <3>1
  <2> HIDE DEF start, n
  <2> QED BY <2>1, <2>2
<1>7. after = [i \in 0..n |-> IF i = 0 THEN start ELSE Lower(after[i - 1], s[i].pnl)]
  BY <1>6, Zenon
<1>8. calcMaxDrawdown(s) = after[n]
  BY Zenon DEF calcMaxDrawdown
<1> HIDE DEF after
<1> DEFINE T == {i \in 0..n : after[i] = d[i] /\ Worst(d[i], Equity(s), i)}
<1>9. 0 \in T
  <2>1. 0 \in 0..n
    BY <1>1
  <2>2. after[0] = d[0]
    <3> HIDE DEF start, n
    <3> QED BY <1>5, <1>7, <2>1
  <2>3. start.equity = Capital /\ start.peak = Capital /\ start.fall = 0 /\ start.from = Capital
    OBVIOUS
  <2>4. Equity(s)[0] = Capital /\ Capital \in Nat \ {0}
    BY EquityStep, MetricsAssumption
  <2>5. <<0, 0>> \in Falls(Equity(s), 0)
    BY <2>4 DEF Falls
  <2>6. Worst(start, Equity(s), 0)
    <3> DEFINE e == Equity(s)
    <3> HIDE DEF start, e
    <3>1. \A x \in Falls(e, 0) : x = <<0, 0>>
      BY DEF Falls
    <3>2. e[0] = Capital /\ Capital - Capital = 0 /\ NotWorse(0, Capital, 0, Capital)
      BY <2>4 DEF NotWorse, e
    <3>3. \A x \in Falls(e, 0) : NotWorse(e[x[1]] - e[x[2]], e[x[1]], start.fall, start.from)
      BY <2>3, <3>1, <3>2
    <3>4. \E x \in Falls(e, 0) : e[x[1]] = start.from /\ e[x[1]] - e[x[2]] = start.fall
      BY <2>3, <2>5, <3>2 DEF e
    <3> QED BY <1>2, <2>3, <2>4, <3>2, <3>3, <3>4 DEF Worst, e
  <2> HIDE DEF start, n
  <2> QED BY <1>5, <2>1, <2>2, <2>6
<1>10. ASSUME NEW i \in 1..n, i - 1 \in T PROVE i \in T
  <2>1. i \in 0..n /\ i # 0 /\ i - 1 \in 0..n /\ i \in Nat \ {0} /\ \A k \in 0..i : k \in 0..n
    BY <1>1
  <2>2. after[i] = d[i] /\ d[i] = Lower(d[i - 1], s[i].pnl)
    <3> HIDE DEF start, n
    <3> QED BY <1>5, <1>7, <1>10, <2>1
  <2> DEFINE e == Equity(s)
  <2>3. e[i] = e[i - 1] + s[i].pnl /\ s[i].pnl \in Int /\ e[0] > 0 /\ \A k \in 0..i : e[k] \in Int
    BY <2>1, EquityStep, TradeFields, MetricsAssumption
  <2>4. Worst(d[i - 1], e, i - 1)
    BY <1>10
  <2> HIDE DEF e
  <2>5. Worst(Lower(d[i - 1], s[i].pnl), e, i)
    BY <2>1, <2>3, <2>4, LowerWorst
  <2> QED BY <2>1, <2>2, <2>5 DEF e
<1>11. n \in T
  <2>1. n \in 0..n
    BY <1>1
  <2> HIDE DEF T, n
  <2> QED BY <1>1, <1>9, <1>10, <2>1, FromZero
<1> QED BY <1>8, <1>11

-----------------------------------------------------------------------------
(***************************************************************************)
(* Extremes and days.                                                      *)
(***************************************************************************)
\* The largest of numbers that have a bound is one of them.
LEMMA LargestIn ==
    ASSUME NEW S, S \subseteq Int, S # {}, NEW b \in Int, \A y \in S : y <= b
    PROVE  Largest(S) \in S /\ \A y \in S : y <= Largest(S)
<1> DEFINE T == {b - y : y \in S}
<1>1. T \subseteq Nat /\ T # {}
  <2>1. \A y \in S : b - y \in Nat
    OBVIOUS
  <2>2. PICK z \in S : TRUE
    OBVIOUS
  <2>3. b - z \in T
    BY <2>2
  <2> QED BY <2>1, <2>3
<1>2. PICK x \in T : \A y \in T : x <= y
  <2> HIDE DEF T
  <2> QED BY <1>1, LeastNumber
<1>3. PICK m \in S : x = b - m
  BY <1>2
<1>4. \A y \in S : y <= m
  <2> TAKE y \in S
  <2>1. b - y \in T
    OBVIOUS
  <2>2. b - m <= b - y
    BY <1>2, <1>3, <2>1
  <2> HIDE DEF T
  <2> QED BY <2>2
<1>5. Largest(S) = CHOOSE z \in S : \A y \in S : y <= z
  BY DEF Largest
<1> QED BY <1>4, <1>5

\* And the smallest.
LEMMA SmallestIn ==
    ASSUME NEW S, S \subseteq Int, S # {}, NEW b \in Int, \A y \in S : b <= y
    PROVE  Smallest(S) \in S /\ \A y \in S : Smallest(S) <= y
<1> DEFINE T == {y - b : y \in S}
<1>1. T \subseteq Nat /\ T # {}
  <2>1. \A y \in S : y - b \in Nat
    OBVIOUS
  <2>2. PICK z \in S : TRUE
    OBVIOUS
  <2>3. z - b \in T
    BY <2>2
  <2> QED BY <2>1, <2>3
<1>2. PICK x \in T : \A y \in T : x <= y
  <2> HIDE DEF T
  <2> QED BY <1>1, LeastNumber
<1>3. PICK m \in S : x = m - b
  BY <1>2
<1>4. \A y \in S : m <= y
  <2> TAKE y \in S
  <2>1. y - b \in T
    OBVIOUS
  <2>2. m - b <= y - b
    BY <1>2, <1>3, <2>1
  <2> HIDE DEF T
  <2> QED BY <2>2
<1>5. Smallest(S) = CHOOSE z \in S : \A y \in S : z <= y
  BY DEF Smallest
<1> QED BY <1>4, <1>5

\* The numbers of a sequence have bounds.
LEMMA SequenceBound ==
    ASSUME NEW n \in Nat, NEW r \in [1..n -> Int]
    PROVE  \E b \in Nat : \A k \in 1..n : -b <= r[k] /\ r[k] <= b
<1> DEFINE T == {m \in 0..n : \E b \in Nat : \A k \in 1..m : -b <= r[k] /\ r[k] <= b}
<1>1. 0 \in T
  <2>1. 0 \in 0..n /\ 0 \in Nat /\ \A k \in 1..0 : FALSE
    OBVIOUS
  <2> QED BY <2>1
<1>2. ASSUME NEW m \in 1..n, m - 1 \in T PROVE m \in T
  <2>1. PICK b \in Nat : \A k \in 1..m - 1 : -b <= r[k] /\ r[k] <= b
    BY <1>2
  <2>2. r[m] \in Int /\ m \in 0..n
    OBVIOUS
  <2> DEFINE a == IF r[m] < 0 THEN -r[m] ELSE r[m]
             c == b + a
  <2>3. c \in Nat /\ b <= c /\ -c <= -b /\ -c <= r[m] /\ r[m] <= c
    BY <2>2
  <2> HIDE DEF c
  <2>4. \A k \in 1..m : -c <= r[k] /\ r[k] <= c
    <3> TAKE k \in 1..m
    <3>1. k = m \/ k \in 1..m - 1
      OBVIOUS
    <3>2. r[k] \in Int
      OBVIOUS
    <3> QED BY <2>1, <2>3, <3>1, <3>2
  <2> QED BY <2>2, <2>3, <2>4
<1>3. n \in T
  <2>1. n \in 0..n
    OBVIOUS
  <2> HIDE DEF T
  <2> QED BY <1>1, <1>2, <2>1, FromZero
<1> QED BY <1>3

\* Trades one after the other.
InOrder(s) ==
    /\ \A k \in 1..Len(s) : s[k].bar <= s[k].exitBar
    /\ \A j, k \in 1..Len(s) : j < k => s[j].exitBar < s[k].bar

\* The quotient is the number of whole days.
LEMMA DayBounds ==
    ASSUME NEW x \in Int
    PROVE  /\ x \div BarsPerDay \in Int
           /\ BarsPerDay * (x \div BarsPerDay) <= x
           /\ x < BarsPerDay * (x \div BarsPerDay) + BarsPerDay
<1>1. BarsPerDay \in Nat \ {0}
  BY MetricsAssumption
<1> QED BY <1>1

\* Between two bars lie the days between theirs, or one less.
LEMMA DaysBetween ==
    ASSUME NEW a \in Nat \ {0}, NEW b \in Nat \ {0}, a <= b
    PROVE  /\ DayOf(a) \in Int /\ DayOf(b) \in Int /\ DayOf(a) <= DayOf(b)
           /\ (b - a) \div BarsPerDay \in {DayOf(b) - DayOf(a) - 1, DayOf(b) - DayOf(a)}
<1> DEFINE D == BarsPerDay
           x == DayOf(a)
           y == DayOf(b)
           z == (b - a) \div D
<1>1. D \in Nat \ {0}
  BY MetricsAssumption
<1>2. /\ x \in Int /\ D * x <= a - 1 /\ a - 1 < D * x + D
      /\ y \in Int /\ D * y <= b - 1 /\ b - 1 < D * y + D
      /\ z \in Int /\ D * z <= b - a /\ b - a < D * z + D
  <2>1. a - 1 \in Int /\ b - 1 \in Int /\ b - a \in Int
    OBVIOUS
  <2> HIDE DEF D
  <2> QED BY <2>1, DayBounds DEF DayOf, D
<1> HIDE DEF D, x, y, z
<1>3. D * x \in Int /\ D * y \in Int /\ D * z \in Int
  BY <1>1, <1>2
<1>4. \A p, q \in Int : D * p < D * q + D => p <= q
  <2> SUFFICES ASSUME NEW p \in Int, NEW q \in Int, q + 1 <= p PROVE D * q + D <= D * p
    BY <1>1
  <2>1. (q + 1) * D <= p * D
    BY <1>1, Scaled
  <2>2. (q + 1) * D = D * q + D /\ p * D = D * p
    BY <1>1
  <2> QED BY <2>1, <2>2
<1>5. x <= y
  <2>1. D * x < D * y + D
    BY <1>1, <1>2, <1>3
  <2> QED BY <1>2, <1>4, <2>1
<1>6. z <= y - x
  <2>1. D * (y - x) = D * y - D * x /\ y - x \in Int
    BY <1>1, <1>2
  <2>2. D * z < (D * y - D * x) + D
    BY <1>1, <1>2, <1>3
  <2> QED BY <1>2, <1>4, <2>1, <2>2
<1>7. y - x - 1 <= z
  <2>1. D * (y - x - 1) = D * y - D * x - D /\ y - x - 1 \in Int
    BY <1>1, <1>2
  <2>2. D * y - D * x - D < D * z + D
    BY <1>1, <1>2, <1>3
  <2> QED BY <1>2, <1>4, <2>1, <2>2
<1> QED BY <1>2, <1>5, <1>6, <1>7 DEF x, y, z, D

\* What calcTradeDistribution returns for trades in order.
LEMMA DaysOfTrades ==
    ASSUME NEW s \in Seq(Trade), s # << >>, InOrder(s)
    PROVE  LET days == calcTradeDistribution(s)
               span == DayOf(s[Len(s)].exitBar) - DayOf(s[1].bar) + 1
           IN  /\ days.calendarDays \in {span - 1, span}
               /\ 1 <= days.tradingDays /\ days.tradingDays <= span
<1> DEFINE n == Len(s)
           entries == {s[k].bar : k \in DOMAIN s}
           exits == {s[k].exitBar : k \in DOMAIN s}
           a == s[1].bar
           b == s[n].exitBar
           all == entries \cup exits
           traded == {DayOf(x) : x \in all}
<1>1. n \in Nat /\ n # 0 /\ DOMAIN s = 1..n /\ 1 \in 1..n /\ n \in 1..n /\ \A k \in 1..n : k \in Int
  <2>1. n \in Nat /\ n # 0 /\ DOMAIN s = 1..n
    BY EmptySeq, LenProperties
  <2> HIDE DEF n
  <2> QED BY <2>1
<1>2. /\ \A k \in 1..n : s[k].bar \in 1..Bars /\ s[k].exitBar \in 1..Bars /\ s[k].bar <= s[k].exitBar
      /\ \A j, k \in 1..n : j < k => s[j].exitBar < s[k].bar
  BY TradeFields DEF InOrder
<1> HIDE DEF n
<1>3. \A k \in 1..n : a <= s[k].bar /\ s[k].exitBar <= b
  <2> TAKE k \in 1..n
  <2>1. (k = 1 \/ 1 < k) /\ (k = n \/ k < n)
    BY <1>1
  <2>2. a <= s[k].bar
    BY <1>1, <1>2, <2>1
  <2>3. s[k].exitBar <= b
    BY <1>1, <1>2, <2>1
  <2> QED BY <2>2, <2>3
<1>4. a \in 1..Bars /\ b \in 1..Bars /\ a \in entries /\ b \in exits /\ Bars \in Nat
  BY <1>1, <1>2, BacktestAssumption
<1>5. entries \subseteq 1..Bars /\ exits \subseteq 1..Bars /\ \A x \in entries : a <= x
  BY <1>1, <1>2, <1>3
<1>6. \A x \in all : a <= x /\ x <= b /\ x \in 1..Bars
  <2> TAKE x \in all
  <2>1. PICK k \in 1..n : x = s[k].bar \/ x = s[k].exitBar
    BY <1>1
  <2>2. s[k].bar \in Nat /\ s[k].exitBar \in Nat /\ s[k].bar <= s[k].exitBar /\ a <= s[k].bar /\ s[k].exitBar <= b
    BY <1>2, <1>3
  <2>3. a <= x /\ x <= b
    <3>1. a \in Nat /\ b \in Nat
      BY <1>4
    <3>2. CASE x = s[k].bar
      <4> HIDE DEF a, b
      <4> QED BY <2>2, <3>1, <3>2
    <3>3. CASE x = s[k].exitBar
      <4> HIDE DEF a, b
      <4> QED BY <2>2, <3>1, <3>3
    <3> QED BY <2>1, <3>2, <3>3
  <2> QED BY <1>2, <2>1, <2>3
<1>7. a \in all /\ b \in all
  BY <1>4
<1> HIDE DEF entries, exits, all, a, b
<1>8. Largest(all) = b
  <2>1. all \subseteq Int /\ all # {} /\ b \in Int /\ \A y \in all : y <= b
    BY <1>4, <1>6, <1>7
  <2>2. Largest(all) \in all /\ \A y \in all : y <= Largest(all)
    BY <2>1, LargestIn
  <2>3. b <= Largest(all) /\ Largest(all) <= b /\ Largest(all) \in Int
    BY <1>7, <2>1, <2>2
  <2> QED BY <2>1, <2>3
<1>9. Smallest(entries) = a
  <2>1. entries \subseteq Int /\ entries # {} /\ a \in Int /\ \A y \in entries : a <= y
    BY <1>4, <1>5
  <2>2. Smallest(entries) \in entries /\ \A y \in entries : Smallest(entries) <= y
    BY <2>1, SmallestIn
  <2>3. a <= Smallest(entries) /\ Smallest(entries) <= a /\ Smallest(entries) \in Int
    BY <1>4, <2>1, <2>2
  <2> QED BY <2>1, <2>3
<1>10. /\ calcTradeDistribution(s).calendarDays = (b - a) \div BarsPerDay + 1
       /\ calcTradeDistribution(s).tradingDays = Cardinality(traded)
  BY <1>8, <1>9 DEF calcTradeDistribution, entries, exits, all
<1>11. /\ DayOf(a) \in Int /\ DayOf(b) \in Int
       /\ (b - a) \div BarsPerDay \in {DayOf(b) - DayOf(a) - 1, DayOf(b) - DayOf(a)}
  BY <1>4, <1>6, <1>7, DaysBetween
<1>12. traded \subseteq DayOf(a)..DayOf(b) /\ DayOf(a) \in traded
  <2>1. \A x \in all : DayOf(x) \in DayOf(a)..DayOf(b)
    <3> TAKE x \in all
    <3>1. DayOf(x) \in Int /\ DayOf(a) <= DayOf(x) /\ DayOf(x) <= DayOf(b)
      <4>1. /\ a \in Nat \ {0} /\ b \in Nat \ {0} /\ x \in Nat \ {0}
            /\ a <= x /\ x <= b
        BY <1>4, <1>6
      <4> QED BY <4>1, DaysBetween
    <3> QED BY <1>11, <3>1
  <2> QED BY <1>7, <2>1
<1>13. /\ Cardinality(traded) \in Nat /\ 1 <= Cardinality(traded)
       /\ Cardinality(traded) <= DayOf(b) - DayOf(a) + 1
  <2> DEFINE I == DayOf(a)..DayOf(b)
  <2>1. DayOf(a) <= DayOf(b)
    BY <1>4, <1>6, <1>7, DaysBetween
  <2>2. IsFiniteSet(I) /\ Cardinality(I) = DayOf(b) - DayOf(a) + 1
    BY <1>11, <2>1, FS_Interval
  <2> HIDE DEF I, traded
  <2>3. IsFiniteSet(traded) /\ Cardinality(traded) <= Cardinality(I)
    BY <1>12, <2>2, FS_Subset DEF I
  <2>4. Cardinality(traded) \in Nat /\ Cardinality(traded) # 0
    BY <1>12, <2>3, FS_CardinalityType, FS_EmptySet
  <2> QED BY <2>2, <2>3, <2>4
<1> HIDE DEF traded
<1>14. LET span == DayOf(b) - DayOf(a) + 1
       IN  /\ calcTradeDistribution(s).calendarDays \in {span - 1, span}
           /\ 1 <= calcTradeDistribution(s).tradingDays /\ calcTradeDistribution(s).tradingDays <= span
  BY <1>10, <1>11, <1>13
<1> QED BY <1>14 DEF a, b, n

-----------------------------------------------------------------------------
(***************************************************************************)
(* The metrics of the trades.                                              *)
(***************************************************************************)
\* The winners W of the returns r and the others are all of them, and make up the whole return.
Parted(n, r, W) ==
    /\ Cardinality(W) + Cardinality((1..n) \ W) = n
    /\ Total([k \in 1..n |-> IF k \in W THEN r[k] ELSE 0])
         + Total([k \in 1..n |-> IF k \in (1..n) \ W THEN r[k] ELSE 0]) = Total(r)
    /\ Total([k \in 1..n |-> IF k \in W THEN r[k] ELSE 0]) \in Int
    /\ Total([k \in 1..n |-> IF k \in (1..n) \ W THEN r[k] ELSE 0]) \in Int
    /\ Smallest({r[k] : k \in (1..n) \ W}) <= 0
    /\ 0 <= Largest({r[k] : k \in W})

\* They are.
LEMMA WinnersAndLosers ==
    ASSUME NEW n \in Nat, NEW r \in [1..n -> Int], NEW W, W = {k \in 1..n : r[k] > 0}
    PROVE  Parted(n, r, W)
<1>1. Cardinality(W) + Cardinality((1..n) \ W) = n
  <2> DEFINE I == 1..n
  <2>1. IsFiniteSet(I) /\ Cardinality(I) = n
    BY FS_Interval
  <2>2. W \subseteq I
    OBVIOUS
  <2> HIDE DEF I
  <2>3. IsFiniteSet(W) /\ Cardinality(I \ W) = Cardinality(I) - Cardinality(I \cap W) /\ I \cap W = W
    BY <2>1, <2>2, FS_Subset, FS_Difference
  <2>4. Cardinality(W) \in Nat /\ Cardinality(I \ W) = n - Cardinality(W)
    BY <2>1, <2>3, FS_CardinalityType
  <2> QED BY <2>4 DEF I
<1>2. /\ Total([k \in 1..n |-> IF k \in W THEN r[k] ELSE 0])
           + Total([k \in 1..n |-> IF k \in (1..n) \ W THEN r[k] ELSE 0]) = Total(r)
      /\ Total([k \in 1..n |-> IF k \in W THEN r[k] ELSE 0]) \in Int
      /\ Total([k \in 1..n |-> IF k \in (1..n) \ W THEN r[k] ELSE 0]) \in Int
  <2> DEFINE f == [k \in 1..n |-> IF k \in W THEN r[k] ELSE 0]
             g == [k \in 1..n |-> IF k \in (1..n) \ W THEN r[k] ELSE 0]
  <2>1. f \in [1..n -> Int] /\ g \in [1..n -> Int] /\ \A k \in 1..n : r[k] = f[k] + g[k]
    OBVIOUS
  <2> HIDE DEF f, g
  <2>2. Total(f) \in Int /\ Total(g) \in Int /\ Total(r) = Total(f) + Total(g)
    BY <2>1, TotalAdds
  <2>3. Total(f) + Total(g) = Total(r) /\ Total(f) \in Int /\ Total(g) \in Int
    BY <2>2
  <2> QED BY <2>3 DEF f, g
<1>3. PICK b \in Nat : \A k \in 1..n : -b <= r[k] /\ r[k] <= b
  BY SequenceBound
<1>4. Smallest({r[k] : k \in (1..n) \ W}) <= 0
  <2> DEFINE S == {r[k] : k \in (1..n) \ W}
  <2>1. S \subseteq Int /\ \A y \in S : -b <= y /\ y <= 0
    <3>1. \A k \in (1..n) \ W : r[k] \in Int /\ -b <= r[k] /\ r[k] <= 0
      BY <1>3
    <3> QED BY <3>1
  <2> HIDE DEF S
  <2>2. S = {} => Smallest(S) <= 0
    BY DEF Smallest
  <2>3. S # {} => Smallest(S) <= 0
    <3>1. -b \in Int
      OBVIOUS
    <3>2. S # {} => Smallest(S) \in S
      BY <2>1, <3>1, SmallestIn
    <3> QED BY <2>1, <3>2
  <2>4. Smallest(S) <= 0
    BY <2>2, <2>3
  <2> QED BY <2>4 DEF S
<1>5. 0 <= Largest({r[k] : k \in W})
  <2> DEFINE S == {r[k] : k \in W}
  <2>1. S \subseteq Int /\ \A y \in S : 0 <= y /\ y <= b
    <3>1. \A k \in W : r[k] \in Int /\ 0 <= r[k] /\ r[k] <= b
      BY <1>3
    <3> QED BY <3>1
  <2> HIDE DEF S
  <2>2. S = {} => 0 <= Largest(S)
    BY DEF Largest
  <2>3. S # {} => 0 <= Largest(S)
    <3>1. b \in Int
      OBVIOUS
    <3>2. S # {} => Largest(S) \in S
      BY <2>1, <3>1, LargestIn
    <3> QED BY <2>1, <3>2
  <2>4. 0 <= Largest(S)
    BY <2>2, <2>3
  <2> QED BY <2>4 DEF S
<1> QED BY <1>1, <1>2, <1>4, <1>5 DEF Parted

\* The bars on which a trade was held.
Covered(s) == {b \in 1..Bars : \E k \in DOMAIN s : s[k].bar <= b /\ b <= s[k].exitBar}

\* The books after these trades: they agree with the sums over them.
Booked(s, pnl, held) ==
    /\ InOrder(s)
    /\ pnl = Total([k \in DOMAIN s |-> s[k].pnl])
    /\ held = Total([k \in DOMAIN s |-> s[k].holdingBars])
    /\ held = Cardinality(Covered(s))

\* One more trade after the others.
LEMMA TradeBooked ==
    ASSUME NEW s \in Seq(Trade), NEW t \in Trade, NEW pnl \in Int, NEW held \in Nat, Booked(s, pnl, held),
           t.bar <= t.exitBar, t.holdingBars = t.exitBar - t.bar + 1,
           \A k \in 1..Len(s) : s[k].exitBar < t.bar
    PROVE  Booked(Append(s, t), pnl + t.pnl, held + t.holdingBars)
<1> DEFINE n == Len(s)
           w == Append(s, t)
<1>1. n \in Nat /\ DOMAIN s = 1..n
  BY LenProperties
<1>2. /\ w \in Seq(Trade) /\ Len(w) = n + 1 /\ DOMAIN w = 1..n + 1
      /\ w[n + 1] = t /\ \A k \in 1..n : w[k] = s[k]
  BY <1>1
<1>3. \A k \in 1..n : /\ s[k].pnl \in Int /\ s[k].holdingBars \in Int
                      /\ s[k].bar \in 1..Bars /\ s[k].exitBar \in 1..Bars
  BY TradeFields, BacktestAssumption
<1>4. /\ t.pnl \in Int /\ t.holdingBars \in 1..Bars /\ t.bar \in 1..Bars /\ t.exitBar \in 1..Bars
      /\ Bars \in Nat
  BY BacktestAssumption DEF Trade
<1> HIDE DEF n, w
<1>5. \A k \in 1..n + 1 : k = n + 1 \/ k \in 1..n
  BY <1>1
<1>6. InOrder(w)
  <2>1. \A k \in 1..n + 1 : w[k].bar <= w[k].exitBar
    BY <1>2, <1>5 DEF Booked, InOrder, n
  <2>2. \A j, k \in 1..n + 1 : j < k => w[j].exitBar < w[k].bar
    <3> SUFFICES ASSUME NEW j \in 1..n + 1, NEW k \in 1..n + 1, j < k PROVE w[j].exitBar < w[k].bar
      OBVIOUS
    <3>1. j \in 1..n
      BY <1>1
    <3>2. CASE k = n + 1
      BY <1>2, <3>1, <3>2 DEF n
    <3>3. CASE k \in 1..n
      BY <1>2, <3>1, <3>3 DEF Booked, InOrder, n
    <3> QED BY <1>5, <3>2, <3>3
  <2> QED BY <1>2, <2>1, <2>2 DEF InOrder
<1>7. pnl + t.pnl = Total([k \in DOMAIN w |-> w[k].pnl])
  <2> DEFINE f == [k \in 1..n |-> s[k].pnl]
             g == [k \in 1..n + 1 |-> w[k].pnl]
  <2>1. f \in [1..n -> Int] /\ \A k \in 1..n : f[k] = s[k].pnl
    BY <1>3
  <2>2. \A k \in 1..n + 1 : g[k] = IF k \in 1..n THEN s[k].pnl ELSE t.pnl
    BY <1>2, <1>5
  <2>3. DOMAIN g = 1..n + 1 /\ g = [k \in 1..n + 1 |-> g[k]]
    OBVIOUS
  <2>4. pnl = Total(f)
    BY <1>1 DEF Booked
  <2>5. Total([k \in DOMAIN w |-> w[k].pnl]) = Total(g)
    BY <1>2
  <2> HIDE DEF f, g
  <2>6. f \in Seq(Int) /\ Len(f) = n /\ DOMAIN f = 1..n
    BY <1>1, <2>1, FunctionSeq
  <2>7. g = Append(f, t.pnl)
    <3>1. Append(f, t.pnl) = [k \in 1..n + 1 |-> IF k = n + 1 THEN t.pnl ELSE f[k]]
      BY <1>1, <1>4, <2>6, AppendProperties
    <3>2. \A k \in 1..n + 1 : g[k] = IF k = n + 1 THEN t.pnl ELSE f[k]
      <4> TAKE k \in 1..n + 1
      <4>1. n + 1 \notin 1..n
        BY <1>1
      <4> QED BY <1>5, <2>1, <2>2, <4>1
    <3> QED BY <2>3, <3>1, <3>2
  <2>8. Total(g) = Total(f) + t.pnl
    BY <1>4, <2>6, <2>7, TotalAppend
  <2> QED BY <2>4, <2>5, <2>8
<1>8. held + t.holdingBars = Total([k \in DOMAIN w |-> w[k].holdingBars])
  <2> DEFINE f == [k \in 1..n |-> s[k].holdingBars]
             g == [k \in 1..n + 1 |-> w[k].holdingBars]
  <2>1. f \in [1..n -> Int] /\ \A k \in 1..n : f[k] = s[k].holdingBars
    BY <1>3
  <2>2. \A k \in 1..n + 1 : g[k] = IF k \in 1..n THEN s[k].holdingBars ELSE t.holdingBars
    BY <1>2, <1>5
  <2>3. DOMAIN g = 1..n + 1 /\ g = [k \in 1..n + 1 |-> g[k]]
    OBVIOUS
  <2>4. held = Total(f)
    BY <1>1 DEF Booked
  <2>5. Total([k \in DOMAIN w |-> w[k].holdingBars]) = Total(g)
    BY <1>2
  <2> HIDE DEF f, g
  <2>6. f \in Seq(Int) /\ Len(f) = n /\ DOMAIN f = 1..n
    BY <1>1, <2>1, FunctionSeq
  <2>7. t.holdingBars \in Int
    BY <1>4
  <2>8. g = Append(f, t.holdingBars)
    <3>1. Append(f, t.holdingBars) = [k \in 1..n + 1 |-> IF k = n + 1 THEN t.holdingBars ELSE f[k]]
      BY <1>1, <2>6, <2>7, AppendProperties
    <3>2. \A k \in 1..n + 1 : g[k] = IF k = n + 1 THEN t.holdingBars ELSE f[k]
      <4> TAKE k \in 1..n + 1
      <4>1. n + 1 \notin 1..n
        BY <1>1
      <4> QED BY <1>5, <2>1, <2>2, <4>1
    <3> QED BY <2>3, <3>1, <3>2
  <2>9. Total(g) = Total(f) + t.holdingBars
    BY <2>6, <2>7, <2>8, TotalAppend
  <2> QED BY <2>4, <2>5, <2>9
<1>9. held + t.holdingBars = Cardinality(Covered(w))
  <2> DEFINE I == t.bar..t.exitBar
             A == Covered(s)
  <2>1. Covered(w) = A \cup I
    <3>1. \A b \in 1..Bars : (\E k \in 1..n + 1 : w[k].bar <= b /\ b <= w[k].exitBar)
                               <=> b \in A \/ b \in I
      <4> TAKE b \in 1..Bars
      <4>1. (\E k \in 1..n + 1 : w[k].bar <= b /\ b <= w[k].exitBar)
              <=> (\E k \in 1..n : s[k].bar <= b /\ b <= s[k].exitBar) \/ (t.bar <= b /\ b <= t.exitBar)
        <5>1. n + 1 \in 1..n + 1 /\ 1..n \subseteq 1..n + 1
          BY <1>1
        <5> QED BY <1>2, <1>5, <5>1
      <4>2. b \in I <=> t.bar <= b /\ b <= t.exitBar
        BY <1>4
      <4> QED BY <1>1, <4>1, <4>2 DEF Covered
    <3>2. I \subseteq 1..Bars /\ A \subseteq 1..Bars
      BY <1>4 DEF Covered
    <3>3. Covered(w) = {b \in 1..Bars : \E k \in 1..n + 1 : w[k].bar <= b /\ b <= w[k].exitBar}
      BY <1>2 DEF Covered
    <3> HIDE DEF A, I
    <3> QED BY <3>1, <3>2, <3>3
  <2>2. A \cap I = {}
    <3> SUFFICES ASSUME NEW b \in A, b \in I PROVE FALSE
      OBVIOUS
    <3>1. PICK k \in 1..n : b <= s[k].exitBar
      BY <1>1 DEF Covered
    <3>2. s[k].exitBar < t.bar /\ t.bar <= b /\ b \in Int
      BY <1>4, <3>1 DEF n
    <3> QED BY <1>3, <1>4, <3>1, <3>2
  <2>3. IsFiniteSet(I) /\ Cardinality(I) = t.holdingBars
    BY <1>4, FS_Interval
  <2>4. IsFiniteSet(A)
    <3>1. A \in SUBSET (1..Bars) /\ IsFiniteSet(1..Bars)
      BY <1>4, FS_Interval DEF Covered
    <3> HIDE DEF A
    <3> QED BY <3>1, FS_Subset
  <2>5. Cardinality(A) = held
    BY DEF Booked
  <2> HIDE DEF A, I
  <2>6. Cardinality(A \cup I) = Cardinality(A) + Cardinality(I) - Cardinality(A \cap I)
    BY <2>3, <2>4, FS_Union
  <2>7. Cardinality(A \cap I) = 0
    BY <2>2, FS_EmptySet
  <2> QED BY <1>4, <2>1, <2>3, <2>5, <2>6, <2>7
<1> QED BY <1>6, <1>7, <1>8, <1>9 DEF Booked, w

\* When the metrics of trades in order are taken with the books, they are exact.
LEMMA MetricsOfBooks ==
    ASSUME trades \in Seq(Trade), trades # Nil, cumulativePnL \in Int, barsInMarket \in Nat,
           Booked(trades, cumulativePnL, barsInMarket)
    PROVE  LET m == CalculateMetrics(trades, Bars, barsInMarket, totalFees)
           IN  /\ m.netPnL = cumulativePnL
               /\ m.winning + m.losing = m.totalTrades
               /\ m.grossProfit - m.grossLoss = m.totalReturn
               /\ m.largestLoser <= 0 /\ 0 <= m.largestWinner
               /\ ExposureExact(m) /\ DrawdownExact(m) /\ DaysCounted(m)
<1> DEFINE m == CalculateMetrics(trades, Bars, barsInMarket, totalFees)
           n == Len(trades)
           r == [k \in DOMAIN trades |-> trades[k].returnPct]
           W == {k \in DOMAIN trades : r[k] > 0}
           L == DOMAIN trades \ W
           Part(S) == Total([k \in DOMAIN trades |-> IF k \in S THEN r[k] ELSE 0])
<1>1. n \in Nat /\ DOMAIN trades = 1..n
  BY LenProperties
<1>2. m = [totalTrades  |-> n, totalBars |-> Bars, fees |-> totalFees,
           winning      |-> Cardinality(W), losing |-> Cardinality(L),
           netPnL       |-> Total([k \in DOMAIN trades |-> trades[k].pnl]),
           totalReturn  |-> Total(r),
           grossProfit  |-> Part(W), grossLoss |-> -Part(L),
           largestWinner |-> Largest({r[k] : k \in W}),
           largestLoser |-> Smallest({r[k] : k \in L}),
           holdingBars  |-> Total([k \in DOMAIN trades |-> trades[k].holdingBars]),
           exposure     |-> barsInMarket,
           drawdown     |-> calcMaxDrawdown(trades),
           days         |-> calcTradeDistribution(trades)]
  BY Zenon DEF CalculateMetrics, Nil
<1>3. /\ m.totalTrades = n /\ m.winning = Cardinality(W) /\ m.losing = Cardinality(L)
      /\ m.netPnL = Total([k \in DOMAIN trades |-> trades[k].pnl])
      /\ m.totalReturn = Total(r) /\ m.grossProfit = Part(W) /\ m.grossLoss = -Part(L)
      /\ m.largestWinner = Largest({r[k] : k \in W}) /\ m.largestLoser = Smallest({r[k] : k \in L})
      /\ m.holdingBars = Total([k \in DOMAIN trades |-> trades[k].holdingBars])
      /\ m.exposure = barsInMarket /\ m.drawdown = calcMaxDrawdown(trades)
      /\ m.days = calcTradeDistribution(trades)
  <2> HIDE DEF m, n, r, W, L, Part
  <2> QED BY <1>2
<1>4. r \in [1..n -> Int]
  BY <1>1, TradeFields
<1> HIDE DEF m, n
<1>5. /\ Cardinality(W) + Cardinality(L) = n
      /\ Part(W) + Part(L) = Total(r) /\ Part(L) \in Int /\ Part(W) \in Int
      /\ Smallest({r[k] : k \in L}) <= 0 /\ 0 <= Largest({r[k] : k \in W})
  <2>1. W = {k \in 1..n : r[k] > 0} /\ L = (1..n) \ W
    BY <1>1
  <2>2. /\ Part(W) = Total([k \in 1..n |-> IF k \in W THEN r[k] ELSE 0])
        /\ Part(L) = Total([k \in 1..n |-> IF k \in (1..n) \ W THEN r[k] ELSE 0])
    BY <1>1
  <2> HIDE DEF r, W, L, Part
  <2>3. Parted(n, r, W)
    BY <1>1, <1>4, <2>1, WinnersAndLosers
  <2> QED BY <2>1, <2>2, <2>3 DEF Parted
<1>6. m.netPnL = cumulativePnL /\ m.holdingBars = barsInMarket
  BY <1>3 DEF Booked
<1>7. m.winning + m.losing = m.totalTrades
  BY <1>3, <1>5
<1>8. m.grossProfit - m.grossLoss = m.totalReturn
  <2> HIDE DEF r, W, L, Part
  <2> QED BY <1>3, <1>5
<1>9. m.largestLoser <= 0 /\ 0 <= m.largestWinner
  BY <1>3, <1>5
<1>10. ExposureExact(m)
  BY <1>3, <1>6 DEF ExposureExact, Booked, Covered
<1>11. DrawdownExact(m)
  <2> DEFINE e == Equity(trades)
             d == m.drawdown
  <2>1. Worst(d, e, n)
    BY <1>3, DrawdownIsWorst DEF n
  <2>2. e = [k \in 0..Len(trades) |-> Capital + Total([j \in 1..k |-> trades[j].pnl])]
    BY DEF Equity
  <2> HIDE DEF e, d
  <2>3. /\ \A s \in Falls(e, n) : (e[s[1]] - e[s[2]]) * d.from <= d.fall * e[s[1]]
        /\ \E s \in Falls(e, n) : e[s[1]] = d.from /\ e[s[1]] - e[s[2]] = d.fall
    BY <2>1 DEF Worst, NotWorse
  <2> QED BY <2>2, <2>3 DEF DrawdownExact, Falls, n, d
<1>12. DaysCounted(m)
  BY <1>3, DaysOfTrades DEF Booked, DaysCounted, Nil
<1> QED BY <1>6, <1>7, <1>8, <1>9, <1>10, <1>11, <1>12 DEF m

-----------------------------------------------------------------------------
(***************************************************************************)
(* The inductive invariant.                                                *)
(***************************************************************************)
USE BacktestAssumption, MetricsAssumption, GateAssumption

\* The bar the last trade ended at.
LastExit == trades[Len(trades)].exitBar

\* A scheduled entry waits for the next bar and is filled when it comes.
PendingInv ==
    pending # Nil =>
        /\ step \notin {"finish", "done"}
        /\ step = "signal" => pending[1].bar = bar
        /\ step = "fill" => pending[1].bar \in {bar, bar + 1}
        /\ step \in {"exit", "end"} => pending[1].bar = bar + 1

\* A position has a bar left before its exit is looked at, and one bar less after.
PositionInv ==
    position # Nil =>
        /\ step # "done"
        /\ position[1].bar <= bar
        /\ step \in {"signal", "fill", "exit"} => bar - position[1].bar < HoldingBars
        /\ step \in {"end", "finish"} => bar - position[1].bar + 1 < HoldingBars
        /\ step \in {"signal", "fill"} => position[1].bar < bar

\* The gate's counter is the distance to the end of the pause after the last exit.
PauseInv ==
    IF trades = Nil THEN step \notin {"finish", "done"} => gate.state # "cooldown"
    ELSE /\ LastExit <= bar
         /\ position # Nil => position[1].bar > LastExit + CooldownBars
         /\ pending # Nil => pending[1].bar > LastExit + CooldownBars
         /\ step \in {"signal", "fill", "exit", "end"} =>
               IF gate.state = "cooldown"
                 THEN /\ gate.cooldown = LastExit + CooldownBars - bar
                      /\ step # "end" => gate.cooldown > 0
                 ELSE bar >= LastExit + CooldownBars /\ bar > LastExit

\* The inductive invariant.
Inductive == TypeOK /\ PendingInv /\ PositionInv /\ PauseInv /\ GateKeepsCount

-----------------------------------------------------------------------------
(***************************************************************************)
(* Types.                                                                  *)
(***************************************************************************)
\* nil or one entry.
LEMMA AtMostOne ==
    ASSUME NEW s \in Seq(Entry), Len(s) <= 1, s # Nil
    PROVE  Len(s) = 1 /\ s[1] \in Entry /\ DOMAIN s = {1}
<1>1. Len(s) \in Nat /\ DOMAIN s = 1..Len(s) /\ s \in [1..Len(s) -> Entry]
  BY LenProperties
<1>2. Len(s) # 0
  <2> SUFFICES ASSUME Len(s) = 0 PROVE s = << >>
    BY DEF Nil
  <2> QED BY EmptySeq
<1>3. Len(s) = 1
  BY <1>1, <1>2
<1> QED BY <1>1, <1>3

\* The fields of an entry.
LEMMA EntryFields ==
    ASSUME NEW e \in Entry
    PROVE  /\ e.dir \in Directions /\ e.bar \in 1..Bars /\ e.price \in Int /\ e.stop \in Int
           /\ e.size \in Int
BY DEF Entry

\* What the assumptions say of the levels.
LEMMA ConstantType ==
    /\ Slip \in Int /\ StopDistance \in Int /\ FeeRate \in Int
    /\ \A level \in Prices : level \in Int
BY BacktestAssumption

\* The last exit is at a bar of the run.
LEMMA LastExitType ==
    ASSUME TypeOK, trades # Nil
    PROVE  LastExit \in 1..Bars
<1>1. Len(trades) \in Nat \ {0}
  BY EmptySeq DEF TypeOK, Nil
<1>2. Len(trades) \in 1..Len(trades)
  BY <1>1
<1>3. trades[Len(trades)] \in Trade
  BY <1>2, ElementOfSeq DEF TypeOK
<1> QED BY <1>3 DEF LastExit, Trade

\* A directed number is a number.
LEMMA DirectedType == ASSUME NEW d, NEW x \in Int PROVE Directed(d, x) \in Int
BY DEF Directed

\* What is scheduled is an entry of the next bar.
LEMMA ScheduledType ==
    ASSUME NEW sig \in Signals, NEW open \in Prices, gate \in Gate, bar \in 1..Bars,
           Evaluate(gate, sig).decision # "no_trade", bar < Bars
    PROVE  Scheduled(sig, open) \in Entry /\ Scheduled(sig, open).bar = bar + 1
<1> DEFINE dir == decideDir(sig)
           price == entryPriceForDir(open, dir)
           stop == stopPriceForDir(price, dir)
           size == Evaluate(gate, sig).size
<1>1. dir \in Directions
  BY DEF decideDir, Directions
<1>2. price \in Int
  BY DirectedType DEF entryPriceForDir
<1>3. stop \in Int
  <2> HIDE DEF price, dir
  <2> QED BY <1>2, DirectedType DEF stopPriceForDir
<1>4. size \in 1..16
  BY AdmittedSize
<1>5. Scheduled(sig, open) = [dir |-> dir, bar |-> bar + 1, price |-> price, stop |-> stop, size |-> size]
  BY DEF Scheduled
<1> HIDE DEF dir, price, stop, size
<1>6. bar + 1 \in 1..Bars
  OBVIOUS
<1> QED BY <1>1, <1>2, <1>3, <1>4, <1>5, <1>6 DEF Entry

\* The money of a trade is an integer, wherever it exits.
LEMMA MoneyType ==
    ASSUME NEW e \in Entry, NEW price \in Int
    PROVE  ReturnPct(e, price) \in Int /\ NetPnL(e, price) \in Int /\ Fee(e) \in Int
<1>1. ReturnPct(e, price) \in Int
  <2>1. price - e.price \in Int
    BY EntryFields
  <2>2. Directed(e.dir, price - e.price) \in Int
    BY <2>1, DirectedType
  <2>3. 2 * FeeRate \in Int
    BY ConstantType
  <2> DEFINE gross == IF e.dir = "" THEN 0 ELSE Directed(e.dir, price - e.price)
  <2>4. gross \in Int
    <3>1. CASE e.dir = ""
      <4>1. gross = 0
        BY <3>1, Zenon
      <4> HIDE DEF gross
      <4> QED BY <4>1
    <3>2. CASE e.dir # ""
      BY <2>2, <3>2
    <3> QED BY <3>1, <3>2
  <2>5. ReturnPct(e, price) = gross - 2 * FeeRate
    BY DEF ReturnPct
  <2> HIDE DEF gross
  <2> QED BY <2>3, <2>4, <2>5
<1>2. e.size \in Int
  BY EntryFields
<1>3. NetPnL(e, price) \in Int
  BY <1>1, <1>2 DEF NetPnL
<1>4. Fee(e) \in Int
  <2>1. 2 * FeeRate \in Int
    OBVIOUS
  <2> QED BY <2>1, <1>2 DEF Fee
<1> QED BY <1>1, <1>3, <1>4

\* An exit is at a level.
LEMMA ExitPriceType ==
    ASSUME NEW e \in Entry, NEW c \in Candles
    PROVE  ExitPrice(e, c) \in Int /\ c.close \in Prices
<1>1. c.close \in Prices
  BY DEF Candles
<1>2. exitPriceForDir(c.close, e.dir) \in Int
  <2>1. c.close \in Int /\ Slip \in Int
    BY <1>1, ConstantType
  <2>2. Directed(e.dir, Slip) \in Int
    BY <2>1, DirectedType
  <2> QED BY <2>1, <2>2 DEF exitPriceForDir
<1>3. e.stop \in Int
  BY EntryFields
<1> QED BY <1>1, <1>2, <1>3 DEF ExitPrice

\* What Record appends to the books when p exits at price.
LEMMA Recorded ==
    ASSUME TypeOK, NEW e \in Entry, NEW price \in Int, Record(e, price),
           e.bar <= bar
    PROVE  /\ trades' = Append(trades, [dir |-> e.dir, bar |-> e.bar, exitBar |-> bar,
                                        holdingBars |-> Held(e), pnl |-> NetPnL(e, price),
                                        returnPct |-> ReturnPct(e, price)])
           /\ trades' \in Seq(Trade) /\ Len(trades') = Len(trades) + 1 /\ trades' # Nil
           /\ trades'[Len(trades')].exitBar = bar
           /\ cumulativePnL' = cumulativePnL + NetPnL(e, price) /\ cumulativePnL' \in Int
           /\ totalFees' \in Int /\ barsInMarket' \in Nat
<1> DEFINE t == [dir |-> e.dir, bar |-> e.bar, exitBar |-> bar, holdingBars |-> Held(e),
                 pnl |-> NetPnL(e, price), returnPct |-> ReturnPct(e, price)]
<1>1. Held(e) \in 1..Bars
  BY EntryFields DEF Held, TypeOK
<1>2. t \in Trade
  <2>1. NetPnL(e, price) \in Int /\ ReturnPct(e, price) \in Int
    BY MoneyType
  <2>2. e.dir \in Directions /\ e.bar \in 1..Bars /\ bar \in 1..Bars
    BY EntryFields DEF TypeOK
  <2> QED BY <1>1, <2>1, <2>2 DEF Trade
<1>3. t.exitBar = bar
  OBVIOUS
<1>4. trades' = Append(trades, t) /\ cumulativePnL' = cumulativePnL + NetPnL(e, price)
        /\ totalFees' = totalFees + Fee(e) /\ barsInMarket' = barsInMarket + Held(e)
  BY DEF Record, Book
<1> HIDE DEF t
<1>5. trades' \in Seq(Trade) /\ Len(trades') = Len(trades) + 1 /\ trades'[Len(trades')] = t
  BY <1>2, <1>4 DEF TypeOK
<1>6. trades' # Nil
  BY <1>5 DEF TypeOK, Nil
<1>7. cumulativePnL' \in Int /\ totalFees' \in Int /\ barsInMarket' \in Nat
  <2>1. NetPnL(e, price) \in Int /\ Fee(e) \in Int
    BY MoneyType
  <2>2. cumulativePnL \in Int /\ totalFees \in Int /\ barsInMarket \in Nat
    BY DEF TypeOK
  <2>3. barsInMarket + Held(e) \in Nat
    BY <1>1, <2>2
  <2> QED BY <1>4, <2>1, <2>2, <2>3
<1> QED BY <1>3, <1>4, <1>5, <1>6, <1>7 DEF t

-----------------------------------------------------------------------------
(***************************************************************************)
(* One lemma for each action: it preserves the inductive invariant.        *)
(***************************************************************************)
LEMMA InitInductive == Init => Inductive
<1> SUFFICES ASSUME Init PROVE Inductive
  OBVIOUS
<1> USE DEF Init, Nil
<1>1. NewGate \in Gate /\ NewGate.state = "idle" /\ NewGate.tradeCount = 0 /\ NewGate.dayPnl = 0
  BY DEF NewGate, Gate, GateStates
<1>2. TypeOK
  BY <1>1, EmptySeq DEF TypeOK
<1>3. PendingInv /\ PositionInv
  BY DEF PendingInv, PositionInv
<1>4. PauseInv
  BY <1>1 DEF PauseInv
<1>5. GateKeepsCount
  BY <1>1, EmptySeq DEF GateKeepsCount
<1> QED BY <1>2, <1>3, <1>4, <1>5 DEF Inductive

\* A bar the direction filter ends leaves the gate where it was: it was not cooling.
LEMMA RefuseStep ==
    ASSUME Inductive, NEW sig \in Signals, Refuse(sig)
    PROVE  Inductive'
<1> USE DEF Inductive, Refuse, books
<1>1. position = Nil /\ pending = Nil /\ bar < Bars /\ step = "signal"
  BY DEF Wants
<1>2. gate.state # "cooldown"
  BY AdmittedSize DEF Wants, TypeOK
<1>3. TypeOK'
  BY <1>1 DEF TypeOK
<1>4. PendingInv' /\ PositionInv'
  BY <1>1 DEF PendingInv, PositionInv
<1>5. PauseInv'
  <2>1. UNCHANGED <<trades, gate, position, pending>> /\ bar' = bar + 1 /\ bar \in 1..Bars /\ step' = "signal"
    BY <1>1 DEF TypeOK
  <2>2. CASE trades = Nil
    BY <1>2, <2>1, <2>2 DEF PauseInv
  <2>3. CASE trades # Nil
    <3>1. LastExit' = LastExit /\ LastExit \in 1..Bars
      BY <2>1, <2>3, LastExitType DEF LastExit
    <3>2. bar >= LastExit + CooldownBars /\ bar > LastExit
      BY <1>1, <1>2, <2>3 DEF PauseInv
    <3> QED BY <1>1, <1>2, <2>1, <2>3, <3>1, <3>2 DEF PauseInv
  <2> QED BY <2>2, <2>3
<1>6. GateKeepsCount'
  BY DEF GateKeepsCount
<1> QED BY <1>3, <1>4, <1>5, <1>6

\* A bar without an entry changes nothing the invariant is about.
LEMMA PassStep ==
    ASSUME Inductive, NEW sig \in Signals, Pass(sig)
    PROVE  Inductive'
<1> USE DEF Inductive, Pass, books
<1>1. TypeOK'
  BY DEF TypeOK
<1>2. PendingInv' /\ PositionInv'
  BY DEF PendingInv, PositionInv
<1>3. PauseInv'
  BY DEF PauseInv, LastExit
<1>4. GateKeepsCount'
  BY DEF GateKeepsCount
<1> QED BY <1>1, <1>2, <1>3, <1>4

\* The entry is for the next bar, past the pause because the gate was not cooling.
LEMMA ScheduleStep ==
    ASSUME Inductive, NEW sig \in Signals, NEW open \in Prices, Schedule(sig, open)
    PROVE  Inductive'
<1> USE DEF Inductive, Schedule, books
<1> DEFINE e == Scheduled(sig, open)
<1>1. /\ position = Nil /\ pending = Nil /\ bar < Bars /\ step = "signal"
      /\ Evaluate(gate, sig).decision # "no_trade"
  BY DEF Wants
<1>2. gate \in Gate /\ sig \in Signal /\ bar \in 1..Bars
  BY DEF TypeOK
<1>3. gate.state # "cooldown"
  BY <1>1, <1>2, AdmittedSize
<1>4. e \in Entry /\ e.bar = bar + 1
  BY <1>1, <1>2, ScheduledType
<1>5. pending' = <<e>> /\ UNCHANGED <<mode, bar, position, trades, cumulativePnL, totalFees, barsInMarket, lastClose>>
        /\ gate' = OnTradePlaced(gate) /\ step' = "fill"
  OBVIOUS
<1> HIDE DEF e
<1>6. pending' \in Seq(Entry) /\ Len(pending') = 1 /\ pending'[1] = e /\ pending' # Nil
  BY <1>4, <1>5 DEF Nil
<1>7. /\ gate' \in Gate /\ gate'.state = gate.state
      /\ gate'.tradeCount = gate.tradeCount + 1 /\ gate'.dayPnl = gate.dayPnl
  BY <1>2, <1>5, PlacedFields, GateType
<1>8. Len(position) = 0 /\ Len(pending) = 0
  BY <1>1 DEF Nil
<1>9. TypeOK'
  BY <1>5, <1>6, <1>7, <1>8 DEF TypeOK
<1>10. PendingInv' /\ PositionInv'
  BY <1>1, <1>4, <1>5, <1>6 DEF PendingInv, PositionInv, TypeOK
<1>11. PauseInv'
  <2>1. CASE trades = Nil
    BY <1>3, <1>5, <1>7, <2>1 DEF PauseInv
  <2>2. CASE trades # Nil
    <3>1. LastExit' = LastExit /\ LastExit \in 1..Bars
      BY <1>5, <2>2, LastExitType DEF LastExit
    <3>2. bar >= LastExit + CooldownBars /\ bar > LastExit
      BY <1>1, <1>3, <2>2 DEF PauseInv
    <3> QED BY <1>1, <1>2, <1>3, <1>4, <1>5, <1>6, <1>7, <2>2, <3>1, <3>2 DEF PauseInv
  <2> QED BY <2>1, <2>2
<1>12. GateKeepsCount'
  BY <1>1, <1>5, <1>6, <1>7, <1>8 DEF GateKeepsCount, TypeOK
<1> QED BY <1>9, <1>10, <1>11, <1>12

\* The entry becomes the position at its bar, before its exit is looked at.
LEMMA FillStep ==
    ASSUME Inductive, Fill
    PROVE  Inductive'
<1> USE DEF Inductive, Fill, books
<1>1. CASE ~Due
  <2>1. TypeOK'
    BY <1>1 DEF TypeOK
  <2>2. PendingInv'
    <3> SUFFICES ASSUME pending # Nil PROVE PendingInv'
      BY <1>1 DEF PendingInv
    <3>1. position = Nil
      BY AtMostOne, EmptySeq DEF TypeOK, Nil
    <3>2. pending[1].bar # bar
      BY <1>1, <3>1 DEF Due
    <3> QED BY <1>1, <3>2 DEF PendingInv
  <2>3. PositionInv'
    BY <1>1 DEF PositionInv
  <2>4. PauseInv' /\ GateKeepsCount'
    BY <1>1 DEF PauseInv, LastExit, GateKeepsCount
  <2> QED BY <2>1, <2>2, <2>3, <2>4
<1>2. CASE Due
  <2>1. position = Nil /\ pending # Nil /\ pending[1].bar = bar
    BY <1>2 DEF Due
  <2>2. position' = pending /\ pending' = Nil /\ step' = "exit"
          /\ UNCHANGED <<mode, bar, gate, trades, cumulativePnL, totalFees, barsInMarket, lastClose>>
    BY <1>2
  <2>3. TypeOK'
    BY <2>1, <2>2, EmptySeq DEF TypeOK, Nil
  <2>4. PendingInv' /\ PositionInv'
    BY <2>1, <2>2 DEF PendingInv, PositionInv, TypeOK
  <2>5. PauseInv'
    BY <2>1, <2>2 DEF PauseInv, LastExit
  <2>6. GateKeepsCount'
    BY <2>1, <2>2, EmptySeq DEF GateKeepsCount, TypeOK, Nil
  <2> QED BY <2>3, <2>4, <2>5, <2>6
<1> QED BY <1>1, <1>2

\* Without a position there is no exit.
LEMMA NoExitStep ==
    ASSUME Inductive, NoExit
    PROVE  Inductive'
<1> USE DEF Inductive, NoExit, books
<1>1. TypeOK'
  BY DEF TypeOK
<1>2. PendingInv' /\ PositionInv'
  BY DEF PendingInv, PositionInv
<1>3. PauseInv' /\ GateKeepsCount'
  BY DEF PauseInv, LastExit, GateKeepsCount
<1> QED BY <1>1, <1>2, <1>3

\* The exit closes the trade on this bar and restarts the pause; a position that is
\* kept has a bar left.
LEMMA ExitStep ==
    ASSUME Inductive, NEW k \in DOMAIN position, NEW c \in Candles, Exit(position[k], c)
    PROVE  Inductive'
<1> USE DEF Inductive
<1> DEFINE p == position[1]
           x == ExitPrice(p, c)
<1>1. position # Nil
  BY DEF Nil
<1>2. p \in Entry /\ DOMAIN position = {1} /\ Len(position) = 1 /\ pending = Nil
  BY <1>1, AtMostOne, EmptySeq DEF TypeOK, Nil
<1>3. position[k] = p
  BY <1>2
<1>4. x \in Int /\ c.close \in Prices
  BY <1>2, ExitPriceType
<1>5. step = "exit" /\ p.bar <= bar /\ bar - p.bar < HoldingBars
  BY <1>1, <1>3 DEF Exit, PositionInv
<1>6. CASE ~ExitDue(p, c)
  <2>1. UNCHANGED <<mode, bar, gate, pending, position, trades, cumulativePnL, totalFees, barsInMarket>>
          /\ step' = "end" /\ lastClose' = c.close
    BY <1>3, <1>6 DEF Exit, books
  <2>2. bar - p.bar + 1 < HoldingBars
    <3>1. ~(bar - p.bar + 1 >= HoldingBars)
      BY <1>6 DEF ExitDue, Held
    <3> QED BY <1>2, <3>1, EntryFields DEF TypeOK
  <2>3. TypeOK'
    BY <1>4, <2>1 DEF TypeOK
  <2>4. PendingInv' /\ PositionInv'
    BY <1>2, <1>5, <2>1, <2>2 DEF PendingInv, PositionInv
  <2>5. PauseInv' /\ GateKeepsCount'
    BY <1>5, <2>1 DEF PauseInv, LastExit, GateKeepsCount
  <2> QED BY <2>3, <2>4, <2>5
<1>7. CASE ExitDue(p, c)
  <2>1. /\ Record(p, x) /\ gate' = OnTradeClosed(UpdatePnl(gate, NetPnL(p, x)))
        /\ position' = Nil /\ step' = "end" /\ lastClose' = c.close
        /\ UNCHANGED <<mode, bar, pending>>
    BY <1>3, <1>7 DEF Exit
  <2> HIDE DEF p, x
  <2>2. /\ trades' \in Seq(Trade) /\ Len(trades') = Len(trades) + 1 /\ trades' # Nil
        /\ LastExit' = bar
        /\ cumulativePnL' = cumulativePnL + NetPnL(p, x) /\ cumulativePnL' \in Int
        /\ totalFees' \in Int /\ barsInMarket' \in Nat
    BY <1>2, <1>4, <1>5, <2>1, Recorded DEF LastExit
  <2>3. NetPnL(p, x) \in Int /\ gate \in Gate
    BY <1>2, <1>4, MoneyType DEF TypeOK
  <2>4. /\ gate' \in Gate /\ gate'.state = "cooldown" /\ gate'.cooldown = CooldownBars
        /\ gate'.tradeCount = gate.tradeCount /\ gate'.dayPnl = gate.dayPnl + NetPnL(p, x)
    BY <2>1, <2>3, ClosedFields
  <2>5. TypeOK'
    BY <1>2, <1>4, <2>1, <2>2, <2>4, EmptySeq DEF TypeOK, Nil
  <2>6. PendingInv' /\ PositionInv'
    BY <1>2, <2>1 DEF PendingInv, PositionInv
  <2>7. PauseInv'
    BY <1>2, <2>1, <2>2, <2>4 DEF PauseInv, TypeOK
  <2>8. GateKeepsCount'
    <3>1. /\ gate.tradeCount = Len(trades) + (Len(position) + Len(pending))
          /\ gate.dayPnl = cumulativePnL
      BY <1>5 DEF GateKeepsCount
    <3>2. Len(pending) = 0 /\ Len(pending') = 0 /\ Len(position') = 0 /\ Len(trades) \in Nat
      BY <1>2, <2>1, EmptySeq, LenProperties DEF TypeOK, Nil
    <3>3. gate'.tradeCount = Len(trades') + (Len(position') + Len(pending'))
      BY <1>2, <2>2, <2>4, <3>1, <3>2
    <3>4. gate'.dayPnl = cumulativePnL'
      BY <2>2, <2>4, <3>1
    <3> QED BY <2>1, <3>3, <3>4 DEF GateKeepsCount
  <2> QED BY <2>5, <2>6, <2>7, <2>8
<1> QED BY <1>6, <1>7

\* The bar takes one off the pause; when it ends, the pause has been kept.
LEMMA EndBarStep ==
    ASSUME Inductive, EndBar
    PROVE  Inductive'
<1> USE DEF Inductive
<1>1. /\ step = "end" /\ gate' = OnBar(gate) /\ bar \in 1..Bars /\ gate \in Gate
      /\ UNCHANGED <<mode, pending, position, trades, cumulativePnL, totalFees, barsInMarket, lastClose>>
      /\ \/ bar = Bars /\ step' = "finish" /\ bar' = bar
         \/ bar # Bars /\ step' = "signal" /\ bar' = bar + 1
  BY DEF EndBar, books, TypeOK
<1>2. gate' \in Gate
  BY <1>1, GateType
<1>3. TypeOK'
  BY <1>1, <1>2 DEF TypeOK
<1>4. PendingInv'
  <2> SUFFICES ASSUME pending # Nil PROVE PendingInv'
    BY <1>1 DEF PendingInv
  <2>1. pending[1].bar = bar + 1
    BY <1>1 DEF PendingInv
  <2>2. pending[1].bar \in 1..Bars
    BY AtMostOne, EntryFields DEF TypeOK
  <2> QED BY <1>1, <2>1, <2>2 DEF PendingInv
<1>5. PositionInv'
  <2> SUFFICES ASSUME position # Nil PROVE PositionInv'
    BY <1>1 DEF PositionInv
  <2>1. position[1].bar \in 1..Bars
    BY AtMostOne, EntryFields DEF TypeOK
  <2> QED BY <1>1, <2>1 DEF PositionInv
<1>6. PauseInv'
  <2>1. CASE trades = Nil
    BY <1>1, <2>1, BarFields DEF PauseInv
  <2>2. CASE trades # Nil
    <3>1. LastExit \in Int /\ LastExit' = LastExit
      BY <1>1, <2>2, LastExitType DEF LastExit
    <3>2. CASE gate.state = "cooldown"
      <4>1. gate.cooldown = LastExit + CooldownBars - bar
        BY <1>1, <2>2, <3>2 DEF PauseInv
      <4> QED BY <1>1, <1>2, <2>2, <3>1, <3>2, <4>1, BarFields DEF PauseInv
    <3>3. CASE gate.state # "cooldown"
      BY <1>1, <2>2, <3>1, <3>3, BarFields DEF PauseInv
    <3> QED BY <3>2, <3>3
  <2> QED BY <2>1, <2>2
<1>7. GateKeepsCount'
  BY <1>1, BarFields DEF GateKeepsCount
<1> QED BY <1>3, <1>4, <1>5, <1>6, <1>7

\* The trade that is still open is closed; the gate has counted it already.
LEMMA FinishStep ==
    ASSUME Inductive, Finish
    PROVE  Inductive'
<1> USE DEF Inductive
<1>1. /\ step = "finish" /\ position' = Nil /\ step' = "done"
      /\ UNCHANGED <<mode, bar, gate, pending, lastClose>>
  BY DEF Finish
<1>2. pending = Nil
  BY <1>1 DEF PendingInv
<1>3. PendingInv' /\ PositionInv'
  BY <1>1, <1>2 DEF PendingInv, PositionInv
<1>4. CASE position = Nil
  <2>1. UNCHANGED <<trades, cumulativePnL, totalFees, barsInMarket>>
    BY <1>4 DEF Finish, books
  <2>2. TypeOK'
    BY <1>1, <1>4, <2>1 DEF TypeOK
  <2>3. PauseInv'
    BY <1>1, <1>2, <2>1 DEF PauseInv, LastExit
  <2>4. GateKeepsCount'
    BY <1>1, <1>2, <1>4, <2>1, EmptySeq DEF GateKeepsCount, TypeOK, Nil
  <2> QED BY <1>3, <2>2, <2>3, <2>4
<1>5. CASE position # Nil
  <2> DEFINE p == position[1]
             x == exitPriceForDir(lastClose, p.dir)
  <2>1. Record(p, x)
    BY <1>5 DEF Finish
  <2>2. p \in Entry /\ Len(position) = 1 /\ p.bar <= bar
    BY <1>5, AtMostOne DEF TypeOK, PositionInv
  <2>3. x \in Int
    <3>1. lastClose \in Int /\ Slip \in Int
      BY DEF TypeOK
    <3>2. Directed(p.dir, Slip) \in Int
      BY <3>1, DirectedType
    <3> QED BY <3>1, <3>2 DEF exitPriceForDir
  <2> HIDE DEF p, x
  <2>4. /\ trades' \in Seq(Trade) /\ Len(trades') = Len(trades) + 1 /\ trades' # Nil
        /\ LastExit' = bar
        /\ cumulativePnL' \in Int /\ totalFees' \in Int /\ barsInMarket' \in Nat
    BY <2>1, <2>2, <2>3, Recorded DEF LastExit
  <2>5. TypeOK'
    BY <1>1, <1>2, <2>4, EmptySeq DEF TypeOK, Nil
  <2>6. PauseInv'
    BY <1>1, <1>2, <2>4 DEF PauseInv, TypeOK
  <2>7. GateKeepsCount'
    <3>1. gate.tradeCount = Len(trades) + (Len(position) + Len(pending))
      BY <1>1 DEF GateKeepsCount
    <3>2. Len(pending) = 0 /\ Len(trades) \in Nat
      BY <1>2, EmptySeq, LenProperties DEF TypeOK, Nil
    <3>3. gate'.tradeCount = Len(trades')
      BY <1>1, <2>2, <2>4, <3>1, <3>2
    <3> QED BY <1>1, <3>3, <2>4 DEF GateKeepsCount, TypeOK
  <2> QED BY <1>3, <2>5, <2>6, <2>7
<1> QED BY <1>4, <1>5

\* A stuttering step.
LEMMA StutterStep ==
    ASSUME Inductive, UNCHANGED vars
    PROVE  Inductive'
BY DEF vars, books, Inductive, TypeOK, PendingInv, PositionInv, PauseInv, LastExit, GateKeepsCount

-----------------------------------------------------------------------------
(***************************************************************************)
(* The theorems.                                                           *)
(***************************************************************************)
LEMMA NextInductive == Inductive /\ [Next]_vars => Inductive'
<1>1. ASSUME Inductive, Next PROVE Inductive'
  BY <1>1, RefuseStep, PassStep, ScheduleStep, FillStep, NoExitStep, ExitStep, EndBarStep, FinishStep
     DEF Next
<1> QED BY <1>1, StutterStep

\* The types, the pause and the gate's count hold in every state of every backtest.
THEOREM BacktestInductive == Spec => []Inductive
BY InitInductive, NextInductive, PTL DEF Spec

\* Every variable keeps its type, for every number of bars and every set of signals.
THEOREM BacktestTypes == Spec => []TypeOK
<1>1. Inductive => TypeOK
  BY DEF Inductive
<1> QED BY <1>1, BacktestInductive, PTL

\* The gate's count is that of the trades and its PnL that of the closed ones, for
\* every run: no scheduled entry is lost and none is filled twice.
THEOREM GateCountKept == Spec => []GateKeepsCount
<1>1. Inductive => GateKeepsCount
  BY DEF Inductive
<1> QED BY <1>1, BacktestInductive, PTL

\* A pause is CooldownBars bars of the candles, whatever bars the direction filter ends.
THEOREM PauseExact == Spec => []CooldownExact
<1>1. Inductive => CooldownExact
  <2> SUFFICES ASSUME Inductive, step = "signal", trades # Nil
               PROVE  gate.state = "cooldown" <=> bar < LastExit + CooldownBars
    BY DEF CooldownExact, LastExit
  <2>1. LastExit \in 1..Bars /\ bar \in 1..Bars
    BY LastExitType DEF Inductive, TypeOK
  <2> QED BY <2>1 DEF Inductive, PauseInv
<1> QED BY <1>1, BacktestInductive, PTL
-----------------------------------------------------------------------------
(***************************************************************************)
(* Refinement: every step of the run is a step of SinglePosition or leaves *)
(* its bar, its open trade and its log alone.                              *)
(***************************************************************************)
\* SinglePosition's open and log, as Backtest's Promised maps them.
OpenBars == [k \in DOMAIN position |-> position[k].bar]
\* The bars of a trade, as SinglePosition sees it.
Span(t) == [from |-> t.bar, to |-> t.exitBar]
\* And those of all that ended.
Spans == [k \in DOMAIN trades |-> Span(trades[k])]

\* Without a position none is open.
LEMMA OpenBarsNil == position = Nil => OpenBars = << >>
<1> SUFFICES ASSUME position = Nil PROVE OpenBars = << >>
  OBVIOUS
<1>1. DOMAIN position = {}
  BY DEF Nil
<1> QED BY <1>1 DEF OpenBars

\* One held entry maps to its bar.
LEMMA OpenBarsOne ==
    ASSUME NEW s \in Seq(Entry), Len(s) <= 1, s # Nil
    PROVE  [k \in DOMAIN s |-> s[k].bar] = <<s[1].bar>>
<1>1. DOMAIN s = {1}
  BY AtMostOne
<1> DEFINE f == [k \in DOMAIN s |-> s[k].bar]
           g == <<s[1].bar>>
<1>2. f = [k \in {1} |-> s[k].bar]
  BY <1>1
<1>3. DOMAIN f = 1..1 /\ f[1] = s[1].bar
  BY <1>2
<1>4. DOMAIN g = 1..1 /\ g[1] = s[1].bar
  OBVIOUS
<1>5. f = [k \in 1..1 |-> f[k]] /\ g = [k \in 1..1 |-> g[k]]
  BY <1>3, <1>4
<1>6. \A k \in 1..1 : f[k] = g[k]
  BY <1>3, <1>4
<1> QED BY <1>5, <1>6

\* A trade appended to the trades is a span appended to the spans.
LEMMA SpansAppend ==
    ASSUME NEW s \in Seq(Trade), NEW t \in Trade
    PROVE  [k \in DOMAIN Append(s, t) |-> Span(Append(s, t)[k])]
             = Append([k \in DOMAIN s |-> Span(s[k])], Span(t))
<1> DEFINE a == Append(s, t)
           f == [k \in DOMAIN s |-> Span(s[k])]
           n == Len(s)
<1>1. n \in Nat /\ DOMAIN s = 1..n /\ DOMAIN a = 1..(n + 1) /\ Len(a) = n + 1
        /\ a[n + 1] = t /\ \A k \in 1..n : a[k] = s[k]
  BY AppendProperties, LenProperties
<1>2. f \in Seq({Span(u) : u \in Trade}) /\ Len(f) = n
  <2>1. f \in [1..n -> {Span(u) : u \in Trade}]
    BY <1>1, ElementOfSeq
  <2>2. f = [k \in 1..n |-> Span(s[k])]
    BY <1>1
  <2>3. f \in Seq({Span(u) : u \in Trade})
    BY <1>1, <2>1
  <2> QED BY <1>1, <2>2, <2>3
<1>3. Span(t) \in {Span(u) : u \in Trade}
  OBVIOUS
<1> DEFINE b == Append(f, Span(t))
           c == [k \in DOMAIN a |-> Span(a[k])]
<1>4. DOMAIN b = 1..(n + 1) /\ b[n + 1] = Span(t) /\ \A k \in 1..n : b[k] = f[k]
  <2> HIDE DEF f
  <2> QED BY <1>1, <1>2, <1>3, AppendProperties, LenProperties
<1>5. \A k \in 1..n : f[k] = Span(s[k])
  BY <1>1
<1>6. DOMAIN c = 1..(n + 1) /\ \A k \in 1..(n + 1) : c[k] = Span(a[k])
  BY <1>1
<1>7. \A k \in 1..(n + 1) : c[k] = b[k]
  <2> SUFFICES ASSUME NEW k \in 1..(n + 1) PROVE c[k] = b[k]
    OBVIOUS
  <2> HIDE DEF a, b, c, f
  <2>1. CASE k = n + 1
    BY <1>1, <1>4, <1>6, <2>1
  <2>2. CASE k # n + 1
    <3>1. k \in 1..n
      BY <1>1, <2>2
    <3> QED BY <1>1, <1>4, <1>5, <1>6, <3>1
  <2> QED BY <2>1, <2>2
<1>8. b = [k \in 1..(n + 1) |-> b[k]] /\ c = [k \in 1..(n + 1) |-> c[k]]
  <2>1. b \in Seq({Span(u) : u \in Trade})
    <3> HIDE DEF f
    <3> QED BY <1>2, <1>3, AppendProperties
  <2>2. b \in [1..Len(b) -> {Span(u) : u \in Trade}]
    <3> HIDE DEF b
    <3> QED BY <2>1, LenProperties
  <2>3. b = [k \in DOMAIN b |-> b[k]]
    <3> HIDE DEF b
    <3> QED BY <2>2
  <2> QED BY <1>4, <1>6, <2>3
<1>9. c = b
  <2> HIDE DEF b, c
  <2> QED BY <1>7, <1>8
<1> QED BY <1>9

\* Recording the position is the abstract Leave.
LEMMA RecordLeaves ==
    ASSUME TypeOK, position # Nil, NEW price \in Int, Record(position[1], price),
           position[1].bar <= bar, position' = Nil, bar' = bar
    PROVE  Promised!Leave
<1> DEFINE p == position[1]
           t == [dir |-> p.dir, bar |-> p.bar, exitBar |-> bar, holdingBars |-> Held(p),
                 pnl |-> NetPnL(p, price), returnPct |-> ReturnPct(p, price)]
<1>1. p \in Entry /\ Len(position) <= 1 /\ position \in Seq(Entry)
  BY AtMostOne DEF TypeOK
<1>2. OpenBars = <<p.bar>>
  BY <1>1, OpenBarsOne DEF OpenBars
<1>3. OpenBars # << >> /\ OpenBars[1] = p.bar
  BY <1>2
<1>4. trades' = Append(trades, t)
  BY <1>1, Recorded
<1>5. t \in Trade
  <2>1. Held(p) \in 1..Bars
    <3> HIDE DEF p
    <3>1. p.bar \in 1..Bars /\ bar \in 1..Bars /\ p.bar <= bar /\ Bars \in Nat
      BY <1>1, EntryFields DEF TypeOK, p
    <3> QED BY ONLY <3>1 DEF Held
  <2>2. NetPnL(p, price) \in Int /\ ReturnPct(p, price) \in Int
    BY <1>1, MoneyType
  <2>3. p.dir \in Directions /\ p.bar \in 1..Bars /\ bar \in 1..Bars
    BY <1>1, EntryFields DEF TypeOK
  <2> HIDE DEF p
  <2> QED BY <2>1, <2>2, <2>3 DEF Trade
<1>6. Span(t) = [from |-> p.bar, to |-> bar]
  BY DEF Span
<1> HIDE DEF t
<1>7. Spans' = Append(Spans, [from |-> p.bar, to |-> bar])
  <2>1. trades \in Seq(Trade)
    BY DEF TypeOK
  <2> QED BY <1>4, <1>5, <1>6, <2>1, SpansAppend DEF Spans
<1>8. OpenBars' = << >>
  <2>1. DOMAIN position' = {}
    BY DEF Nil
  <2> QED BY <2>1 DEF OpenBars
<1> QED BY <1>3, <1>7, <1>8 DEF Promised!Leave, OpenBars, Spans, Span

\* The bar moves on: a position has another bar left.
LEMMA Ticks ==
    ASSUME Inductive, bar' = bar + 1, UNCHANGED <<position, trades>>,
           step = "end" \/ position = Nil
    PROVE  Promised!Tick
<1>1. OpenBars # << >> => bar - OpenBars[1] + 1 < HoldingBars
  <2> SUFFICES ASSUME OpenBars # << >> PROVE bar - OpenBars[1] + 1 < HoldingBars
    OBVIOUS
  <2>1. position # Nil
    BY OpenBarsNil
  <2>2. OpenBars = <<position[1].bar>>
    BY <2>1, OpenBarsOne DEF OpenBars, Inductive, TypeOK
  <2> QED BY <2>1, <2>2 DEF Inductive, PositionInv
<1>2. OpenBars' = OpenBars /\ Spans' = Spans
  BY DEF OpenBars, Spans
<1> QED BY <1>1, <1>2 DEF Promised!Tick, OpenBars, Spans, Span

\* The fill of a due entry is the abstract Enter: the pause is over.
LEMMA FillEnters ==
    ASSUME Inductive, Fill, Due
    PROVE  Promised!Enter
<1>1. position = Nil /\ pending # Nil /\ pending[1].bar = bar /\ position' = pending
        /\ UNCHANGED <<bar, trades>>
  BY DEF Due, Fill, books
<1>2. OpenBars = << >>
  BY <1>1, OpenBarsNil
<1>3. OpenBars' = <<bar>>
  <2>1. pending \in Seq(Entry) /\ Len(pending) <= 1
    BY <1>1, EmptySeq DEF Inductive, TypeOK, Nil
  <2>2. [k \in DOMAIN pending |-> pending[k].bar] = <<pending[1].bar>>
    BY <1>1, <2>1, OpenBarsOne
  <2> QED BY <1>1, <2>2 DEF OpenBars
<1>4. Spans = << >> \/ bar > Spans[Len(Spans)].to + CooldownBars
  <2>1. CASE trades = Nil
    <3>1. DOMAIN trades = {}
      BY <2>1 DEF Nil
    <3> QED BY <3>1 DEF Spans
  <2>2. CASE trades # Nil
    <3>1. trades \in Seq(Trade) /\ Len(trades) \in Nat /\ DOMAIN trades = 1..Len(trades)
      BY LenProperties DEF Inductive, TypeOK
    <3>2. Len(trades) \in 1..Len(trades)
      BY <2>2, <3>1, EmptySeq DEF Nil
    <3>3. Len(Spans) = Len(trades)
      <4>1. Spans = [k \in 1..Len(trades) |-> Span(trades[k])]
        BY <3>1 DEF Spans
      <4> QED BY <3>1, <4>1
    <3>4. Spans[Len(trades)] = Span(trades[Len(trades)])
      BY <3>1, <3>2 DEF Spans
    <3>5. Spans[Len(Spans)].to = LastExit
      BY <3>3, <3>4 DEF Span, LastExit
    <3>6. bar > LastExit + CooldownBars
      BY <1>1, <2>2 DEF Inductive, PauseInv
    <3> QED BY <3>5, <3>6
  <2> QED BY <2>1, <2>2
<1>5. Spans' = Spans
  BY <1>1 DEF Spans
<1> QED BY <1>1, <1>2, <1>3, <1>4, <1>5 DEF Promised!Enter, Promised!Rested, OpenBars, Spans, Span

\* What leaves the bar, the position and the trades alone leaves SinglePosition alone.
LEMMA Stutters ==
    ASSUME UNCHANGED <<bar, position, trades>>
    PROVE  UNCHANGED Promised!vars
BY DEF Promised!vars

\* At first nothing is open or logged.
LEMMA InitRefines == Init => Promised!Init
<1> SUFFICES ASSUME Init PROVE Promised!Init
  OBVIOUS
<1>1. bar = 1 /\ position = Nil /\ trades = Nil
  BY DEF Init
<1>2. DOMAIN position = {} /\ DOMAIN trades = {}
  BY <1>1 DEF Nil
<1> QED BY <1>1, <1>2 DEF Promised!Init

\* An exit is a Leave, and a position that is kept a stuttering step.
LEMMA ExitRefines ==
    ASSUME Inductive, NEW k \in DOMAIN position, NEW c \in Candles, Exit(position[k], c)
    PROVE  Promised!Leave \/ UNCHANGED Promised!vars
<1>1. position # Nil
  BY DEF Nil
<1>2. position[k] = position[1] /\ position[1] \in Entry
  BY <1>1, AtMostOne DEF Inductive, TypeOK
<1>3. position[1].bar <= bar /\ TypeOK
  BY <1>1 DEF Inductive, PositionInv
<1> DEFINE x == ExitPrice(position[1], c)
<1>4. x \in Int
  BY <1>2, ExitPriceType
<1>5. CASE ExitDue(position[1], c)
  <2>1. Record(position[1], x) /\ position' = Nil /\ bar' = bar
    BY <1>2, <1>5 DEF Exit
  <2> HIDE DEF x
  <2> QED BY <1>1, <1>3, <1>4, <2>1, RecordLeaves
<1>6. CASE ~ExitDue(position[1], c)
  <2>1. UNCHANGED <<bar, position, trades>>
    BY <1>2, <1>6 DEF Exit, books
  <2> QED BY <2>1, Stutters
<1> QED BY <1>5, <1>6

\* So is the end of the run.
LEMMA FinishRefines ==
    ASSUME Inductive, Finish
    PROVE  Promised!Leave \/ UNCHANGED Promised!vars
<1>1. CASE position = Nil
  <2>1. UNCHANGED <<bar, position, trades>>
    BY <1>1 DEF Finish, books
  <2> QED BY <2>1, Stutters
<1>2. CASE position # Nil
  <2> DEFINE x == exitPriceForDir(lastClose, position[1].dir)
  <2>1. Record(position[1], x) /\ position' = Nil /\ bar' = bar
    BY <1>2 DEF Finish
  <2>2. position[1].bar <= bar /\ TypeOK
    BY <1>2 DEF Inductive, PositionInv
  <2>3. x \in Int
    <3>1. lastClose \in Int /\ Slip \in Int
      BY DEF Inductive, TypeOK
    <3>2. Directed(position[1].dir, Slip) \in Int
      BY <3>1, DirectedType
    <3> QED BY <3>1, <3>2 DEF exitPriceForDir
  <2> HIDE DEF x
  <2> QED BY <1>2, <2>1, <2>2, <2>3, RecordLeaves
<1> QED BY <1>1, <1>2

\* Every step of the run is one of SinglePosition, or none.
LEMMA NextRefines ==
    Inductive /\ [Next]_vars => [Promised!Next]_Promised!vars
<1> SUFFICES ASSUME Inductive, [Next]_vars PROVE Promised!Next \/ UNCHANGED Promised!vars
  OBVIOUS
<1> USE DEF Promised!Next
<1>1. ASSUME NEW sig \in Signals, Refuse(sig) PROVE Promised!Tick
  BY <1>1, Ticks DEF Refuse, Wants, books
<1>2. ASSUME NEW sig \in Signals, Pass(sig) PROVE UNCHANGED Promised!vars
  BY <1>2, Stutters DEF Pass, books
<1>3. ASSUME NEW sig \in Signals, NEW open \in Prices, Schedule(sig, open)
      PROVE  UNCHANGED Promised!vars
  BY <1>3, Stutters DEF Schedule, books
<1>4. ASSUME Fill PROVE Promised!Next \/ UNCHANGED Promised!vars
  <2>1. CASE Due
    BY <1>4, <2>1, FillEnters
  <2>2. CASE ~Due
    BY <1>4, <2>2, Stutters DEF Fill, books
  <2> QED BY <2>1, <2>2
<1>5. ASSUME NoExit PROVE UNCHANGED Promised!vars
  BY <1>5, Stutters DEF NoExit, books
<1>6. ASSUME EndBar PROVE Promised!Next \/ UNCHANGED Promised!vars
  <2>1. CASE bar = Bars
    BY <1>6, <2>1, Stutters DEF EndBar, books
  <2>2. CASE bar # Bars
    BY <1>6, <2>2, Ticks DEF EndBar, books
  <2> QED BY <2>1, <2>2
<1>7. ASSUME UNCHANGED vars PROVE UNCHANGED Promised!vars
  BY <1>7, Stutters DEF vars, books
<1> QED BY <1>1, <1>2, <1>3, <1>4, <1>5, <1>6, <1>7, ExitRefines, FinishRefines DEF Next

\* The backtest implements SinglePosition: trades one at a time, none held past the
\* holding time, a full pause between them, and no recorded trade ever changed.
THEOREM BacktestImplements == Spec => Implements
<1>1. Spec => Promised!Spec
  BY InitRefines, NextRefines, BacktestInductive, PTL DEF Spec, Promised!Spec
<1> QED BY <1>1 DEF Implements

-----------------------------------------------------------------------------
(***************************************************************************)
(* The books of the run.                                                   *)
(***************************************************************************)
\* What the run has in its books.
BooksInv == Booked(trades, cumulativePnL, barsInMarket) /\ (trades = Nil => totalFees = 0)

\* At first the books are empty.
LEMMA BooksInit == Init => BooksInv
<1> SUFFICES ASSUME Init PROVE BooksInv
  OBVIOUS
<1>1. trades = << >> /\ cumulativePnL = 0 /\ barsInMarket = 0 /\ totalFees = 0
  BY DEF Init, Nil
<1>2. Len(<< >>) = 0 /\ DOMAIN << >> = {}
  OBVIOUS
<1>3. InOrder(<< >>)
  BY <1>2 DEF InOrder
<1>4. [k \in DOMAIN << >> |-> << >>[k].pnl] = << >> /\ [k \in DOMAIN << >> |-> << >>[k].holdingBars] = << >>
  OBVIOUS
<1>5. Covered(<< >>) = {}
  BY DEF Covered
<1>6. Cardinality({}) = 0
  BY FS_EmptySet
<1>7. Booked(<< >>, 0, 0)
  BY <1>3, <1>4, <1>5, <1>6, TotalEmpty DEF Booked
<1> QED BY <1>1, <1>7 DEF BooksInv

\* A trade that is recorded comes after the one before it.
LEMMA RecordBooks ==
    ASSUME Inductive, BooksInv, position # Nil, NEW price \in Int, Record(position[1], price)
    PROVE  BooksInv'
<1> DEFINE p == position[1]
           t == [dir |-> p.dir, bar |-> p.bar, exitBar |-> bar, holdingBars |-> Held(p),
                 pnl |-> NetPnL(p, price), returnPct |-> ReturnPct(p, price)]
<1>1. TypeOK /\ p \in Entry /\ p.bar <= bar /\ p.bar \in 1..Bars /\ bar \in 1..Bars /\ Bars \in Nat
  BY AtMostOne, EntryFields, BacktestAssumption DEF Inductive, TypeOK, PositionInv
<1>2. trades' = Append(trades, t) /\ cumulativePnL' = cumulativePnL + NetPnL(p, price)
        /\ barsInMarket' = barsInMarket + Held(p)
  BY DEF Record, Book
<1>3. NetPnL(p, price) \in Int /\ ReturnPct(p, price) \in Int
  BY <1>1, MoneyType
<1>4. Held(p) = bar - p.bar + 1 /\ Held(p) \in 1..Bars
  BY <1>1 DEF Held
<1>5. /\ t.bar = p.bar /\ t.exitBar = bar /\ t.holdingBars = Held(p) /\ t.pnl = NetPnL(p, price)
  OBVIOUS
<1>6. t \in Trade
  <2> HIDE DEF p
  <2> QED BY <1>1, <1>3, <1>4, EntryFields DEF Trade
<1> HIDE DEF t, p
<1>7. trades \in Seq(Trade) /\ Booked(trades, cumulativePnL, barsInMarket)
        /\ cumulativePnL \in Int /\ barsInMarket \in Nat /\ Len(trades) \in Nat
  BY <1>1, LenProperties DEF TypeOK, BooksInv
<1>8. \A k \in 1..Len(trades) : trades[k].exitBar < p.bar
  <2> SUFFICES ASSUME NEW k \in 1..Len(trades) PROVE trades[k].exitBar < p.bar
    OBVIOUS
  <2>1. trades # Nil
    BY DEF Nil
  <2>2. p.bar > LastExit + CooldownBars /\ LastExit \in Int /\ CooldownBars \in Nat
    BY <1>1, <2>1, LastExitType, GateAssumption DEF Inductive, PauseInv, p
  <2>3. /\ trades[k].exitBar \in Int /\ trades[k].bar \in Int
        /\ Len(trades) \in 1..Len(trades) /\ trades[Len(trades)].bar <= LastExit
        /\ trades[Len(trades)].bar \in Int
        /\ k # Len(trades) => trades[k].exitBar < trades[Len(trades)].bar
    <3>1. Len(trades) \in 1..Len(trades) /\ (k # Len(trades) => k < Len(trades))
      BY <1>7
    <3> QED BY <1>7, <3>1, TradeFields, BacktestAssumption DEF Booked, InOrder, LastExit
  <2>4. k = Len(trades) => trades[k].exitBar = LastExit
    BY DEF LastExit
  <2>5. LastExit < p.bar /\ p.bar \in Int
    BY <1>1, <2>2
  <2> QED BY <2>2, <2>3, <2>4, <2>5
<1>9. Booked(Append(trades, t), cumulativePnL + t.pnl, barsInMarket + t.holdingBars)
  BY <1>1, <1>4, <1>5, <1>6, <1>7, <1>8, TradeBooked
<1>10. trades' # Nil
  BY <1>2, <1>6, <1>7 DEF Nil
<1>11. Booked(trades', cumulativePnL', barsInMarket')
  BY <1>2, <1>5, <1>9
<1> QED BY <1>10, <1>11 DEF BooksInv, Booked, InOrder, Covered

\* Every step keeps the books.
LEMMA BooksStep == Inductive /\ BooksInv /\ [Next]_vars => BooksInv'
<1> SUFFICES ASSUME Inductive, BooksInv, [Next]_vars PROVE BooksInv'
  OBVIOUS
<1>1. CASE UNCHANGED books
  BY <1>1 DEF books, BooksInv, Booked, InOrder, Covered
<1>2. ASSUME NEW k \in DOMAIN position, NEW c \in Candles, Exit(position[k], c)
      PROVE  BooksInv'
  <2>1. position # Nil
    BY DEF Nil
  <2>2. position[1] \in Entry /\ DOMAIN position = {1}
    BY <2>1, AtMostOne DEF Inductive, TypeOK
  <2>3. position[k] = position[1]
    BY <2>2
  <2>4. ExitPrice(position[1], c) \in Int
    BY <2>2, ExitPriceType
  <2>5. UNCHANGED books \/ Record(position[1], ExitPrice(position[1], c))
    BY <1>2, <2>3 DEF Exit
  <2> QED BY <1>1, <2>1, <2>4, <2>5, RecordBooks
<1>3. ASSUME Finish PROVE BooksInv'
  <2>1. CASE position = Nil
    BY <1>1, <1>3, <2>1 DEF Finish
  <2>2. CASE position # Nil
    <3> DEFINE x == exitPriceForDir(lastClose, position[1].dir)
    <3>1. Record(position[1], x)
      BY <1>3, <2>2 DEF Finish
    <3>2. x \in Int
      <4>1. lastClose \in Int /\ Slip \in Int
        BY BacktestAssumption DEF Inductive, TypeOK
      <4>2. Directed(position[1].dir, Slip) \in Int
        BY <4>1, DirectedType
      <4> QED BY <4>1, <4>2 DEF exitPriceForDir
    <3> HIDE DEF x
    <3> QED BY <2>2, <3>1, <3>2, RecordBooks
  <2> QED BY <2>1, <2>2
<1>4. ASSUME NEW sig \in Signals, \/ Refuse(sig) \/ Pass(sig) \/ \E open \in Prices : Schedule(sig, open)
      PROVE  UNCHANGED books
  BY <1>4 DEF Refuse, Pass, Schedule
<1>5. Fill \/ NoExit \/ EndBar \/ UNCHANGED vars => UNCHANGED books
  BY DEF Fill, NoExit, EndBar, vars
<1> QED BY <1>1, <1>2, <1>3, <1>4, <1>5 DEF Next

\* The summary of a finished run says what happened in it, for every run.
THEOREM SummaryExact == Spec => []MetricsExact
<1>1. Spec => []BooksInv
  BY BooksInit, BooksStep, BacktestInductive, PTL DEF Spec
<1>2. Inductive /\ BooksInv => MetricsExact
  <2> SUFFICES ASSUME Inductive, BooksInv PROVE MetricsExact
    OBVIOUS
  <2>1. CASE trades = Nil
    <3>1. CalculateMetrics(trades, Bars, barsInMarket, totalFees).fees = 0
      BY <2>1 DEF CalculateMetrics, NoTrades, Nil, BooksInv
    <3>2. barsInMarket = 0
      <4>1. Covered(trades) = {}
        BY <2>1 DEF Covered, Nil
      <4> QED BY <4>1, FS_EmptySet DEF BooksInv, Booked
    <3> QED BY <2>1, <3>1, <3>2 DEF MetricsExact
  <2>2. CASE trades # Nil
    <3>1. trades \in Seq(Trade) /\ cumulativePnL \in Int /\ barsInMarket \in Nat
            /\ Booked(trades, cumulativePnL, barsInMarket)
      BY DEF Inductive, TypeOK, BooksInv
    <3> QED BY <2>2, <3>1, MetricsOfBooks DEF MetricsExact
  <2> QED BY <2>1, <2>2
<1> QED BY <1>1, <1>2, BacktestInductive, PTL
=============================================================================
