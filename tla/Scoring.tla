-------------------------------- MODULE Scoring --------------------------------
(***************************************************************************)
(* The three score agents of internal/agent: from a candle and its feature *)
(* row to the signal the trade gate evaluates.                             *)
(*                                                                         *)
(* Abstractions.  A score is in hundredths of a point, rounded down where  *)
(* a slope is not whole.  RSI and ADX are in points, funding in tenths of  *)
(* a basis point, the change of open interest, the long/short ratio and    *)
(* the volatility in hundredths, liquidations in millions.  NaN stands for *)
(* the infinities too.  The logarithm of the volume's ratio to its mean is *)
(* an input, in hundredths of the points it is worth.                      *)
(***************************************************************************)
EXTENDS GateOps

CONSTANT NaN

ASSUME NaNAssumption == NaN \notin Int

Number == Int \cup {NaN}

Input == [price : Number, ema20 : Number, ema50 : Number, ema200 : Number, rsi : Number,
          atr : Number, adx : Number, logVolume : Number, funding : Number, oiDelta : Number,
          ls : Number, longLiq : Number, shortLiq : Number, volatility : Number]

valid(v) == v # NaN
Clamp(x, hi) == IF x > hi THEN hi ELSE IF x < 0 THEN 0 ELSE x
AtLeast(x, lo) == IF x < lo THEN lo ELSE x

-----------------------------------------------------------------------------
(***************************************************************************)
(* The technical agent.                                                    *)
(***************************************************************************)
calcTrend(price, e20, e50, e200) ==
    LET stacked == e20 > e50 /\ e50 > e200
        base == IF price > e20 THEN IF stacked THEN 3000 ELSE IF e20 > e50 THEN 2500 ELSE 2000
                ELSE IF price < e20 /\ stacked THEN 2000
                ELSE IF price > e50 THEN 1500
                ELSE IF price > e200 THEN 1000
                ELSE 0
    IN  IF ~(valid(e20) /\ valid(e50) /\ valid(e200)) THEN 0
        ELSE IF stacked THEN base + 500 ELSE base

\* It falls by eight points at 65, where the sweet spot ends.
calcMomentum(rsi) ==
    IF ~valid(rsi) THEN 0
    ELSE IF rsi < 0 THEN 0
    ELSE IF rsi < 30 THEN 500 + (rsi * 1000) \div 30
    ELSE IF rsi < 45 THEN 1500 + ((rsi - 30) * 700) \div 15
    ELSE IF rsi <= 65 THEN 2200 + (rsi - 45) * 40
    ELSE IF rsi <= 75 THEN 2200 - (rsi - 65) * 70
    ELSE AtLeast(1500 - (rsi - 75) * 60, 0)

calcVolume(logVolume) == IF valid(logVolume) THEN Clamp(logVolume, 2000) ELSE 0

\* ATR as a share of the price, compared without dividing.
calcVolatility(atr, price) ==
    IF ~valid(atr) \/ ~valid(price) THEN 0
    ELSE IF price <= 0 \/ atr <= 0 THEN 0
    ELSE IF 100 * atr < price THEN 300
    ELSE IF 100 * atr < 2 * price THEN 500
    ELSE IF 1000 * atr < 35 * price THEN 1000
    ELSE IF 100 * atr < 5 * price THEN 700
    ELSE 400

calcADXBonus(adx) ==
    IF ~valid(adx) THEN 0
    ELSE IF adx >= 35 THEN 1000 ELSE IF adx >= 25 THEN 700 ELSE IF adx >= 20 THEN 300 ELSE 0

TechnicalScore(in) ==
    IF ~valid(in.price) THEN 0
    ELSE Clamp(calcTrend(in.price, in.ema20, in.ema50, in.ema200) + calcMomentum(in.rsi)
                 + calcVolume(in.logVolume) + calcVolatility(in.atr, in.price)
                 + calcADXBonus(in.adx), 10000)

-----------------------------------------------------------------------------
(***************************************************************************)
(* The order-flow agent: what is missing scores in the middle.             *)
(***************************************************************************)
calcFundingScore(bps) ==
    IF ~valid(bps) THEN 1000
    ELSE IF bps <= 0 THEN AtLeast(1000 + bps * 30, 0)
    ELSE IF bps < 20 THEN 1000 + bps * 50
    ELSE IF bps < 50 THEN AtLeast(2000 - ((bps - 20) * 333) \div 10, 1000)
    ELSE AtLeast(1000 - (bps - 50) * 20, 0)

calcOIScore(oiDelta) == IF valid(oiDelta) THEN Clamp(1500 + oiDelta * 10, 2500) ELSE 1250

\* A ratio of zero is what a reader gets of a NULL: it counts as missing.
calcLSScore(ls) ==
    IF ~valid(ls) THEN 1000
    ELSE IF ls <= 0 THEN 1000
    ELSE IF ls < 100 THEN AtLeast(1200 - (100 - ls) * 20, 0)
    ELSE IF ls <= 130 THEN 1200 + (ls - 100) * 20
    ELSE IF ls <= 200 THEN AtLeast(1800 - ((ls - 130) * 80) \div 7, 1000)
    ELSE AtLeast(1000 - (ls - 200) * 8, 200)

calcLiqScore(long, short) ==
    IF ~valid(long) \/ ~valid(short) THEN 1250
    ELSE IF long + short <= 0 THEN 1250
    ELSE LET total == long + short
             norm  == IF total > 50 THEN 50 ELSE total
         IN  Clamp(1250 - ((short - long) * norm * 16) \div total + norm * 9, 2500)

OrderFlowScore(in) ==
    Clamp(calcFundingScore(in.funding) + calcOIScore(in.oiDelta) + calcLSScore(in.ls)
            + calcLiqScore(in.longLiq, in.shortLiq), 10000)

-----------------------------------------------------------------------------
(***************************************************************************)
(* The regime agent.                                                       *)
(***************************************************************************)
calcTrendScore(adx) ==
    IF ~valid(adx) THEN 2500
    ELSE IF adx < 20 THEN 0 ELSE IF adx >= 35 THEN 5000 ELSE ((adx - 20) * 5000) \div 15

\* pct is the ATR in hundredths of a per cent of the price.
VolFromPct(pct) ==
    IF pct < 50 THEN 500
    ELSE IF pct < 150 THEN 500 + (pct - 50) * 20
    ELSE IF pct < 300 THEN 2500 + ((pct - 150) * 40) \div 3
    ELSE IF pct < 500 THEN 4500 - (pct - 300) * 10
    ELSE 1500

calcVolFromATR(atr, price) ==
    IF ~valid(atr) \/ ~valid(price) THEN 2500
    ELSE IF price <= 0 \/ atr <= 0 THEN 2500
    ELSE VolFromPct((atr * 10000) \div price)

calcVolFromFeature(vol) ==
    IF ~valid(vol) THEN 2500
    ELSE IF vol <= 0 THEN 2500
    ELSE IF vol < 30 THEN 500
    ELSE IF vol < 100 THEN 500 + ((vol - 30) * 200) \div 7
    ELSE IF vol < 250 THEN 2500 + ((vol - 100) * 40) \div 3
    ELSE IF vol < 400 THEN 4500 - (vol - 250) * 10
    ELSE 2000

VolScore(in) == (calcVolFromATR(in.atr, in.price) + calcVolFromFeature(in.volatility)) \div 2

classifyRegime(adx, volScore) ==
    IF ~valid(adx) THEN "unknown"
    ELSE IF adx >= 25 THEN IF volScore >= 2500 THEN "trending_high_vol" ELSE "trending_low_vol"
    ELSE IF volScore >= 2500 THEN "ranging_high_vol" ELSE "ranging_low_vol"

NothingKnown(in) == ~valid(in.adx) /\ ~valid(in.atr) /\ ~valid(in.price) /\ ~valid(in.volatility)

RegimeScore(in) ==
    IF NothingKnown(in) THEN 5000 ELSE Clamp(calcTrendScore(in.adx) + VolScore(in), 10000)
Regime(in) == IF NothingKnown(in) THEN "unknown" ELSE classifyRegime(in.adx, VolScore(in))

-----------------------------------------------------------------------------
\* What the engines hand to the gate: every score is finite, whatever was missing.
SignalOf(in, mlPass) ==
    [tech |-> TechnicalScore(in) \div 100, flow |-> OrderFlowScore(in) \div 100,
     regimeScore |-> RegimeScore(in) \div 100, finite |-> TRUE,
     regime |-> Regime(in), mlPass |-> mlPass]
=============================================================================
