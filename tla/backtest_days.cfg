SPECIFICATION Spec
CONSTANTS
    CooldownBars = 2
    MaxTradesPerDay = 1
    GateLossLimit = 30
    Bars = 8
    BarsPerDay = 4
    Capital = 1000
    NaN = NaN
    HoldingBars = 2
    LongThreshold = 60
    ShortThreshold = 40
    Slip = 1
    StopDistance = 3
    FeeRate = 1
    Modes = {"both", "long"}
    Prices <- TwoPrices
    Signals <- LongSignals
INVARIANTS LimitIsDaily
\* The backtest ends at its last candle.
CHECK_DEADLOCK FALSE
