SPECIFICATION Spec
CONSTANTS
    CooldownBars = 2
    MaxTradesPerDay = 4
    GateLossLimit = 30
    Bars = 13
    BarsPerDay = 4
    Capital = 100
    NaN = NaN
    HoldingBars = 3
    LongThreshold = 60
    ShortThreshold = 40
    Slip = 1
    StopDistance = 3
    FeeRate = 1
    Modes = {"both", "long", "short"}
    Prices <- TwoPrices
    Signals <- AllSignals
INVARIANTS TypeOK MetricsExact GateKeepsCount CooldownExact
PROPERTIES Implements
\* The backtest ends at its last candle.
CHECK_DEADLOCK FALSE
