SPECIFICATION Spec
CONSTANTS
    CooldownBars = 2
    MaxTradesPerDay = 1
    GateLossLimit = 90
    Capital = 1000
    HoldingBars = 2
    MaxDailyLoss = 90
    MaxTotalLoss = 150
    LongThreshold = 60
    ShortThreshold = 40
    Slip = 1
    StopDistance = 3
    TrailDistance = 1
    FeeRate = 1
    Notional = 10
    Prices <- TwoPrices
    Signals <- AllSignals
    Outcomes = {"ok"}
    TradeOutcomes = {"ok"}
    MaxDay = 2
    MaxEntries = 2
    MaxCrashes = 1
INVARIANTS TypeOK OneOpenPosition ClosedIsRecorded TotalAgrees OrphansBounded DailyEntryBudget LossLimitStops
