SPECIFICATION Spec
CONSTANTS
    TF = 2
    RatioPeriod = 1
    MaxBar = 5
    ChunkSize = 3
    WarmupBars = 1
    MaxMessages = 2
    MaxDelay = 1
    EmaPeriods <- MCEmaPeriods
    Period = 1
    ReturnPeriods <- MCReturnPeriods
    VolWindows <- MCVolWindows
    ZWindow = 2
    Horizons = {1}
INVARIANTS TypeOK ReadsOwnInterval LiquidationsCounted
CHECK_DEADLOCK FALSE
