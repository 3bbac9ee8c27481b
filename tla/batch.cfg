SPECIFICATION Spec
CONSTANTS
    Jobs = {j1, j2}
    Studies = {s1}
    Binaries <- MCBinaries
    Outcomes = {"ok", "failed"}
    MaxBar = 5
    Initially <- MCInitially
    ChunkSize = 4
    WarmupBars = 2
    MinCandles = 2
    EmaPeriods <- MCEmaPeriods
    Period = 1
    ReturnPeriods <- MCReturnPeriods
    VolWindows <- MCVolWindows
    ZWindow = 2
    Horizons = {1, 2}
    Names <- MCNames
    StudyHorizons <- MCStudyHorizons
    MaxFaults = 1
    MaxBegun = 2
SYMMETRY Symmetry
INVARIANTS TypeOK SchemaReady RowsWarm EveryBarWritten LabelsLookAhead RowsTellEnd
PROPERTIES LabelsErasedByOverlap
CHECK_DEADLOCK FALSE
