SPECIFICATION Spec
CONSTANTS
    MaxBar = 4
    History = 5
    Batch = 2
    Limit = 2
    GapBars = 1
    MaxCrashes = 1
INVARIANTS ClosedBarsFinal
