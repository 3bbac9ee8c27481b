SPECIFICATION FairSpec
CONSTANTS
    MaxBar = 6
    History = 5
    Batch = 2
    Limit = 2
    GapBars = 1
    MaxCrashes = 1
INVARIANTS TypeOK WindowStored
PROPERTIES FinalStays KeepsUp
