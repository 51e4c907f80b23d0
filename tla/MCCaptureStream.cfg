SPECIFICATION FairCapture
CONSTANTS
    MaxEvents = 2
    MaxBytes = 3
    Sizes = {1, 2}
    MaxSequence = 12
    MaxEpoch = 1
    MaxText = 3
    MaxSeen = 1
    MaxLag = 3
    MaxFaults = 1
INVARIANTS
    BudgetKept
    ReplayIsExact
    FramesCoverTheirId
    FinalTextIsWhole
PROPERTIES
    ShownCatchesUp
CHECK_DEADLOCK FALSE
