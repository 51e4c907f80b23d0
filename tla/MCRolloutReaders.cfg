SPECIFICATION RolloutSpec
CONSTANTS
    PageTurns = 2
    CharBudget = 3
    TailScan = 7
    MaxCatchup = 5
    PageLimit = 2
    PageBudget = 3
    MaxWritten = 4
    MaxFaults = 2
INVARIANTS
    TailIsRight
    IndexesAreRight
PROPERTIES
    HistoryIsOneConversation
CHECK_DEADLOCK FALSE
