SPECIFICATION FairSpec
CONSTANTS
    MaxNames = 2
    MaxWorkers = 2
    MaxClients = 3
    Threads = {t1, t2}
    None = None
    FailureLimit = 2
    MaxEffort = 5
INVARIANTS
    SessionsAreDisjoint
    NobodyForgotten
    ReadyIsUsable
    ClosesFindRecoveries
PROPERTIES
    EverySessionRecovers
CHECK_DEADLOCK FALSE
