SPECIFICATION Spec
CONSTANTS
    MaxNames = 1
    MaxWorkers = 1
    MaxClients = 2
    Threads = {t1}
    None = None
    FailureLimit = 2
    MaxEffort = 2
INVARIANTS
    CloseReleasesWriter
CHECK_DEADLOCK FALSE
