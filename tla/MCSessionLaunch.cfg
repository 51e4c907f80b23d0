SPECIFICATION Spec
CONSTANTS
    Threads = {t1, t2}
    Launches = {l1}
    Limits = {1, 2}
    MaxName = 2
    None = None
SYMMETRY Alike
INVARIANTS
    NamesAreSeparate
    OneSessionPerThread
    LaunchesOnce
PROPERTIES
    RunningLimitKept
    RestartKeepsThreads
CHECK_DEADLOCK FALSE
