SPECIFICATION Spec
CONSTANTS
    v1 = v1
    v2 = v2
    v3 = v3
    None = None
    Versions <- MCVersions
    WorkerVersions <- MCWorkerVersions
    First = v1
    MaxCommands = 2
    MaxServiceOps = 1
    MaxFaults = 2
CHECK_DEADLOCK FALSE
INVARIANT FailedSwitchesRestore
INVARIANT OnlyCompleteVersionsRun
INVARIANT ServicesAgreeOnSessions
PROPERTY TurnsOutliveSwitches
