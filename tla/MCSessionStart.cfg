SPECIFICATION FairSpec
CONSTANTS
    Names = {"faryo1", "faryo2"}
    MaxThreads = 2
    Polled = {"faryo1"}
    MaxPanes = 2
    MaxVersion = 2
INVARIANT
    WatchedOnce
PROPERTIES
    NeverInstallsTwice
    EveryStartProceeds
CHECK_DEADLOCK FALSE
