SPECIFICATION Spec
CONSTANTS
    id1 = id1
    id2 = id2
    hello = hello
    other = other
    launch = launch
    Messages <- MCMessages
    ShellTexts = {launch}
    None = None
    Human = Human
    MaxKeys = 2
    MaxSends = 3
    MaxCrashes = 1
    MaxHuman = 1
    TuiMayLag = FALSE
INVARIANTS
    AcceptedIsRemembered
PROPERTIES
    KeepsPromise
CHECK_DEADLOCK FALSE
