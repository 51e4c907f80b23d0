SPECIFICATION FairSpec
CONSTANTS
    Messages = {m1, m2}
    MaxTaken = 0
INVARIANTS
    TypeOK
    OneSendAtATime
PROPERTIES
    KeepsPromise
    EverySendEnds
