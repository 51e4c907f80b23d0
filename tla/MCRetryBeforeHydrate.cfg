SPECIFICATION Spec
CONSTANTS
    Messages = {m1}
    MaxTaken = 1
INVARIANTS
    NoSecondUserMessage
