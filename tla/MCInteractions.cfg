SPECIFICATION FairSpec
CONSTANTS
    Requests = {r1, r2}
    Uncancellable = {r2}
    Direct = {d1}
    Pickers = {p1, p2}
    MaxAnswers = 1
    None = None
INVARIANTS
    OneRequestWaits
    SheetsAreLive
    ApprovedOnItsSheet
    RunsOnce
    RowsAreTrue
PROPERTIES
    FirstAnswerCounts
    EveryRowSettles
