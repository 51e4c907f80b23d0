SPECIFICATION TuiSpec
CONSTANTS
    approval = approval
    model = model
    a1 = a1
    a2 = a2
    menu = menu
    fast = fast
    status = status
    exit = exit
    None = None
    Quotable = {approval}
    Priority <- LookOrder
    NumOptions = 2
    Actions = {"next", "choose", "cancel"}
    Answers = {a1, a2}
    Commands = {menu, fast, exit, status}
    Durable = {menu, fast, exit}
    Opens = {menu}
    Exits = {exit}
    Drifted = FALSE
    DuringTask = {menu}
    MaxMenus = 2
    MaxRequests = 2
    MaxFaults = 1
SYMMETRY Alike
INVARIANT CommandsRunOnce
PROPERTY ChoosesWhatWasClicked
CHECK_DEADLOCK FALSE
