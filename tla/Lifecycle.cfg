SPECIFICATION Spec
CONSTANTS
    o1 = o1
    o2 = o2
    f1 = f1
    f2 = f2
    ip = ip
    range = range
    Object = {o1, o2}
    Feed = {f1, f2}
    NoFeed = NoFeed
    Scope = {ip, range}
    Token = {t1, t2}
    NoToken = NoToken
    MaxAlert = 2
    MaxClock = 3
    Duration = 2
    Window = 2
    SearchLimit = 2
    Remaining = TRUE
    MaxFault = 1
    Interference = TRUE
    Slack = 0
    RefreshBefore = 1
    BatchSize = 2
    Plans <- PlansMixed
    Settles = FALSE
    Prompt = FALSE
SYMMETRY TokenSymmetry
INVARIANTS TypeOK LedgerComplete RunRevokes OneActive DeleteIsCovered
