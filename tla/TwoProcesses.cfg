SPECIFICATION SpecBoth
CONSTANTS
    o1 = o1
    f1 = f1
    ip = ip
    Object = {o1}
    Feed = {f1}
    NoFeed = NoFeed
    Scope = {ip}
    Token = {t1, t2}
    NoToken = NoToken
    MaxAlert = 2
    MaxClock = 1
    Duration = 2
    Window = 2
    SearchLimit = 2
    Remaining = FALSE
    MaxFault = 1
    Interference = FALSE
    Slack = 0
    RefreshBefore = 1
    BatchSize = 1
    Plans <- PlansToggle
    Settles = TRUE
    Prompt = FALSE
SYMMETRY TokenSymmetry
INVARIANT LedgerProven
