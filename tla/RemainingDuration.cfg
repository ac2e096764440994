SPECIFICATION FairSpec
CONSTANTS
    o1 = o1
    o2 = o2
    f1 = f1
    f2 = f2
    ip = ip
    range = range
    Object = {o1}
    Feed = {f1}
    NoFeed = NoFeed
    Scope = {ip}
    Token = {t1, t2, t3}
    NoToken = NoToken
    MaxAlert = 4
    MaxClock = 7
    Duration = 2
    Window = 3
    SearchLimit = 5
    Remaining = TRUE
    MaxFault = 1
    Interference = FALSE
    Slack = 0
    RefreshBefore = 1
    BatchSize = 1
    Plans <- PlansToggle
    Settles = TRUE
    Prompt = TRUE
PROPERTY OpenOpsResolve
