SPECIFICATION FairSpec
CONSTANTS
    o1 = o1
    o2 = o2
    f1 = f1
    f2 = f2
    ip = ip
    range = range
    Object = {o1}
    Feed = {f1, f2}
    NoFeed = NoFeed
    Scope = {ip}
    Token = {t1, t2, t3, t4, t5}
    NoToken = NoToken
    MaxAlert = 6
    MaxClock = 7
    Duration = 4
    Window = 4
    SearchLimit = 5
    Remaining = FALSE
    MaxFault = 1
    Interference = FALSE
    Slack = 0
    RefreshBefore = 2
    BatchSize = 1
    Plans <- PlansFixed
    Settles = TRUE
    Prompt = TRUE
INVARIANT RunEnforces
PROPERTIES NoGap OpenOpsResolve
