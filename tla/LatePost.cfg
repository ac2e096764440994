SPECIFICATION Spec
CONSTANTS
    o1 = o1
    o2 = o2
    f1 = f1
    f2 = f2
    ip = ip
    range = range
    Object = {o1}
    Feed = {f1}
    NoFeed = NoFeed
    Scope = {ip}
    Token = {t1, t2}
    NoToken = NoToken
    MaxAlert = 3
    MaxClock = 2
    Duration = 2
    Window = 2
    SearchLimit = 2
    Remaining = FALSE
    MaxFault = 1
    Interference = FALSE
    Slack = 0
    RefreshBefore = 1
    BatchSize = 1
    Plans <- PlansToggle
    Settles = FALSE
    Prompt = FALSE
INVARIANT LateIsKnown
