SPECIFICATION FairClientSpec
CONSTANTS
    Caller = {c1, c2}
    Nobody = Nobody
    AuthRefreshBefore = 1
    Lifetimes = {1, 2}
    Token = {t1, t2, t3}
    NoToken = NoToken
    MaxClock = 1
INVARIANTS AtMostOnce
PROPERTIES GoodTokenKept Returns
