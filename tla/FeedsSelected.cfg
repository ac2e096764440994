SPECIFICATION FeedSpec
CONSTANTS
    f1 = f1
    f2 = f2
    d1 = d1
    d2 = d2
    e1 = e1
    e2 = e2
    Feed = {f1, f2}
    NoFeed = NoFeed
    Definition = {d1, d2}
    NoDefinition = NoDefinition
    Entry = {e1, e2}
    Configs <- ConfigsMoved
    Documents <- DocumentsSmall
    MinEntries = 1
    MaxEntries = 3
    MaxGrowth = 200
    MaxShrink = 50
    MissingGraceRuns = 2
    MinUpdateInterval = 2
    InitialBackoff = 1
    MaxBackoff = 2
    RetryAfter = {0}
    Validating = TRUE
    Unsolicited = "never"
    Selective = TRUE
    MaxEdit = 1
    MaxFault = 0
INVARIANT ChangedIsDue
