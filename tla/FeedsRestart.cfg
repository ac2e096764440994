SPECIFICATION FeedSpec
CONSTANTS
    f1 = f1
    f2 = f2
    d1 = d1
    d2 = d2
    e1 = e1
    e2 = e2
    Feed = {f1}
    NoFeed = NoFeed
    Definition = {d1}
    NoDefinition = NoDefinition
    Entry = {e1, e2}
    Configs <- ConfigsSwitched
    Documents <- DocumentsSmall
    MinEntries = 1
    MaxEntries = 3
    MaxGrowth = 200
    MaxShrink = 50
    MissingGraceRuns = 2
    MinUpdateInterval = 2
    InitialBackoff = 1
    MaxBackoff = 2
    RetryAfter = {0}
    Validating = TRUE
    Unsolicited = "never"
    Selective = FALSE
    MaxEdit = 0
    MaxFault = 1
PROPERTY CadenceKept
