SPECIFICATION ServiceSpec
CONSTANTS
    MaxSyncAge = 2
    LAPIOutageGrace = 1
    FinalizationTimeout = 1
    Feed = {f, g}
    Row = {r1, r2}
    None = None
INVARIANTS ClosedLast TrackerBacked GraceIsBounded NothingDropped
PROPERTIES ReconciledCounts Exits
