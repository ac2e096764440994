SPECIFICATION ServiceSpec
CONSTANTS
    MaxSyncAge = 1
    LAPIOutageGrace = 1
    FinalizationTimeout = 1
    Feed = {f}
    Row = {r1, r2}
    None = None
SYMMETRY Rows
PROPERTY OnlyInterrupted
