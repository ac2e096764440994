SPECIFICATION PruneSpec
CONSTANTS
    Op = {o1, o2}
    Decision = {d1, d2}
    Alert = {a1}
    Object = {x1}
    Entry = {e1}
    None = None
    MaxRuns = 2
    MaxHistoryEntries = 1
SYMMETRY Ids
INVARIANTS References
PROPERTIES PlanAgrees PreservesCurrent HistoryBounded
