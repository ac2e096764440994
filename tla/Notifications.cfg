SPECIFICATION NotificationsSpec
CONSTANTS
    Problem = {p, q}
    None = None
    FailureThreshold = 2
    Cooldown = 1
    MinimumSeverity = 1
    Enabled = {"first", "routine", "suspicious", "recovery", "stale", "startup"}
    MaxCount = 3
    MaxFaults = 1

INVARIANTS OneNotice
PROPERTIES CooldownKept RecoveryIsEarned PersistentIsTold
