SPECIFICATION NotificationsSpec
CONSTANTS
    Problem = {p, q}
    None = None
    FailureThreshold = 2
    Cooldown = 2
    MinimumSeverity = 1
    Enabled = {"recovery"}
    MaxCount = 3
    MaxFaults = 0

INVARIANT RecoveryIsTold
