SPECIFICATION SchedulerSpec
CONSTANTS
    Interval = 5
    StartupJitter = 2
    RunImmediately = FALSE
    MaxAttempts = 4
    InitialBackoff = 2
    MaxBackoff = 7
    MaxLag = 12
INVARIANT Anchored
PROPERTIES NoReplay Stops Recurs
