SPECIFICATION SchedulerSpec
CONSTANTS
    Interval = 5
    StartupJitter = 2
    RunImmediately = TRUE
    MaxAttempts = 4
    InitialBackoff = 2
    MaxBackoff = 7
    MaxLag = 12
PROPERTY MeasuredAfterJob
