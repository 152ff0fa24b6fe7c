CONSTANTS
    Watches <- MCWatches
    MAX_JOBS = 3
    CADENCE = 1
    TTL = 3
    LEASE = 2
    MAX_RUNS = 3
    MAX_ACTIVE = 2
    DAY = 3
    DAILY_BUDGET = 1
    CAPACITY = 1
    MAX_AGE = 0
    PURGE = 1
    STALL = 2
    Horizon = 4
SPECIFICATION Spec
INVARIANTS
    EveryAttemptIsOneRun
    TruthOutlivesJob
    NoBurst
PROPERTY NoIdleWake
CHECK_DEADLOCK FALSE
CONSTRAINT Early
