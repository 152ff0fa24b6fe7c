CONSTANTS
    Jobs <- MCJobs
    TotalRuns <- MCRuns
    DEADLINE = 4
    PURGE = 5
    LEASE = 2
    PUBLICATION_TIMEOUT = 1
    SETTLEMENT = 2
    RECONCILIATION_TIMEOUT = 1
    MAX_ATTEMPTS = 2
    MAX_NONTERMINAL = 1
    MAX_ROWS = 1
    EXECUTION_CAPACITY = 1
    MAX_AGE = 0
    MAX_LEAD = 0
    Horizon = 6
    MAX_CONCURRENT_SCANS = 1
    REQUEST_TIMEOUT = 1
    PUT_LAG = 0

SPECIFICATION FairSpec

INVARIANTS
    NoIdleSlot

PROPERTIES
    EveryJobEnds
    NoZombieVisit

CONSTRAINT AdmittedFirst

CHECK_DEADLOCK FALSE
