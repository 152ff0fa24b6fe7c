CONSTANTS
    Jobs <- MCJobs
    TotalRuns <- MCRuns
    DEADLINE = 5
    PURGE = 15
    LEASE = 1
    PUBLICATION_TIMEOUT = 1
    SETTLEMENT = 1
    RECONCILIATION_TIMEOUT = 2
    MAX_ATTEMPTS = 2
    MAX_NONTERMINAL = 2
    MAX_ROWS = 3
    EXECUTION_CAPACITY = 2
    MAX_AGE = 0
    MAX_LEAD = 0
    Horizon = 16
    WALL = 2
    RESERVE = 1
    MAX_CORE = 2
    MAX_OPTIONAL = 1
    BACKOFF <- MCBackoff
    MAX_TROUBLE = 1
SPECIFICATION Spec
INVARIANTS
    OverdueIsSettled
    FreeSlotIsUsed
    NoBusyWake
CONSTRAINT InOrder
CHECK_DEADLOCK FALSE
