CONSTANTS
    Jobs <- MCJobs
    TotalRuns <- MCTotalRuns
    DEADLINE = 3
    PURGE = 4
    LEASE = 2
    PUBLICATION_TIMEOUT = 1
    SETTLEMENT = 1
    RECONCILIATION_TIMEOUT = 1
    MAX_ATTEMPTS = 2
    MAX_NONTERMINAL = 2
    MAX_ROWS = 2
    EXECUTION_CAPACITY = 1
    MAX_AGE = 0
    MAX_LEAD = 1
    Horizon = 5

SPECIFICATION StoreSpec
INVARIANTS
    CheckConstraints
    PublicationReserve
    MaintenanceNeverBlocked
    LimitsHold
    AttemptAccounting
PROPERTIES
    ProgressMonotone
    KeepsThePromise
    NoAcceptedWorkDropped

CONSTRAINT InOrder

CHECK_DEADLOCK FALSE
