CONSTANTS
    Jobs <- MCJobs
    TotalRuns <- MCRuns
    DEADLINE = 8
    PURGE = 9
    LEASE = 2
    PUBLICATION_TIMEOUT = 1
    SETTLEMENT = 3
    RECONCILIATION_TIMEOUT = 1
    MAX_ATTEMPTS = 2
    MAX_NONTERMINAL = 1
    MAX_ROWS = 1
    EXECUTION_CAPACITY = 1
    MAX_AGE = 0
    MAX_LEAD = 0
    Horizon = 10
    MAX_CONCURRENT_SCANS = 2
    REQUEST_TIMEOUT = 1
    PUT_LAG = 1

SPECIFICATION Spec

INVARIANTS
    PublishedOnlyByCommitted
    SucceededIsReadable
    MissingStaysMissing
    OlderGivesWay
    CancelledStaysDown

CONSTRAINT AdmittedFirst

CHECK_DEADLOCK FALSE
