\* A day of two minutes, a minute of two seconds, rolling minutes and attempts
\* over three ticks, and a sweep that deletes one row per call so that expired
\* rows pile up.
SPECIFICATION Spec
CONSTANTS
    c1 = c1
    c2 = c2
    Clients = {c1, c2}
    MAX_TIME = 8
    SECOND = 2
    MINUTE = 4
    DAY = 8
    PER_MINUTE = 1
    PER_DAY = 2
    GLOBAL_PER_MINUTE = 2
    GLOBAL_PER_DAY = 2
    AUTH_PER_MINUTE = 1
    AUTH_GLOBAL_PER_MINUTE = 2
    READS = {"scan-admission-recovery"}
    READ_LIMIT = 1
    READ_GLOBAL_LIMIT = 1
    ATTEMPT_WINDOW = 3
    ATTEMPT_CLIENT_LIMIT = 1
    ATTEMPT_GLOBAL_LIMIT = 2
    CLEANUP_MAX_ROWS = 1
SYMMETRY Symmetry
INVARIANTS
    CountersMatchGrants
    QuotaHolds
    TablesStayBounded
    RetryAfterSuffices
CONSTRAINT OneTable
