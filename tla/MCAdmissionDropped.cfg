\* A replay that is told to wait, while the first request is still under way.
SPECIFICATION Spec
CONSTANTS
    a1 = a1
    a2 = a2
    a3 = a3
    None = None
    Attempts = {a1, a2}
    Capabilities = {"k1"}
    Clients = {"client"}
    CapabilityOf <- OneCapability
    CommitmentOf <- OneContradicts
    ClientOf <- OneClient
    ADMISSION_TIMEOUT = 1
    TTL = 4
    MAX_LEAD = 0
    MAX_AGE = 0
    MAX_RESERVATIONS = 2
    MAX_REFUSALS = 2
    EDGE_SKEW = 0
    NODE_SKEW = 0
    MAX_TIME = 1
    SECOND = 2
    MINUTE = 4
    DAY = 8
    PER_MINUTE = 9
    PER_DAY = 9
    GLOBAL_PER_MINUTE = 9
    GLOBAL_PER_DAY = 9
    AUTH_PER_MINUTE = 1
    AUTH_GLOBAL_PER_MINUTE = 1
    READS = {}
    READ_LIMIT = 1
    READ_GLOBAL_LIMIT = 1
    ATTEMPT_WINDOW = 1
    ATTEMPT_CLIENT_LIMIT = 1
    ATTEMPT_GLOBAL_LIMIT = 1
    CLEANUP_MAX_ROWS = 9
INVARIANTS
    DroppedOnlyWhenDefinitive
ACTION_CONSTRAINT Dropping
CHECK_DEADLOCK FALSE
