\* Two holders behind one client, and room for one of everything.
SPECIFICATION Spec
CONSTANTS
    a1 = a1
    a2 = a2
    a3 = a3
    None = None
    Attempts = {a1, a2, a3}
    Capabilities = {"k1", "k2"}
    Clients = {"client"}
    CapabilityOf <- TwoCapabilities
    CommitmentOf <- Rivals
    ClientOf <- OneClient
    ADMISSION_TIMEOUT = 2
    TTL = 5
    MAX_LEAD = 0
    MAX_AGE = 0
    MAX_RESERVATIONS = 1
    MAX_REFUSALS = 1
    EDGE_SKEW = 0
    NODE_SKEW = 0
    MAX_TIME = 0
    SECOND = 1
    MINUTE = 2
    DAY = 4
    PER_MINUTE = 1
    PER_DAY = 9
    GLOBAL_PER_MINUTE = 9
    GLOBAL_PER_DAY = 9
    AUTH_PER_MINUTE = 1
    AUTH_GLOBAL_PER_MINUTE = 1
    READS = {}
    READ_LIMIT = 1
    READ_GLOBAL_LIMIT = 1
    ATTEMPT_WINDOW = 1
    ATTEMPT_CLIENT_LIMIT = 1
    ATTEMPT_GLOBAL_LIMIT = 1
    CLEANUP_MAX_ROWS = 9
INVARIANTS
    ChargedOncePerJob
PROPERTIES
    RefusalMeansNoJob
    KeepsThePromise
CHECK_DEADLOCK FALSE
