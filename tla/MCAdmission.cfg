\* Two replays, long enough for a slot to expire under its holder and for an
\* admission to lapse; Node's clock is off by one.
SPECIFICATION Spec
CONSTANTS
    a1 = a1
    a2 = a2
    a3 = a3
    None = None
    Attempts = {a1, a2}
    Capabilities = {"k1"}
    Clients = {"client"}
    CapabilityOf <- OneCapability
    CommitmentOf <- OneContradicts
    ClientOf <- OneClient
    ADMISSION_TIMEOUT = 1
    TTL = 3
    MAX_LEAD = 1
    MAX_AGE = 1
    MAX_RESERVATIONS = 2
    MAX_REFUSALS = 2
    EDGE_SKEW = 0
    NODE_SKEW = 1
    MAX_TIME = 3
    SECOND = 2
    MINUTE = 4
    DAY = 8
    PER_MINUTE = 9
    PER_DAY = 9
    GLOBAL_PER_MINUTE = 9
    GLOBAL_PER_DAY = 9
    AUTH_PER_MINUTE = 1
    AUTH_GLOBAL_PER_MINUTE = 1
    READS = {}
    READ_LIMIT = 1
    READ_GLOBAL_LIMIT = 1
    ATTEMPT_WINDOW = 1
    ATTEMPT_CLIENT_LIMIT = 1
    ATTEMPT_GLOBAL_LIMIT = 1
    CLEANUP_MAX_ROWS = 9
SYMMETRY Replays
INVARIANTS
    HolderKeepsSlot
    OneJobPerCapability
    CommittedReplayIsRecovered
PROPERTIES
    RefusedIsNotPreparedAgain
CONSTRAINT StartsAtOnce
CHECK_DEADLOCK FALSE
