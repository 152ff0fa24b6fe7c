\* Two containers, room for one share, and one deletion for each pass.
SPECIFICATION Spec
CONSTANTS
    c1 = c1
    c2 = c2
    None = None
    Reports = {1, 2}
    Containers = {c1, c2}
    PUBLICATION_TIMEOUT = 1
    RECOVERY = 1
    SURVIVAL = 2
    AGE = 3
    PUT_LAG = 0
    MAX_COUNT = 1
    PUBLICATION_CAPACITY = 1
    LIST_MAX = 2
    GRACE = 1
    MAX_DELETES = 1
    MAX_TROUBLE = 2
    Horizon = 4
INVARIANTS
    AnswersHold
    HealthyMeansWhole
PROPERTIES
    RetentionCompletes
CONSTRAINT Spread
CHECK_DEADLOCK FALSE
