SPECIFICATION FairSpec
CONSTANTS
    SECOND = 2
    PARK = 4
    MAX_BOUND = 2
    MAX_ROW_ID = 7
    MAX_TROUBLE = 1
    MAX_REARMS = 1
PROPERTIES
    TurnRecurs
    PumpFallsAsleep
