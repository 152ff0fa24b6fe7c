\* Boundaries up to a tick beyond the second that a successor covers, one restart
\* or failed write, and one re-arm of a public handler under way.
SPECIFICATION Spec
CONSTANTS
    SECOND = 2
    PARK = 4
    MAX_BOUND = 3
    MAX_ROW_ID = 7
    MAX_TROUBLE = 1
    MAX_REARMS = 1
INVARIANTS
    WakeSurvives
