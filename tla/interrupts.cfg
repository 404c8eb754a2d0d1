SPECIFICATION Spec
CONSTANTS
    MAX_TERM_NUM = 2
    MAX_FREQ = 4
    Rates = {0, 1, 2, 3, 4, 8}
    Lines = {0, 1, 8, 12}
    DEPTH = 2
INVARIANTS LinesFree EdgesKept
PROPERTIES ReadWaits RateAsAsked ReadersProgress
