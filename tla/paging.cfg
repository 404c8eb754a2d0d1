SPECIFICATION Spec
CONSTANTS
    MAX_PROCESSES = 2
    MAX_TERM_NUM = 2
INVARIANTS UserSees KernelStays
