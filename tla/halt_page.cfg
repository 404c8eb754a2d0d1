SPECIFICATION Spec
CONSTANTS
    MAX_PROCESSES = 3
    MAX_TERM_NUM = 2
    MAX_DESC = 2
    FileTypes = {"regf"}
    Hazards = {"preempt_halt"}
PROPERTIES RemapsParent
CHECK_DEADLOCK FALSE
