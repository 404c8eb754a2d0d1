SPECIFICATION Spec
CONSTANTS
    MAX_PROCESSES = 3
    MAX_TERM_NUM = 2
    MAX_DESC = 2
    FileTypes = {"regf"}
    Hazards = {"boot_race", "early_exec", "background_exec", "shell_fault"}
INVARIANTS OwnPcb PcbBound ScreenOwner
CHECK_DEADLOCK FALSE
