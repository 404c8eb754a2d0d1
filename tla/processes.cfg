SPECIFICATION Spec
CONSTANTS
    MAX_PROCESSES = 4
    MAX_TERM_NUM = 3
    MAX_DESC = 3
    FileTypes = {"regf"}
    Hazards = {}
INVARIANTS RunsAsItself ResumesOwnStack StatusTruthful
PROPERTIES EveryTerminalRuns HaltCompletes ImplementsJobs
