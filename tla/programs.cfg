SPECIFICATION Spec
CONSTANTS
    Typed <- MCTyped
    Commands <- MCCommands
    CMD_BUF = 2
    Sizes <- MCSizes
    BUFSIZE = 3
    Directories <- MCDirectories
    Searches <- MCSearches
    CELLS = 6
    COLS = 2
    OFFSET = 2
    WAIT = 2
    EXTRA = 3
    Frames <- MCFrames
    MAX_COL = 5
    TOP = 10
    BITS = 8
INVARIANTS
    ArgumentArrives EmulationAgrees OutputExact FramesShown
    LibraryExact KeyMeaning
PROPERTIES ProgramsEnd
CHECK_DEADLOCK FALSE
