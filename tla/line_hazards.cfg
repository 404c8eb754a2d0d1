SPECIFICATION Spec
CONSTANTS
    MAX_TERM_NUM = 2
    KEY_BUF_SIZE = 3
    HIST_COM_NUM = 1
    Letters = {"a"}
    UnderOffset = 1
    OverOffset = 1
    ReadSizes = {1, 4}
VIEW Followed
CONSTRAINTS NestedWhileLeft
CHECK_DEADLOCK FALSE
INVARIANTS Terminated EditFaithful
PROPERTIES DeliversLine
