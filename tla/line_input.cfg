SPECIFICATION Spec
CONSTANTS
    MAX_TERM_NUM = 2
    KEY_BUF_SIZE = 4
    HIST_COM_NUM = 2
    Letters = {"a"}
    UnderOffset = 2
    OverOffset = 2
    ReadSizes = {2, 5}
VIEW Followed
CONSTRAINTS NotNested OneLeft
CHECK_DEADLOCK FALSE
INVARIANTS HistorySound
PROPERTIES StraysOverLongLines
