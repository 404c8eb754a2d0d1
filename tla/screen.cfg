SPECIFICATION Spec
CONSTANTS
    MAX_TERM_NUM = 2
    NUM_ROWS = 2
    NUM_COLS = 2
    MAX_LINE = 2
    Letters = {"a"}
    Texts <- MCTexts
    Message <- MCMessage
    Hazards = {}
INVARIANTS EchoFaithful OwnScreen CursorFollows
VIEW Live
