SPECIFICATION SyserrSpec
CONSTANTS
    MAX_DESC = 4
    FILENAME_LEN = 3
    dentries <- MCDentries
    Names = {".", "text", "holed", "lost", "stdin.txt", "rtc", "odd", "missing"}
    NBytes <- MCNBytes
    Addresses <- MCAddresses
INVARIANTS HandlesAgree DeliversInOrder SyserrPasses
PROPERTIES CallsAnswered
CHECK_DEADLOCK FALSE
