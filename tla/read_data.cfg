SPECIFICATION Spec
CONSTANTS
    BLK_SIZE_BYTES = 3
    num_inodes = 1
    num_blocks = 2
    MaxLength = 7
    Disks <- MCDisks
    Offsets = {0, 1, 2, 3, 4, 5, 6, 7, 8}
    Lengths = {0, 1, 2, 3, 4, 5, 6, 7, 8}
INVARIANTS CopiesFile StaysInside
PROPERTIES Terminates
