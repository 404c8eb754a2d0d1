------------------------------ MODULE MCFiles -------------------------------
EXTENDS Syserr

\* A directory with an entry of every type, regular files whose second or first
\* block is bad, one named after a standard descriptor, and one entry of a type the
\* kernel does not know.
MCDentries ==
    <<[name |-> ".", len |-> 1, std |-> "other", file_type |-> 1, length |-> 0, good |-> 0],
      [name |-> "text", len |-> 2, std |-> "other", file_type |-> 2, length |-> 2, good |-> 2],
      [name |-> "holed", len |-> 3, std |-> "other", file_type |-> 2, length |-> 3, good |-> 1],
      [name |-> "lost", len |-> 1, std |-> "other", file_type |-> 2, length |-> 2, good |-> 0],
      [name |-> "stdin.txt", len |-> 3, std |-> "stdin", file_type |-> 2, length |-> 1, good |-> 1],
      [name |-> "rtc", len |-> 2, std |-> "other", file_type |-> 0, length |-> 0, good |-> 0],
      [name |-> "odd", len |-> 2, std |-> "other", file_type |-> 3, length |-> 0, good |-> 0]>>

\* nothing asked, refused, and counts below, at and above what is there
MCNBytes == {-1, 0, 1, 3}

\* below, at both ends of and above the program's page
MCAddresses ==
    {0, PROGRAM_VIRT, PROGRAM_VIRT + FOUR_MB - 4, PROGRAM_VIRT + FOUR_MB,
     PROGRAM_VIRT + FOUR_MB + 1}
=============================================================================
