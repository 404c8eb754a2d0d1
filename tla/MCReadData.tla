----------------------------- MODULE MCReadData -----------------------------
EXTENDS ReadData

CONSTANTS MaxLength     \* the longest file

\* One inode; any length up to MaxLength, any blocks, one bad number included.
MCDisks ==
    {[i \in Inodes |-> [length |-> len, block |-> blk]] :
        len \in 0 .. MaxLength,
        blk \in [0 .. BlockCount(MaxLength) - 1 -> 0 .. num_blocks]}
=============================================================================
