------------------------------ MODULE ReadData ------------------------------
(***************************************************************************)
(* read_data of file_system.c: the block-by-block copy of length bytes of  *)
(* a file, starting at offset, into a buffer.  The loop is a state         *)
(* machine, one step per block; the program state between two iterations   *)
(* is the state between two steps.  A byte of the disk is the pair of its  *)
(* data block and its place in that block.                                 *)
(***************************************************************************)
EXTENDS Integers

CONSTANTS
    BLK_SIZE_BYTES,     \* bytes in a data block
    num_inodes,         \* of the boot block
    num_blocks,         \* of the boot block
    Disks,              \* the inode tables considered
    Offsets, Lengths    \* the arguments of the calls considered

Inodes == 0 .. num_inodes - 1

\* The blocks an inode must list for a file of that length.
BlockCount(length) == (length + BLK_SIZE_BYTES - 1) \div BLK_SIZE_BYTES

\* An inode lists a number for every block of its file; the number may be bad.
IsInode(inode) ==
    /\ inode.length \in Nat
    /\ \A k \in 0 .. BlockCount(inode.length) - 1 : inode.block[k] \in Nat

ASSUME ReadDataAssumption ==
    /\ BLK_SIZE_BYTES \in Nat \ {0}
    /\ num_inodes \in Nat /\ num_blocks \in Nat
    /\ Offsets \subseteq Nat /\ Lengths \subseteq Nat
    /\ \A disk \in Disks : \A i \in Inodes : IsInode(disk[i])

VARIABLES
    disk,                                       \* the inode table
    pc,                                         \* "idle", "loop" or "done"
    inode, offset, length,                      \* the arguments
    start_offset, cur_block_num, remaining, done_so_far,
    buf,                                        \* what has been copied
    ret                                         \* the value returned

args == <<inode, offset, length>>
locals == <<start_offset, cur_block_num, remaining, done_so_far>>
vars == <<disk, pc, args, locals, buf, ret>>

file_length == disk[inode].length
BlockAt(k) == disk[inode].block[k]

-----------------------------------------------------------------------------
Init ==
    /\ disk \in Disks
    /\ pc = "idle"
    /\ inode = 0 /\ offset = 0 /\ length = 0
    /\ start_offset = 0 /\ cur_block_num = 0 /\ remaining = 0 /\ done_so_far = 0
    /\ buf = <<>>
    /\ ret = 0

\* Faulty: the request is not cut to the end of the file.
Truncated_Not(i, off, len) == len

\* "if(offset + remaining > file_length) remaining = file_length-offset"
Truncated(i, off, len) ==
    IF off + len > disk[i].length THEN disk[i].length - off ELSE len

\* the declarations: locals of a fresh call
Enter(i, off, len) ==
    /\ inode' = i /\ offset' = off /\ length' = len
    /\ start_offset' = off % BLK_SIZE_BYTES
    /\ cur_block_num' = off \div BLK_SIZE_BYTES
    /\ done_so_far' = 0
    /\ buf' = <<>>
    /\ UNCHANGED disk

\* the calls that return before the loop: bad inode, offset at or past the end
\* of the file, first block bad
CallRefused(i, off, len) ==
    /\ pc = "idle"
    /\ Enter(i, off, len)
    /\ \/ i >= num_inodes /\ ret' = -1 /\ remaining' = len
       \/ i < num_inodes /\ off >= disk[i].length /\ ret' = 0 /\ remaining' = len
       \/ /\ i < num_inodes /\ off < disk[i].length
          /\ disk[i].block[off \div BLK_SIZE_BYTES] >= num_blocks
          /\ ret' = -1
          /\ remaining' = Truncated(i, off, len)
    /\ pc' = "done"

\* the others truncate the request to the end of the file
CallAccepted(i, off, len) ==
    /\ pc = "idle"
    /\ i < num_inodes
    /\ off < disk[i].length
    /\ disk[i].block[off \div BLK_SIZE_BYTES] < num_blocks
    /\ Enter(i, off, len)
    /\ remaining' = Truncated(i, off, len)
    /\ pc' = "loop"
    /\ UNCHANGED ret

\* "special case when starting with really short file", which sets remaining too
ShortFile ==
    /\ done_so_far = 0
    /\ start_offset + remaining <= BLK_SIZE_BYTES
    /\ offset = 0 /\ length >= file_length

\* how much of the current block to copy
cur_to_do ==
    CASE done_so_far = 0 /\ start_offset + remaining > BLK_SIZE_BYTES ->
            BLK_SIZE_BYTES - start_offset
      [] ShortFile -> file_length
      [] done_so_far > 0 /\ remaining > BLK_SIZE_BYTES -> BLK_SIZE_BYTES
      [] OTHER -> remaining

\* Faulty: every block is read from its start.
Copied_FromStart(n) ==
    [k \in 1 .. done_so_far + n |->
        IF k <= done_so_far THEN buf[k]
        ELSE <<BlockAt(cur_block_num), (k - done_so_far) - 1>>]

\* memcpy(buf+done_so_far, cur_block+start_offset, n)
Copied(n) ==
    [k \in 1 .. done_so_far + n |->
        IF k <= done_so_far THEN buf[k]
        ELSE <<BlockAt(cur_block_num), start_offset + (k - done_so_far) - 1>>]

CopyBlock ==
    /\ pc = "loop"
    /\ remaining > 0
    /\ BlockAt(cur_block_num) < num_blocks
    /\ buf' = Copied(cur_to_do)
    /\ start_offset' = 0
    /\ done_so_far' = done_so_far + cur_to_do
    /\ remaining' = (IF ShortFile THEN file_length ELSE remaining) - cur_to_do
    /\ cur_block_num' = cur_block_num + 1
    /\ UNCHANGED <<disk, pc, args, ret>>

\* Faulty: the loop goes round a bad block for ever.
Leave_Spins ==
    /\ pc = "loop"
    /\ remaining = 0
    /\ pc' = "done"
    /\ ret' = done_so_far
    /\ UNCHANGED <<disk, args, locals, buf>>

\* the loop ends: all copied, or a bad block
Leave ==
    /\ pc = "loop"
    /\ remaining > 0 => BlockAt(cur_block_num) >= num_blocks
    /\ pc' = "done"
    /\ ret' = done_so_far
    /\ UNCHANGED <<disk, args, locals, buf>>

\* the caller makes another call
Again ==
    /\ pc = "done"
    /\ pc' = "idle"
    /\ inode' = 0 /\ offset' = 0 /\ length' = 0
    /\ start_offset' = 0 /\ cur_block_num' = 0 /\ remaining' = 0 /\ done_so_far' = 0
    /\ buf' = <<>> /\ ret' = 0
    /\ UNCHANGED disk

Next ==
    \/ \E i \in 0 .. num_inodes, off \in Offsets, len \in Lengths :
          CallRefused(i, off, len) \/ CallAccepted(i, off, len)
    \/ CopyBlock
    \/ Leave
    \/ Again

\* The kernel runs the loop; the next call is the user's business.
Spec == Init /\ [][Next]_vars /\ WF_vars(CopyBlock \/ Leave)

-----------------------------------------------------------------------------
(* Properties *)

\* The byte of the file at position pos.
FileByte(pos) == <<BlockAt(pos \div BLK_SIZE_BYTES), pos % BLK_SIZE_BYTES>>

\* How many bytes a call should deliver if all blocks it needs are good.
Wanted ==
    IF offset + length > file_length THEN file_length - offset ELSE length

\* The variables keep their types, and no copy crosses the end of a block.
TypeOK ==
    /\ disk \in Disks
    /\ pc \in {"idle", "loop", "done"}
    /\ inode \in 0 .. num_inodes /\ offset \in Nat /\ length \in Nat
    /\ start_offset \in 0 .. BLK_SIZE_BYTES - 1
    /\ cur_block_num \in Nat /\ remaining \in Nat /\ done_so_far \in Nat
    /\ ret \in Int
    /\ DOMAIN buf = 1 .. done_so_far

\* The buffer is never written past the length the caller gave, nor the file
\* read past its end, and no copy crosses the end of a block.
StaysInside ==
    pc = "loop" =>
        /\ done_so_far + remaining = Wanted
        /\ remaining > 0 => /\ cur_to_do <= remaining
                            /\ start_offset + cur_to_do <= BLK_SIZE_BYTES

\* A call that gets past the checks returns the number of bytes wanted, and less
\* only when it met a bad block, exactly at the boundary of that block.
ReturnsCount ==
    pc = "done" /\ inode < num_inodes /\ offset < file_length /\ ret >= 0 =>
        /\ ret = done_so_far
        /\ ret < Wanted =>
              /\ (offset + ret) % BLK_SIZE_BYTES = 0
              /\ BlockAt((offset + ret) \div BLK_SIZE_BYTES) >= num_blocks

\* What is in the buffer is the file, from offset on, byte for byte: no block
\* boundary duplicates, skips or misplaces a byte (read_data, 229-258).  And the
\* count returned says how much of it is there.
CopiesFile ==
    /\ pc \in {"loop", "done"}
         => \A k \in 1 .. done_so_far : buf[k] = FileByte(offset + k - 1)
    /\ ReturnsCount

\* Every call returns.
Terminates == (pc = "loop") ~> (pc = "done")

\* "Return Value: 0 on success, -1 on failure" (file_system.c 199).
ZeroOnSuccess == pc = "done" => ret \in {0, -1}
=============================================================================
