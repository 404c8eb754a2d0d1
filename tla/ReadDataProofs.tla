---------------------------- MODULE ReadDataProofs ----------------------------
(***************************************************************************)
(* Theorems about ReadData, for any block size, any disk and any request:  *)
(* the loop of read_data copies the file byte for byte, and stays inside   *)
(* the file, the caller's buffer and the blocks.                           *)
(***************************************************************************)
EXTENDS ReadData, TLAPS

\* What holds between two rounds of the loop: what is done and what remains add up,
\* and while something remains the block and the place in it are those of the next
\* byte; the first block was checked, and every later one is copied from its start.
Copying ==
    pc = "loop" =>
        /\ inode \in Inodes /\ offset < file_length
        /\ done_so_far + remaining = Wanted
        /\ remaining > 0 =>
              /\ BLK_SIZE_BYTES * cur_block_num + start_offset = offset + done_so_far
              /\ IF done_so_far = 0 THEN BlockAt(cur_block_num) < num_blocks ELSE start_offset = 0

IInv == TypeOK /\ Copying /\ CopiesFile

-----------------------------------------------------------------------------
(* Division by the block size. *)

LEMMA Divide ==
    ASSUME NEW n \in Nat, NEW b \in Nat \ {0}
    PROVE  /\ n = (b * (n \div b)) + (n % b)
           /\ n % b \in 0 .. b - 1 /\ n \div b \in Nat
OBVIOUS

LEMMA Quotient ==
    ASSUME NEW q \in Nat, NEW b \in Nat \ {0}, NEW r \in 0 .. b - 1
    PROVE  (b * q + r) \div b = q /\ (b * q + r) % b = r
OBVIOUS

\* An inode lists a number for the block of every byte of its file.
LEMMA BlockListed ==
    ASSUME TypeOK, NEW i \in Inodes, NEW pos \in Nat, pos < disk[i].length
    PROVE  disk[i].length \in Nat /\ disk[i].block[pos \div BLK_SIZE_BYTES] \in Nat
<1> DEFINE b == BLK_SIZE_BYTES
           len == disk[i].length
           c == pos \div b
           q == BlockCount(len)
<1>1. b \in Nat \ {0} /\ IsInode(disk[i])
  BY ReadDataAssumption DEF TypeOK
<1>2. len \in Nat
  BY <1>1 DEF IsInode
<1>3. pos = (b * c) + (pos % b) /\ pos % b \in 0 .. b - 1 /\ c \in Nat
  BY <1>1, Divide
<1>4. len + b - 1 \in Nat
  BY <1>1, <1>2
<1>5. PICK r \in 0 .. b - 1 : len + b - 1 = (b * q) + r /\ q \in Nat
  BY <1>1, <1>4, Divide DEF BlockCount
<1> HIDE DEF b, len, c, q
<1>6. c <= q - 1
  <2> SUFFICES ASSUME c >= q PROVE FALSE
    BY <1>3, <1>5
  <2>1. b * c >= b * q
    BY <1>1, <1>3, <1>5
  <2>2. pos >= len
    BY <1>1, <1>2, <1>3, <1>5, <2>1
  <2>3. pos < len
    BY DEF len
  <2> QED
    BY <1>2, <2>2, <2>3
<1>7. c \in 0 .. q - 1
  BY <1>3, <1>5, <1>6
<1> QED
  BY <1>1, <1>2, <1>7 DEF IsInode, len, c, q, b

-----------------------------------------------------------------------------
(* One round of the loop. *)

LEMMA InLoop ==
    ASSUME TypeOK, Copying, pc = "loop"
    PROVE  /\ BLK_SIZE_BYTES \in Nat \ {0} /\ num_blocks \in Nat /\ file_length \in Nat
           /\ inode \in Inodes /\ offset < file_length /\ Wanted \in Nat
           /\ done_so_far + remaining = Wanted /\ Wanted <= length
           /\ offset + Wanted <= file_length
<1>1. inode \in Inodes /\ offset < file_length /\ done_so_far + remaining = Wanted
  BY DEF Copying
<1>2. file_length \in Nat
  BY <1>1, BlockListed DEF TypeOK, file_length
<1> QED
  BY <1>1, <1>2, ReadDataAssumption DEF TypeOK, Wanted

\* A round copies something, not more than remains, and all that remains unless it
\* gets to the end of the block.
LEMMA ToDo ==
    ASSUME TypeOK, Copying, pc = "loop", remaining > 0
    PROVE  /\ cur_to_do \in 1 .. remaining
           /\ start_offset + cur_to_do <= BLK_SIZE_BYTES
           /\ cur_to_do = remaining \/ start_offset + cur_to_do = BLK_SIZE_BYTES
           /\ ShortFile => remaining = file_length
<1>1. /\ BLK_SIZE_BYTES \in Nat \ {0} /\ file_length \in Nat /\ offset \in Nat /\ length \in Nat
      /\ start_offset \in 0 .. BLK_SIZE_BYTES - 1 /\ remaining \in Nat /\ done_so_far \in Nat
      /\ done_so_far + remaining = Wanted /\ offset < file_length
  BY InLoop DEF TypeOK
<1>2. done_so_far > 0 => start_offset = 0
  BY <1>1 DEF Copying
<1>3. ShortFile => remaining = file_length
  BY <1>1 DEF ShortFile, Wanted
<1>4. CASE ShortFile
  BY <1>1, <1>3, <1>4 DEF ShortFile, cur_to_do
<1>5. CASE ~ShortFile
  <2>1. CASE done_so_far = 0 /\ start_offset + remaining > BLK_SIZE_BYTES
    BY <1>1, <1>5, <2>1 DEF cur_to_do
  <2>2. CASE done_so_far > 0 /\ remaining > BLK_SIZE_BYTES
    BY <1>1, <1>2, <1>5, <2>2 DEF cur_to_do
  <2>3. CASE /\ ~(done_so_far = 0 /\ start_offset + remaining > BLK_SIZE_BYTES)
             /\ ~(done_so_far > 0 /\ remaining > BLK_SIZE_BYTES)
    BY <1>1, <1>2, <1>5, <2>3 DEF cur_to_do
  <2> QED
    BY <2>1, <2>2, <2>3
<1> QED
  BY <1>3, <1>4, <1>5

\* What the round copies are the next bytes of the file.
LEMMA CopiedRight ==
    ASSUME TypeOK, Copying, CopiesFile, pc = "loop", remaining > 0,
           NEW k \in 1 .. done_so_far + cur_to_do
    PROVE  Copied(cur_to_do)[k] = FileByte(offset + k - 1)
<1> DEFINE n == cur_to_do
<1>1. /\ BLK_SIZE_BYTES \in Nat \ {0} /\ offset \in Nat /\ done_so_far \in Nat
      /\ cur_block_num \in Nat /\ start_offset \in 0 .. BLK_SIZE_BYTES - 1
  BY InLoop DEF TypeOK
<1>2. n \in Nat /\ start_offset + n <= BLK_SIZE_BYTES
  BY ToDo DEF TypeOK
<1> HIDE DEF n
<1>3. k \in 1 .. done_so_far + n
  BY DEF n
<1>4. CASE k <= done_so_far
  <2>1. k \in 1 .. done_so_far
    BY <1>1, <1>2, <1>3, <1>4
  <2> QED
    BY <1>3, <1>4, <2>1 DEF Copied, CopiesFile, n
<1>5. CASE ~(k <= done_so_far)
  <2> DEFINE r == start_offset + (k - done_so_far) - 1
  <2>1. r \in 0 .. BLK_SIZE_BYTES - 1
    BY <1>1, <1>2, <1>3, <1>5
  <2>2. BLK_SIZE_BYTES * cur_block_num \in Nat
        /\ BLK_SIZE_BYTES * cur_block_num + start_offset = offset + done_so_far
    BY <1>1 DEF Copying
  <2>3. offset + k - 1 = BLK_SIZE_BYTES * cur_block_num + r
    BY <1>1, <1>3, <2>2
  <2>4. Copied(cur_to_do)[k] = <<BlockAt(cur_block_num), r>>
    BY <1>3, <1>5 DEF Copied, n
  <2> HIDE DEF r
  <2>5. /\ (BLK_SIZE_BYTES * cur_block_num + r) \div BLK_SIZE_BYTES = cur_block_num
        /\ (BLK_SIZE_BYTES * cur_block_num + r) % BLK_SIZE_BYTES = r
    BY <1>1, <2>1, Quotient
  <2> QED
    BY <2>3, <2>4, <2>5 DEF FileByte
<1> QED
  BY <1>4, <1>5

LEMMA CopyKeepsIInv == IInv /\ CopyBlock => IInv'
<1> SUFFICES ASSUME IInv, CopyBlock PROVE IInv'
  OBVIOUS
<1> DEFINE n == cur_to_do
<1>1. pc = "loop" /\ remaining > 0 /\ TypeOK /\ Copying /\ CopiesFile
  BY DEF IInv, CopyBlock
<1>2. /\ BLK_SIZE_BYTES \in Nat \ {0} /\ file_length \in Nat /\ offset \in Nat /\ length \in Nat
      /\ start_offset \in 0 .. BLK_SIZE_BYTES - 1 /\ remaining \in Nat /\ done_so_far \in Nat
      /\ cur_block_num \in Nat /\ done_so_far + remaining = Wanted /\ offset < file_length
      /\ inode \in Inodes
  BY <1>1, InLoop DEF TypeOK
<1>3. /\ n \in 1 .. remaining /\ start_offset + n <= BLK_SIZE_BYTES
      /\ n = remaining \/ start_offset + n = BLK_SIZE_BYTES
      /\ ShortFile => remaining = file_length
  BY <1>1, ToDo
<1>4. \A k \in 1 .. done_so_far + n : Copied(n)[k] = FileByte(offset + k - 1)
  BY <1>1, CopiedRight
<1>5. /\ buf' = Copied(n) /\ start_offset' = 0 /\ done_so_far' = done_so_far + n
      /\ remaining' = remaining - n /\ cur_block_num' = cur_block_num + 1
      /\ UNCHANGED <<disk, pc, inode, offset, length, ret>>
  BY <1>3 DEF CopyBlock, args
<1>6. DOMAIN Copied(n) = 1 .. done_so_far + n
  BY DEF Copied
<1> HIDE DEF n
<1>7. TypeOK'
  BY <1>1, <1>2, <1>3, <1>5, <1>6 DEF TypeOK
<1>8. Wanted' = Wanted /\ file_length' = file_length /\ \A k : BlockAt(k)' = BlockAt(k)
  BY <1>5 DEF Wanted, file_length, BlockAt
<1>9. Copying'
  <2>1. done_so_far' + remaining' = Wanted' /\ done_so_far' # 0
    BY <1>2, <1>3, <1>5, <1>8
  <2>2. ASSUME remaining' > 0
        PROVE  BLK_SIZE_BYTES * cur_block_num' + start_offset' = offset' + done_so_far'
    <3>1. start_offset + n = BLK_SIZE_BYTES
      BY <1>2, <1>3, <1>5, <2>2
    <3>2. BLK_SIZE_BYTES * cur_block_num + start_offset = offset + done_so_far
      BY <1>1 DEF Copying
    <3>3. BLK_SIZE_BYTES * (cur_block_num + 1) = (BLK_SIZE_BYTES * cur_block_num) + BLK_SIZE_BYTES
      BY <1>2
    <3>4. BLK_SIZE_BYTES * cur_block_num \in Nat
      BY <1>2
    <3> HIDE DEF n
    <3> QED
      BY <1>2, <1>3, <1>5, <3>1, <3>2, <3>3, <3>4
  <2> QED
    BY <1>2, <1>5, <1>8, <2>1, <2>2 DEF Copying
<1>10. CopiesFile'
  <2>1. \A k : FileByte(offset + k - 1)' = FileByte(offset + k - 1)
    BY <1>5 DEF FileByte, BlockAt
  <2>2. \A k \in 1 .. done_so_far' : buf'[k] = FileByte(offset + k - 1)'
    BY <1>4, <1>5, <2>1
  <2>3. pc' # "done"
    BY <1>1, <1>5
  <2> QED
    BY <2>2, <2>3 DEF CopiesFile, ReturnsCount
<1> QED
  BY <1>7, <1>9, <1>10 DEF IInv

-----------------------------------------------------------------------------
(* The calls, and the end of the loop. *)

LEMMA CallKeepsIInv ==
    ASSUME IInv, NEW i \in 0 .. num_inodes, NEW off \in Offsets, NEW len \in Lengths,
           CallRefused(i, off, len) \/ CallAccepted(i, off, len)
    PROVE  IInv'
<1>1. /\ BLK_SIZE_BYTES \in Nat \ {0} /\ off \in Nat /\ len \in Nat /\ num_inodes \in Nat
      /\ num_blocks \in Nat
  BY ReadDataAssumption
<1>2. TypeOK
  BY DEF IInv
<1>3. Enter(i, off, len)
  BY DEF CallRefused, CallAccepted
<1>4. /\ off = (BLK_SIZE_BYTES * (off \div BLK_SIZE_BYTES)) + (off % BLK_SIZE_BYTES)
      /\ off % BLK_SIZE_BYTES \in 0 .. BLK_SIZE_BYTES - 1 /\ off \div BLK_SIZE_BYTES \in Nat
  BY <1>1, Divide
<1>5. ASSUME i < num_inodes, off < disk[i].length
      PROVE  /\ i \in Inodes /\ disk[i].length \in Nat /\ Truncated(i, off, len) \in Nat
             /\ disk[i].block[off \div BLK_SIZE_BYTES] \in Nat
  <2>1. i \in Inodes
    BY <1>1, <1>5 DEF Inodes
  <2>2. disk[i].length \in Nat /\ disk[i].block[off \div BLK_SIZE_BYTES] \in Nat
    BY <1>1, <1>2, <1>5, <2>1, BlockListed
  <2> QED
    BY <1>1, <1>5, <2>1, <2>2 DEF Truncated
<1>6. remaining' \in Nat /\ ret' \in Int /\ pc' \in {"loop", "done"}
  <2>1. CASE CallRefused(i, off, len)
    BY <1>1, <1>5, <2>1 DEF CallRefused
  <2>2. CASE CallAccepted(i, off, len)
    BY <1>2, <1>5, <2>2 DEF CallAccepted, TypeOK
  <2> QED
    BY <2>1, <2>2
<1>7. DOMAIN buf' = 1 .. done_so_far' /\ done_so_far' = 0
  BY <1>3 DEF Enter
<1>8. TypeOK'
  BY <1>1, <1>2, <1>3, <1>4, <1>6, <1>7 DEF Enter, TypeOK
<1>9. Copying'
  <2> SUFFICES ASSUME pc' = "loop" PROVE Copying'
    BY DEF Copying
  <2>1. CallAccepted(i, off, len)
    BY DEF CallRefused
  <2>2. i < num_inodes /\ off < disk[i].length /\ remaining' = Truncated(i, off, len)
        /\ disk[i].block[off \div BLK_SIZE_BYTES] < num_blocks
    BY <2>1 DEF CallAccepted
  <2>3. /\ inode' = i /\ offset' = off /\ length' = len /\ disk' = disk
        /\ cur_block_num' = off \div BLK_SIZE_BYTES /\ start_offset' = off % BLK_SIZE_BYTES
    BY <1>3 DEF Enter
  <2>4. file_length' = disk[i].length /\ Wanted' = Truncated(i, off, len)
    BY <2>3 DEF file_length, Wanted, Truncated
  <2>5. BlockAt(cur_block_num)' = disk[i].block[off \div BLK_SIZE_BYTES]
    BY <2>3 DEF BlockAt
  <2>6. i \in Inodes /\ Truncated(i, off, len) \in Nat
    BY <1>5, <2>2
  <2> QED
    BY <1>1, <1>4, <1>7, <2>2, <2>3, <2>4, <2>5, <2>6 DEF Copying
<1>10. CopiesFile'
  <2>1. 1 .. done_so_far' = {}
    BY <1>7
  <2>2. ReturnsCount'
    <3> SUFFICES ASSUME (pc = "done" /\ inode < num_inodes /\ offset < file_length /\ ret >= 0)'
                 PROVE  FALSE
      BY DEF ReturnsCount
    <3>1. CallRefused(i, off, len) /\ i < num_inodes /\ off < disk[i].length
      BY <1>3 DEF CallAccepted, Enter, file_length
    <3>2. disk[i].length \in Nat
      BY <1>5, <3>1
    <3> QED
      BY <1>1, <3>1, <3>2 DEF CallRefused
  <2> QED
    BY <2>1, <2>2 DEF CopiesFile
<1> QED
  BY <1>8, <1>9, <1>10 DEF IInv

LEMMA LeaveKeepsIInv == IInv /\ Leave => IInv'
<1> SUFFICES ASSUME IInv, Leave PROVE IInv'
  OBVIOUS
<1>1. pc = "loop" /\ pc' = "done" /\ ret' = done_so_far
      /\ UNCHANGED <<disk, inode, offset, length, start_offset, cur_block_num, remaining,
                     done_so_far, buf>>
      /\ (remaining > 0 => BlockAt(cur_block_num) >= num_blocks)
  BY DEF Leave, args, locals
<1>2. TypeOK /\ Copying /\ CopiesFile
  BY DEF IInv
<1>3. TypeOK' /\ Copying'
  BY <1>1, <1>2 DEF TypeOK, Copying
<1>4. /\ BLK_SIZE_BYTES \in Nat \ {0} /\ num_blocks \in Nat /\ file_length \in Nat /\ inode \in Inodes
      /\ offset < file_length /\ done_so_far + remaining = Wanted
      /\ offset \in Nat /\ done_so_far \in Nat /\ remaining \in Nat /\ cur_block_num \in Nat
      /\ start_offset \in 0 .. BLK_SIZE_BYTES - 1
  BY <1>1, <1>2, InLoop DEF TypeOK
<1>5. ASSUME done_so_far < Wanted
      PROVE  /\ (offset + done_so_far) % BLK_SIZE_BYTES = 0
             /\ BlockAt((offset + done_so_far) \div BLK_SIZE_BYTES) >= num_blocks
  <2>1. remaining > 0
    BY <1>4, <1>5
  <2>2. /\ BLK_SIZE_BYTES * cur_block_num + start_offset = offset + done_so_far
        /\ IF done_so_far = 0 THEN BlockAt(cur_block_num) < num_blocks ELSE start_offset = 0
    BY <1>1, <1>2, <2>1 DEF Copying
  <2>3. (offset + done_so_far) \div BLK_SIZE_BYTES = cur_block_num
        /\ (offset + done_so_far) % BLK_SIZE_BYTES = start_offset
    <3>1. /\ (BLK_SIZE_BYTES * cur_block_num + start_offset) \div BLK_SIZE_BYTES = cur_block_num
          /\ (BLK_SIZE_BYTES * cur_block_num + start_offset) % BLK_SIZE_BYTES = start_offset
      BY <1>4, Quotient
    <3> QED
      BY <2>2, <3>1
  <2>4. done_so_far # 0
    <3> SUFFICES ASSUME done_so_far = 0 PROVE FALSE
      OBVIOUS
    <3>1. cur_block_num = offset \div BLK_SIZE_BYTES
      BY <1>4, <2>3
    <3>2. BlockAt(cur_block_num) \in Nat
      BY <1>2, <1>4, <3>1, BlockListed DEF BlockAt, file_length
    <3> QED
      BY <1>1, <1>4, <2>1, <2>2, <3>2
  <2> QED
    BY <1>1, <2>1, <2>2, <2>3, <2>4
<1>6. CopiesFile'
  <2>1. ReturnsCount'
    BY <1>1, <1>5 DEF ReturnsCount, Wanted, file_length, BlockAt
  <2>2. \A k \in 1 .. done_so_far : buf[k] = FileByte(offset + k - 1)
    BY <1>1, <1>2 DEF CopiesFile
  <2>3. \A k : FileByte(offset + k - 1)' = FileByte(offset + k - 1)
    BY <1>1 DEF FileByte, BlockAt
  <2> QED
    BY <1>1, <2>1, <2>2, <2>3 DEF CopiesFile
<1> QED
  BY <1>3, <1>6 DEF IInv

LEMMA InitIInv == Init => IInv
<1> SUFFICES ASSUME Init PROVE IInv
  OBVIOUS
<1>1. DOMAIN buf = 1 .. done_so_far
  BY DEF Init
<1> QED
  BY <1>1, ReadDataAssumption DEF Init, IInv, TypeOK, Copying, CopiesFile, ReturnsCount

LEMMA NextKeepsIInv == IInv /\ [Next]_vars => IInv'
<1> SUFFICES ASSUME IInv, [Next]_vars PROVE IInv'
  OBVIOUS
<1>1. CASE UNCHANGED vars
  <2>1. UNCHANGED <<disk, pc, inode, offset, length, start_offset, cur_block_num, remaining,
                    done_so_far, buf, ret>>
    BY <1>1 DEF vars, args, locals
  <2>2. \A k : FileByte(offset + k - 1)' = FileByte(offset + k - 1)
    BY <2>1 DEF FileByte, BlockAt
  <2> QED
    BY <2>1, <2>2 DEF IInv, TypeOK, Copying, CopiesFile, ReturnsCount, Wanted, file_length, BlockAt
<1>2. CASE Again
  <2>1. DOMAIN buf' = 1 .. done_so_far'
    BY <1>2 DEF Again
  <2> QED
    BY <1>2, <2>1, ReadDataAssumption
       DEF Again, IInv, TypeOK, Copying, CopiesFile, ReturnsCount
<1> QED
  BY <1>1, <1>2, CallKeepsIInv, CopyKeepsIInv, LeaveKeepsIInv DEF Next

-----------------------------------------------------------------------------
\* For any block size, any inode table and any request, what read_data has put in
\* the buffer is the file from offset on, byte for byte, and the count it returns
\* is the number of bytes wanted, or less only because the next block is bad.
THEOREM FileCopied == Spec => []CopiesFile
<1>1. IInv => CopiesFile
  BY DEF IInv
<1> QED
  BY InitIInv, NextKeepsIInv, <1>1, PTL DEF Spec

\* For the same, read_data never writes past the length the caller gave, reads past
\* the end of the file, or lets one memcpy cross the end of a block.
THEOREM CopyInside == Spec => []StaysInside
<1>1. IInv => StaysInside
  <2> SUFFICES ASSUME IInv, pc = "loop" PROVE StaysInside
    BY DEF StaysInside
  <2>1. done_so_far + remaining = Wanted
    BY InLoop DEF IInv
  <2>2. ASSUME remaining > 0
        PROVE  cur_to_do <= remaining /\ start_offset + cur_to_do <= BLK_SIZE_BYTES
    BY <2>2, ToDo DEF IInv, TypeOK
  <2> QED
    BY <2>1, <2>2 DEF StaysInside
<1> QED
  BY InitIInv, NextKeepsIInv, <1>1, PTL DEF Spec

=============================================================================
