---------------------------- MODULE FilesProofs -----------------------------
(***************************************************************************)
(* Theorems about Files and Syserr, for every size of the descriptor       *)
(* table, every directory and every count: the two notions of a free       *)
(* descriptor agree, and every descriptor delivers its file in order.      *)
(***************************************************************************)
EXTENDS Syserr, SequenceTheorems, TLAPS

\* The standard descriptors are never handed out nor closed.
StdKept ==
    /\ held \cap {0, 1} = {}
    /\ io_files[0].flags = IN_USE /\ io_files[0].file_ops = "stdin"
    /\ io_files[1].flags = IN_USE /\ io_files[1].file_ops = "stdout"

\* The inductive invariant.
IInv == TypeOK /\ StdKept /\ HandlesAgree /\ DeliversInOrder

-----------------------------------------------------------------------------
LEMMA DescFacts == Desc \subseteq Nat /\ 0 \in Desc /\ 1 \in Desc
BY FilesAssumption DEF Desc

LEMMA OpsNames == DOMAIN Ops = {"empty", "stdin", "stdout", "rtc", "dir", "regf"}
BY DEF Ops

LEMMA PositionsType ==
    ASSUME NEW first \in Nat, NEW n \in Nat
    PROVE  /\ Positions(first, n) \in Seq(Nat)
           /\ Len(Positions(first, n)) = n
           /\ \A k \in 1 .. n : Positions(first, n)[k] = first + k - 1
<1>1. Positions(first, n) \in [1 .. n -> Nat]
  BY DEF Positions
<1>2. Positions(first, n) \in Seq(Nat)
  BY <1>1, SeqDef
<1>3. Len(Positions(first, n)) = n
  BY <1>1, <1>2, LenProperties
<1> QED
  BY <1>2, <1>3 DEF Positions

\* nothing is delivered by a read that fails or finds the end
LEMMA PositionsNone ==
    ASSUME NEW first \in Nat, NEW n \in Int, n <= 0
    PROVE  Positions(first, n) = <<>>
<1>1. 1 .. n = {}
  OBVIOUS
<1> QED
  BY <1>1 DEF Positions

\* What a descriptor has delivered, and the next bytes, are again a start of the file.
LEMMA PositionsJoin ==
    ASSUME NEW pos \in Nat, NEW n \in Int
    PROVE  Positions(0, pos) \o Positions(pos, n) = Positions(0, Advanced(pos, n))
<1>1. CASE n <= 0
  <2>1. Positions(pos, n) = <<>>
    BY <1>1, PositionsNone
  <2>2. Positions(0, pos) \in Seq(Nat)
    BY PositionsType
  <2>3. Positions(0, pos) \o <<>> = Positions(0, pos)
    BY <2>2, ConcatEmptySeq
  <2> QED
    BY <1>1, <2>1, <2>3 DEF Advanced
<1>2. CASE n > 0
  <2> DEFINE s == Positions(0, pos)
             t == Positions(pos, n)
             r == Positions(0, pos + n)
  <2>a. s \in Seq(Nat) /\ Len(s) = pos /\ \A k \in 1 .. pos : s[k] = 0 + k - 1
    BY PositionsType
  <2>b. t \in Seq(Nat) /\ Len(t) = n /\ \A k \in 1 .. n : t[k] = pos + k - 1
    <3>1. n \in Nat
      BY <1>2
    <3> QED
      BY <3>1, PositionsType
  <2>c. r \in Seq(Nat) /\ Len(r) = pos + n /\ \A k \in 1 .. pos + n : r[k] = 0 + k - 1
    <3>1. pos + n \in Nat
      BY <1>2
    <3> QED
      BY <3>1, PositionsType
  <2> HIDE DEF s, t, r
  <2>1. /\ s \in Seq(Nat) /\ Len(s) = pos /\ \A k \in 1 .. pos : s[k] = k - 1
        /\ t \in Seq(Nat) /\ Len(t) = n /\ \A k \in 1 .. n : t[k] = pos + k - 1
        /\ r \in Seq(Nat) /\ Len(r) = pos + n /\ \A k \in 1 .. pos + n : r[k] = k - 1
    BY <2>a, <2>b, <2>c
  <2>2. /\ s \o t \in Seq(Nat) /\ Len(s \o t) = pos + n
        /\ \A k \in 1 .. pos + n : (s \o t)[k] = IF k <= pos THEN s[k] ELSE t[k - pos]
    BY <1>2, <2>1, ConcatProperties, ZenonT(60)
  <2>3. \A k \in 1 .. pos + n : (s \o t)[k] = r[k]
    <3> SUFFICES ASSUME NEW k \in 1 .. pos + n PROVE (s \o t)[k] = r[k]
      OBVIOUS
    <3>1. r[k] = k - 1
      BY <2>1
    <3>2. (s \o t)[k] = IF k <= pos THEN s[k] ELSE t[k - pos]
      BY <2>2
    <3>3. CASE k <= pos
      <4>1. k \in 1 .. pos
        BY <3>3
      <4>2. s[k] = k - 1
        BY <2>1, <4>1
      <4> QED
        BY <3>1, <3>2, <3>3, <4>2
    <3>4. CASE ~(k <= pos)
      <4> DEFINE j == k - pos
      <4>1. j \in 1 .. n /\ pos + j - 1 = k - 1
        BY <1>2, <3>4
      <4> HIDE DEF j
      <4>2. t[j] = pos + j - 1
        BY <2>1, <4>1
      <4>3. t[k - pos] = k - 1
        BY <4>1, <4>2 DEF j
      <4> QED
        BY <3>1, <3>2, <3>4, <4>3
    <3> QED
      BY <3>3, <3>4
  <2>4. s \o t = r
    BY <2>1, <2>2, <2>3, SeqEqual
  <2> QED
    BY <1>2, <2>4 DEF s, t, r, Advanced
<1> QED
  BY <1>1, <1>2

-----------------------------------------------------------------------------
LEMMA InitIInv == SyserrInit => IInv
<1> SUFFICES ASSUME Init PROVE IInv
  BY DEF SyserrInit
<1>1. TypeOK
  <2>1. io_files \in [Desc -> [flags : {NOT_USED, IN_USE}, file_ops : DOMAIN Ops,
                               inode : 1 .. Len(dentries), file_pos : Nat]]
    BY FilesAssumption, OpsNames, DescFacts DEF Init
  <2>2. got \in [Desc -> Seq(Nat)]
    BY EmptySeq DEF Init
  <2> QED
    BY <2>1, <2>2 DEF Init, TypeOK
<1>2. StdKept
  BY DescFacts DEF Init, StdKept, IN_USE
<1>3. HandlesAgree
  BY DescFacts DEF Init, HandlesAgree, IN_USE, NOT_USED
<1> QED
  BY <1>1, <1>2, <1>3 DEF IInv, DeliversInOrder, Init

\* sys_open fills a descriptor that was free and is not a standard one.
LEMMA OpenKeepsIInv ==
    ASSUME IInv, NEW name, sys_open(name)
    PROVE  IInv'
<1>1. CASE Fails
  BY <1>1 DEF Fails, IInv, TypeOK, StdKept, HandlesAgree, DeliversInOrder
<1>2. ASSUME NEW k \in Openable(name), NEW fd \in LowestUnused,
             io_files' = [io_files EXCEPT ![fd] = Opened(fd, k)],
             ret' = fd,
             got' = [got EXCEPT ![fd] = <<>>],
             held' = held \cup {fd}
      PROVE  IInv'
  <2>1. fd \in Desc /\ io_files[fd].flags = NOT_USED /\ fd \in Int
    BY <1>2, DescFacts DEF LowestUnused, Unused
  <2>2. fd # 0 /\ fd # 1
    BY <2>1 DEF IInv, StdKept, NOT_USED, IN_USE
  <2>3. k \in 1 .. Len(dentries) /\ dentries[k].file_type \in {0, 1, 2}
    <3>1. k \in read_dentry_by_name(name) /\ dentries[k].file_type < 3
      BY <1>2 DEF Openable
    <3>2. k \in 1 .. Len(dentries)
      BY <3>1 DEF read_dentry_by_name
    <3>3. dentries[k].file_type \in Nat
      BY <3>2, FilesAssumption DEF IsDentry
    <3> QED
      BY <3>1, <3>2, <3>3
  <2>4. JumpTable(k) \in {"rtc", "dir", "regf", "stdin", "stdout"}
    BY <2>3, FilesAssumption DEF JumpTable, tableaux, IsDentry
  <2>5. Opened(fd, k) \in [flags : {NOT_USED, IN_USE},
                           file_ops : {"rtc", "dir", "regf", "stdin", "stdout"},
                           inode : 1 .. Len(dentries), file_pos : {0}]
    BY <2>3, <2>4 DEF Opened
  <2>6. /\ Opened(fd, k).flags = IN_USE /\ Opened(fd, k).file_ops # "empty"
        /\ Opened(fd, k).file_pos = 0 /\ Opened(fd, k).inode = k
    BY <2>4 DEF Opened
  <2>7. TypeOK'
    <3>1. io_files' \in [Desc -> [flags : {NOT_USED, IN_USE}, file_ops : DOMAIN Ops,
                                  inode : 1 .. Len(dentries), file_pos : Nat]]
      BY <1>2, <2>1, <2>5, OpsNames DEF IInv, TypeOK
    <3>2. got' \in [Desc -> Seq(Nat)]
      BY <1>2, <2>1, EmptySeq DEF IInv, TypeOK
    <3> QED
      BY <1>2, <2>1, <3>1, <3>2 DEF IInv, TypeOK
  <2>8. StdKept'
    BY <1>2, <2>1, <2>2, DescFacts DEF IInv, TypeOK, StdKept
  <2>9. HandlesAgree'
    BY <1>2, <2>1, <2>6 DEF IInv, TypeOK, HandlesAgree
  <2>10. DeliversInOrder'
    <3>1. Positions(0, 0) = <<>>
      BY PositionsNone
    <3>2. dentries[k].good >= 0 /\ Len(dentries) >= 0
      BY <2>3, FilesAssumption DEF IsDentry
    <3>3. io_files'[fd] = Opened(fd, k) /\ got'[fd] = <<>>
      BY <1>2, <2>1 DEF IInv, TypeOK
    <3>4. \A g \in Desc \ {fd} : io_files'[g] = io_files[g] /\ got'[g] = got[g]
      BY <1>2 DEF IInv, TypeOK
    <3>5. held \subseteq Desc
      BY DEF IInv, TypeOK
    <3> QED
      BY <1>2, <2>6, <3>1, <3>2, <3>3, <3>4, <3>5 DEF IInv, DeliversInOrder
  <2> QED
    BY <2>7, <2>8, <2>9, <2>10 DEF IInv
<1> QED
  BY <1>1, <1>2 DEF sys_open, open_file_desc

\* A call that changes nothing but its answer.
LEMMA QuietKeepsIInv ==
    ASSUME IInv, UNCHANGED <<io_files, got, held>>, ret' \in Int
    PROVE  IInv'
BY DEF IInv, TypeOK, StdKept, HandlesAgree, DeliversInOrder

LEMMA FailsKeepsIInv == ASSUME IInv, Fails PROVE IInv'
BY QuietKeepsIInv DEF Fails

\* sys_close clears both marks of a descriptor the program holds.
LEMMA CloseKeepsIInv ==
    ASSUME IInv, NEW fd, sys_close(fd)
    PROVE  IInv'
<1>1. CASE Fails
  BY <1>1, FailsKeepsIInv
<1>2. ASSUME fd >= 2, Supports(fd, "close"), close_file_desc(fd), ret' = 0,
             held' = held \ {fd}, UNCHANGED got
      PROVE  IInv'
  <2>1. fd \in Desc /\ fd # 0 /\ fd # 1
    BY <1>2, DescFacts DEF Supports
  <2>2. io_files'[fd] = [io_files[fd] EXCEPT !.file_ops = "empty", !.flags = NOT_USED]
    BY <1>2, <2>1 DEF IInv, TypeOK, close_file_desc
  <2>3. \A g \in Desc \ {fd} : io_files'[g] = io_files[g]
    BY <1>2 DEF IInv, TypeOK, close_file_desc
  <2>4. io_files'[fd].file_ops = "empty" /\ io_files'[fd].flags = NOT_USED
    BY <2>1, <2>2 DEF IInv, TypeOK
  <2>5. TypeOK'
    <3>1. io_files' \in [Desc -> [flags : {NOT_USED, IN_USE}, file_ops : DOMAIN Ops,
                                  inode : 1 .. Len(dentries), file_pos : Nat]]
      <4> DEFINE R == [flags : {NOT_USED, IN_USE}, file_ops : DOMAIN Ops,
                       inode : 1 .. Len(dentries), file_pos : Nat]
      <4>1. io_files \in [Desc -> R]
        BY DEF IInv, TypeOK
      <4>2. [io_files[fd] EXCEPT !.file_ops = "empty", !.flags = NOT_USED] \in R
        BY <2>1, <4>1, OpsNames
      <4> HIDE DEF R
      <4>3. io_files' = [io_files EXCEPT ![fd] = io_files'[fd]]
        BY <1>2, <4>1 DEF close_file_desc
      <4>4. io_files' \in [Desc -> R]
        BY <2>2, <4>1, <4>2, <4>3
      <4> QED
        BY <4>4 DEF R
    <3> QED
      BY <1>2, <3>1 DEF IInv, TypeOK
  <2>6. StdKept'
    BY <1>2, <2>1, <2>3, DescFacts DEF IInv, StdKept
  <2>7. HandlesAgree'
    BY <1>2, <2>1, <2>3, <2>4 DEF IInv, HandlesAgree, NOT_USED, IN_USE
  <2>8. DeliversInOrder'
    <3>1. held \subseteq Desc
      BY DEF IInv, TypeOK
    <3> QED
      BY <1>2, <2>3, <3>1 DEF IInv, DeliversInOrder
  <2> QED
    BY <2>5, <2>6, <2>7, <2>8 DEF IInv
<1> QED
  BY <1>1, <1>2 DEF sys_close

\* A read that moves the position by what it delivers keeps the invariant, when
\* the position stays within the file, or the directory.
LEMMA AdvanceKeepsIInv ==
    ASSUME IInv, NEW fd \in Desc, fd # 0, fd # 1,
           NEW n \in Int, ret' \in Int,
           io_files' = [io_files EXCEPT ![fd].file_pos = Advanced(io_files[fd].file_pos, n)],
           got' = [got EXCEPT ![fd] = @ \o Positions(io_files[fd].file_pos, n)],
           UNCHANGED held,
           io_files[fd].file_ops = "regf" =>
               Advanced(io_files[fd].file_pos, n) <= dentries[io_files[fd].inode].good,
           io_files[fd].file_ops = "dir" =>
               Advanced(io_files[fd].file_pos, n) <= Len(dentries),
           io_files[fd].file_ops \in {"regf", "dir"}
    PROVE  IInv'
<1> DEFINE pos == io_files[fd].file_pos
           new == Advanced(pos, n)
<1>1. pos \in Nat /\ new \in Nat
  BY DEF IInv, TypeOK, Advanced
<1>2. fd \in held
  BY DEF IInv, HandlesAgree
<1>3. got[fd] = Positions(0, pos)
  BY <1>2 DEF IInv, DeliversInOrder
<1>4. got'[fd] = Positions(0, new)
  <2>1. got'[fd] = got[fd] \o Positions(pos, n)
    BY DEF IInv, TypeOK
  <2> QED
    BY <1>1, <1>3, <2>1, PositionsJoin
<1>5. /\ io_files'[fd] = [io_files[fd] EXCEPT !.file_pos = new]
      /\ \A g \in Desc \ {fd} : io_files'[g] = io_files[g] /\ got'[g] = got[g]
  BY DEF IInv, TypeOK
<1>6. /\ io_files'[fd].file_pos = new /\ io_files'[fd].flags = io_files[fd].flags
      /\ io_files'[fd].file_ops = io_files[fd].file_ops
      /\ io_files'[fd].inode = io_files[fd].inode
  BY <1>5 DEF IInv, TypeOK
<1>7. TypeOK'
  <2>1. io_files' \in [Desc -> [flags : {NOT_USED, IN_USE}, file_ops : DOMAIN Ops,
                                inode : 1 .. Len(dentries), file_pos : Nat]]
    BY <1>1 DEF IInv, TypeOK
  <2>2. got' \in [Desc -> Seq(Nat)]
    <3>1. Positions(0, new) \in Seq(Nat)
      BY <1>1, PositionsType
    <3>2. DOMAIN got' = Desc /\ got' = [g \in Desc |-> got'[g]]
      BY DEF IInv, TypeOK
    <3>3. \A g \in Desc : got'[g] \in Seq(Nat)
      BY <1>4, <1>5, <3>1 DEF IInv, TypeOK
    <3> QED
      BY <3>2, <3>3
  <2> QED
    BY <2>1, <2>2 DEF IInv, TypeOK
<1>8. StdKept'
  BY <1>5, DescFacts DEF IInv, StdKept
<1>9. HandlesAgree'
  BY <1>5, <1>6 DEF IInv, HandlesAgree
<1>10. DeliversInOrder'
  <2>1. held \subseteq Desc
    BY DEF IInv, TypeOK
  <2> HIDE DEF new
  <2>2. \A g \in held \ {fd} : io_files'[g] = io_files[g] /\ got'[g] = got[g]
    BY <1>5, <2>1
  <2>3. io_files'[fd].file_pos <= IF io_files'[fd].file_ops = "regf"
                                  THEN dentries[io_files'[fd].inode].good ELSE Len(dentries)
    BY <1>6 DEF new
  <2>4. SUFFICES ASSUME NEW g \in held', io_files'[g].file_ops \in {"regf", "dir"}
        PROVE  /\ io_files'[g].file_pos <= IF io_files'[g].file_ops = "regf"
                                           THEN dentries[io_files'[g].inode].good
                                           ELSE Len(dentries)
               /\ got'[g] = Positions(0, io_files'[g].file_pos)
    BY DEF DeliversInOrder
  <2>5. CASE g = fd
    BY <1>4, <1>6, <2>3, <2>5 DEF new
  <2>6. CASE g # fd
    <3>1. g \in held \ {fd}
      BY <2>4, <2>6
    <3> QED
      BY <2>2, <2>4, <3>1 DEF IInv, DeliversInOrder
  <2> QED
    BY <2>5, <2>6
<1> QED
  BY <1>7, <1>8, <1>9, <1>10 DEF IInv

LEMMA ReadFileKeepsIInv ==
    ASSUME IInv, NEW fd \in Desc, NEW nbytes \in Nat, io_files[fd].file_ops = "regf",
           fsys_read_file(fd, nbytes)
    PROVE  IInv'
<1> DEFINE pos == io_files[fd].file_pos
           d == dentries[io_files[fd].inode]
           n == read_data(d, pos, nbytes)
<1>1. fd # 0 /\ fd # 1
  BY DEF IInv, StdKept
<1>2. pos \in Nat /\ d.length \in Nat /\ d.good \in Nat /\ d.good <= d.length
  BY FilesAssumption DEF IInv, TypeOK, IsDentry
<1>3. pos <= d.good
  BY <1>1 DEF IInv, HandlesAgree, DeliversInOrder
<1>4. n \in Int /\ (n > 0 => pos + n <= d.good)
  BY <1>2, <1>3, SMTT(60) DEF read_data
<1> HIDE DEF n
<1>5. Advanced(pos, n) <= d.good
  BY <1>2, <1>3, <1>4 DEF Advanced
<1>6. /\ ret' = n
      /\ io_files' = [io_files EXCEPT ![fd].file_pos = Advanced(pos, n)]
      /\ got' = [got EXCEPT ![fd] = @ \o Positions(pos, n)]
      /\ UNCHANGED held
  BY DEF fsys_read_file, n
<1> QED
  BY <1>1, <1>4, <1>5, <1>6, AdvanceKeepsIInv

LEMMA ReadDirKeepsIInv ==
    ASSUME IInv, NEW fd \in Desc, NEW nbytes, io_files[fd].file_ops = "dir",
           fsys_read_dir(fd, nbytes)
    PROVE  IInv'
<1> DEFINE pos == io_files[fd].file_pos
<1>1. fd # 0 /\ fd # 1 /\ pos \in Nat
  BY DEF IInv, StdKept, TypeOK
<1>2. CASE ret' = 0 /\ UNCHANGED <<io_files, got, held>>
  BY <1>2, QuietKeepsIInv
<1>3. ASSUME pos < Len(dentries),
             ret' = dentries[pos + 1].len,
             io_files' = [io_files EXCEPT ![fd].file_pos = pos + 1],
             got' = [got EXCEPT ![fd] = @ \o Positions(pos, 1)],
             UNCHANGED held
      PROVE  IInv'
  <2>1. Advanced(pos, 1) = pos + 1
    BY DEF Advanced
  <2>2. pos + 1 \in 1 .. Len(dentries)
    BY <1>1, <1>3, FilesAssumption
  <2>3. ret' \in Int /\ pos + 1 <= Len(dentries)
    BY <1>3, <2>2, FilesAssumption DEF IsDentry
  <2>4. io_files' = [io_files EXCEPT ![fd].file_pos = Advanced(pos, 1)]
    BY <1>3, <2>1
  <2>5. Advanced(pos, 1) <= Len(dentries)
    BY <2>1, <2>3
  <2>6. 1 \in Int /\ io_files[fd].file_ops # "regf"
    OBVIOUS
  <2> QED
    BY <1>1, <1>3, <2>3, <2>4, <2>5, <2>6, AdvanceKeepsIInv
<1> QED
  BY <1>2, <1>3 DEF fsys_read_dir

LEMMA ReadKeepsIInv ==
    ASSUME IInv, NEW fd, NEW nbytes \in Int, sys_read(fd, nbytes)
    PROVE  IInv'
<1>1. CASE Fails
  BY <1>1, FailsKeepsIInv
<1>2. ASSUME nbytes >= 0, Supports(fd, "read"),
             CASE io_files[fd].file_ops = "regf" -> fsys_read_file(fd, nbytes)
               [] io_files[fd].file_ops = "dir" -> fsys_read_dir(fd, nbytes)
               [] OTHER -> DeviceRead(fd, nbytes)
      PROVE  IInv'
  <2>1. fd \in Desc /\ nbytes \in Nat
    BY <1>2 DEF Supports
  <2>2. CASE io_files[fd].file_ops = "regf"
    BY <1>2, <2>1, <2>2, ReadFileKeepsIInv
  <2>3. CASE io_files[fd].file_ops = "dir"
    BY <1>2, <2>1, <2>3, ReadDirKeepsIInv
  <2>4. CASE io_files[fd].file_ops \notin {"regf", "dir"}
    <3>1. DeviceRead(fd, nbytes)
      BY <1>2, <2>4
    <3>2. ret' \in Int /\ UNCHANGED <<io_files, got, held>>
      BY <3>1 DEF DeviceRead
    <3> QED
      BY <3>2, QuietKeepsIInv
  <2> QED
    BY <2>2, <2>3, <2>4
<1> QED
  BY <1>1, <1>2 DEF sys_read

LEMMA WriteKeepsIInv ==
    ASSUME IInv, NEW fd, NEW nbytes \in Int, sys_write(fd, nbytes)
    PROVE  IInv'
<1>1. CASE Fails
  BY <1>1, FailsKeepsIInv
<1>2. CASE DeviceWrite(fd, nbytes)
  BY <1>2, QuietKeepsIInv DEF DeviceWrite
<1> QED
  BY <1>1, <1>2 DEF sys_write

LEMMA VidmapKeepsIInv ==
    ASSUME IInv, NEW a, sys_vidmap(a)
    PROVE  IInv'
BY QuietKeepsIInv DEF sys_vidmap, VIDMAP_VIRT_ADDR, Fails

-----------------------------------------------------------------------------
LEMMA NextIInv == IInv /\ [SyserrNext]_allVars => IInv'
<1> SUFFICES ASSUME IInv, [SyserrNext]_allVars PROVE IInv'
  OBVIOUS
<1>1. CASE UNCHANGED vars
  BY <1>1 DEF vars, IInv, TypeOK, StdKept, HandlesAgree, DeliversInOrder
<1>2. CASE NextCall
  <2>1. PICK c : Perform(c)
    BY <1>2 DEF NextCall
  <2> QED
    BY <2>1, OpenKeepsIInv, CloseKeepsIInv, ReadKeepsIInv, WriteKeepsIInv, VidmapKeepsIInv,
       FailsKeepsIInv DEF Perform, BadNumber
<1>3. ASSUME NEW name, sys_open(name) PROVE IInv'
  BY <1>3, OpenKeepsIInv
<1>4. ASSUME NEW fd, sys_close(fd) PROVE IInv'
  BY <1>4, CloseKeepsIInv
<1>5. ASSUME NEW fd, NEW nbytes \in NBytes, sys_read(fd, nbytes) PROVE IInv'
  BY <1>5, FilesAssumption, ReadKeepsIInv
<1>6. ASSUME NEW fd, NEW nbytes \in NBytes, sys_write(fd, nbytes) PROVE IInv'
  BY <1>6, FilesAssumption, WriteKeepsIInv
<1>7. ASSUME NEW a, sys_vidmap(a) PROVE IInv'
  BY <1>7, VidmapKeepsIInv
<1>8. CASE Fails
  BY <1>8, FailsKeepsIInv
<1> QED
  BY <1>1, <1>2, <1>3, <1>4, <1>5, <1>6, <1>7, <1>8
  DEF SyserrNext, Select, Verdict, NoSignals, BadNumber, allVars, vars

\* The flags sys_open looks at, the jump tables the other calls go through and
\* the descriptors the program holds agree at all times, however many descriptors
\* a process has and whatever it calls.
THEOREM HandlesAlwaysAgree == SyserrSpec => []HandlesAgree
<1>1. IInv => HandlesAgree
  BY DEF IInv
<1> QED
  BY InitIInv, NextIInv, <1>1, PTL DEF SyserrSpec

\* Every open descriptor has delivered exactly the file, or the directory, up to
\* its position, for all lengths, bad blocks, counts and reuses of descriptors.
THEOREM EveryReadInOrder == SyserrSpec => []DeliversInOrder
<1>1. IInv => DeliversInOrder
  BY DEF IInv
<1> QED
  BY InitIInv, NextIInv, <1>1, PTL DEF SyserrSpec

\* No call on a descriptor the program does not hold succeeds or changes the table
\* (sys_close, sys_read and sys_write).
LEMMA StrangerStep ==
    ASSUME IInv, NEW fd \in -1 .. MAX_DESC, fd \notin held,
           \/ sys_close(fd)
           \/ \E n \in NBytes : fd # 0 /\ sys_read(fd, n)
           \/ \E n \in NBytes : fd # 1 /\ sys_write(fd, n)
    PROVE  ret' = -1 /\ UNCHANGED io_files
<1>1. fd \in Desc /\ fd >= 2 => ~Supports(fd, "close") /\ ~Supports(fd, "read")
                                 /\ ~Supports(fd, "write")
  <2>1. ASSUME fd \in Desc, fd >= 2 PROVE io_files[fd].file_ops = "empty"
    BY <2>1, DescFacts DEF IInv, HandlesAgree
  <2> QED
    BY <2>1 DEF Supports, Ops
<1>2. fd \notin Desc => ~Supports(fd, "close") /\ ~Supports(fd, "read")
                         /\ ~Supports(fd, "write")
  BY DEF Supports
<1>3. fd = 0 => ~Supports(fd, "write")
  BY DEF IInv, StdKept, Supports, Ops
<1>4. fd = 1 => ~Supports(fd, "read")
  BY DEF IInv, StdKept, Supports, Ops
<1>5. fd \in Int
  OBVIOUS
<1>6. CASE sys_close(fd)
  BY <1>1, <1>2, <1>5, <1>6 DEF sys_close, Fails
<1>7. ASSUME NEW n \in NBytes, fd # 0, sys_read(fd, n) PROVE ret' = -1 /\ UNCHANGED io_files
  <2>1. ~Supports(fd, "read")
    BY <1>1, <1>2, <1>4, <1>5, <1>7, DescFacts
  <2> QED
    BY <1>7, <2>1 DEF sys_read, Fails
<1>8. ASSUME NEW n \in NBytes, fd # 1, sys_write(fd, n) PROVE ret' = -1 /\ UNCHANGED io_files
  <2>1. ~Supports(fd, "write")
    BY <1>1, <1>2, <1>3, <1>5, <1>8, DescFacts
  <2> QED
    BY <1>8, <2>1 DEF sys_write, Fails
<1> QED
  BY <1>6, <1>7, <1>8

\* A call on a descriptor that was never given, was closed, or is a standard one
\* of the wrong direction fails and moves nobody's position.
THEOREM StrangersRefused == SyserrSpec => [][StrangersFail]_vars
<1>1. IInv /\ [SyserrNext]_allVars => [StrangersFail]_vars
  BY StrangerStep DEF StrangersFail
<1> QED
  BY InitIInv, NextIInv, <1>1, PTL DEF SyserrSpec
=============================================================================
