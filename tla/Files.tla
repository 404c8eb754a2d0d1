------------------------------- MODULE Files --------------------------------
(***************************************************************************)
(* The file descriptors of one process and the system calls on them:       *)
(* sys_open, sys_close, sys_read and sys_write of syscalls.c, the          *)
(* descriptor table of pcb.c and the regular-file and directory drivers of *)
(* file_system.c.  A byte of a file is its position, an entry of the       *)
(* directory its index; what read_data does is the subject of ReadData and *)
(* appears here as the number of bytes it delivers.                        *)
(***************************************************************************)
EXTENDS Integers, Sequences, FiniteSets

CONSTANTS
    MAX_DESC,       \* descriptors per process
    FILENAME_LEN,   \* bytes in the name of a directory entry
    dentries,       \* the boot block: a sequence of directory entries
    Names,          \* the names passed to sys_open
    NBytes          \* the counts passed to sys_read and sys_write

Desc == 0 .. MAX_DESC - 1

\* The name given, how long it is, the standard name it begins with, if any, its
\* type and, for a regular file, its length and the number of bytes before its
\* first bad block.
IsDentry(d) ==
    /\ d.len \in 1 .. FILENAME_LEN
    /\ d.std \in {"stdin", "stdout", "other"}
    /\ d.file_type \in Nat
    /\ d.length \in Nat /\ d.good \in 0 .. d.length

ASSUME FilesAssumption ==
    /\ MAX_DESC \in Nat /\ MAX_DESC >= 2
    /\ FILENAME_LEN \in Nat \ {0}
    /\ Len(dentries) \in Nat \ {0}
    /\ \A k \in 1 .. Len(dentries) : IsDentry(dentries[k])
    /\ NBytes \subseteq Int

VARIABLES
    io_files,       \* cur_pcb->io_files
    ret,            \* what the last call returned
    got,            \* history: what each descriptor has delivered since opened
    held            \* history: the descriptors the program holds

vars == <<io_files, ret, got, held>>

NOT_USED == "not_used"
IN_USE == "in_use"

\* The jump tables, as the set of operations that are not NULL.
Ops == [empty  |-> {},
        stdin  |-> {"read"},
        stdout |-> {"write"},
        rtc    |-> {"read", "write", "close"},
        dir    |-> {"read", "write", "close"},
        regf   |-> {"read", "write", "close"}]

tableaux == <<"rtc", "dir", "regf">>

PROGRAM_VIRT == 128 * 2^20
FOUR_MB == 4 * 2^20
VIDMAP_VIRT_ADDR == 136 * 2^20

sys_call_jmp_tab ==
    <<"halt", "execute", "read", "write", "open", "close", "getargs", "vidmap",
      "set_handler", "sigreturn">>

Supports(fd, op) == fd \in Desc /\ op \in Ops[io_files[fd].file_ops]

-----------------------------------------------------------------------------
\* init_pcb, then terminal_open
Init ==
    /\ io_files = [fd \in Desc |->
            [flags |-> IF fd < 2 THEN IN_USE ELSE NOT_USED,
             file_ops |-> CASE fd = 0 -> "stdin" [] fd = 1 -> "stdout" [] OTHER -> "empty",
             inode |-> 1, file_pos |-> 0]]
    /\ ret = 0
    /\ got = [fd \in Desc |-> <<>>]
    /\ held = {}

\* the index of the first entry with that name, if there is one; a name that is
\* longer than FILENAME_LEN matches nothing
read_dentry_by_name(name) ==
    {k \in 1 .. Len(dentries) :
        dentries[k].name = name /\ \A j \in 1 .. k - 1 : dentries[j].name # name}

\* Faulty: the flags are not looked at.
Unused_Any == Desc

Unused == {fd \in Desc : io_files[fd].flags = NOT_USED}
LowestUnused == {fd \in Unused : \A other \in Unused : fd <= other}

Fails == ret' = -1 /\ UNCHANGED <<io_files, got, held>>

\* a file whose name begins with stdin or stdout is the terminal, not the file,
\* and cannot be closed
JumpTable(k) ==
    IF dentries[k].std = "other" THEN tableaux[dentries[k].file_type + 1] ELSE dentries[k].std

\* Faulty: the position of the file before stays.
Opened_OldPos(fd, k) ==
    [flags |-> IN_USE, file_ops |-> JumpTable(k), inode |-> k,
     file_pos |-> io_files[fd].file_pos]

\* the inode of a terminal, 0 in the code, is never used
Opened(fd, k) ==
    [flags |-> IN_USE, file_ops |-> JumpTable(k), inode |-> k, file_pos |-> 0]

\* open_file_desc: fills the first unused descriptor
open_file_desc(k) ==
    \E fd \in LowestUnused :
        /\ io_files' = [io_files EXCEPT ![fd] = Opened(fd, k)]
        /\ ret' = fd
        /\ got' = [got EXCEPT ![fd] = <<>>]
        /\ held' = held \cup {fd}

\* the entry with that name, if it has one of the three file types
Openable(name) == {k \in read_dentry_by_name(name) : dentries[k].file_type < 3}

sys_open(name) ==
    \/ (Openable(name) = {} \/ Unused = {}) /\ Fails
    \/ \E k \in Openable(name) : open_file_desc(k)

\* Faulty: the flag stays.
close_file_desc_KeepFlags(fd) == io_files' = [io_files EXCEPT ![fd].file_ops = "empty"]

\* fsys_close_file, fsys_close_dir, rtc_close; the position stays
close_file_desc(fd) ==
    io_files' = [io_files EXCEPT ![fd].file_ops = "empty", ![fd].flags = NOT_USED]

sys_close(fd) ==
    \/ (fd < 2 \/ ~Supports(fd, "close")) /\ Fails
    \/ /\ fd >= 2 /\ Supports(fd, "close")
       /\ close_file_desc(fd)
       /\ ret' = 0
       /\ held' = held \ {fd}
       /\ UNCHANGED got

\* the number of bytes read_data delivers from position pos
read_data(dentry, pos, nbytes) ==
    CASE pos >= dentry.length -> 0
      [] pos < dentry.length /\ pos >= dentry.good -> -1
      [] pos < dentry.good -> IF nbytes < dentry.good - pos THEN nbytes ELSE dentry.good - pos

Positions(first, n) == [k \in 1 .. n |-> first + k - 1]

Advanced(pos, bytes_read) == IF bytes_read > 0 THEN pos + bytes_read ELSE pos

fsys_read_file(fd, nbytes) ==
    LET pos == io_files[fd].file_pos
        bytes_read == read_data(dentries[io_files[fd].inode], pos, nbytes)
    IN  /\ ret' = bytes_read
        /\ io_files' = [io_files EXCEPT ![fd].file_pos = Advanced(pos, bytes_read)]
        /\ got' = [got EXCEPT ![fd] = @ \o Positions(pos, bytes_read)]
        /\ UNCHANGED held

fsys_read_dir(fd, nbytes) ==
    LET pos == io_files[fd].file_pos
    IN  \/ /\ pos >= Len(dentries)
           /\ ret' = 0
           /\ UNCHANGED <<io_files, got, held>>
        \/ /\ pos < Len(dentries)
           /\ ret' = dentries[pos + 1].len
           /\ io_files' = [io_files EXCEPT ![fd].file_pos = pos + 1]
           /\ got' = [got EXCEPT ![fd] = @ \o Positions(pos, 1)]
           /\ UNCHANGED held

\* rtc_read returns 0, terminal_read the length of the line whatever nbytes is;
\* how the line comes about is the subject of LineInput.
DeviceRead(fd, nbytes) ==
    /\ ret' \in IF io_files[fd].file_ops = "rtc" THEN {0} ELSE 0 .. 2
    /\ UNCHANGED <<io_files, got, held>>

\* rtc_write fails on a rate that is not allowed, terminal_write never
DeviceWrite(fd, nbytes) ==
    /\ ret' \in IF io_files[fd].file_ops = "rtc" THEN {-1, nbytes} ELSE {nbytes}
    /\ UNCHANGED <<io_files, got, held>>

sys_read(fd, nbytes) ==
    \/ (nbytes < 0 \/ ~Supports(fd, "read")) /\ Fails
    \/ /\ nbytes >= 0 /\ Supports(fd, "read")
       /\ CASE io_files[fd].file_ops = "regf" -> fsys_read_file(fd, nbytes)
            [] io_files[fd].file_ops = "dir" -> fsys_read_dir(fd, nbytes)
            [] OTHER -> DeviceRead(fd, nbytes)

\* fsys_write_file, fsys_write_dir: the file system is read-only
ReadOnly(fd) == io_files[fd].file_ops \in {"regf", "dir"}

sys_write(fd, nbytes) ==
    \/ (nbytes < 0 \/ ~Supports(fd, "write")) /\ Fails
    \/ /\ nbytes >= 0 /\ Supports(fd, "write")
       /\ IF ReadOnly(fd) THEN Fails ELSE DeviceWrite(fd, nbytes)

\* Faulty: the lower end of the page is not looked at.
sys_vidmap_NoLower(screen_start) ==
    /\ ret' = IF screen_start <= PROGRAM_VIRT + FOUR_MB THEN VIDMAP_VIRT_ADDR ELSE -1
    /\ UNCHANGED <<io_files, got, held>>

\* The address given has to lie in the page of the program.  Its upper end passes
\* for an address in it; the four bytes stored there, and at the three addresses
\* below, reach out of the page, the fault ends the process and the call does not
\* return: no step.
sys_vidmap(screen_start) ==
    \/ screen_start \notin PROGRAM_VIRT .. PROGRAM_VIRT + FOUR_MB /\ Fails
    \/ /\ screen_start \in PROGRAM_VIRT .. PROGRAM_VIRT + FOUR_MB - 4
       /\ ret' = VIDMAP_VIRT_ADDR
       /\ UNCHANGED <<io_files, got, held>>

\* signals are not implemented: sys_set_handler and sys_sigreturn
NoSignals == Fails

\* _syscall: the first call has number 1
InTable(n) == n > 0 /\ n <= Len(sys_call_jmp_tab)

BadNumber(n) == ~InTable(n) /\ Fails

-----------------------------------------------------------------------------
(* Properties *)

\* The variables keep their types.
TypeOK ==
    /\ io_files \in [Desc -> [flags : {NOT_USED, IN_USE}, file_ops : DOMAIN Ops,
                              inode : 1 .. Len(dentries), file_pos : Nat]]
    /\ ret \in Int
    /\ got \in [Desc -> Seq(Nat)]
    /\ held \in SUBSET Desc

\* The two ways the kernel tells a free descriptor, the flags sys_open looks at
\* and the jump table the other calls go through, agree with each other and
\* with what the program was given and has not closed.
HandlesAgree ==
    \A fd \in Desc \ {0, 1} :
        /\ fd \in held <=> io_files[fd].flags = IN_USE
        /\ fd \in held <=> io_files[fd].file_ops # "empty"

\* Successive reads of a descriptor deliver the file, or the directory, from its
\* start, in order, nothing twice and nothing left out, also when the descriptor
\* was used for another file before, and never past the end or a bad block.
DeliversInOrder ==
    \A fd \in held :
        LET ops == io_files[fd].file_ops
            limit == IF ops = "regf" THEN dentries[io_files[fd].inode].good ELSE Len(dentries)
        IN  ops \in {"regf", "dir"} =>
              /\ io_files[fd].file_pos <= limit
              /\ got[fd] = Positions(0, io_files[fd].file_pos)

\* sys_open never hands out a descriptor the program already holds, and fails
\* with a free descriptor left only on a bad name (err_open_lots, ece391syserr.c).
OpenFresh ==
    \A name \in Names : sys_open(name) =>
        \/ ret' \in Desc \ (held \cup {0, 1})
        \/ /\ ret' = -1
           /\ \/ Cardinality(held) = MAX_DESC - 2
              \/ ~\E k \in 1 .. Len(dentries) :
                    dentries[k].name = name /\ dentries[k].file_type < 3

\* Calls on a descriptor the program does not hold fail and disturb nobody else's
\* position (err_unopened, err_stdin_out).
StrangersFail ==
    \/ ret' = -1 /\ UNCHANGED io_files
    \/ ~\E fd \in (-1 .. MAX_DESC) \ held :
          \/ sys_close(fd)
          \/ \E n \in NBytes : fd # 0 /\ sys_read(fd, n)
          \/ \E n \in NBytes : fd # 1 /\ sys_write(fd, n)

\* Every call, in any order, respects who holds which descriptor: sys_open gives
\* a new one while there is one, the others touch none that is not held.
CallsAnswered == [][OpenFresh /\ StrangersFail]_vars

\* "nbytes -- number of bytes to be copied" (fsys_read_dir, file_system.c 89).
ReadFits ==
    [][\A fd \in Desc, n \in NBytes : sys_read(fd, n) /\ fd \in held => ret' <= n \/ n < 0]_vars
=============================================================================
