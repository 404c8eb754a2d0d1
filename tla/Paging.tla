-------------------------------- MODULE Paging --------------------------------
(***************************************************************************)
(* map_page and its callers (paging.c, syscalls.c, timer.c), and the TLB,  *)
(* which may keep a translation until flush_tlb.                           *)
(*                                                                         *)
(* The kernel uses five areas, each under a page directory entry of its    *)
(* own; an address is an area and a page in it.  No caller looks at        *)
(* map_page's result.  Every page is writable and no caller passes NULL.   *)
(* A tick between the steps of sys_halt is a hazard of Processes.          *)
(***************************************************************************)
EXTENDS Integers

CONSTANTS MAX_PROCESSES, MAX_TERM_NUM

ASSUME PagingAssumption == MAX_PROCESSES \in Nat \ {0} /\ MAX_TERM_NUM \in Nat \ {0}

Slots == 0 .. MAX_PROCESSES - 1
Areas == {"video", "kernel", "program", "vidmap", "tables"}
Index == 0 .. MAX_TERM_NUM
Addresses == Areas \X Index
VideoPages == {"video"} \X Index
ProgramPages == {"program"} \X Slots
Frames == Addresses \cup ProgramPages \cup {<<"junk", 0>>}

PROGRAM_VIRT == <<"program", 0>>
VIDMAP_VIRT_ADDR == <<"vidmap", 0>>
KERNEL_ADDR == <<"kernel", 0>>
PAGE_TABLE_STARTADDR == <<"tables", 0>>

\* what the kernel itself relies on
KernelAddresses == VideoPages \cup {KERNEL_ADDR, PAGE_TABLE_STARTADDR}

\* what a translation yields: a frame, and the US bit: 1 if user code may use it
None == [to |-> "none"]
Translation == [to : Frames, us : 0 .. 1] \cup {None}

VARIABLES
    page_directory,     \* per area: "absent", or a large page, or a table
    page_table,         \* per area: the table its entry would point to
    tlb,                \* the translations the CPU remembers
    mode,               \* "off": no paging yet; "boot": entry() before the first
                        \* process; "halt": sys_halt before its flush; "user":
                        \* any other time
    page,               \* the page of the process that runs
    screen              \* the video page asked for at VIDMAP_VIRT_ADDR

mem == <<page_directory, page_table>>
vars == <<mem, tlb, mode, page, screen>>

Absent == [kind |-> "absent"]
Entry == {Absent} \cup [kind : {"large"}, page : Translation]
                  \cup [kind : {"table"}, us : 0 .. 1]
Empty == [i \in Index |-> None]

Init ==
    /\ page_directory = [a \in Areas |-> Absent]
    \* memory is what the boot loader left there
    /\ page_table = [a \in Areas |-> [i \in Index |-> [to |-> <<"junk", 0>>, us |-> 1]]]
    /\ tlb = [v \in Addresses |-> None]
    /\ mode = "off"
    /\ page = <<"program", 0>> /\ screen = <<"video", 0>>

-----------------------------------------------------------------------------
\* Faulty: a table that is already there is started again.
map_page_Always(m, phys, virt, page_size, privileges, remap) ==
    LET a == virt[1]
        entry == [to |-> phys, us |-> privileges]
    IN  IF page_size = 1 THEN [m EXCEPT !.dir[a] = [kind |-> "large", page |-> entry]]
        ELSE [m EXCEPT !.dir[a] = [kind |-> "table", us |-> privileges],
                       !.tab[a] = [Empty EXCEPT ![virt[2]] = entry]]

\* the directory and the tables after map_page
map_page(m, phys, virt, page_size, privileges, remap) ==
    LET a == virt[1]
        i == virt[2]
        entry == [to |-> phys, us |-> privileges]
        fresh == m.dir[a].kind = "absent" \/ remap = 1
    IN  CASE fresh /\ page_size = 1 ->
               [m EXCEPT !.dir[a] = [kind |-> "large", page |-> entry]]
          [] fresh /\ page_size = 0 ->
               [m EXCEPT !.dir[a] = [kind |-> "table", us |-> privileges],
                         !.tab[a] = [Empty EXCEPT ![i] = entry]]
          [] ~fresh /\ page_size = 0 /\ m.dir[a].kind = "table" /\ m.tab[a][i] = None ->
               [m EXCEPT !.tab[a][i] = entry]
          [] OTHER -> m                                     \* returns -1

\* the page walk, as resolve_virt_addr does it; user code needs the US bit of
\* both entries
resolve_virt_addr(virt) ==
    LET d == page_directory[virt[1]]
        e == page_table[virt[1]][virt[2]]
    IN  CASE d.kind = "absent" -> None
          [] d.kind = "large" -> d.page
          [] OTHER -> IF e = None THEN None ELSE [e EXCEPT !.us = @ * d.us]

Memory == [dir |-> page_directory, tab |-> page_table]

SetMemory(m) == page_directory' = m.dir /\ page_table' = m.tab

\* Faulty: what the CPU remembers stays.
flush_tlb_Not == UNCHANGED tlb

flush_tlb == tlb' = [v \in Addresses |-> None]

-----------------------------------------------------------------------------
\* paging_init clears the directory and maps the kernel,
KernelMapped ==
    map_page([dir |-> [a \in Areas |-> Absent], tab |-> page_table],
             KERNEL_ADDR, KERNEL_ADDR, 1, 0, 0)

\* one after the other the video pages,
VideoMapped[i \in -1 .. MAX_TERM_NUM] ==
    IF i = -1 THEN KernelMapped
    ELSE map_page(VideoMapped[i - 1], <<"video", i>>, <<"video", i>>, 0, 0, 0)

\* the page for vidmap and the page tables, and switches paging on
paging_init ==
    LET vidmap == map_page(VideoMapped[MAX_TERM_NUM], <<"video", 0>>, VIDMAP_VIRT_ADDR,
                           0, 1, 0)
    IN  /\ mode = "off"
        /\ SetMemory(map_page(vidmap, PAGE_TABLE_STARTADDR, PAGE_TABLE_STARTADDR,
                              1, 0, 0))
        /\ flush_tlb
        /\ mode' = "boot"
        /\ UNCHANGED <<page, screen>>

MapProgram(m, frame) == map_page(m, frame, PROGRAM_VIRT, 1, 1, 1)

\* sys_execute, by entry(), by user code, by the timer, or at the end of a halt
Execute(frame) ==
    /\ mode \in {"boot", "user"}
    /\ SetMemory(MapProgram(Memory, frame))
    /\ flush_tlb
    /\ mode' = "user"
    /\ page' = frame
    /\ UNCHANGED screen

\* sys_halt maps the page of the parent, and flushes a few steps later
HaltMap(frame) ==
    /\ mode = "user"
    /\ SetMemory(MapProgram(Memory, frame))
    /\ mode' = "halt"
    /\ page' = frame
    /\ UNCHANGED <<tlb, screen>>

HaltFlush ==
    /\ mode = "halt"
    /\ flush_tlb
    /\ mode' = "user"
    /\ UNCHANGED <<mem, page, screen>>

\* switch_tasks to a terminal that has a task
switch_tasks(frame, vid_mem) ==
    /\ mode = "user"
    /\ SetMemory(map_page(MapProgram(Memory, frame), vid_mem, VIDMAP_VIRT_ADDR, 0, 1, 1))
    /\ flush_tlb
    /\ page' = frame
    /\ screen' = vid_mem
    /\ UNCHANGED mode

\* the CPU looks an address up, and may remember it
Lookup(virt) ==
    /\ mode # "off"
    /\ tlb[virt] = None
    /\ resolve_virt_addr(virt) # None
    /\ tlb' = [tlb EXCEPT ![virt] = resolve_virt_addr(virt)]
    /\ UNCHANGED <<mem, mode, page, screen>>

Next ==
    \/ paging_init
    \/ \E frame \in ProgramPages : Execute(frame) \/ HaltMap(frame)
    \/ HaltFlush
    \/ \E frame \in ProgramPages, vid_mem \in VideoPages : switch_tasks(frame, vid_mem)
    \/ \E virt \in Addresses : Lookup(virt)

Spec == Init /\ [][Next]_vars

-----------------------------------------------------------------------------
(* Properties *)

\* The variables keep their types.
TypeOK ==
    /\ tlb \in [Addresses -> Translation]
    /\ page_directory \in [Areas -> Entry]
    /\ page_table \in [Areas -> [Index -> Translation]]
    /\ mode \in {"off", "boot", "user", "halt"}
    /\ page \in ProgramPages /\ screen \in VideoPages

\* what an access to virt may reach, remembered or looked up
Reached(virt) == {resolve_virt_addr(virt), tlb[virt]} \ {None}

\* User code sees its own page at PROGRAM_VIRT, and at the vidmap address the
\* video page that was asked for last, whatever was mapped, remembered and
\* flushed before: no caller of map_page forgets flush_tlb, and no remap fails.
\* Nothing else is open to it: not the kernel, not the page tables, not the text
\* of the other terminals, not what was in memory before.
UserSees ==
    mode = "user" =>
        /\ Reached(PROGRAM_VIRT) = {[to |-> page, us |-> 1]}
        /\ Reached(VIDMAP_VIRT_ADDR) = {[to |-> screen, us |-> 1]}
        /\ \A virt \in Addresses : \A e \in Reached(virt) :
              e.us = 1 => e.to \in {page, screen}

\* The kernel, the video pages and the page tables, which map_page writes
\* through, stay mapped to themselves for the kernel alone.
KernelStays ==
    mode # "off" =>
        \A virt \in KernelAddresses : Reached(virt) = {[to |-> virt, us |-> 0]}
=============================================================================
