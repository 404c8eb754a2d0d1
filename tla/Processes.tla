----------------------------- MODULE Processes -----------------------------
(***************************************************************************)
(* Process management of the kernel: the PCB slots (pcb.c), sys_execute    *)
(* and sys_halt (syscalls.c), the exception handlers that end in sys_halt  *)
(* (idt_handle.c), the timer-driven round robin over the terminals         *)
(* (timer.c), the part of a terminal switch that the scheduler reads       *)
(* (multi_term.c), and the first instructions after boot (kernel.c).       *)
(*                                                                         *)
(* There is one CPU.  Code between cli() and sti(), and every interrupt or *)
(* exception handler, is one atomic step.  System calls enter through a    *)
(* trap gate and leave interrupts on, so sys_halt, which never calls       *)
(* cli(), is a sequence of steps between which the timer may fire.         *)
(*                                                                         *)
(* A PCB slot number also names the 4MB program page and the 8KB kernel    *)
(* stack that the kernel derives from it (PROGRAM_1_PHYS + n * FOUR_MB,    *)
(* END_OF_KERNEL_PAGE - n * PCB_PLUS_STACK).                               *)
(***************************************************************************)
EXTENDS Integers, FiniteSets

CONSTANTS
    MAX_PROCESSES,  \* number of PCB slots (types.h)
    MAX_TERM_NUM,   \* number of terminals (types.h)
    MAX_DESC,       \* file descriptors of a process (pcb.h)
    FileTypes,      \* the device types sys_open can meet
    Hazards         \* the timing and environment hazards that may strike

(***************************************************************************)
(* The conditions under which the code is known to be fragile.  A run that *)
(* leaves one out assumes that the situation does not occur; a run that    *)
(* puts one in lets the environment produce it.                            *)
(*   boot_race        no timer tick is pending when entry() calls sti()    *)
(*   early_exec       execute is called before the first tick that resumes *)
(*                    an existing task cleared starting_new_shell          *)
(*   background_exec  execute is called by a task of a hidden terminal     *)
(*   preempt_halt     the timer fires inside sys_halt                      *)
(*   shell_fault      a process without parent raises an exception         *)
(***************************************************************************)
HazardKinds ==
    {"boot_race", "early_exec", "background_exec", "preempt_halt", "shell_fault"}

ASSUME ProcessesAssumption ==
    /\ MAX_TERM_NUM \in Nat /\ MAX_TERM_NUM >= 2
    /\ MAX_PROCESSES \in Nat /\ MAX_TERM_NUM <= MAX_PROCESSES
    /\ MAX_PROCESSES < 32
    /\ MAX_DESC \in Nat /\ MAX_DESC >= 2
    /\ Hazards \subseteq HazardKinds
    /\ {"empty", "stdin", "stdout"} \cap FileTypes = {}

VARIABLES
    pcb_status,         \* the set of slots whose bit is set in the bitmap
    parent_task,        \* pcb_t.parent_task
    term_num,           \* pcb_t.term_num
    frame,              \* pcb_t.esp/ebp: the stack its sys_execute frame is on
    io_files,           \* pcb_t.io_files: the jump table of every descriptor
    cur_pcb,            \* the global cur_pcb
    cur_task,           \* terminals[].cur_task
    saved,              \* terminals[].esp/ebp: the context switched away from
                        \* (NoContext while the terminal runs: never read then)
    vid_mem,            \* terminals[].vid_mem, in 4KB pages above VIDEO_ADDR
    sched_term_id,      \* the terminal that owns the CPU
    vis_term_id,        \* the terminal on the screen
    starting_new_shell, \* the global flag
    except_raised,      \* the global flag
    prog_page,          \* the program page mapped at PROGRAM_VIRT
    vidmap,             \* the page mapped at VIDMAP_VIRT_ADDR
    esp0,               \* tss.esp0: the kernel stack of the next ring change
    ctx,                \* what the CPU is executing
    ret,                \* what sys_execute returned last: a status ("status"),
                        \* 256 ("exception") or -1 ("failure")
    cause,              \* history: how the child of that caller ended
    procs               \* history: processes launched and not yet gone

pcbVars == <<pcb_status, parent_task, term_num, frame, io_files>>
termVars == <<cur_task, saved, vid_mem, sched_term_id, vis_term_id>>
flagVars == <<starting_new_shell, except_raised>>
cpuVars == <<prog_page, vidmap, esp0, ctx, cur_pcb>>
histVars == <<ret, cause, procs>>
vars == <<pcbVars, termVars, flagVars, cpuVars, histVars>>

Slots == 0 .. MAX_PROCESSES - 1
Terms == 0 .. MAX_TERM_NUM - 1
Desc == 0 .. MAX_DESC - 1
NULL == -1
Ops == {"empty", "stdin", "stdout"} \cup FileTypes

(***************************************************************************)
(* Execution contexts.  "user" is user code, or kernel code that touches   *)
(* none of this state.  The pcs of HaltPc are the points of sys_halt at    *)
(* which it can be interrupted.  "boot" is entry() between sti() and       *)
(* sys_execute; "dead" is a kernel that faults in its own fault handler.   *)
(* off and tmp are the locals of sys_halt: the slot it frees and the       *)
(* bitmap it has loaded.                                                   *)
(***************************************************************************)
HaltPc == {"load", "store", "close", "task", "cur", "leave"}
Context == [stk : Slots, pc : {"boot", "user", "dead"} \cup HaltPc,
            off : Slots \cup {NULL}, tmp : SUBSET (0 .. 31)]
At(s, p) == [stk |-> s, pc |-> p, off |-> NULL, tmp |-> {}]
User(s) == At(s, "user")
Dead == At(0, "dead")
NoContext == At(0, "dead")

-----------------------------------------------------------------------------
(* pcb.c *)

\* off is the lowest clear bit of the bitmap
find_empty_pcb(status, off) ==
    /\ off \in 0 .. 31
    /\ off \notin status
    /\ \A i \in 0 .. off - 1 : i \in status

\* Faulty: the lowest bit is not counted.
our_popcount_Low(status) == Cardinality(status \ {0})

our_popcount(status) == Cardinality(status)

\* the descriptors of init_pcb, and what close_pcb leaves
NoFiles == [fd \in Desc |-> "empty"]

open_file_desc(fds, ops) ==
    LET free == {fd \in Desc : fds[fd] = "empty"}
    IN  [fd \in Desc |-> IF fd \in free /\ \A g \in free : fd <= g
                           THEN ops ELSE fds[fd]]

terminal_open(fds) == open_file_desc(open_file_desc(fds, "stdin"), "stdout")

-----------------------------------------------------------------------------
(* The state multi_term_init leaves; the boot stack ends where the kernel  *)
(* stack of slot 0 does.                                                   *)
Init ==
    /\ pcb_status = {}
    /\ parent_task = [p \in Slots |-> NULL]
    /\ term_num = [p \in Slots |-> 0]
    /\ frame = [p \in Slots |-> NULL]
    /\ io_files = [p \in Slots |-> NoFiles]
    /\ cur_pcb = NULL
    /\ cur_task = [t \in Terms |-> NULL]
    /\ saved = [t \in Terms |-> NoContext]
    /\ vid_mem = [t \in Terms |-> IF t = 0 THEN 0 ELSE t + 1]
    /\ sched_term_id = 0
    /\ vis_term_id = 0
    /\ starting_new_shell = FALSE
    /\ except_raised = FALSE
    /\ prog_page = 0
    /\ vidmap = 0
    /\ esp0 = 0
    /\ ctx = At(0, "boot")
    /\ ret = "none"
    /\ cause = "none"
    /\ procs = {}

-----------------------------------------------------------------------------
(* sys_execute.  The arguments are the bitmap, the descriptors and the     *)
(* live processes it starts from, which differ from the variables when     *)
(* sys_halt has already changed them in the same step.                     *)

\* terminals[t].cur_task = cur_pcb
SetTask(t, new) == cur_task' = [cur_task EXCEPT ![t] = new]

\* Faulty: the kernel stack of the process before stays.
EnterProgram_NoTss(new) ==
    prog_page' = new /\ UNCHANGED esp0 /\ ctx' = User(new)

\* the program's page, the TSS and the iret
EnterProgram(new) ==
    prog_page' = new /\ esp0' = new /\ ctx' = User(new)

\* from init_pcb to the iret into the new program, on terminal t
Launch(status, files, live, new, parent, t) ==
    /\ pcb_status' = status \cup {new}
    /\ parent_task' = [parent_task EXCEPT ![new] = parent]
    /\ term_num' = [term_num EXCEPT ![new] = t]
    /\ io_files' = [files EXCEPT ![new] = terminal_open(NoFiles)]
    /\ SetTask(t, new)
    /\ cur_pcb' = new
    /\ EnterProgram(new)
    /\ procs' = live \cup {new}

\* sys_execute("shell") with starting_new_shell set.  When the table is full
\* it returns at once, and the caller goes on in context back without a PCB.
StartShell(status, files, live, t, back) ==
    /\ starting_new_shell' = TRUE
    /\ \/ /\ our_popcount(status) = MAX_PROCESSES
          /\ pcb_status' = status
          /\ io_files' = files
          /\ cur_task' = [cur_task EXCEPT ![t] = NULL]
          /\ cur_pcb' = NULL
          /\ ctx' = back
          /\ procs' = live
          /\ UNCHANGED <<parent_task, term_num, prog_page, esp0>>
       \/ /\ our_popcount(status) # MAX_PROCESSES
          /\ \E new \in 0 .. 31 :
                /\ find_empty_pcb(status, new)
                /\ Launch(status, files, live, new, NULL, t)
    /\ UNCHANGED frame

\* the environment's part in an execute call by user code
MayExecute ==
    /\ ctx.pc = "user"
    /\ "background_exec" \in Hazards \/ vis_term_id = sched_term_id
    /\ "early_exec" \in Hazards \/ ~starting_new_shell

\* no slot left (the call returns 0) or no file of that name (-1)
ExecuteRefused ==
    /\ MayExecute
    /\ ret' = IF our_popcount(pcb_status) = MAX_PROCESSES THEN "status" ELSE "failure"
    /\ cause' = "refused"
    /\ UNCHANGED <<pcbVars, termVars, flagVars, cpuVars, procs>>

\* the file exists but is not an ELF image: init_pcb has already run
ExecuteNotElf ==
    /\ MayExecute
    /\ our_popcount(pcb_status) # MAX_PROCESSES
    /\ \E new \in 0 .. 31 :
          /\ find_empty_pcb(pcb_status, new)
          /\ pcb_status' = pcb_status \cup {new}
          /\ io_files' = [io_files EXCEPT ![new] = NoFiles]
    /\ ret' = "failure" /\ cause' = "refused"
    /\ UNCHANGED <<parent_task, term_num, frame, termVars, flagVars, cpuVars, procs>>

\* a program is launched under the task of the VISIBLE terminal; the frame
\* of this call, on stack esp0, is stored in that task's PCB
ExecuteChild ==
    /\ MayExecute
    /\ ~starting_new_shell
    /\ our_popcount(pcb_status) # MAX_PROCESSES
    /\ cur_task[vis_term_id] # NULL
    /\ \E new \in 0 .. 31 :
          /\ find_empty_pcb(pcb_status, new)
          /\ Launch(pcb_status, io_files, procs, new, cur_task[vis_term_id], vis_term_id)
    /\ frame' = [frame EXCEPT ![cur_task[vis_term_id]] = esp0]
    /\ ret' = "none" /\ cause' = "none"
    /\ UNCHANGED <<saved, vid_mem, sched_term_id, vis_term_id, flagVars, vidmap>>

\* the same call while starting_new_shell is still set from an earlier start
ExecuteAsShell ==
    /\ MayExecute
    /\ starting_new_shell
    /\ our_popcount(pcb_status) # MAX_PROCESSES
    /\ \E new \in 0 .. 31 :
          /\ find_empty_pcb(pcb_status, new)
          /\ Launch(pcb_status, io_files, procs, new, NULL, sched_term_id)
    /\ ret' = "none" /\ cause' = "none"
    /\ UNCHANGED <<frame, saved, vid_mem, sched_term_id, vis_term_id, flagVars, vidmap>>

-----------------------------------------------------------------------------
(* sys_halt, called by user code *)

\* the page sys_halt maps: the parent's, or one chosen by terminal number
HaltPage(p) == IF parent_task[p] # NULL THEN parent_task[p] ELSE term_num[p]

HaltMap ==
    /\ ctx.pc = "user"
    /\ cur_pcb # NULL
    /\ prog_page' = HaltPage(cur_pcb)
    /\ ctx' = [At(esp0, "load") EXCEPT !.off = cur_pcb]
    /\ UNCHANGED <<pcbVars, termVars, flagVars, vidmap, esp0, cur_pcb, histVars>>

\* Faulty: the bit of the slot above is cleared.
HaltStore_Shifted ==
    /\ ctx.pc = "store"
    /\ pcb_status' = ctx.tmp \ {ctx.off + 1}
    /\ ctx' = [ctx EXCEPT !.pc = "close", !.tmp = {}]
    /\ UNCHANGED <<parent_task, term_num, frame, io_files, termVars, flagVars,
                   prog_page, vidmap, esp0, cur_pcb, histVars>>

\* pcb_status &= ~(1 << (offset-1)): a load and a store
HaltLoad ==
    /\ ctx.pc = "load"
    /\ ctx' = [ctx EXCEPT !.pc = "store", !.tmp = pcb_status]
    /\ UNCHANGED <<pcbVars, termVars, flagVars, prog_page, vidmap, esp0, cur_pcb, histVars>>

HaltStore ==
    /\ ctx.pc = "store"
    /\ pcb_status' = ctx.tmp \ {ctx.off}
    /\ ctx' = [ctx EXCEPT !.pc = "close", !.tmp = {}]
    /\ UNCHANGED <<parent_task, term_num, frame, io_files, termVars, flagVars,
                   prog_page, vidmap, esp0, cur_pcb, histVars>>

\* close_pcb(cur_pcb)
HaltClose ==
    /\ ctx.pc = "close"
    /\ io_files' = IF cur_pcb = NULL THEN io_files
                   ELSE [io_files EXCEPT ![cur_pcb] = NoFiles]
    /\ ctx' = [ctx EXCEPT !.pc = "task"]
    /\ UNCHANGED <<pcb_status, parent_task, term_num, frame, termVars, flagVars,
                   prog_page, vidmap, esp0, cur_pcb, histVars>>

\* Faulty: the terminal is left without a task, or the wrong terminal is changed.
ParentTask_None(t, p) == [cur_task EXCEPT ![t] = NULL]
ParentTask_Visible(t, p) == [cur_task EXCEPT ![vis_term_id] = parent_task[p]]

\* terminals[sched_term_id].cur_task = cur_pcb->parent_task
ParentTask(t, p) == [cur_task EXCEPT ![t] = parent_task[p]]

HaltTask ==
    /\ ctx.pc = "task"
    /\ cur_pcb # NULL
    /\ cur_task' = ParentTask(sched_term_id, cur_pcb)
    /\ ctx' = [ctx EXCEPT !.pc = "cur"]
    /\ UNCHANGED <<pcbVars, saved, vid_mem, sched_term_id, vis_term_id, flagVars,
                   prog_page, vidmap, esp0, cur_pcb, histVars>>

\* cur_pcb = cur_pcb->parent_task
HaltCur ==
    /\ ctx.pc = "cur"
    /\ cur_pcb # NULL
    /\ cur_pcb' = parent_task[cur_pcb]
    /\ ctx' = [ctx EXCEPT !.pc = "leave"]
    /\ UNCHANGED <<pcbVars, termVars, flagVars, prog_page, vidmap, esp0, histVars>>

\* Faulty: the flag is not reset.
we_are_done_Kept(raised) ==
    /\ ret' = IF raised THEN "exception" ELSE "status"
    /\ except_raised' = raised

\* the end of the parent's sys_execute
we_are_done(raised) ==
    /\ ret' = IF raised THEN "exception" ELSE "status"
    /\ except_raised' = FALSE

\* back into the parent's sys_execute frame, at we_are_done
HaltToParent ==
    /\ ctx.pc = "leave"
    /\ cur_pcb # NULL
    /\ frame[cur_pcb] # NULL
    /\ esp0' = cur_pcb
    /\ ctx' = User(frame[cur_pcb])
    /\ we_are_done(except_raised)
    /\ cause' = "status"
    /\ procs' = procs \ {ctx.off}
    /\ UNCHANGED <<pcbVars, termVars, starting_new_shell, prog_page, vidmap, cur_pcb>>

\* Faulty: nobody sees to a process that has no parent to return to.
HaltRestart_Missing == FALSE

\* no parent: restart the shell of this terminal
HaltRestart ==
    /\ ctx.pc = "leave"
    /\ cur_pcb = NULL
    /\ StartShell(pcb_status, io_files, procs \ {ctx.off}, sched_term_id, User(ctx.stk))
    /\ UNCHANGED <<saved, vid_mem, sched_term_id, vis_term_id, except_raised,
                   vidmap, ret, cause>>

-----------------------------------------------------------------------------
(* An exception in user code: the handler sets except_raised and runs      *)
(* sys_halt with interrupts off, so all of it is one step.                 *)

ExceptionToParent ==
    /\ ctx.pc = "user"
    /\ cur_pcb # NULL
    /\ parent_task[cur_pcb] # NULL
    /\ LET parent == parent_task[cur_pcb]
       IN  /\ pcb_status' = pcb_status \ {cur_pcb}
           /\ io_files' = [io_files EXCEPT ![cur_pcb] = NoFiles]
           /\ cur_task' = ParentTask(sched_term_id, cur_pcb)
           /\ cur_pcb' = parent
           /\ prog_page' = parent
           /\ esp0' = parent
           /\ ctx' = User(frame[parent])
    /\ we_are_done(TRUE)
    /\ cause' = "exception"
    /\ procs' = procs \ {cur_pcb}
    /\ UNCHANGED <<parent_task, term_num, frame, saved, vid_mem, sched_term_id,
                   vis_term_id, starting_new_shell, vidmap>>

\* the parent's sys_execute, which would clear except_raised, never resumes
ExceptionRestart ==
    /\ "shell_fault" \in Hazards
    /\ ctx.pc = "user"
    /\ cur_pcb # NULL
    /\ parent_task[cur_pcb] = NULL
    /\ except_raised' = TRUE
    /\ StartShell(pcb_status \ {cur_pcb}, [io_files EXCEPT ![cur_pcb] = NoFiles],
                  procs \ {cur_pcb}, sched_term_id, User(esp0))
    /\ UNCHANGED <<saved, vid_mem, sched_term_id, vis_term_id, vidmap, ret, cause>>

-----------------------------------------------------------------------------
(* sys_open and sys_close of the running process *)

sys_open(ty) ==
    /\ ctx.pc = "user"
    /\ cur_pcb # NULL
    /\ io_files' = [io_files EXCEPT ![cur_pcb] = open_file_desc(@, ty)]
    /\ UNCHANGED <<pcb_status, parent_task, term_num, frame, termVars, flagVars,
                   cpuVars, histVars>>

sys_close(fd) ==
    /\ ctx.pc = "user"
    /\ cur_pcb # NULL
    /\ fd >= 2
    /\ io_files[cur_pcb][fd] \in FileTypes
    /\ io_files' = [io_files EXCEPT ![cur_pcb][fd] = "empty"]
    /\ UNCHANGED <<pcb_status, parent_task, term_num, frame, termVars, flagVars,
                   cpuVars, histVars>>

-----------------------------------------------------------------------------
(* Timer, terminal switch, boot *)

\* the context on the CPU, once an interrupt has pushed it on a kernel stack
Interrupted == IF ctx.pc = "user" THEN User(esp0) ELSE ctx

\* switch_tasks to a terminal that has no task yet
switch_to_new(t) ==
    /\ cur_task[t] = NULL
    /\ StartShell(pcb_status, io_files, procs, t, Interrupted)
    /\ UNCHANGED vidmap

\* switch_tasks to a terminal with a task: its context is resumed whatever
\* it was doing; a terminal never switched away from has no context
switch_to_old(t) ==
    /\ cur_task[t] # NULL
    /\ starting_new_shell' = FALSE
    /\ cur_pcb' = cur_task[t]
    /\ prog_page' = cur_task[t]
    /\ esp0' = cur_task[t]
    /\ vidmap' = vid_mem[t]
    /\ ctx' = saved[t]
    /\ UNCHANGED <<pcbVars, cur_task, procs>>

switch_tasks(t) ==
    /\ t # sched_term_id
    /\ saved' = [saved EXCEPT ![sched_term_id] = Interrupted, ![t] = NoContext]
    /\ sched_term_id' = t
    /\ switch_to_new(t) \/ switch_to_old(t)
    /\ UNCHANGED <<vid_mem, vis_term_id, except_raised, ret, cause>>

\* Faulty: the last terminal gets no turn.
NextTerm_Short == (sched_term_id + 1) % (MAX_TERM_NUM - 1)

NextTerm == (sched_term_id + 1) % MAX_TERM_NUM

pit_interrupt ==
    /\ \/ ctx.pc \in {"boot", "user"}
       \/ ctx.pc \in HaltPc /\ "preempt_halt" \in Hazards
    /\ switch_tasks(NextTerm)

\* Faulty: the terminal that leaves the screen keeps drawing on it.
switch_screen_Shared(t) == [vid_mem EXCEPT ![t] = 0]

switch_screen(t) == [[vid_mem EXCEPT ![vis_term_id] = vis_term_id + 1] EXCEPT ![t] = 0]

\* Alt+F<t+1>: switch_screen moves the video pages, then vis_term_id changes
switch_terminal(t) ==
    /\ ctx.pc # "dead"
    /\ t # vis_term_id
    /\ our_popcount(pcb_status) <= MAX_PROCESSES
    /\ vid_mem' = switch_screen(t)
    /\ vis_term_id' = t
    /\ UNCHANGED <<pcbVars, cur_task, saved, sched_term_id, flagVars, cpuVars, histVars>>

\* A NULL pointer reaches a field access in the kernel: entry() executing the
\* first shell with no task to be its parent; any call that uses cur_pcb when
\* there is none; a return to a stack pointer that was never stored.  The fault
\* handler calls sys_halt, which faults in turn, for ever.  (With a cur_pcb it ends
\* the caller: execute for a terminal without a task takes a slot and faults on the
\* parent it does not have, which is ExecuteNotElf and then an exception.)
NullAccess ==
    \/ ctx.pc = "boot" /\ "boot_race" \in Hazards
    \/ ctx.pc \in {"user", "task", "cur"} /\ cur_pcb = NULL
    \/ ctx.pc = "leave" /\ cur_pcb # NULL /\ frame[cur_pcb] = NULL

Die ==
    /\ NullAccess
    /\ ctx' = Dead
    /\ UNCHANGED <<pcbVars, termVars, flagVars, prog_page, vidmap, esp0, cur_pcb, histVars>>

-----------------------------------------------------------------------------
sys_execute == ExecuteRefused \/ ExecuteNotElf \/ ExecuteChild \/ ExecuteAsShell

sys_halt ==
    \/ HaltLoad \/ HaltStore \/ HaltClose
    \/ HaltTask \/ HaltCur \/ HaltToParent \/ HaltRestart

exception == ExceptionToParent \/ ExceptionRestart

Next ==
    \/ sys_execute
    \/ HaltMap
    \/ sys_halt
    \/ exception
    \/ \E ty \in FileTypes : sys_open(ty)
    \/ \E fd \in Desc : sys_close(fd)
    \/ pit_interrupt
    \/ \E t \in Terms : switch_terminal(t)
    \/ Die

(***************************************************************************)
(* The PIT free-runs and the PIC holds a tick until interrupts are on, so  *)
(* the tick is taken if it can be taken again and again.  A sys_halt that  *)
(* has begun gets on with it whenever its terminal has the CPU, however    *)
(* often it is preempted: a time slice is longer than one of its steps.    *)
(***************************************************************************)
Fairness == SF_vars(pit_interrupt) /\ SF_vars(sys_halt)

Spec == Init /\ [][Next]_vars /\ Fairness

-----------------------------------------------------------------------------
(* Properties *)

\* Contexts that some terminal will resume, and the one on the CPU.
Suspended == {t \in Terms \ {sched_term_id} : cur_task[t] # NULL}
Contexts == {ctx} \cup {saved[t] : t \in Suspended}

\* Processes inside sys_halt.
Ending == {c.off : c \in {d \in Contexts : d.pc \in HaltPc}}

\* The variables keep the types of the C declarations.
TypeOK ==
    /\ pcb_status \in SUBSET (0 .. 31)
    /\ parent_task \in [Slots -> Slots \cup {NULL}]
    /\ term_num \in [Slots -> Terms]
    /\ frame \in [Slots -> Slots \cup {NULL}]
    /\ io_files \in [Slots -> [Desc -> Ops]]
    /\ cur_pcb \in Slots \cup {NULL}
    /\ cur_task \in [Terms -> Slots \cup {NULL}]
    /\ saved \in [Terms -> Context]
    /\ vid_mem \in [Terms -> 0 .. MAX_TERM_NUM]
    /\ sched_term_id \in Terms
    /\ vis_term_id \in Terms
    /\ starting_new_shell \in BOOLEAN
    /\ except_raised \in BOOLEAN
    /\ prog_page \in Slots
    /\ vidmap \in 0 .. MAX_TERM_NUM
    /\ esp0 \in Slots
    /\ ctx \in Context
    /\ ret \in {"none", "status", "exception", "failure"}
    /\ cause \in {"none", "status", "exception", "refused"}
    /\ procs \in SUBSET Slots

\* "None of the upper 24 bits should be 1 unless we know we have space"
\* (pcb.c): whatever the interleaving, find_empty_pcb never hands out a slot
\* whose PCB would lie outside the reserved area.
PcbBound == pcb_status \subseteq Slots

\* terminals[].cur_task is "the task that is currently executing on the
\* terminal" (lib.h 29).
TaskOfTerminal == ctx.pc = "user" => cur_task[sched_term_id] = ctx.stk

\* A live process has stdin and stdout at descriptors 0 and 1 (syscalls.c
\* 150), whatever it opened and closed, and whatever slot it inherited.
StdFiles ==
    \A p \in procs \ Ending : io_files[p][0] = "stdin" /\ io_files[p][1] = "stdout"

\* User code always runs with its own PCB current, its own kernel stack in the
\* TSS, its own page at PROGRAM_VIRT, as the task of its terminal and with its
\* standard files, however it got the CPU: launched, switched to, or returned to
\* by a child that ended.
RunsAsItself ==
    /\ ctx.pc = "user" => ctx.stk = cur_pcb /\ esp0 = cur_pcb /\ prog_page = cur_pcb
    /\ TaskOfTerminal
    /\ StdFiles

\* On every terminal the live processes form one chain: only its first process
\* is without a parent (syscalls.c 123), a parent is live and on the same
\* terminal, has one child, and every process either waits for a child or is the
\* cur_task of its terminal, never both.
FamilyTree ==
    ctx.pc = "user" =>
        \A p \in procs :
            /\ parent_task[p] # NULL =>
                  /\ parent_task[p] \in procs
                  /\ term_num[parent_task[p]] = term_num[p]
            /\ \A q \in procs :
                  parent_task[p] = parent_task[q] /\ term_num[p] = term_num[q] => p = q
            /\ (p = cur_task[term_num[p]]) # (\E q \in procs : parent_task[q] = p)

\* What a switch or a halt returns to is intact: a suspended terminal resumes
\* its cur_task, on that task's own kernel stack, and a process waiting in
\* sys_execute resumes on its own stack.
ResumesOwnStack ==
    ctx.pc = "user" =>
        /\ \A t \in Suspended : saved[t].stk = cur_task[t]
        /\ \A p \in procs : parent_task[p] # NULL => frame[parent_task[p]] = parent_task[p]

\* "Each process has its own PCB" (discussion_pcb.txt): the bit of a live
\* process is set, and once sys_halt has cleared its bit nobody else gets the
\* slot until the halting code has stopped using its PCB and its stack.
OwnPcb ==
    /\ procs \ Ending \subseteq pcb_status
    /\ \A c \in Contexts : c.pc \in {"close", "task", "cur", "leave"} => c.off \notin pcb_status

\* sys_execute returns 256 exactly when the child died by exception
\* (the header of sys_execute, syscalls.c 60-62).
StatusTruthful == ret = "exception" <=> cause = "exception"

\* sys_execute returns -1 "if command cannot be executed" (syscalls.c 60).
RefusalReported == cause = "refused" => ret = "failure"

\* No kernel code dereferences a NULL PCB.
NeverDies == ctx.pc # "dead"

\* Exactly the visible terminal draws in physical video memory; every other
\* one has its own backing page (multi_term.c).
ScreenOwner == \A t \in Terms : vid_mem[t] = IF t = vis_term_id THEN 0 ELSE t + 1

\* The boot context is abandoned at the first tick: no later switch resumes
\* entry(), which would execute a shell without a parent.
BootAbandoned == [][ctx.pc # "boot" => ctx'.pc # "boot"]_vars

\* Every terminal gets the CPU for ever.
EveryTerminalRuns == \A t \in Terms : []<>(sched_term_id = t /\ ctx.pc = "user")

\* A sys_halt that began on a terminal ends with that terminal in user code.
HaltCompletes ==
    \A t \in Terms : (sched_term_id = t /\ ctx.pc \in HaltPc)
                        ~> (sched_term_id = t /\ ctx.pc = "user")

\* "Remap to the parent's page" (syscalls.c 23): when sys_halt returns to the
\* parent, and the slot was not given to another terminal in the meantime, the
\* parent's page is the one mapped.
RemapsParent ==
    [][HaltToParent /\ term_num[ctx.off] = sched_term_id => prog_page' = cur_pcb]_vars

\* Invalid commands are not counted as processes "(so net is 0)"
\* (bug_log.txt 39): a set bit belongs to a live process.
NoSlotLeak == pcb_status \subseteq procs

\* The program that runs sees the video page of its own terminal at the vidmap
\* address (timer.c 73, bug_log.txt 41-44).
VidmapOwn == ctx.pc = "user" /\ ~starting_new_shell => vidmap = vid_mem[sched_term_id]
=============================================================================
