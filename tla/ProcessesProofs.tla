-------------------------- MODULE ProcessesProofs --------------------------
(***************************************************************************)
(* Theorems about Processes that hold whatever the hazards: the variables  *)
(* keep their types, the bitmap never names a slot outside the PCB area,   *)
(* video memory has one owner, and the boot context is never resumed.      *)
(***************************************************************************)
EXTENDS Processes, FiniteSetTheorems, TLAPS

\* The bitmaps a preempted sys_halt still has to store are in range too.
TmpBound == ctx.tmp \subseteq Slots /\ \A t \in Terms : saved[t].tmp \subseteq Slots

\* A process that is somebody's parent has stored its frame.
FrameStored == \A p \in Slots : parent_task[p] # NULL => frame[parent_task[p]] # NULL

\* The inductive invariant.
IInv == TypeOK /\ PcbBound /\ TmpBound /\ FrameStored

-----------------------------------------------------------------------------
LEMMA SlotFacts ==
    /\ Slots \subseteq 0 .. 31
    /\ Terms \subseteq Slots
    /\ 0 \in Slots /\ 0 \in Terms
    /\ NULL \notin Slots
BY ProcessesAssumption DEF Slots, Terms, NULL

\* find_empty_pcb, called after the popcount test, returns a slot of the table.
LEMMA FreeSlotInRange ==
    ASSUME NEW status \in SUBSET Slots, NEW off,
           our_popcount(status) # MAX_PROCESSES,
           find_empty_pcb(status, off)
    PROVE  off \in Slots
<1>1. Cardinality(Slots) = MAX_PROCESSES
  <2>1. MAX_PROCESSES \in Nat /\ MAX_PROCESSES > 0
    BY ProcessesAssumption
  <2>2. Cardinality(0 .. MAX_PROCESSES - 1) = MAX_PROCESSES
    BY <2>1, FS_Interval
  <2> QED
    BY <2>2 DEF Slots
<1>2. ASSUME off \notin Slots
      PROVE  FALSE
  <2>1. off \in 0 .. 31 /\ off >= MAX_PROCESSES
    BY <1>2, ProcessesAssumption DEF Slots, find_empty_pcb
  <2>2. Slots \subseteq status
    BY <2>1, ProcessesAssumption DEF Slots, find_empty_pcb
  <2>3. status = Slots
    BY <2>2
  <2> QED
    BY <1>1, <2>3 DEF our_popcount
<1> QED
  BY <1>2

LEMMA NoFilesType == NoFiles \in [Desc -> Ops]
BY DEF NoFiles, Ops

LEMMA OpenType ==
    ASSUME NEW fds \in [Desc -> Ops], NEW ops \in Ops
    PROVE  open_file_desc(fds, ops) \in [Desc -> Ops]
BY DEF open_file_desc

LEMMA TerminalOpenType ==
    ASSUME NEW fds \in [Desc -> Ops]
    PROVE  terminal_open(fds) \in [Desc -> Ops]
<1>1. "stdin" \in Ops /\ "stdout" \in Ops
  BY DEF Ops
<1> QED
  BY <1>1, OpenType DEF terminal_open

LEMMA AtType ==
    ASSUME NEW s \in Slots, NEW p \in {"boot", "user", "dead"} \cup HaltPc
    PROVE  At(s, p) \in Context /\ At(s, p).tmp = {} /\ At(s, p).pc = p
BY DEF At, Context

LEMMA UserType ==
    ASSUME NEW s \in Slots
    PROVE  User(s) \in Context /\ User(s).tmp = {} /\ User(s).pc = "user"
BY AtType DEF User

LEMMA InitIInv == Init => IInv
<1> SUFFICES ASSUME Init PROVE IInv
  OBVIOUS
<1>1. TypeOK
  <2>1. At(0, "boot") \in Context /\ NoContext \in Context
    BY SlotFacts, AtType DEF NoContext
  <2>2. vid_mem \in [Terms -> 0 .. MAX_TERM_NUM] /\ 0 \in 0 .. MAX_TERM_NUM
    BY ProcessesAssumption DEF Init, Terms
  <2> QED
    BY <2>1, <2>2, SlotFacts, NoFilesType DEF Init, TypeOK
<1>2. PcbBound /\ TmpBound /\ FrameStored
  BY SlotFacts, AtType DEF Init, PcbBound, TmpBound, FrameStored, NoContext
<1> QED
  BY <1>1, <1>2 DEF IInv

-----------------------------------------------------------------------------
(* What the operators shared by several actions assign. *)

\* The types of what sys_execute assigns when it starts a process.
Started ==
    /\ pcb_status' \in SUBSET Slots
    /\ parent_task' \in [Slots -> Slots \cup {NULL}]
    /\ term_num' \in [Slots -> Terms]
    /\ io_files' \in [Slots -> [Desc -> Ops]]
    /\ cur_task' \in [Terms -> Slots \cup {NULL}]
    /\ cur_pcb' \in Slots \cup {NULL}
    /\ prog_page' \in Slots
    /\ esp0' \in Slots
    /\ ctx' \in Context
    /\ ctx'.tmp \subseteq Slots
    /\ procs' \in SUBSET Slots

\* No process gets a parent.
NoNewParent == \A p \in Slots : parent_task'[p] = NULL \/ parent_task'[p] = parent_task[p]

LEMMA LaunchType ==
    ASSUME IInv,
           NEW status \in SUBSET Slots, NEW files \in [Slots -> [Desc -> Ops]],
           NEW live \in SUBSET Slots, NEW new \in Slots,
           NEW parent \in Slots \cup {NULL}, NEW t \in Terms,
           Launch(status, files, live, new, parent, t)
    PROVE  /\ Started
           /\ parent_task' = [parent_task EXCEPT ![new] = parent]
<1>1. terminal_open(NoFiles) \in [Desc -> Ops]
  BY NoFilesType, TerminalOpenType
<1>2. ctx' \in Context /\ ctx'.tmp \subseteq Slots
  BY UserType DEF Launch, SetTask, EnterProgram
<1> QED
  BY <1>1, <1>2 DEF Launch, SetTask, EnterProgram, IInv, TypeOK, Started

\* The same for a process without a parent.
LEMMA LaunchShellType ==
    ASSUME IInv,
           NEW status \in SUBSET Slots, NEW files \in [Slots -> [Desc -> Ops]],
           NEW live \in SUBSET Slots, NEW new \in Slots, NEW t \in Terms,
           Launch(status, files, live, new, NULL, t)
    PROVE  /\ Started
           /\ parent_task' = [parent_task EXCEPT ![new] = NULL]
<1>1. terminal_open(NoFiles) \in [Desc -> Ops]
  BY NoFilesType, TerminalOpenType
<1>2. ctx' \in Context /\ ctx'.tmp \subseteq Slots
  BY UserType DEF Launch, SetTask, EnterProgram
<1> QED
  BY <1>1, <1>2 DEF Launch, SetTask, EnterProgram, IInv, TypeOK, Started

LEMMA StartShellType ==
    ASSUME IInv,
           NEW status \in SUBSET Slots, NEW files \in [Slots -> [Desc -> Ops]],
           NEW live \in SUBSET Slots, NEW t \in Terms,
           NEW back \in Context, back.tmp \subseteq Slots,
           StartShell(status, files, live, t, back)
    PROVE  /\ Started
           /\ NoNewParent
           /\ starting_new_shell' \in BOOLEAN
           /\ frame' = frame
<1>1. frame' = frame /\ starting_new_shell' \in BOOLEAN
  BY DEF StartShell
<1>2. CASE our_popcount(status) = MAX_PROCESSES
  BY <1>1, <1>2, SMTT(60) DEF StartShell, IInv, TypeOK, Started, NoNewParent
<1>3. CASE our_popcount(status) # MAX_PROCESSES
  <2>1. PICK new \in 0 .. 31 :
           /\ find_empty_pcb(status, new)
           /\ Launch(status, files, live, new, NULL, t)
    BY <1>3 DEF StartShell
  <2>2. new \in Slots
    BY <1>3, <2>1, FreeSlotInRange
  <2>3. /\ Started
        /\ parent_task' = [parent_task EXCEPT ![new] = NULL]
    BY <2>1, <2>2, LaunchShellType
  <2> QED
    BY <1>1, <2>3 DEF NoNewParent, IInv, TypeOK
<1> QED
  BY <1>2, <1>3

\* Those types, and the variables sys_execute leaves alone, give the invariant.
LEMMA StartedKeepsIInv ==
    ASSUME IInv, Started, FrameStored',
           frame' \in [Slots -> Slots \cup {NULL}], saved' \in [Terms -> Context],
           \A t \in Terms : saved'[t].tmp \subseteq Slots,
           vid_mem' = vid_mem, sched_term_id' \in Terms, vis_term_id' = vis_term_id,
           vidmap' = vidmap, starting_new_shell' \in BOOLEAN, except_raised' \in BOOLEAN,
           ret' \in {"none", "status", "exception", "failure"},
           cause' \in {"none", "status", "exception", "refused"}
    PROVE  IInv'
<1>1. TypeOK'
  BY SlotFacts DEF IInv, TypeOK, Started
<1>2. PcbBound' /\ TmpBound'
  BY DEF Started, PcbBound, TmpBound
<1> QED
  BY <1>1, <1>2 DEF IInv

LEMMA NoNewParentKeepsFrames ==
    ASSUME IInv, NoNewParent, frame' = frame
    PROVE  FrameStored'
BY DEF IInv, NoNewParent, FrameStored

-----------------------------------------------------------------------------
LEMMA InterruptedType ==
    ASSUME IInv
    PROVE  Interrupted \in Context /\ Interrupted.tmp \subseteq Slots
<1>1. CASE ctx.pc = "user"
  BY <1>1, UserType DEF Interrupted, IInv, TypeOK
<1>2. CASE ctx.pc # "user"
  BY <1>2 DEF Interrupted, IInv, TypeOK, TmpBound
<1> QED
  BY <1>1, <1>2

LEMMA ExecuteKeepsIInv == IInv /\ sys_execute => IInv'
<1> SUFFICES ASSUME IInv, sys_execute PROVE IInv'
  OBVIOUS
<1> USE DEF pcbVars, termVars, flagVars, cpuVars, histVars
<1>1. CASE ExecuteRefused
  BY <1>1 DEF ExecuteRefused, IInv, TypeOK, PcbBound, TmpBound, FrameStored
<1>2. CASE ExecuteNotElf
  <2>1. PICK new \in 0 .. 31 :
           /\ find_empty_pcb(pcb_status, new)
           /\ pcb_status' = pcb_status \cup {new}
           /\ io_files' = [io_files EXCEPT ![new] = NoFiles]
    BY <1>2 DEF ExecuteNotElf
  <2>2. new \in Slots
    BY <1>2, <2>1, FreeSlotInRange DEF ExecuteNotElf, IInv, PcbBound
  <2> QED
    BY <1>2, <2>1, <2>2, NoFilesType, SlotFacts
       DEF ExecuteNotElf, IInv, TypeOK, PcbBound, TmpBound, FrameStored
<1>3. CASE ExecuteChild
  <2>1. PICK new \in 0 .. 31 :
           /\ find_empty_pcb(pcb_status, new)
           /\ Launch(pcb_status, io_files, procs, new, cur_task[vis_term_id], vis_term_id)
    BY <1>3 DEF ExecuteChild
  <2>2. new \in Slots
    BY <1>3, <2>1, FreeSlotInRange DEF ExecuteChild, IInv, PcbBound
  <2>3. cur_task[vis_term_id] \in Slots
    BY <1>3 DEF ExecuteChild, IInv, TypeOK
  <2>4. /\ Started
        /\ parent_task' = [parent_task EXCEPT ![new] = cur_task[vis_term_id]]
    BY <2>1, <2>2, <2>3, LaunchType DEF IInv, TypeOK, PcbBound
  <2>5. frame' = [frame EXCEPT ![cur_task[vis_term_id]] = esp0]
    BY <1>3 DEF ExecuteChild
  <2>6. FrameStored' /\ frame' \in [Slots -> Slots \cup {NULL}]
    BY <2>3, <2>4, <2>5, SlotFacts DEF FrameStored, IInv, TypeOK
  <2> QED
    BY <1>3, <2>4, <2>6, StartedKeepsIInv DEF ExecuteChild, IInv, TypeOK, TmpBound
<1>4. CASE ExecuteAsShell
  <2>1. PICK new \in 0 .. 31 :
           /\ find_empty_pcb(pcb_status, new)
           /\ Launch(pcb_status, io_files, procs, new, NULL, sched_term_id)
    BY <1>4 DEF ExecuteAsShell
  <2>2. new \in Slots
    BY <1>4, <2>1, FreeSlotInRange DEF ExecuteAsShell, IInv, PcbBound
  <2>3. /\ pcb_status \in SUBSET Slots /\ io_files \in [Slots -> [Desc -> Ops]]
        /\ procs \in SUBSET Slots /\ sched_term_id \in Terms
    BY DEF IInv, TypeOK, PcbBound
  <2>4. /\ Started
        /\ parent_task' = [parent_task EXCEPT ![new] = NULL]
    BY <2>1, <2>2, <2>3, LaunchShellType
  <2>5. FrameStored'
    BY <1>4, <2>4, NoNewParentKeepsFrames DEF ExecuteAsShell, NoNewParent, IInv, TypeOK
  <2> QED
    BY <1>4, <2>4, <2>5, StartedKeepsIInv DEF ExecuteAsShell, IInv, TypeOK, TmpBound
<1> QED
  BY <1>1, <1>2, <1>3, <1>4 DEF sys_execute

LEMMA HaltKeepsIInv == IInv /\ (HaltMap \/ sys_halt) => IInv'
<1> SUFFICES ASSUME IInv, HaltMap \/ sys_halt PROVE IInv'
  OBVIOUS
<1> USE DEF pcbVars, termVars, flagVars, cpuVars, histVars
<1>1. CASE HaltMap
  <2>1. ctx' \in Context /\ ctx'.tmp = {}
    BY <1>1 DEF HaltMap, At, Context, HaltPc, IInv, TypeOK
  <2>2. prog_page' \in Slots
    BY <1>1, SlotFacts DEF HaltMap, HaltPage, IInv, TypeOK
  <2> QED
    BY <1>1, <2>1, <2>2 DEF HaltMap, IInv, TypeOK, PcbBound, TmpBound, FrameStored
<1>2. CASE HaltLoad
  <2>1. ctx' \in Context /\ ctx'.tmp = pcb_status
    BY <1>2 DEF HaltLoad, Context, HaltPc, IInv, TypeOK
  <2> QED
    BY <1>2, <2>1 DEF HaltLoad, IInv, TypeOK, PcbBound, TmpBound, FrameStored
<1>3. CASE HaltStore
  <2>1. ctx' \in Context /\ ctx'.tmp = {}
    BY <1>3 DEF HaltStore, Context, HaltPc, IInv, TypeOK
  <2> QED
    BY <1>3, <2>1, SlotFacts DEF HaltStore, IInv, TypeOK, PcbBound, TmpBound, FrameStored
<1>4. CASE HaltClose
  <2>1. ctx' \in Context /\ ctx'.tmp = ctx.tmp
    BY <1>4 DEF HaltClose, Context, HaltPc, IInv, TypeOK
  <2> QED
    BY <1>4, <2>1, NoFilesType DEF HaltClose, IInv, TypeOK, PcbBound, TmpBound, FrameStored
<1>5. CASE HaltTask
  <2>1. ctx' \in Context /\ ctx'.tmp = ctx.tmp
    BY <1>5 DEF HaltTask, ParentTask, Context, HaltPc, IInv, TypeOK
  <2> QED
    BY <1>5, <2>1 DEF HaltTask, ParentTask, IInv, TypeOK, PcbBound, TmpBound, FrameStored
<1>6. CASE HaltCur
  <2>1. ctx' \in Context /\ ctx'.tmp = ctx.tmp
    BY <1>6 DEF HaltCur, Context, HaltPc, IInv, TypeOK
  <2> QED
    BY <1>6, <2>1 DEF HaltCur, IInv, TypeOK, PcbBound, TmpBound, FrameStored
<1>7. CASE HaltToParent
  <2>1. ctx' \in Context /\ ctx'.tmp = {}
    BY <1>7, UserType DEF HaltToParent, we_are_done, IInv, TypeOK
  <2> QED
    BY <1>7, <2>1 DEF HaltToParent, we_are_done, IInv, TypeOK, PcbBound, TmpBound, FrameStored
<1>8. CASE HaltRestart
  <2>1. User(ctx.stk) \in Context /\ User(ctx.stk).tmp \subseteq Slots
    BY UserType DEF IInv, TypeOK, Context
  <2>2. StartShell(pcb_status, io_files, procs \ {ctx.off}, sched_term_id, User(ctx.stk))
    BY <1>8 DEF HaltRestart
  <2>3. Started /\ NoNewParent /\ starting_new_shell' \in BOOLEAN /\ frame' = frame
    BY <2>1, <2>2, StartShellType DEF IInv, TypeOK, PcbBound
  <2>4. FrameStored'
    BY <2>3, NoNewParentKeepsFrames
  <2> QED
    BY <1>8, <2>3, <2>4, StartedKeepsIInv DEF HaltRestart, IInv, TypeOK, TmpBound
<1> QED
  BY <1>1, <1>2, <1>3, <1>4, <1>5, <1>6, <1>7, <1>8 DEF sys_halt

LEMMA ExceptionKeepsIInv == IInv /\ exception => IInv'
<1> SUFFICES ASSUME IInv, exception PROVE IInv'
  OBVIOUS
<1>1. CASE ExceptionToParent
  <2>1. parent_task[cur_pcb] \in Slots /\ frame[parent_task[cur_pcb]] \in Slots
    BY <1>1 DEF ExceptionToParent, we_are_done, ParentTask, IInv, TypeOK, FrameStored
  <2>2. ctx' \in Context /\ ctx'.tmp = {}
    BY <1>1, <2>1, UserType DEF ExceptionToParent, we_are_done, ParentTask
  <2>3. TypeOK'
    BY <1>1, <2>1, <2>2, NoFilesType DEF ExceptionToParent, we_are_done, ParentTask, IInv,
       TypeOK
  <2>4. PcbBound' /\ TmpBound' /\ FrameStored'
    BY <1>1, <2>2 DEF ExceptionToParent, we_are_done, ParentTask, IInv, PcbBound,
       TmpBound, FrameStored
  <2> QED
    BY <2>3, <2>4 DEF IInv
<1>2. CASE ExceptionRestart
  <2>1. User(esp0) \in Context /\ User(esp0).tmp \subseteq Slots
    BY UserType DEF IInv, TypeOK
  <2>2. [io_files EXCEPT ![cur_pcb] = NoFiles] \in [Slots -> [Desc -> Ops]]
    BY NoFilesType DEF IInv, TypeOK
  <2>3. StartShell(pcb_status \ {cur_pcb}, [io_files EXCEPT ![cur_pcb] = NoFiles],
                   procs \ {cur_pcb}, sched_term_id, User(esp0))
    BY <1>2 DEF ExceptionRestart
  <2>4. Started /\ NoNewParent /\ starting_new_shell' \in BOOLEAN /\ frame' = frame
    BY <2>1, <2>2, <2>3, StartShellType DEF IInv, TypeOK, PcbBound
  <2>5. FrameStored'
    BY <2>4, NoNewParentKeepsFrames
  <2> QED
    BY <1>2, <2>4, <2>5, StartedKeepsIInv DEF ExceptionRestart, IInv, TypeOK, TmpBound
<1> QED
  BY <1>1, <1>2 DEF exception

LEMMA FilesKeepIInv ==
    IInv /\ ((\E ty \in FileTypes : sys_open(ty)) \/ (\E fd \in Desc : sys_close(fd))) => IInv'
<1> SUFFICES ASSUME IInv,
                    (\E ty \in FileTypes : sys_open(ty)) \/ (\E fd \in Desc : sys_close(fd))
             PROVE  IInv'
  OBVIOUS
<1> USE DEF pcbVars, termVars, flagVars, cpuVars, histVars
<1>1. CASE \E ty \in FileTypes : sys_open(ty)
  <2>1. PICK ty \in FileTypes : sys_open(ty)
    BY <1>1
  <2>2. cur_pcb \in Slots /\ io_files[cur_pcb] \in [Desc -> Ops] /\ ty \in Ops
    BY <2>1 DEF sys_open, IInv, TypeOK, Ops
  <2>3. io_files' \in [Slots -> [Desc -> Ops]]
    BY <2>1, <2>2, OpenType DEF sys_open, IInv, TypeOK
  <2> QED
    BY <2>1, <2>3 DEF sys_open, IInv, TypeOK, PcbBound, TmpBound, FrameStored
<1>2. CASE \E fd \in Desc : sys_close(fd)
  <2>1. PICK fd \in Desc : sys_close(fd)
    BY <1>2
  <2>2. "empty" \in Ops
    BY DEF Ops
  <2>3. io_files' \in [Slots -> [Desc -> Ops]]
    BY <2>1, <2>2 DEF sys_close, IInv, TypeOK
  <2> QED
    BY <2>1, <2>3 DEF sys_close, IInv, TypeOK, PcbBound, TmpBound, FrameStored
<1> QED
  BY <1>1, <1>2

LEMMA NextTerminal ==
    ASSUME sched_term_id \in Terms
    PROVE  (sched_term_id + 1) % MAX_TERM_NUM \in Terms
BY ProcessesAssumption DEF Terms

LEMMA TickKeepsIInv == IInv /\ pit_interrupt => IInv'
<1> SUFFICES ASSUME IInv, pit_interrupt PROVE IInv'
  OBVIOUS
<1> DEFINE t == (sched_term_id + 1) % MAX_TERM_NUM
<1>1. t \in Terms /\ switch_tasks(t)
  BY NextTerminal DEF pit_interrupt, NextTerm, IInv, TypeOK
<1> HIDE DEF t
<1>2. Interrupted \in Context /\ Interrupted.tmp \subseteq Slots
  BY InterruptedType
<1>3. NoContext \in Context /\ NoContext.tmp = {}
  BY AtType, SlotFacts DEF NoContext
<1>4. saved' \in [Terms -> Context] /\ \A u \in Terms : saved'[u].tmp \subseteq Slots
  BY <1>1, <1>2, <1>3 DEF switch_tasks, IInv, TypeOK, TmpBound
<1>5. CASE switch_to_new(t)
  <2>1. Started /\ NoNewParent /\ starting_new_shell' \in BOOLEAN /\ frame' = frame
    BY <1>1, <1>2, <1>5, StartShellType DEF switch_to_new, IInv, TypeOK, PcbBound
  <2>2. FrameStored'
    BY <2>1, NoNewParentKeepsFrames
  <2> QED
    BY <1>1, <1>4, <1>5, <2>1, <2>2, StartedKeepsIInv
       DEF switch_tasks, switch_to_new, IInv, TypeOK
<1>6. CASE switch_to_old(t)
  <2>1. TypeOK'
    BY <1>1, <1>4, <1>6 DEF switch_tasks, switch_to_old, IInv, TypeOK, pcbVars
  <2>2. PcbBound' /\ TmpBound' /\ FrameStored'
    BY <1>1, <1>4, <1>6
       DEF switch_tasks, switch_to_old, IInv, TypeOK, PcbBound, TmpBound, FrameStored, pcbVars
  <2> QED
    BY <2>1, <2>2 DEF IInv
<1> QED
  BY <1>1, <1>5, <1>6 DEF switch_tasks

LEMMA RestKeepsIInv == IInv /\ ((\E t \in Terms : switch_terminal(t)) \/ Die) => IInv'
<1> SUFFICES ASSUME IInv, (\E t \in Terms : switch_terminal(t)) \/ Die PROVE IInv'
  OBVIOUS
<1> USE DEF pcbVars, termVars, flagVars, cpuVars, histVars
<1>1. CASE \E t \in Terms : switch_terminal(t)
  <2>1. PICK t \in Terms : switch_terminal(t)
    BY <1>1
  <2>2. vis_term_id + 1 \in 0 .. MAX_TERM_NUM /\ 0 \in 0 .. MAX_TERM_NUM
    BY ProcessesAssumption DEF IInv, TypeOK, Terms
  <2>3. vid_mem' \in [Terms -> 0 .. MAX_TERM_NUM]
    BY <2>1, <2>2 DEF switch_terminal, switch_screen, IInv, TypeOK
  <2> QED
    BY <2>1, <2>3 DEF switch_terminal, switch_screen, IInv, TypeOK, PcbBound, TmpBound,
       FrameStored
<1>2. CASE Die
  <2>1. ctx' \in Context /\ ctx'.tmp = {}
    BY <1>2, AtType, SlotFacts DEF Die, Dead
  <2> QED
    BY <1>2, <2>1 DEF Die, IInv, TypeOK, PcbBound, TmpBound, FrameStored
<1> QED
  BY <1>1, <1>2

LEMMA NextKeepsIInv == IInv /\ [Next]_vars => IInv'
<1> SUFFICES ASSUME IInv, [Next]_vars PROVE IInv'
  OBVIOUS
<1>1. CASE UNCHANGED vars
  BY <1>1 DEF vars, pcbVars, termVars, flagVars, cpuVars, histVars,
              IInv, TypeOK, PcbBound, TmpBound, FrameStored
<1>2. CASE Next
  BY <1>2, ExecuteKeepsIInv, HaltKeepsIInv, ExceptionKeepsIInv, FilesKeepIInv,
     TickKeepsIInv, RestKeepsIInv DEF Next
<1> QED
  BY <1>1, <1>2

-----------------------------------------------------------------------------
\* Whatever the hazards that strike, every variable keeps its type.
THEOREM TypeCorrect == Spec => []TypeOK
<1>1. IInv => TypeOK
  BY DEF IInv
<1> QED
  BY InitIInv, NextKeepsIInv, <1>1, PTL DEF Spec

\* Whatever the hazards that strike, even with updates of the bitmap lost in a
\* preempted sys_halt, no PCB slot beyond MAX_PROCESSES is ever marked or used
\* (find_empty_pcb after the popcount test of sys_execute).
THEOREM PcbTableBounded == Spec => []PcbBound
<1>1. IInv => PcbBound
  BY DEF IInv
<1> QED
  BY InitIInv, NextKeepsIInv, <1>1, PTL DEF Spec

-----------------------------------------------------------------------------
\* Whatever the hazards, exactly the visible terminal draws in physical video
\* memory: switch_screen gives it up and takes it in the same critical section.
THEOREM OneScreenOwner == Spec => []ScreenOwner
<1>1. Init => ScreenOwner
  BY DEF Init, ScreenOwner
<1>2. IInv /\ ScreenOwner /\ [Next]_vars => ScreenOwner'
  <2> SUFFICES ASSUME IInv, ScreenOwner, [Next]_vars PROVE ScreenOwner'
    OBVIOUS
  <2>1. CASE UNCHANGED <<vid_mem, vis_term_id>>
    BY <2>1 DEF ScreenOwner
  <2>2. CASE \E t \in Terms : switch_terminal(t)
    BY <2>2 DEF switch_terminal, switch_screen, ScreenOwner, IInv, TypeOK
  <2>3. CASE sys_execute
    BY <2>1, <2>3 DEF sys_execute, ExecuteRefused, ExecuteNotElf, ExecuteChild,
       ExecuteAsShell, termVars
  <2>4. CASE HaltMap \/ sys_halt
    BY <2>1, <2>4 DEF HaltMap, sys_halt, HaltLoad, HaltStore, HaltClose, HaltTask, ParentTask,
       HaltCur, HaltToParent, we_are_done, HaltRestart, termVars
  <2>5. CASE exception
    BY <2>1, <2>5 DEF exception, ExceptionToParent, we_are_done, ParentTask,
       ExceptionRestart, termVars
  <2>6. CASE (\E ty \in FileTypes : sys_open(ty)) \/ (\E fd \in Desc : sys_close(fd)) \/ Die
    BY <2>1, <2>6 DEF sys_open, sys_close, Die, termVars
  <2>7. CASE pit_interrupt
    BY <2>1, <2>7 DEF pit_interrupt, NextTerm, switch_tasks
  <2>8. CASE UNCHANGED vars
    BY <2>1, <2>8 DEF vars, termVars
  <2> QED
    BY <2>2, <2>3, <2>4, <2>5, <2>6, <2>7, <2>8 DEF Next
<1> QED
  BY InitIInv, NextKeepsIInv, <1>1, <1>2, PTL DEF Spec

-----------------------------------------------------------------------------
\* Where the boot context can be: on the CPU before any terminal has a task,
\* or saved for a terminal that has none, which will get a shell instead.
BootInv ==
    /\ ctx.pc = "boot" => \A t \in Terms : cur_task[t] = NULL
    /\ saved[sched_term_id].pc # "boot"
    /\ \A t \in Terms : saved[t].pc = "boot" => cur_task[t] = NULL

\* Starting a shell on t either enters it or goes on in the context given, with
\* no task on t; the other terminals keep their tasks.
LEMMA ShellOutcome ==
    ASSUME cur_task \in [Terms -> Slots \cup {NULL}], NEW t \in Terms,
           NEW status, NEW files, NEW live, NEW back,
           StartShell(status, files, live, t, back)
    PROVE  /\ (ctx' = back /\ cur_task'[t] = NULL) \/ ctx'.pc = "user"
           /\ \A v \in Terms \ {t} : cur_task'[v] = cur_task[v]
<1>1. CASE ctx' = back /\ cur_task' = [cur_task EXCEPT ![t] = NULL]
  BY <1>1
<1>2. CASE \E new \in 0 .. 31 : Launch(status, files, live, new, NULL, t)
  <2>1. PICK new \in 0 .. 31 : Launch(status, files, live, new, NULL, t)
    BY <1>2
  <2>2. ctx' = User(new) /\ cur_task' = [cur_task EXCEPT ![t] = new]
    BY <2>1 DEF Launch, SetTask, EnterProgram
  <2> QED
    BY <2>2 DEF User, At
<1> QED
  BY <1>1, <1>2 DEF StartShell

LEMMA BootStep ==
    ASSUME IInv, BootInv, [Next]_vars
    PROVE  BootInv' /\ (ctx.pc # "boot" => ctx'.pc # "boot")
<1> USE DEF pcbVars, termVars, flagVars, cpuVars, histVars
<1>1. CASE UNCHANGED vars
  BY <1>1 DEF vars, BootInv
<1>2. ASSUME ctx.pc # "boot", UNCHANGED <<saved, sched_term_id>>, ctx'.pc # "boot",
             NEW u \in Terms, u = sched_term_id \/ cur_task[u] # NULL,
             \A t \in Terms \ {u} : cur_task'[t] = cur_task[t]
      PROVE  BootInv' /\ (ctx.pc # "boot" => ctx'.pc # "boot")
  BY <1>2 DEF BootInv, IInv, TypeOK
<1>3. ASSUME UNCHANGED <<saved, sched_term_id, cur_task>>, ctx'.pc = ctx.pc \/ ctx'.pc # "boot"
      PROVE  BootInv' /\ (ctx.pc # "boot" => ctx'.pc # "boot")
  BY <1>3 DEF BootInv
<1>4. CASE ExecuteRefused \/ ExecuteNotElf
  BY <1>3, <1>4 DEF ExecuteRefused, ExecuteNotElf
<1>5. CASE ExecuteChild
  <2>1. PICK new \in 0 .. 31 :
           Launch(pcb_status, io_files, procs, new, cur_task[vis_term_id], vis_term_id)
    BY <1>5 DEF ExecuteChild
  <2>2. ctx'.pc = "user" /\ \A t \in Terms \ {vis_term_id} : cur_task'[t] = cur_task[t]
    BY <2>1 DEF Launch, SetTask, EnterProgram, User, At, IInv, TypeOK
  <2> QED
    BY <1>2, <1>5, <2>2 DEF ExecuteChild, MayExecute, IInv, TypeOK
<1>6. CASE ExecuteAsShell
  <2>1. PICK new \in 0 .. 31 :
           Launch(pcb_status, io_files, procs, new, NULL, sched_term_id)
    BY <1>6 DEF ExecuteAsShell
  <2>2. ctx'.pc = "user" /\ \A t \in Terms \ {sched_term_id} : cur_task'[t] = cur_task[t]
    BY <2>1 DEF Launch, SetTask, EnterProgram, User, At, IInv, TypeOK
  <2> QED
    BY <1>2, <1>6, <2>2 DEF ExecuteAsShell, MayExecute, IInv, TypeOK
<1>7. CASE HaltMap \/ HaltLoad \/ HaltStore \/ HaltClose \/ HaltCur \/ HaltToParent
  <2>1. ctx'.pc # "boot"
    <3>1. CASE HaltMap \/ HaltToParent
      BY <3>1 DEF HaltMap, HaltToParent, we_are_done, User, At
    <3>2. CASE HaltLoad \/ HaltStore \/ HaltClose \/ HaltCur
      BY <3>2 DEF HaltLoad, HaltStore, HaltClose, HaltCur, IInv, TypeOK, Context
    <3> QED
      BY <1>7, <3>1, <3>2
  <2> QED
    BY <1>3, <1>7, <2>1 DEF HaltMap, HaltLoad, HaltStore, HaltClose, HaltCur,
       HaltToParent, we_are_done
<1>8. CASE HaltTask
  <2>1. ctx'.pc # "boot"
    BY <1>8 DEF HaltTask, ParentTask, IInv, TypeOK, Context
  <2> QED
    BY <1>2, <1>8, <2>1 DEF HaltTask, ParentTask, IInv, TypeOK
<1>9. CASE HaltRestart
  <2>1. /\ ctx'.pc # "boot"
        /\ \A t \in Terms \ {sched_term_id} : cur_task'[t] = cur_task[t]
    <3>1. PICK status, files, live, back :
             StartShell(status, files, live, sched_term_id, back) /\ back.pc # "boot"
      BY <1>9 DEF HaltRestart, User, At
    <3> QED
      BY <3>1, ShellOutcome DEF IInv, TypeOK
  <2> QED
    BY <1>2, <1>9, <2>1 DEF HaltRestart, IInv, TypeOK
<1>10. CASE ExceptionToParent
  <2>1. /\ ctx'.pc # "boot"
        /\ \A t \in Terms \ {sched_term_id} : cur_task'[t] = cur_task[t]
    BY <1>10 DEF ExceptionToParent, we_are_done, ParentTask, User, At, IInv, TypeOK
  <2> QED
    BY <1>2, <1>10, <2>1 DEF ExceptionToParent, we_are_done, ParentTask, IInv, TypeOK
<1>11. CASE ExceptionRestart
  <2>1. /\ ctx'.pc # "boot"
        /\ \A t \in Terms \ {sched_term_id} : cur_task'[t] = cur_task[t]
    <3>1. PICK status, files, live, back :
             StartShell(status, files, live, sched_term_id, back) /\ back.pc # "boot"
      BY <1>11, SMTT(60) DEF ExceptionRestart, User, At
    <3> QED
      BY <3>1, ShellOutcome DEF IInv, TypeOK
  <2> QED
    BY <1>2, <1>11, <2>1 DEF ExceptionRestart, IInv, TypeOK
<1>12. CASE (\E ty \in FileTypes : sys_open(ty)) \/ (\E fd \in Desc : sys_close(fd))
            \/ (\E t \in Terms : switch_terminal(t))
  BY <1>3, <1>12 DEF sys_open, sys_close, switch_terminal, switch_screen
<1>13. CASE Die
  BY <1>3, <1>13 DEF Die, Dead, At
<1>14. CASE pit_interrupt
  <2> DEFINE u == (sched_term_id + 1) % MAX_TERM_NUM
  <2>1. u \in Terms /\ switch_tasks(u)
    BY <1>14, NextTerminal DEF pit_interrupt, NextTerm, IInv, TypeOK
  <2> HIDE DEF u
  <2>2. /\ u # sched_term_id /\ sched_term_id' = u /\ sched_term_id \in Terms
        /\ saved'[u].pc # "boot"
        /\ saved'[sched_term_id] = Interrupted
        /\ \A t \in Terms \ {u, sched_term_id} : saved'[t] = saved[t]
    BY <2>1 DEF switch_tasks, NoContext, At, IInv, TypeOK
  <2>3. (Interrupted.pc = "boot") <=> (ctx.pc = "boot")
    BY DEF Interrupted, User, At
  <2>4. CASE switch_to_new(u)
    <3>1. StartShell(pcb_status, io_files, procs, u, Interrupted)
      BY <2>4 DEF switch_to_new
    <3>2. /\ (ctx' = Interrupted /\ cur_task'[u] = NULL) \/ ctx'.pc = "user"
          /\ \A t \in Terms \ {u} : cur_task'[t] = cur_task[t]
      BY <2>1, <3>1, ShellOutcome DEF IInv, TypeOK
    <3> QED
      BY <2>1, <2>2, <2>3, <3>2 DEF BootInv
  <2>5. CASE switch_to_old(u)
    BY <2>1, <2>2, <2>3, <2>5 DEF switch_to_old, BootInv
  <2> QED
    BY <2>1, <2>4, <2>5 DEF switch_tasks
<1> QED
  BY <1>1, <1>4, <1>5, <1>6, <1>7, <1>8, <1>9, <1>10, <1>11, <1>12, <1>13, <1>14
     DEF Next, sys_execute, sys_halt, exception

\* entry() is never resumed after the first tick: its saved context belongs to
\* terminal 0, which has no task until switch_tasks starts a shell on it.
THEOREM BootNeverResumed == Spec => BootAbandoned
<1>1. Init => BootInv
  BY SlotFacts, SMTT(60) DEF Init, BootInv, NoContext, At
<1>2. IInv /\ BootInv /\ [Next]_vars => BootInv'
  BY BootStep
<1>3. IInv /\ BootInv /\ [Next]_vars => [ctx.pc # "boot" => ctx'.pc # "boot"]_vars
  BY BootStep
<1> QED
  BY InitIInv, NextKeepsIInv, <1>1, <1>2, <1>3, PTL DEF Spec, BootAbandoned
=============================================================================
