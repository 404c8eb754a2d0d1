------------------------- MODULE ProcessesIsolation -------------------------
(***************************************************************************)
(* Theorems about Processes that hold when some of the hazards stay away:  *)
(* the ownership of PCBs, the truth of the statuses, and the isolation of  *)
(* the processes, for any number of slots, terminals and descriptors.      *)
(***************************************************************************)
EXTENDS ProcessesProofs

-----------------------------------------------------------------------------
(* What the isolation of processes rests on. *)

\* the slots whose bits sys_halt has not cleared yet
Busy == procs \ (IF ctx.pc \in HaltPc THEN {ctx.off} ELSE {})

\* Only the context on the CPU can be inside sys_halt; the bitmap it has loaded is
\* fresh, its own bit goes for good, and cur_pcb follows it.  All other live
\* processes keep their bits.
HaltAlone ==
    /\ \A t \in Terms : saved[t].pc \notin HaltPc
    /\ ctx.pc = "store" => ctx.tmp = pcb_status
    /\ ctx.pc \in {"close", "task", "cur", "leave"} => ctx.off \notin pcb_status
    /\ ctx.pc \in HaltPc =>
          /\ ctx.off \in Slots
          /\ cur_pcb = IF ctx.pc = "leave" THEN parent_task[ctx.off] ELSE ctx.off
    /\ Busy \subseteq pcb_status

\* Where the registers and the globals stand in user code and between the steps
\* of sys_halt, and what the other terminals resume.
Registers ==
    /\ ctx.pc = "user" =>
          /\ cur_pcb \in procs /\ ctx = User(cur_pcb)
          /\ esp0 = cur_pcb /\ prog_page = cur_pcb /\ cur_task[sched_term_id] = cur_pcb
    /\ ctx.pc \in HaltPc =>
          /\ ctx.off \in procs /\ prog_page = HaltPage(ctx.off)
          /\ cur_task[sched_term_id] =
                IF ctx.pc \in {"cur", "leave"} THEN parent_task[ctx.off] ELSE ctx.off
    /\ \A t \in Terms \ {sched_term_id} : cur_task[t] # NULL => saved[t] = User(cur_task[t])

\* The processes of live form one chain on every terminal, from the one without a
\* parent to top[t]; a parent's frame is on its own stack.
Tree(live, top, parent, term, fr) ==
    /\ \A t \in Terms : top[t] # NULL => top[t] \in live /\ term[top[t]] = t
    /\ \A p \in live : p = top[term[p]] \/ \E q \in live : parent[q] = p
    /\ \A p \in live : top[term[p]] # NULL /\ parent[p] # top[term[p]]
    /\ \A p \in live : parent[p] # NULL =>
          parent[p] \in live /\ term[parent[p]] = term[p] /\ fr[parent[p]] = parent[p]
    /\ \A p, q \in live : parent[p] = parent[q] /\ term[p] = term[q] => p = q

\* the process each terminal works for: its task, or the one that is inside
\* sys_halt, which HaltTask may already have replaced as the task
Tops == [t \in Terms |->
            IF t = sched_term_id /\ ctx.pc \in HaltPc THEN ctx.off ELSE cur_task[t]]

Chained == Tree(procs, Tops, parent_task, term_num, frame)

\* After boot the terminals get their shells in turn, from 1 up and 0 last; until
\* all have one there are no other processes.
Filling ==
    \/ /\ ctx.pc \notin {"boot", "dead"}
       /\ \A t \in Terms : Tops[t] # NULL
    \/ /\ ctx.pc \in {"boot", "dead"} /\ sched_term_id = 0 /\ pcb_status = {}
       /\ \A t \in Terms : Tops[t] = NULL
    \/ /\ ctx.pc \notin {"boot", "dead"} /\ sched_term_id > 0 /\ starting_new_shell
       /\ \A t \in Terms : Tops[t] # NULL <=> t \in 1 .. sched_term_id
       /\ \A p \in pcb_status : \E t \in Terms : p = Tops[t]

\* Live processes have their standard files.
OwnFiles == \A p \in Busy : io_files[p][0] = "stdin" /\ io_files[p][1] = "stdout"

Isolated == Registers /\ Chained /\ Filling /\ OwnFiles

-----------------------------------------------------------------------------
(* What starting a process does. *)

\* Slot new is a process on terminal t, and runs.
Launched(new, parent, t) ==
    /\ parent_task' = [parent_task EXCEPT ![new] = parent]
    /\ term_num' = [term_num EXCEPT ![new] = t]
    /\ cur_task' = [cur_task EXCEPT ![t] = new]
    /\ cur_pcb' = new /\ prog_page' = new /\ esp0' = new
    /\ ctx' = User(new)

\* sys_execute launches in a slot that was free.
LEMMA LaunchOutcome ==
    ASSUME NEW status \in SUBSET Slots, our_popcount(status) # MAX_PROCESSES,
           NEW files, NEW live, NEW parent, NEW t, NEW n, find_empty_pcb(status, n),
           Launch(status, files, live, n, parent, t)
    PROVE  /\ n \in Slots \ status
           /\ pcb_status' = status \cup {n} /\ procs' = live \cup {n}
           /\ io_files' = [files EXCEPT ![n] = terminal_open(NoFiles)]
           /\ Launched(n, parent, t)
<1>1. n \in Slots
  BY FreeSlotInRange
<1>2. n \notin status
  BY DEF find_empty_pcb
<1> QED
  BY <1>1, <1>2 DEF Launch, Launched, SetTask, EnterProgram

\* A shell that finds the table full is not started.
LEMMA ShellRefused ==
    ASSUME NEW status, our_popcount(status) = MAX_PROCESSES,
           NEW files, NEW live, NEW t, NEW back,
           StartShell(status, files, live, t, back)
    PROVE  pcb_status' = status /\ procs' = live /\ ctx' = back
BY DEF StartShell

\* Slot n was free, and is now the shell of terminal t.
NewShell(n, status, files, live, t) ==
    /\ n \in Slots \ status
    /\ pcb_status' = status \cup {n} /\ procs' = live \cup {n}
    /\ io_files' = [files EXCEPT ![n] = terminal_open(NoFiles)]
    /\ Launched(n, NULL, t)

\* Otherwise it is.
LEMMA ShellLaunched ==
    ASSUME NEW status \in SUBSET Slots, our_popcount(status) # MAX_PROCESSES,
           NEW files, NEW live, NEW t, NEW back,
           StartShell(status, files, live, t, back)
    PROVE  \E n : NewShell(n, status, files, live, t)
<1>1. PICK n \in 0 .. 31 :
         find_empty_pcb(status, n) /\ Launch(status, files, live, n, NULL, t)
  BY DEF StartShell
<1>2. /\ n \in Slots \ status
      /\ pcb_status' = status \cup {n} /\ procs' = live \cup {n}
      /\ io_files' = [files EXCEPT ![n] = terminal_open(NoFiles)]
      /\ Launched(n, NULL, t)
  BY <1>1, LaunchOutcome
<1> QED
  BY <1>2 DEF NewShell

-----------------------------------------------------------------------------
(* Ownership of the PCBs. *)

LEMMA HaltPcs == /\ "user" \notin HaltPc /\ "boot" \notin HaltPc /\ "dead" \notin HaltPc
                 /\ \A s : User(s).pc = "user" /\ User(s).stk = s
BY DEF HaltPc, User, At

\* A step that stays out of sys_halt and frees no bit of a live process.
LEMMA OutsideHalt ==
    ASSUME HaltAlone, saved' = saved, ctx'.pc \notin HaltPc, procs' \subseteq pcb_status'
    PROVE  HaltAlone'
BY DEF HaltAlone, Busy, HaltPc

LEMMA StartKeepsAlone ==
    ASSUME NEW status \in SUBSET Slots, NEW files, NEW live \in SUBSET status, NEW t, NEW back,
           back.pc \notin HaltPc,
           StartShell(status, files, live, t, back)
    PROVE  ctx'.pc \notin HaltPc /\ procs' \subseteq pcb_status'
<1>1. CASE our_popcount(status) = MAX_PROCESSES
  <2>1. pcb_status' = status /\ procs' = live /\ ctx' = back
    BY <1>1, ShellRefused
  <2> QED
    BY <2>1
<1>2. CASE our_popcount(status) # MAX_PROCESSES
  <2>1. PICK n : NewShell(n, status, files, live, t)
    BY <1>2, ShellLaunched
  <2> QED
    BY <2>1, HaltPcs DEF NewShell, Launched
<1> QED
  BY <1>1, <1>2

LEMMA HaltAloneStep ==
    ASSUME "preempt_halt" \notin Hazards, IInv, HaltAlone, [Next]_vars
    PROVE  HaltAlone'
<1> USE DEF pcbVars, termVars, flagVars, cpuVars, histVars
<1>0. pcb_status \in SUBSET Slots
  BY DEF IInv, PcbBound
<1>1. CASE UNCHANGED vars
  BY <1>1 DEF vars, HaltAlone, Busy
<1>2. CASE sys_execute
  <2>1. ctx.pc = "user" /\ Busy = procs
    BY <1>2, HaltPcs DEF sys_execute, ExecuteRefused, ExecuteNotElf, ExecuteChild,
       ExecuteAsShell, MayExecute, Busy
  <2>2. ctx'.pc \notin HaltPc /\ procs' \subseteq pcb_status' /\ saved' = saved
    <3>1. CASE ExecuteRefused \/ ExecuteNotElf
      BY <2>1, <3>1, HaltPcs DEF ExecuteRefused, ExecuteNotElf, HaltAlone
    <3>2. CASE ExecuteChild
      BY <1>0, <2>1, <3>2, LaunchOutcome, HaltPcs DEF ExecuteChild, HaltAlone, Launched
    <3>3. CASE ExecuteAsShell
      BY <1>0, <2>1, <3>3, LaunchOutcome, HaltPcs DEF ExecuteAsShell, HaltAlone, Launched
    <3> QED
      BY <1>2, <3>1, <3>2, <3>3 DEF sys_execute
  <2> QED
    BY <2>2, OutsideHalt
<1>3. CASE HaltMap
  <2>1. ctx'.pc = "load" /\ ctx'.off = cur_pcb
    BY <1>3 DEF HaltMap, At
  <2> QED
    BY <1>3, <2>1, HaltPcs DEF HaltMap, HaltAlone, Busy, IInv, TypeOK
<1>4. CASE HaltLoad \/ HaltStore \/ HaltClose \/ HaltTask \/ HaltCur
  <2>1. ctx.off' = ctx.off /\ ctx \in Context
    BY <1>4 DEF HaltLoad, HaltStore, HaltClose, HaltTask, HaltCur, IInv, TypeOK, Context
  <2>2. CASE HaltLoad
    BY <2>1, <2>2 DEF HaltLoad, HaltAlone, Busy, HaltPc, Context
  <2>3. CASE HaltStore
    BY <2>1, <2>3 DEF HaltStore, HaltAlone, Busy, HaltPc, Context
  <2>4. CASE HaltClose \/ HaltTask
    BY <2>1, <2>4 DEF HaltClose, HaltTask, HaltAlone, Busy, HaltPc, Context
  <2>5. CASE HaltCur
    BY <2>1, <2>5 DEF HaltCur, HaltAlone, Busy, HaltPc, Context
  <2> QED
    BY <1>4, <2>2, <2>3, <2>4, <2>5
<1>5. CASE HaltToParent
  BY <1>5, OutsideHalt, HaltPcs DEF HaltToParent, HaltAlone, Busy, HaltPc
<1>6. CASE HaltRestart
  <2>1. procs \ {ctx.off} \in SUBSET pcb_status
    BY <1>6 DEF HaltRestart, HaltAlone, Busy, HaltPc
  <2> QED
    BY <1>0, <1>6, <2>1, StartKeepsAlone, OutsideHalt, HaltPcs DEF HaltRestart
<1>7. CASE exception
  <2>1. ctx.pc = "user" /\ Busy = procs
    BY <1>7, HaltPcs DEF exception, ExceptionToParent, ExceptionRestart, Busy
  <2>2. CASE ExceptionToParent
    BY <2>1, <2>2, OutsideHalt, HaltPcs DEF ExceptionToParent, HaltAlone
  <2>3. CASE ExceptionRestart
    <3>1. procs \ {cur_pcb} \in SUBSET (pcb_status \ {cur_pcb})
      BY <2>1 DEF HaltAlone
    <3> QED
      BY <1>0, <2>3, <3>1, StartKeepsAlone, OutsideHalt, HaltPcs DEF ExceptionRestart
  <2> QED
    BY <1>7, <2>2, <2>3 DEF exception
<1>8. CASE (\E ty \in FileTypes : sys_open(ty)) \/ (\E fd \in Desc : sys_close(fd))
           \/ (\E t \in Terms : switch_terminal(t))
  BY <1>8 DEF sys_open, sys_close, switch_terminal, HaltAlone, Busy
<1>9. CASE pit_interrupt
  <2>1. ctx.pc \in {"boot", "user"} /\ ctx.pc \notin HaltPc /\ procs \in SUBSET pcb_status
    BY <1>9, HaltPcs DEF pit_interrupt, HaltAlone, Busy
  <2>2. Interrupted.pc \notin HaltPc /\ NoContext.pc \notin HaltPc
    BY <2>1, HaltPcs DEF Interrupted, NoContext, At
  <2> DEFINE u == NextTerm
  <2>3. u \in Terms /\ switch_tasks(u)
    BY <1>9, NextTerminal DEF pit_interrupt, NextTerm, IInv, TypeOK
  <2> HIDE DEF u
  <2>4. \A t \in Terms : saved'[t].pc \notin HaltPc
    BY <2>2, <2>3 DEF switch_tasks, HaltAlone, IInv, TypeOK
  <2>5. ctx'.pc \notin HaltPc /\ procs' \subseteq pcb_status'
    <3>1. CASE switch_to_new(u)
      BY <1>0, <2>1, <2>2, <3>1, StartKeepsAlone DEF switch_to_new
    <3>2. CASE switch_to_old(u)
      BY <2>1, <2>3, <3>2 DEF switch_to_old, HaltAlone
    <3> QED
      BY <2>3, <3>1, <3>2 DEF switch_tasks
  <2> QED
    BY <2>4, <2>5 DEF HaltAlone, Busy, HaltPc
<1>10. CASE Die
  <2>1. ctx.pc \notin HaltPc
    <3> SUFFICES ASSUME ctx.pc \in HaltPc PROVE FALSE
      OBVIOUS
    <3>1. ctx.off \in Slots /\ NULL \notin Slots
      BY SlotFacts DEF HaltAlone
    <3>2. CASE ctx.pc # "leave"
      BY <1>10, <3>1, <3>2, HaltPcs DEF Die, NullAccess, HaltAlone
    <3>3. CASE ctx.pc = "leave"
      BY <1>10, <3>1, <3>3 DEF Die, NullAccess, HaltAlone, IInv, FrameStored
    <3> QED
      BY <3>2, <3>3
  <2> QED
    BY <1>10, <2>1, OutsideHalt, HaltPcs DEF Die, Dead, At, HaltAlone, Busy
<1> QED
  BY <1>1, <1>2, <1>3, <1>4, <1>5, <1>6, <1>7, <1>8, <1>9, <1>10 DEF Next, sys_halt

LEMMA InitAlone == Init => HaltAlone
BY HaltPcs, SlotFacts DEF Init, HaltAlone, Busy, NoContext, At, HaltPc

\* As long as no tick lands inside sys_halt, and whatever else goes wrong, every
\* live process keeps its bit in the bitmap, and a slot whose bit sys_halt has
\* cleared goes to nobody else until the halt is over.
THEOREM PcbOwned == ASSUME "preempt_halt" \notin Hazards PROVE Spec => []OwnPcb
<1>1. Init => HaltAlone
  BY InitAlone
<1>2. IInv /\ HaltAlone /\ [Next]_vars => HaltAlone'
  BY HaltAloneStep
<1>3. IInv /\ HaltAlone => OwnPcb
  <2> SUFFICES ASSUME IInv, HaltAlone PROVE OwnPcb
    OBVIOUS
  <2>1. \A c \in Contexts : c.pc \in HaltPc => c = ctx
    BY DEF Contexts, Suspended, HaltAlone
  <2>2. procs \ Ending \subseteq Busy
    BY DEF Ending, Contexts, Busy
  <2> QED
    BY <2>1, <2>2 DEF OwnPcb, HaltAlone, HaltPc
<1> QED
  BY InitIInv, NextKeepsIInv, <1>1, <1>2, <1>3, PTL DEF Spec

-----------------------------------------------------------------------------
(* The statuses. *)

\* Nobody but a faulting shell leaves except_raised set.
Quiet == except_raised = FALSE /\ StatusTruthful

LEMMA QuietStep ==
    ASSUME "shell_fault" \notin Hazards, Quiet, [Next]_vars
    PROVE  Quiet'
<1> USE DEF Quiet, StatusTruthful, pcbVars, termVars, flagVars, cpuVars, histVars
<1>1. CASE UNCHANGED vars
  BY <1>1 DEF vars
<1>2. CASE sys_execute
  BY <1>2 DEF sys_execute, ExecuteRefused, ExecuteNotElf, ExecuteChild, ExecuteAsShell
<1>3. CASE HaltMap \/ sys_halt
  BY <1>3 DEF HaltMap, sys_halt, HaltLoad, HaltStore, HaltClose, HaltTask, HaltCur,
     HaltToParent, HaltRestart, we_are_done
<1>4. CASE exception
  BY <1>4 DEF exception, ExceptionToParent, ExceptionRestart, we_are_done
<1>5. CASE (\E ty \in FileTypes : sys_open(ty)) \/ (\E fd \in Desc : sys_close(fd))
           \/ (\E t \in Terms : switch_terminal(t)) \/ Die
  BY <1>5 DEF sys_open, sys_close, switch_terminal, Die
<1>6. CASE pit_interrupt
  BY <1>6 DEF pit_interrupt, switch_tasks
<1> QED
  BY <1>1, <1>2, <1>3, <1>4, <1>5, <1>6 DEF Next

\* As long as no shell faults, and whatever the timing, sys_execute returns 256
\* exactly when the child died by an exception: except_raised never outlives the
\* return it was set for.
THEOREM StatusesTruthful == ASSUME "shell_fault" \notin Hazards PROVE Spec => []StatusTruthful
<1>1. Init => Quiet
  BY DEF Init, Quiet, StatusTruthful
<1>2. Quiet /\ [Next]_vars => Quiet'
  BY QuietStep
<1>3. Quiet => StatusTruthful
  BY DEF Quiet
<1> QED
  BY <1>1, <1>2, <1>3, PTL DEF Spec

-----------------------------------------------------------------------------
(* How the trees grow and shrink. *)

\* A job that starts another one becomes its parent, and waits.
LEMMA TreeGrows ==
    ASSUME NEW live \in SUBSET Slots, NEW top \in [Terms -> Slots \cup {NULL}],
           NEW parent \in [Slots -> Slots \cup {NULL}], NEW term \in [Slots -> Terms],
           NEW fr \in [Slots -> Slots \cup {NULL}],
           Tree(live, top, parent, term, fr),
           NEW t \in Terms, top[t] # NULL, NEW n \in Slots \ live
    PROVE  Tree(live \cup {n}, [top EXCEPT ![t] = n], [parent EXCEPT ![n] = top[t]],
                [term EXCEPT ![n] = t], [fr EXCEPT ![top[t]] = top[t]])
<1> DEFINE live2 == live \cup {n}
           top2 == [top EXCEPT ![t] = n]
           parent2 == [parent EXCEPT ![n] = top[t]]
           term2 == [term EXCEPT ![n] = t]
           fr2 == [fr EXCEPT ![top[t]] = top[t]]
<1>1. /\ top[t] \in live /\ top[t] \in Slots /\ term[top[t]] = t /\ n # top[t]
      /\ n # NULL /\ \A p \in live : p # n /\ p \in Slots
  BY SlotFacts DEF Tree
<1>2. /\ top2[t] = n /\ \A u \in Terms \ {t} : top2[u] = top[u]
      /\ parent2[n] = top[t] /\ \A p \in live : parent2[p] = parent[p]
      /\ term2[n] = t /\ \A p \in live : term2[p] = term[p] /\ term[p] \in Terms
      /\ fr2[top[t]] = top[t] /\ \A p \in live : p # top[t] => fr2[p] = fr[p]
  BY <1>1
<1> HIDE DEF top2, parent2, term2, fr2
<1>3. \A u \in Terms : top2[u] # NULL => top2[u] \in live2 /\ term2[top2[u]] = u
  BY <1>1, <1>2 DEF Tree
<1>4. \A p \in live2 : p = top2[term2[p]] \/ \E q \in live2 : parent2[q] = p
  BY <1>1, <1>2 DEF Tree
<1>5. \A p \in live2 : top2[term2[p]] # NULL /\ parent2[p] # top2[term2[p]]
  BY <1>1, <1>2 DEF Tree
<1>6. \A p \in live2 : parent2[p] # NULL =>
         parent2[p] \in live2 /\ term2[parent2[p]] = term2[p] /\ fr2[parent2[p]] = parent2[p]
  BY <1>1, <1>2 DEF Tree
<1>7. \A p, q \in live2 : parent2[p] = parent2[q] /\ term2[p] = term2[q] => p = q
  BY <1>1, <1>2 DEF Tree
<1>8. Tree(live2, top2, parent2, term2, fr2)
  BY <1>3, <1>4, <1>5, <1>6, <1>7 DEF Tree
<1> QED
  BY <1>8 DEF top2, parent2, term2, fr2

\* A terminal without a job gets a shell, a job without a parent.
LEMMA TreeStarts ==
    ASSUME NEW live \in SUBSET Slots, NEW top \in [Terms -> Slots \cup {NULL}],
           NEW parent \in [Slots -> Slots \cup {NULL}], NEW term \in [Slots -> Terms],
           NEW fr, Tree(live, top, parent, term, fr),
           NEW t \in Terms, top[t] = NULL, NEW n \in Slots \ live
    PROVE  Tree(live \cup {n}, [top EXCEPT ![t] = n], [parent EXCEPT ![n] = NULL],
                [term EXCEPT ![n] = t], fr)
<1> DEFINE live2 == live \cup {n}
           top2 == [top EXCEPT ![t] = n]
           parent2 == [parent EXCEPT ![n] = NULL]
           term2 == [term EXCEPT ![n] = t]
<1>1. n # NULL /\ \A p \in live : p # n /\ p \in Slots /\ term[p] # t
  BY SlotFacts DEF Tree
<1>2. /\ top2[t] = n /\ \A u \in Terms \ {t} : top2[u] = top[u]
      /\ parent2[n] = NULL /\ \A p \in live : parent2[p] = parent[p]
      /\ term2[n] = t /\ \A p \in live : term2[p] = term[p] /\ term[p] \in Terms
  BY <1>1
<1> HIDE DEF top2, parent2, term2
<1>3. \A u \in Terms : top2[u] # NULL => top2[u] \in live2 /\ term2[top2[u]] = u
  BY <1>1, <1>2 DEF Tree
<1>4. \A p \in live2 : p = top2[term2[p]] \/ \E q \in live2 : parent2[q] = p
  BY <1>1, <1>2 DEF Tree
<1>5. \A p \in live2 : top2[term2[p]] # NULL /\ parent2[p] # top2[term2[p]]
  BY <1>1, <1>2 DEF Tree
<1>6. \A p \in live2 : parent2[p] # NULL =>
         parent2[p] \in live2 /\ term2[parent2[p]] = term2[p] /\ fr[parent2[p]] = parent2[p]
  BY <1>1, <1>2 DEF Tree
<1>7. \A p, q \in live2 : parent2[p] = parent2[q] /\ term2[p] = term2[q] => p = q
  BY <1>1, <1>2, SMTT(60) DEF Tree
<1>8. Tree(live2, top2, parent2, term2, fr)
  BY <1>3, <1>4, <1>5, <1>6, <1>7 DEF Tree
<1> QED
  BY <1>8 DEF top2, parent2, term2

\* A shell that ends is replaced.
LEMMA TreeRestarts ==
    ASSUME NEW live \in SUBSET Slots, NEW top \in [Terms -> Slots \cup {NULL}],
           NEW parent \in [Slots -> Slots \cup {NULL}], NEW term \in [Slots -> Terms],
           NEW fr, Tree(live, top, parent, term, fr),
           NEW t \in Terms, top[t] # NULL, parent[top[t]] = NULL,
           NEW n \in Slots \ (live \ {top[t]})
    PROVE  Tree((live \ {top[t]}) \cup {n}, [top EXCEPT ![t] = n],
                [parent EXCEPT ![n] = NULL], [term EXCEPT ![n] = t], fr)
<1> DEFINE rest == live \ {top[t]}
           live2 == rest \cup {n}
           top2 == [top EXCEPT ![t] = n]
           parent2 == [parent EXCEPT ![n] = NULL]
           term2 == [term EXCEPT ![n] = t]
<1>1. /\ top[t] \in live /\ term[top[t]] = t /\ n # NULL
      /\ \A p \in rest : p # n /\ p \in Slots /\ p \in live /\ p # NULL
  BY SlotFacts DEF Tree
<1>2. /\ top2[t] = n /\ \A u \in Terms \ {t} : top2[u] = top[u]
      /\ parent2[n] = NULL /\ \A p \in rest : parent2[p] = parent[p]
      /\ term2[n] = t /\ \A p \in rest : term2[p] = term[p] /\ term[p] \in Terms
  BY <1>1
<1>a. \A p \in rest : parent[p] # NULL => parent[p] \in rest
  BY <1>1 DEF Tree
<1>b. \A u \in Terms \ {t} : top[u] # NULL => top[u] \in rest
  BY <1>1 DEF Tree
<1>c. \A p \in rest : p = top[term[p]] \/ \E q \in rest : parent[q] = p
  BY <1>1 DEF Tree
<1> HIDE DEF top2, parent2, term2, rest
<1>3. \A u \in Terms : top2[u] # NULL => top2[u] \in live2 /\ term2[top2[u]] = u
  BY <1>1, <1>2, <1>b DEF Tree
<1>4. \A p \in live2 : p = top2[term2[p]] \/ \E q \in live2 : parent2[q] = p
  <2> SUFFICES ASSUME NEW p \in rest
               PROVE  p = top2[term2[p]] \/ \E q \in live2 : parent2[q] = p
    BY <1>2
  <2>1. CASE \E q \in rest : parent[q] = p
    BY <1>2, <2>1
  <2>2. CASE p = top[term[p]] /\ term[p] # t
    BY <1>2, <2>2
  <2>3. p # top[t]
    BY DEF rest
  <2> QED
    BY <1>c, <2>1, <2>2, <2>3
<1>5. \A p \in live2 : top2[term2[p]] # NULL /\ parent2[p] # top2[term2[p]]
  <2>1. \A p \in rest : top[term[p]] # NULL /\ parent[p] # top[term[p]] /\ parent[p] # n
    BY <1>1, <1>a DEF Tree
  <2> QED
    BY <1>1, <1>2, <2>1
<1>6. \A p \in live2 : parent2[p] # NULL =>
         parent2[p] \in live2 /\ term2[parent2[p]] = term2[p] /\ fr[parent2[p]] = parent2[p]
  BY <1>1, <1>2, <1>a, SMTT(60) DEF Tree
<1>7. \A p, q \in live2 : parent2[p] = parent2[q] /\ term2[p] = term2[q] => p = q
  <2>1. \A p \in rest : term[p] = t => parent[p] # NULL
    BY <1>1, SMTT(60) DEF Tree, rest
  <2> QED
    BY <1>1, <1>2, <2>1, SMTT(60) DEF Tree
<1>8. Tree(live2, top2, parent2, term2, fr)
  BY <1>3, <1>4, <1>5, <1>6, <1>7 DEF Tree
<1> QED
  BY <1>8 DEF top2, parent2, term2, rest

\* A job that ends gives way to its parent.
LEMMA TreeShrinks ==
    ASSUME NEW live \in SUBSET Slots, NEW top \in [Terms -> Slots \cup {NULL}],
           NEW parent \in [Slots -> Slots \cup {NULL}], NEW term \in [Slots -> Terms],
           NEW fr, Tree(live, top, parent, term, fr),
           NEW t \in Terms, top[t] # NULL, parent[top[t]] # NULL
    PROVE  Tree(live \ {top[t]}, [top EXCEPT ![t] = parent[top[t]]], parent, term, fr)
<1> DEFINE p0 == top[t]
           rest == live \ {p0}
           top2 == [top EXCEPT ![t] = parent[p0]]
<1>1. /\ p0 \in live /\ term[p0] = t /\ parent[p0] \in rest /\ term[parent[p0]] = t
      /\ \A p \in rest : p \in Slots /\ p \in live /\ p # NULL /\ term[p] \in Terms
  BY SlotFacts DEF Tree
<1>2. top2[t] = parent[p0] /\ \A u \in Terms \ {t} : top2[u] = top[u]
  BY <1>1
<1>a. \A p \in rest : parent[p] # NULL => parent[p] \in rest
  BY <1>1 DEF Tree
<1>b. \A u \in Terms \ {t} : top[u] # NULL => top[u] \in rest
  BY <1>1 DEF Tree
<1>c. \A p \in rest : p = top[term[p]] \/ p = parent[p0] \/ \E q \in rest : parent[q] = p
  BY <1>1 DEF Tree
<1>d. \A p \in rest : term[p] = t => parent[p] # parent[p0]
  BY <1>1 DEF Tree
<1> HIDE DEF top2, rest
<1>3. \A u \in Terms : top2[u] # NULL => top2[u] \in rest /\ term[top2[u]] = u
  BY <1>1, <1>2, <1>b DEF Tree
<1>4. \A p \in rest : p = top2[term[p]] \/ \E q \in rest : parent[q] = p
  <2>1. \A p \in rest : p # p0
    BY DEF rest
  <2> QED
    BY <1>1, <1>2, <1>c, <2>1
<1>5. \A p \in rest : top2[term[p]] # NULL /\ parent[p] # top2[term[p]]
  BY <1>1, <1>2, <1>d DEF Tree
<1>6. \A p \in rest : parent[p] # NULL =>
         parent[p] \in rest /\ term[parent[p]] = term[p] /\ fr[parent[p]] = parent[p]
  BY <1>1, <1>a DEF Tree
<1>7. \A p, q \in rest : parent[p] = parent[q] /\ term[p] = term[q] => p = q
  BY <1>1 DEF Tree
<1>8. Tree(rest, top2, parent, term, fr)
  BY <1>3, <1>4, <1>5, <1>6, <1>7 DEF Tree
<1> QED
  BY <1>8 DEF top2, rest
-----------------------------------------------------------------------------
(* Room in the table. *)

\* A table with a clear bit is not full.
LEMMA RoomLeft ==
    ASSUME NEW status \in SUBSET Slots, NEW p \in Slots \ status
    PROVE  our_popcount(status) # MAX_PROCESSES
<1>1. IsFiniteSet(Slots) /\ Cardinality(Slots) = MAX_PROCESSES
  BY FS_Interval, ProcessesAssumption DEF Slots
<1>2. Cardinality(status) < Cardinality(Slots)
  BY <1>1, FS_Subset, FS_CardinalityType
<1> QED
  BY <1>1, <1>2, FS_CardinalityType DEF our_popcount

\* Nor is one in which no two bits belong to one terminal, and one terminal has none.
LEMMA RoomForShell ==
    ASSUME NEW status \in SUBSET Slots, NEW top, NEW t \in Terms,
           \A p \in status : \E u \in Terms \ {t} : p = top[u]
    PROVE  our_popcount(status) # MAX_PROCESSES
<1> DEFINE owner == [p \in status |-> CHOOSE u \in Terms \ {t} : p = top[u]]
<1>1. IsFiniteSet(Terms) /\ Cardinality(Terms) = MAX_TERM_NUM
  BY FS_Interval, ProcessesAssumption DEF Terms
<1>2. IsFiniteSet(Terms \ {t}) /\ Cardinality(Terms \ {t}) < MAX_TERM_NUM
  <2>1. Terms \ {t} \in SUBSET Terms /\ Terms \ {t} # Terms
    OBVIOUS
  <2> QED
    BY <1>1, <2>1, FS_Subset, FS_CardinalityType
<1>3. IsFiniteSet(Slots)
  BY FS_Interval, ProcessesAssumption DEF Slots
<1>4. IsFiniteSet(status)
  BY <1>3, FS_Subset
<1>5. \A p \in status : owner[p] \in Terms \ {t} /\ p = top[owner[p]]
  OBVIOUS
<1>6. owner \in [status -> Terms \ {t}]
  BY <1>5
<1>7. \A p, q \in status : owner[p] = owner[q] => p = q
  BY <1>5
<1> HIDE DEF owner
<1>8. ~(Cardinality(status) > Cardinality(Terms \ {t}))
  BY <1>2, <1>4, <1>6, <1>7, FS_PigeonHole
<1> QED
  BY <1>2, <1>4, <1>8, FS_CardinalityType, ProcessesAssumption DEF our_popcount

-----------------------------------------------------------------------------
(* The isolation of processes, action by action. *)

\* The hazards that break it.
Calm == {"early_exec", "background_exec", "preempt_halt"} \cap Hazards = {}

\* What every step starts from.
Settled == IInv /\ HaltAlone /\ Isolated

LEMMA TopsType == ASSUME Settled PROVE Tops \in [Terms -> Slots \cup {NULL}]
BY DEF Settled, IInv, TypeOK, HaltAlone, Tops

\* What the other terminals resume, the chains and the files, one by one.
LEMMA SettledParts ==
    ASSUME Settled
    PROVE  /\ \A t \in Terms \ {sched_term_id} : cur_task[t] # NULL => saved[t] = User(cur_task[t])
           /\ Tree(procs, Tops, parent_task, term_num, frame)
           /\ \A p \in Busy : io_files[p][0] = "stdin" /\ io_files[p][1] = "stdout"
BY Zenon DEF Settled, Isolated, Registers, Chained, OwnFiles

\* Outside sys_halt the terminals work for their tasks.
LEMMA TopsOutside ==
    ASSUME Settled
    PROVE  /\ ctx.pc \notin HaltPc => Tops = cur_task /\ Busy = procs
           /\ \A t \in Terms \ {sched_term_id} : Tops[t] = cur_task[t]
           /\ ctx.pc \in HaltPc => Tops[sched_term_id] = ctx.off /\ Busy = procs \ {ctx.off}
BY DEF Settled, IInv, TypeOK, Tops, Busy

\* A new process runs as itself.
LEMMA LaunchedRegisters ==
    ASSUME Settled, NEW n \in Slots, NEW parent, Launched(n, parent, sched_term_id'),
           n \in procs', sched_term_id' \in Terms,
           \A t \in Terms \ {sched_term_id'} : cur_task[t] # NULL => saved'[t] = User(cur_task[t])
    PROVE  /\ Registers' /\ Tops' = [cur_task EXCEPT ![sched_term_id'] = n]
           /\ Busy' = procs' /\ ctx'.pc = "user"
<1>1. ctx'.pc = "user" /\ ctx'.pc \notin HaltPc
  BY HaltPcs DEF Launched
<1>2. /\ cur_task' = [cur_task EXCEPT ![sched_term_id'] = n]
      /\ cur_task' \in [Terms -> Slots \cup {NULL}]
      /\ cur_task'[sched_term_id'] = n
      /\ \A t \in Terms \ {sched_term_id'} : cur_task'[t] = cur_task[t]
  BY DEF Launched, Settled, IInv, TypeOK
<1>3. Tops' = cur_task'
  BY <1>1, <1>2 DEF Tops
<1> QED
  BY <1>1, <1>2, <1>3 DEF Registers, Launched, Busy

\* And it has its standard files.
LEMMA StandardFiles ==
    /\ terminal_open(NoFiles)[0] = "stdin" /\ terminal_open(NoFiles)[1] = "stdout"
<1>1. 0 \in Desc /\ 1 \in Desc /\ \A fd \in Desc : 0 <= fd /\ fd \in Int
  BY ProcessesAssumption DEF Desc
<1> DEFINE one == open_file_desc(NoFiles, "stdin")
<1>2. one[0] = "stdin" /\ \A fd \in Desc \ {0} : one[fd] = "empty"
  BY <1>1 DEF open_file_desc, NoFiles
<1> HIDE DEF one
<1>3. \A fd \in Desc \ {0} : 1 <= fd
  BY DEF Desc
<1>4. open_file_desc(one, "stdout")[0] = "stdin"
  BY <1>1, <1>2 DEF open_file_desc
<1>5. open_file_desc(one, "stdout")[1] = "stdout"
  BY <1>1, <1>2, <1>3 DEF open_file_desc
<1> QED
  BY <1>4, <1>5 DEF terminal_open, one

\* Slot n has just been given to a process, and every other live one keeps its files.
LEMMA LaunchedFiles ==
    ASSUME NEW files \in [Slots -> [Desc -> Ops]], NEW n \in Slots, NEW live \in SUBSET Slots,
           \A p \in live : files[p][0] = "stdin" /\ files[p][1] = "stdout",
           io_files' = [files EXCEPT ![n] = terminal_open(NoFiles)],
           Busy' = live \cup {n}
    PROVE  OwnFiles'
BY StandardFiles DEF OwnFiles

LEMMA QuietKeepsIsolated ==
    ASSUME Calm, Settled,
           \/ UNCHANGED vars \/ ExecuteRefused \/ ExecuteNotElf
           \/ (\E ty \in FileTypes : sys_open(ty)) \/ (\E fd \in Desc : sys_close(fd))
           \/ (\E t \in Terms : switch_terminal(t))
    PROVE  Isolated'
<1> USE DEF pcbVars, termVars, flagVars, cpuVars, histVars
<1>1. /\ procs' = procs /\ parent_task' = parent_task /\ term_num' = term_num /\ frame' = frame
      /\ cur_task' = cur_task /\ saved' = saved /\ sched_term_id' = sched_term_id
      /\ starting_new_shell' = starting_new_shell /\ prog_page' = prog_page
      /\ esp0' = esp0 /\ ctx' = ctx /\ cur_pcb' = cur_pcb
  BY DEF vars, ExecuteRefused, ExecuteNotElf, sys_open, sys_close, switch_terminal
<1>2. Tops' = Tops /\ Busy' = Busy
  BY <1>1 DEF Tops, Busy
<1>3. Registers' /\ Chained'
  BY <1>1, <1>2 DEF Settled, Isolated, Registers, HaltPage, Chained
<1>4. Filling'
  <2>1. CASE pcb_status' = pcb_status
    BY <1>1, <1>2, <2>1 DEF Settled, Isolated, Filling
  <2>2. CASE ExecuteNotElf
    BY <1>1, <1>2, <2>2 DEF Settled, Isolated, Filling, ExecuteNotElf, MayExecute, Calm
  <2> QED
    BY <2>1, <2>2 DEF vars, ExecuteRefused, sys_open, sys_close, switch_terminal
<1>5. io_files \in [Slots -> [Desc -> Ops]] /\ Busy \in SUBSET Slots
      /\ Busy \subseteq pcb_status /\ pcb_status \in SUBSET Slots
  BY DEF Settled, IInv, TypeOK, PcbBound, HaltAlone
<1>6. OwnFiles'
  <2>1. CASE io_files' = io_files
    BY <1>2, <2>1 DEF Settled, Isolated, OwnFiles
  <2>2. CASE ExecuteNotElf
    <3>1. PICK new : find_empty_pcb(pcb_status, new)
                     /\ io_files' = [io_files EXCEPT ![new] = NoFiles]
      BY <2>2 DEF ExecuteNotElf
    <3>2. new \notin Busy
      BY <1>5, <3>1 DEF find_empty_pcb
    <3> QED
      BY <1>2, <1>5, <3>1, <3>2 DEF Settled, Isolated, OwnFiles
  <2>3. ASSUME NEW ty \in FileTypes, sys_open(ty) PROVE OwnFiles'
    <3>1. io_files' = [io_files EXCEPT ![cur_pcb] = open_file_desc(io_files[cur_pcb], ty)]
      BY <2>3 DEF sys_open
    <3>2. 0 \in Desc /\ 1 \in Desc
      BY ProcessesAssumption DEF Desc
    <3>3. \A fds, fd : fd \in Desc /\ fds[fd] # "empty" => open_file_desc(fds, ty)[fd] = fds[fd]
      BY DEF open_file_desc
    <3>4. \A p \in Busy : io_files'[p] = IF p = cur_pcb THEN open_file_desc(io_files[p], ty)
                                                         ELSE io_files[p]
      BY <1>5, <3>1
    <3> QED
      <4> SUFFICES ASSUME NEW p \in Busy PROVE io_files'[p][0] = "stdin" /\ io_files'[p][1] = "stdout"
        BY <1>2, Zenon DEF OwnFiles
      <4>1. io_files[p][0] = "stdin" /\ io_files[p][1] = "stdout"
        BY SettledParts
      <4>2. /\ open_file_desc(io_files[p], ty)[0] = io_files[p][0]
            /\ open_file_desc(io_files[p], ty)[1] = io_files[p][1]
        BY <3>2, <3>3, <4>1
      <4> QED
        BY <3>4, <4>1, <4>2
  <2>4. ASSUME NEW fd \in Desc, sys_close(fd) PROVE OwnFiles'
    <3>1. io_files' = [io_files EXCEPT ![cur_pcb][fd] = "empty"] /\ fd >= 2 /\ fd \in Int
      BY <2>4 DEF sys_close, Desc
    <3>2. 0 \in Desc /\ 1 \in Desc /\ fd # 0 /\ fd # 1
      BY <3>1, ProcessesAssumption DEF Desc
    <3>3. \A p \in Busy : io_files'[p][0] = io_files[p][0] /\ io_files'[p][1] = io_files[p][1]
      BY <1>5, <3>1, <3>2
    <3> QED
      BY <1>2, <3>3 DEF Settled, Isolated, OwnFiles
  <2> QED
    BY <2>1, <2>2, <2>3, <2>4 DEF vars, ExecuteRefused, switch_terminal
<1> QED
  BY <1>3, <1>4, <1>6 DEF Isolated
\* sys_execute by the task of the visible terminal, which is then the running one.
LEMMA ChildKeepsIsolated ==
    ASSUME Calm, Settled, ExecuteChild
    PROVE  Isolated'
<1> DEFINE t == sched_term_id
<1>1. /\ ctx.pc = "user" /\ ctx.pc \notin HaltPc /\ vis_term_id = t /\ ~starting_new_shell
      /\ our_popcount(pcb_status) # MAX_PROCESSES /\ t \in Terms
  BY HaltPcs DEF ExecuteChild, MayExecute, Calm, Settled, IInv, TypeOK
<1>2. cur_task[t] = cur_pcb /\ esp0 = cur_pcb /\ cur_pcb \in Slots
  BY <1>1 DEF Settled, Isolated, Registers, IInv, TypeOK
<1>3. pcb_status \in SUBSET Slots /\ procs \in SUBSET pcb_status /\ procs \in SUBSET Slots
  BY <1>1, HaltPcs DEF Settled, IInv, PcbBound, TypeOK, HaltAlone, Busy
<1>4. PICK n : find_empty_pcb(pcb_status, n)
               /\ Launch(pcb_status, io_files, procs, n, cur_pcb, t)
  BY <1>1, <1>2 DEF ExecuteChild
<1>5. /\ n \in Slots \ pcb_status /\ pcb_status' = pcb_status \cup {n} /\ procs' = procs \cup {n}
      /\ io_files' = [io_files EXCEPT ![n] = terminal_open(NoFiles)]
      /\ Launched(n, cur_pcb, t)
  BY <1>1, <1>3, <1>4, LaunchOutcome
<1>6. /\ frame' = [frame EXCEPT ![cur_pcb] = cur_pcb] /\ saved' = saved
      /\ sched_term_id' = t /\ starting_new_shell' = starting_new_shell
  BY <1>1, <1>2 DEF ExecuteChild, flagVars
<1>7. Tops = cur_task /\ Busy = procs
  BY <1>1, TopsOutside
<1>8. Registers' /\ Tops' = [cur_task EXCEPT ![t] = n] /\ Busy' = procs' /\ ctx'.pc = "user"
  <2>1. \A u \in Terms \ {t} : cur_task[u] # NULL => saved'[u] = User(cur_task[u])
    BY <1>6 DEF Settled, Isolated, Registers
  <2> QED
    BY <1>1, <1>5, <1>6, <2>1, LaunchedRegisters
<1>9. Chained'
  <2>1. Tree(procs, cur_task, parent_task, term_num, frame)
    BY <1>7 DEF Settled, Isolated, Chained
  <2>2. /\ cur_task \in [Terms -> Slots \cup {NULL}] /\ term_num \in [Slots -> Terms]
        /\ parent_task \in [Slots -> Slots \cup {NULL}] /\ frame \in [Slots -> Slots \cup {NULL}]
        /\ cur_task[t] # NULL /\ n \in Slots \ procs
    BY <1>2, <1>3, <1>5, SlotFacts DEF Settled, IInv, TypeOK
  <2>3. Tree(procs \cup {n}, [cur_task EXCEPT ![t] = n], [parent_task EXCEPT ![n] = cur_task[t]],
             [term_num EXCEPT ![n] = t], [frame EXCEPT ![cur_task[t]] = cur_task[t]])
    BY <1>1, <1>3, <2>1, <2>2, TreeGrows
  <2> QED
    BY <1>2, <1>5, <1>6, <1>8, <2>3 DEF Chained, Launched
<1>10. Filling'
  <2>1. \A u \in Terms : Tops[u] # NULL
    BY <1>1 DEF Settled, Isolated, Filling
  <2>2. \A u \in Terms : Tops'[u] # NULL
    BY <1>5, <1>7, <1>8, <2>1, SlotFacts DEF Settled, IInv, TypeOK
  <2> QED
    BY <1>8, <2>2 DEF Filling
<1>11. OwnFiles'
  BY <1>3, <1>5, <1>7, <1>8, LaunchedFiles DEF Settled, Isolated, OwnFiles, IInv, TypeOK
<1> QED
  BY <1>8, <1>9, <1>10, <1>11 DEF Isolated

\* sys_halt up to the point where it leaves.
LEMMA HaltingKeepsIsolated ==
    ASSUME Calm, Settled, HaltMap \/ HaltLoad \/ HaltStore \/ HaltClose \/ HaltTask \/ HaltCur
    PROVE  Isolated'
<1> USE DEF pcbVars, termVars, flagVars, cpuVars, histVars
<1> DEFINE t == sched_term_id
           off == IF ctx.pc = "user" THEN cur_pcb ELSE ctx.off
<1>1. /\ procs' = procs /\ parent_task' = parent_task /\ term_num' = term_num /\ frame' = frame
      /\ saved' = saved /\ sched_term_id' = t /\ starting_new_shell' = starting_new_shell
  BY DEF HaltMap, HaltLoad, HaltStore, HaltClose, HaltTask, HaltCur
<1>2. /\ ctx \in Context /\ cur_task \in [Terms -> Slots \cup {NULL}] /\ t \in Terms
      /\ parent_task \in [Slots -> Slots \cup {NULL}] /\ io_files \in [Slots -> [Desc -> Ops]]
  BY DEF Settled, IInv, TypeOK
<1>3. ctx.pc \in {"user", "load", "store", "close", "task", "cur"} /\ ctx.pc # "leave"
  BY DEF HaltMap, HaltLoad, HaltStore, HaltClose, HaltTask, HaltCur
<1>4. ctx'.pc \in HaltPc /\ ctx'.off = off
  BY <1>2 DEF HaltMap, HaltLoad, HaltStore, HaltClose, HaltTask, HaltCur, Context, At, HaltPc
<1>5. off \in procs /\ off \in Slots /\ off = cur_pcb
  BY <1>2, <1>3, HaltPcs DEF HaltPc, Settled, Isolated, Registers, HaltAlone, IInv, TypeOK
<1>6. Tops[t] = off
  BY <1>2, <1>3, HaltPcs DEF Tops, Settled, Isolated, Registers, HaltPc
<1>7. \A u \in Terms \ {t} : cur_task'[u] = cur_task[u]
  BY <1>2 DEF HaltMap, HaltLoad, HaltStore, HaltClose, HaltTask, HaltCur, ParentTask
<1>8. Tops' = Tops
  BY <1>1, <1>2, <1>4, <1>6, <1>7 DEF Tops
<1>9. prog_page' = HaltPage(off)
  BY <1>3, <1>5, HaltPcs
     DEF HaltMap, HaltLoad, HaltStore, HaltClose, HaltTask, HaltCur, HaltPc,
         Settled, Isolated, Registers
<1>10. cur_task'[t] = IF ctx'.pc \in {"cur", "leave"} THEN parent_task[off] ELSE off
  <2>1. CASE HaltTask
    BY <1>2, <1>5, <2>1 DEF HaltTask, ParentTask, Context
  <2>2. CASE HaltCur
    BY <1>2, <1>5, <2>2 DEF HaltCur, Context, HaltPc, Settled, Isolated, Registers
  <2>3. CASE HaltMap
    BY <1>2, <1>5, <2>3 DEF HaltMap, At, Settled, Isolated, Registers
  <2>4. CASE HaltLoad \/ HaltStore \/ HaltClose
    BY <1>2, <1>5, <2>4
       DEF HaltLoad, HaltStore, HaltClose, Context, HaltPc, Settled, Isolated, Registers
  <2> QED
    BY <2>1, <2>2, <2>3, <2>4
<1>11. Registers'
  BY <1>1, <1>4, <1>5, <1>7, <1>9, <1>10, HaltPcs
     DEF Registers, HaltPage, Settled, Isolated
<1>12. Chained'
  BY <1>1, <1>8 DEF Chained, Settled, Isolated
<1>13. pcb_status' \subseteq pcb_status
  BY <1>2 DEF HaltMap, HaltLoad, HaltStore, HaltClose, HaltTask, HaltCur, Settled, HaltAlone
<1>14. Filling'
  <2>1. ctx'.pc \notin {"boot", "dead"} /\ ctx.pc \notin {"boot", "dead"}
    BY <1>3, <1>4, HaltPcs
  <2> QED
    BY <1>1, <1>8, <1>13, <2>1 DEF Filling, Settled, Isolated
<1>15. OwnFiles'
  <2>1. Busy' = procs \ {off} /\ Busy' \subseteq Busy
    BY <1>1, <1>3, <1>4 DEF Busy, HaltPc
  <2>2. \A p \in Slots \ {off} : io_files'[p] = io_files[p]
    BY <1>2, <1>5 DEF HaltMap, HaltLoad, HaltStore, HaltClose, HaltTask, HaltCur
  <2>3. procs \in SUBSET Slots
    BY DEF Settled, IInv, TypeOK
  <2> QED
    BY <2>1, <2>2, <2>3 DEF OwnFiles, Settled, Isolated
<1> QED
  BY <1>11, <1>12, <1>14, <1>15 DEF Isolated
\* A process ends, and its parent goes on in the frame of its sys_execute.
LEMMA EndedKeepsIsolated ==
    ASSUME Settled, NEW p \in procs, p = Tops[sched_term_id], parent_task[p] # NULL,
           cur_task' = [Tops EXCEPT ![sched_term_id] = parent_task[p]],
           procs' = procs \ {p}, ctx' = User(frame[parent_task[p]]),
           cur_pcb' = parent_task[p], esp0' = parent_task[p], prog_page' = parent_task[p],
           pcb_status' \subseteq pcb_status \ {p},
           \A q \in procs \ {p} : q \in Busy /\ io_files'[q] = io_files[q],
           UNCHANGED <<parent_task, term_num, frame, saved, sched_term_id, starting_new_shell>>
    PROVE  Isolated'
<1> DEFINE t == sched_term_id
           parent == parent_task[p]
<1>1. /\ t \in Terms /\ procs \in SUBSET Slots /\ p \in Slots
      /\ Tops \in [Terms -> Slots \cup {NULL}] /\ term_num \in [Slots -> Terms]
      /\ parent_task \in [Slots -> Slots \cup {NULL}] /\ frame \in [Slots -> Slots \cup {NULL}]
  BY TopsType DEF Settled, IInv, TypeOK
<1>2. Tree(procs, Tops, parent_task, term_num, frame)
  BY DEF Settled, Isolated, Chained
<1>3. parent \in procs /\ frame[parent] = parent
  BY <1>2 DEF Tree
<1>4. p # NULL /\ parent # p
  BY <1>1, <1>2, SlotFacts DEF Tree
<1>5. ctx' = User(parent) /\ ctx'.pc = "user" /\ ctx'.pc \notin HaltPc
  BY <1>3, HaltPcs
<1>6. /\ cur_task'[t] = parent
      /\ \A u \in Terms \ {t} : cur_task'[u] = Tops[u] /\ Tops[u] = cur_task[u]
  BY <1>1 DEF Tops
<1>7. Tops' = [Tops EXCEPT ![t] = parent] /\ Busy' = procs'
  BY <1>1, <1>5 DEF Tops, Busy
<1>8. Registers'
  <2>1. /\ cur_pcb' \in procs' /\ ctx' = User(cur_pcb') /\ esp0' = cur_pcb' /\ prog_page' = cur_pcb'
        /\ cur_task'[sched_term_id'] = cur_pcb'
    BY <1>3, <1>4, <1>5, <1>6
  <2>2. \A u \in Terms \ {sched_term_id} : cur_task[u] # NULL => saved[u] = User(cur_task[u])
    BY SettledParts
  <2>3. \A u \in Terms \ {sched_term_id'} : cur_task'[u] # NULL => saved'[u] = User(cur_task'[u])
    BY <1>6, <2>2
  <2> QED
    BY <1>5, <2>1, <2>3, Zenon DEF Registers
<1>9. Chained'
  <2>1. Tree(procs \ {Tops[t]}, [Tops EXCEPT ![t] = parent_task[Tops[t]]],
             parent_task, term_num, frame)
    BY <1>1, <1>2, <1>4, TreeShrinks
  <2> QED
    BY <1>7, <2>1 DEF Chained
<1>10. Filling'
  <2>1. parent # NULL /\ Tops'[t] = parent /\ \A u \in Terms \ {t} : Tops'[u] = Tops[u]
    BY <1>1, <1>7
  <2>2. CASE \A u \in Terms : Tops[u] # NULL
    BY <1>5, <2>1, <2>2 DEF Filling
  <2>3. CASE /\ t > 0 /\ starting_new_shell
             /\ \A u \in Terms : Tops[u] # NULL <=> u \in 1 .. t
             /\ \A q \in pcb_status : \E u \in Terms : q = Tops[u]
    <3>1. \A u \in Terms : Tops'[u] # NULL <=> u \in 1 .. t
      BY <1>4, <2>1, <2>3
    <3>2. \A q \in pcb_status' : \E u \in Terms : q = Tops'[u]
      BY <2>1, <2>3, SMTT(60)
    <3> QED
      BY <1>5, <2>3, <3>1, <3>2 DEF Filling
  <2> QED
    BY <1>1, <1>4, <2>2, <2>3 DEF Filling, Settled, Isolated
<1>11. OwnFiles'
  <2> SUFFICES ASSUME NEW q \in procs \ {p}
               PROVE  io_files'[q][0] = "stdin" /\ io_files'[q][1] = "stdout"
    BY <1>7 DEF OwnFiles
  <2>1. q \in Busy /\ io_files'[q] = io_files[q]
    OBVIOUS
  <2> QED
    BY <2>1, SettledParts
<1> QED
  BY <1>8, <1>9, <1>10, <1>11 DEF Isolated

\* A shell ends, and its terminal gets another one.
LEMMA RestartKeepsIsolated ==
    ASSUME Settled, NEW p \in procs, p = Tops[sched_term_id], parent_task[p] = NULL,
           NEW status \in SUBSET (pcb_status \ {p}), procs \ {p} \subseteq status,
           NEW files \in [Slots -> [Desc -> Ops]], NEW back,
           StartShell(status, files, procs \ {p}, sched_term_id, back),
           \A q \in procs \ {p} : q \in Busy /\ files[q] = io_files[q],
           UNCHANGED <<saved, sched_term_id>>
    PROVE  Isolated'
<1> DEFINE t == sched_term_id
           rest == procs \ {p}
<1>1. /\ t \in Terms /\ procs \in SUBSET Slots /\ p \in Slots /\ status \in SUBSET Slots
      /\ Tops \in [Terms -> Slots \cup {NULL}] /\ term_num \in [Slots -> Terms]
      /\ parent_task \in [Slots -> Slots \cup {NULL}]
      /\ cur_task \in [Terms -> Slots \cup {NULL}]
  BY TopsType DEF Settled, IInv, TypeOK, PcbBound
<1>2. Tree(procs, Tops, parent_task, term_num, frame)
  BY DEF Settled, Isolated, Chained
<1>3. p # NULL
  BY <1>1, SlotFacts
<1>4. our_popcount(status) # MAX_PROCESSES
  BY <1>1, RoomLeft
<1>a. PICK n : NewShell(n, status, files, rest, t)
  BY <1>1, <1>4, ShellLaunched
<1>5. /\ n \in Slots \ status
      /\ pcb_status' = status \cup {n} /\ procs' = rest \cup {n}
      /\ io_files' = [files EXCEPT ![n] = terminal_open(NoFiles)]
      /\ Launched(n, NULL, t)
  BY <1>a DEF NewShell
<1>6. starting_new_shell' /\ frame' = frame
  BY DEF StartShell
<1>7. Registers' /\ Tops' = [cur_task EXCEPT ![t] = n] /\ Busy' = procs' /\ ctx'.pc = "user"
  BY <1>1, <1>5, LaunchedRegisters DEF Settled, Isolated, Registers
<1>8. Tops' = [Tops EXCEPT ![t] = n]
  BY <1>1, <1>7 DEF Tops
<1>9. Chained'
  <2>1. Tree((procs \ {Tops[t]}) \cup {n}, [Tops EXCEPT ![t] = n],
             [parent_task EXCEPT ![n] = NULL], [term_num EXCEPT ![n] = t], frame)
    <3>1. n \in Slots \ (procs \ {Tops[t]})
      BY <1>5
    <3> QED
      BY <1>1, <1>2, <1>3, <3>1, TreeRestarts
  <2> QED
    BY <1>5, <1>6, <1>8, <2>1 DEF Chained, Launched
<1>10. Filling'
  <2>1. n # NULL /\ Tops'[t] = n /\ \A u \in Terms \ {t} : Tops'[u] = Tops[u]
    BY <1>1, <1>5, <1>8, SlotFacts
  <2>2. CASE \A u \in Terms : Tops[u] # NULL
    BY <1>7, <2>1, <2>2 DEF Filling
  <2>3. CASE /\ t > 0
             /\ \A u \in Terms : Tops[u] # NULL <=> u \in 1 .. t
             /\ \A q \in pcb_status : \E u \in Terms : q = Tops[u]
    <3>1. \A u \in Terms : Tops'[u] # NULL <=> u \in 1 .. t
      BY <1>3, <2>1, <2>3
    <3>2. \A q \in pcb_status' : \E u \in Terms : q = Tops'[u]
      BY <1>1, <1>5, <2>1, <2>3
    <3> QED
      BY <1>6, <1>7, <2>3, <3>1, <3>2 DEF Filling
  <2> QED
    BY <1>1, <1>3, <2>2, <2>3 DEF Filling, Settled, Isolated
<1>11. OwnFiles'
  <2>1. \A q \in rest : files[q][0] = "stdin" /\ files[q][1] = "stdout"
    <3> SUFFICES ASSUME NEW q \in rest PROVE files[q][0] = "stdin" /\ files[q][1] = "stdout"
      OBVIOUS
    <3>1. q \in Busy /\ files[q] = io_files[q]
      OBVIOUS
    <3> QED
      BY <3>1, SettledParts
  <2> QED
    BY <1>1, <1>5, <1>7, <2>1, LaunchedFiles
<1> QED
  BY <1>7, <1>9, <1>10, <1>11 DEF Isolated
LEMMA LeaveKeepsIsolated ==
    ASSUME Settled, HaltToParent \/ HaltRestart
    PROVE  Isolated'
<1> DEFINE p == ctx.off
<1>1. ctx.pc = "leave" /\ ctx.pc \in HaltPc
  BY DEF HaltToParent, HaltRestart, HaltPc
<1>2. /\ p \in procs /\ p \notin pcb_status /\ prog_page = HaltPage(p) /\ cur_pcb = parent_task[p]
      /\ cur_task[sched_term_id] = parent_task[p]
  BY <1>1, HaltPcs DEF Settled, Isolated, Registers, HaltAlone
<1>3. p = Tops[sched_term_id] /\ Busy = procs \ {p}
  BY <1>1, TopsOutside
<1>4. pcb_status \in SUBSET Slots /\ procs \ {p} \subseteq pcb_status
      /\ io_files \in [Slots -> [Desc -> Ops]]
  BY <1>3 DEF Settled, IInv, TypeOK, PcbBound, HaltAlone
<1>5. CASE HaltToParent
  <2>1. /\ parent_task[p] # NULL /\ procs' = procs \ {p} /\ ctx' = User(frame[parent_task[p]])
        /\ cur_pcb' = parent_task[p] /\ esp0' = parent_task[p] /\ prog_page' = parent_task[p]
        /\ pcb_status' \subseteq pcb_status \ {p} /\ io_files' = io_files /\ cur_task' = cur_task
        /\ UNCHANGED <<parent_task, term_num, frame, saved, sched_term_id, starting_new_shell>>
    BY <1>2, <1>5 DEF HaltToParent, pcbVars, termVars, HaltPage
  <2>2. cur_task' = [Tops EXCEPT ![sched_term_id] = parent_task[p]]
    <3>1. /\ cur_task \in [Terms -> Slots \cup {NULL}]
          /\ Tops \in [Terms -> Slots \cup {NULL}] /\ sched_term_id \in Terms
      BY TopsType DEF Settled, IInv, TypeOK
    <3>2. \A t \in Terms \ {sched_term_id} : Tops[t] = cur_task[t]
      BY TopsOutside
    <3> QED
      BY <1>2, <2>1, <3>1, <3>2
  <2> QED
    BY <1>2, <1>3, <2>1, <2>2, EndedKeepsIsolated
<1>6. CASE HaltRestart
  <2>1. parent_task[p] = NULL /\ UNCHANGED <<saved, sched_term_id>>
        /\ StartShell(pcb_status, io_files, procs \ {p}, sched_term_id, User(ctx.stk))
    BY <1>2, <1>6 DEF HaltRestart
  <2>2. pcb_status \in SUBSET (pcb_status \ {p})
    BY <1>2
  <2> QED
    BY <1>2, <1>3, <1>4, <2>1, <2>2, RestartKeepsIsolated
<1> QED
  BY <1>5, <1>6

LEMMA ExceptionKeepsIsolated ==
    ASSUME Settled, exception
    PROVE  Isolated'
<1> DEFINE p == cur_pcb
<1>1. ctx.pc = "user" /\ ctx.pc \notin HaltPc /\ p # NULL
  BY HaltPcs DEF exception, ExceptionToParent, ExceptionRestart
<1>2. p \in procs /\ cur_task[sched_term_id] = p
  BY <1>1 DEF Settled, Isolated, Registers
<1>3. Tops = cur_task /\ Busy = procs
  BY <1>1, TopsOutside
<1>4. /\ pcb_status \in SUBSET Slots /\ procs \subseteq pcb_status /\ p \in Slots
      /\ io_files \in [Slots -> [Desc -> Ops]]
  BY <1>2, <1>3 DEF Settled, IInv, TypeOK, PcbBound, HaltAlone
<1>5. CASE ExceptionToParent
  <2>1. /\ parent_task[p] # NULL /\ procs' = procs \ {p} /\ ctx' = User(frame[parent_task[p]])
        /\ cur_pcb' = parent_task[p] /\ esp0' = parent_task[p] /\ prog_page' = parent_task[p]
        /\ pcb_status' \subseteq pcb_status \ {p}
        /\ io_files' = [io_files EXCEPT ![p] = NoFiles]
        /\ cur_task' = [cur_task EXCEPT ![sched_term_id] = parent_task[p]]
        /\ UNCHANGED <<parent_task, term_num, frame, saved, sched_term_id, starting_new_shell>>
    BY <1>5 DEF ExceptionToParent, ParentTask
  <2>2. \A q \in procs \ {p} : q \in Busy /\ io_files'[q] = io_files[q]
    BY <1>3, <1>4, <2>1
  <2> QED
    BY <1>2, <1>3, <2>1, <2>2, EndedKeepsIsolated
<1>6. CASE ExceptionRestart
  <2> DEFINE files == [io_files EXCEPT ![p] = NoFiles]
  <2>1. /\ parent_task[p] = NULL /\ UNCHANGED <<saved, sched_term_id>>
        /\ StartShell(pcb_status \ {p}, files, procs \ {p}, sched_term_id, User(esp0))
    BY <1>6 DEF ExceptionRestart
  <2>2. files \in [Slots -> [Desc -> Ops]] /\ \A q \in procs \ {p} : q \in Busy /\ files[q] = io_files[q]
    BY <1>3, <1>4, NoFilesType
  <2>3. pcb_status \ {p} \in SUBSET (pcb_status \ {p}) /\ procs \ {p} \subseteq pcb_status \ {p}
    BY <1>4
  <2> HIDE DEF files
  <2> QED
    BY <1>2, <1>3, <2>1, <2>2, <2>3, RestartKeepsIsolated
<1> QED
  BY <1>5, <1>6 DEF exception

\* The terminal after this one.
LEMMA TheNextTerminal ==
    ASSUME sched_term_id \in Terms
    PROVE  /\ NextTerm \in Terms
           /\ NextTerm = IF sched_term_id = MAX_TERM_NUM - 1 THEN 0 ELSE sched_term_id + 1
BY ProcessesAssumption DEF Terms, NextTerm

LEMMA TickKeepsIsolated ==
    ASSUME Calm, Settled, pit_interrupt
    PROVE  Isolated'
<1> DEFINE s == sched_term_id
           u == NextTerm
<1>1. ctx.pc \in {"boot", "user"} /\ ctx.pc \notin HaltPc /\ s \in Terms
  BY HaltPcs DEF pit_interrupt, Calm, Settled, IInv, TypeOK
<1>2. /\ u \in Terms /\ u = (IF s = MAX_TERM_NUM - 1 THEN 0 ELSE s + 1)
      /\ switch_tasks(u)
  BY <1>1, TheNextTerminal DEF pit_interrupt
<1> HIDE DEF u
<1>3. Tops = cur_task /\ Busy = procs
  BY <1>1, TopsOutside
<1>4. /\ pcb_status \in SUBSET Slots /\ procs \in SUBSET Slots /\ procs \subseteq pcb_status
      /\ io_files \in [Slots -> [Desc -> Ops]] /\ saved \in [Terms -> Context]
      /\ cur_task \in [Terms -> Slots \cup {NULL}] /\ term_num \in [Slots -> Terms]
      /\ parent_task \in [Slots -> Slots \cup {NULL}]
  BY <1>3 DEF Settled, IInv, TypeOK, PcbBound, HaltAlone
<1>5. ctx.pc = "boot" => \A t \in Terms : cur_task[t] = NULL
  BY <1>1, <1>3 DEF Settled, Isolated, Filling
<1>6. cur_task[s] # NULL => Interrupted = User(cur_task[s])
  BY <1>1, <1>5 DEF Interrupted, Settled, Isolated, Registers
<1>7. u # s /\ sched_term_id' = u
      /\ saved' = [saved EXCEPT ![s] = Interrupted, ![u] = NoContext]
  BY <1>2 DEF switch_tasks
<1>8. \A t \in Terms \ {u} : cur_task[t] # NULL => saved'[t] = User(cur_task[t])
  BY <1>1, <1>4, <1>6, <1>7 DEF Settled, Isolated, Registers
<1>9. CASE switch_to_old(u)
  <2>1. /\ cur_task[u] # NULL /\ cur_pcb' = cur_task[u] /\ prog_page' = cur_task[u]
        /\ esp0' = cur_task[u] /\ ctx' = saved[u] /\ UNCHANGED <<pcbVars, cur_task, procs>>
    BY <1>9 DEF switch_to_old
  <2>2. ctx' = User(cur_task[u]) /\ ctx'.pc = "user" /\ ctx'.pc \notin HaltPc
    <3>1. saved[u] = User(cur_task[u])
      BY <1>2, <1>7, <2>1, SettledParts
    <3> QED
      BY <2>1, <3>1, HaltPcs
  <2>3. Tops' = Tops /\ Busy' = procs
    BY <1>3, <1>4, <2>1, <2>2 DEF Tops, Busy
  <2>4. cur_task[u] \in procs
    BY <1>2, <1>3, <2>1 DEF Settled, Isolated, Chained, Tree
  <2>5. Registers'
    BY <1>7, <1>8, <2>1, <2>2, <2>4 DEF Registers
  <2>6. Chained' /\ OwnFiles'
    BY <1>3, <2>1, <2>3 DEF Chained, OwnFiles, Settled, Isolated, pcbVars
  <2>7. \A t \in Terms : Tops[t] # NULL
    <3>1. CASE /\ s > 0 /\ \A t \in Terms : Tops[t] # NULL <=> t \in 1 .. s
      BY <1>1, <1>2, <1>3, <2>1, <3>1 DEF Terms
    <3> QED
      BY <1>2, <1>3, <2>1, <3>1 DEF Settled, Isolated, Filling
  <2> QED
    BY <2>2, <2>3, <2>5, <2>6, <2>7 DEF Isolated, Filling
<1>10. CASE switch_to_new(u)
  <2>1. cur_task[u] = NULL /\ StartShell(pcb_status, io_files, procs, u, Interrupted)
    BY <1>10 DEF switch_to_new
  <2>2. \/ /\ s = 0 /\ pcb_status = {} /\ \A t \in Terms : cur_task[t] = NULL
        \/ /\ s > 0 /\ \A t \in Terms : cur_task[t] # NULL <=> t \in 1 .. s
           /\ \A p \in pcb_status : \E t \in Terms : p = cur_task[t]
    BY <1>2, <1>3, <2>1 DEF Settled, Isolated, Filling
  <2>3. \A p \in pcb_status : \E t \in Terms \ {u} : p = cur_task[t]
    BY <1>4, <2>1, <2>2, SlotFacts
  <2>4. our_popcount(pcb_status) # MAX_PROCESSES
    BY <1>2, <1>4, <2>3, RoomForShell
  <2>5. PICK n : NewShell(n, pcb_status, io_files, procs, u)
    BY <1>4, <2>1, <2>4, ShellLaunched
  <2>6. /\ n \in Slots \ pcb_status
        /\ pcb_status' = pcb_status \cup {n} /\ procs' = procs \cup {n}
        /\ io_files' = [io_files EXCEPT ![n] = terminal_open(NoFiles)]
        /\ Launched(n, NULL, u) /\ starting_new_shell' /\ frame' = frame
    BY <2>1, <2>5 DEF NewShell, StartShell
  <2>7. Registers' /\ Tops' = [cur_task EXCEPT ![u] = n] /\ Busy' = procs' /\ ctx'.pc = "user"
    BY <1>2, <1>7, <1>8, <2>6, LaunchedRegisters
  <2>8. Chained'
    <3>1. Tree(procs, cur_task, parent_task, term_num, frame) /\ n \in Slots \ procs
      BY <1>3, <1>4, <2>6 DEF Settled, Isolated, Chained
    <3>2. Tree(procs \cup {n}, [cur_task EXCEPT ![u] = n], [parent_task EXCEPT ![n] = NULL],
               [term_num EXCEPT ![n] = u], frame)
      BY <1>2, <1>4, <2>1, <3>1, TreeStarts
    <3> QED
      BY <2>6, <2>7, <3>2 DEF Chained, Launched
  <2>9. OwnFiles'
    BY <1>3, <1>4, <2>6, <2>7, LaunchedFiles DEF Settled, Isolated, OwnFiles
  <2>10. Filling'
    <3>1. n # NULL /\ Tops'[u] = n /\ \A t \in Terms \ {u} : Tops'[t] = cur_task[t]
      BY <1>2, <1>4, <2>6, <2>7, SlotFacts
    <3>2. \A p \in pcb_status' : \E t \in Terms : p = Tops'[t]
      <4> SUFFICES ASSUME NEW p \in pcb_status' PROVE \E t \in Terms : p = Tops'[t]
        OBVIOUS
      <4>1. CASE p = n
        BY <1>2, <3>1, <4>1
      <4>2. CASE p \in pcb_status
        <5>1. PICK t \in Terms \ {u} : p = cur_task[t]
          BY <2>3, <4>2
        <5> QED
          BY <3>1, <5>1
      <4> QED
        BY <2>6, <4>1, <4>2
    <3>3. CASE s = MAX_TERM_NUM - 1
      <4>1. u = 0 /\ s > 0 /\ \A t \in Terms : t # 0 => t \in 1 .. s
        BY <1>2, <3>3, ProcessesAssumption DEF Terms
      <4>2. \A t \in Terms : Tops'[t] # NULL
        BY <2>2, <3>1, <4>1
      <4> QED
        BY <2>7, <4>2 DEF Filling
    <3>4. CASE s # MAX_TERM_NUM - 1
      <4>1. u = s + 1 /\ u > 0 /\ \A t \in Terms : t \in 1 .. u <=> t = u \/ t \in 1 .. s
        BY <1>1, <1>2, <3>4 DEF Terms
      <4>2. \A t \in Terms : Tops'[t] # NULL <=> t \in 1 .. u
        <5>1. CASE s = 0 /\ \A t \in Terms : cur_task[t] = NULL
          BY <3>1, <4>1, <5>1
        <5>2. CASE s > 0 /\ \A t \in Terms : cur_task[t] # NULL <=> t \in 1 .. s
          BY <3>1, <4>1, <5>2
        <5> QED
          BY <2>2, <5>1, <5>2
      <4> QED
        BY <1>7, <2>6, <2>7, <3>2, <4>1, <4>2 DEF Filling
    <3> QED
      BY <3>3, <3>4
  <2> QED
    BY <2>7, <2>8, <2>9, <2>10 DEF Isolated
<1> QED
  BY <1>2, <1>9, <1>10 DEF switch_tasks
\* The only NULL pointer that can be used is the one of the boot race.
LEMMA DeathAtBoot ==
    ASSUME Calm, Settled, NullAccess
    PROVE  ctx.pc = "boot" /\ "boot_race" \in Hazards
<1>1. parent_task \in [Slots -> Slots \cup {NULL}] /\ NULL \notin Slots /\ procs \in SUBSET Slots
  BY SlotFacts DEF Settled, IInv, TypeOK
<1>2. ~(ctx.pc \in {"user", "task", "cur"} /\ cur_pcb = NULL)
  BY <1>1 DEF Settled, Isolated, Registers, HaltAlone, HaltPc
<1>3. ~(ctx.pc = "leave" /\ cur_pcb # NULL /\ frame[cur_pcb] = NULL)
  BY DEF Settled, HaltAlone, HaltPc, IInv, FrameStored
<1> QED
  BY <1>2, <1>3 DEF NullAccess

LEMMA DieKeepsIsolated ==
    ASSUME Calm, Settled, Die
    PROVE  Isolated'
<1>1. ctx.pc = "boot" /\ ctx'.pc = "dead"
  BY DeathAtBoot DEF Die, Dead, At
<1>2. Tops' = Tops /\ Busy' = Busy
  BY <1>1, HaltPcs DEF Die, termVars, histVars, Tops, Busy
<1> QED
  BY <1>1, <1>2, HaltPcs
     DEF Die, pcbVars, termVars, flagVars, histVars, Settled, Isolated, Registers, Chained,
         Filling, OwnFiles

LEMMA IsolatedStep ==
    ASSUME Calm, Settled, [Next]_vars
    PROVE  Isolated'
<1>1. ~ExecuteAsShell
  BY DEF ExecuteAsShell, MayExecute, Calm
<1> QED
  BY <1>1, QuietKeepsIsolated, ChildKeepsIsolated, HaltingKeepsIsolated, LeaveKeepsIsolated,
     ExceptionKeepsIsolated, TickKeepsIsolated, DieKeepsIsolated DEF Next, sys_execute, sys_halt

LEMMA InitIsolated == Init => Isolated
<1> SUFFICES ASSUME Init PROVE Isolated
  OBVIOUS
<1>1. ctx.pc = "boot" /\ "boot" \notin HaltPc
  BY DEF Init, At, HaltPc
<1>2. Tops = cur_task /\ Busy = {}
  BY <1>1 DEF Init, Tops, Busy
<1> QED
  BY <1>1, <1>2 DEF Init, Isolated, Registers, HaltPc, Chained, Tree, Filling, OwnFiles

\* The invariant behind the theorems that follow.
LEMMA AlwaysSettled == ASSUME Calm PROVE Spec => []Settled
<1>1. Init => Settled
  BY InitIInv, InitAlone, InitIsolated DEF Settled
<1>2. Settled /\ [Next]_vars => Settled'
  BY NextKeepsIInv, HaltAloneStep, IsolatedStep DEF Settled, Calm
<1> QED
  BY <1>1, <1>2, PTL DEF Spec

\* As long as no program is executed from a hidden terminal or before the first
\* resumption, and no tick lands inside sys_halt, user code always runs with its
\* own PCB, kernel stack and page, as the task of its terminal and with its
\* standard files; even if shells fault, and whatever happens at boot.
THEOREM ProcessesIsolated == ASSUME Calm PROVE Spec => []RunsAsItself
<1>1. Settled => RunsAsItself
  <2> SUFFICES ASSUME Settled PROVE RunsAsItself
    OBVIOUS
  <2>1. ctx.pc = "user" => ctx.stk = cur_pcb /\ esp0 = cur_pcb /\ prog_page = cur_pcb
                           /\ TaskOfTerminal
    BY HaltPcs DEF Settled, Isolated, Registers, TaskOfTerminal
  <2>2. procs \ Ending \subseteq Busy
    BY DEF Ending, Contexts, Busy
  <2> QED
    BY <2>1, <2>2 DEF RunsAsItself, TaskOfTerminal, StdFiles, Settled, Isolated, OwnFiles
<1> QED
  BY <1>1, AlwaysSettled, PTL

\* Under the same conditions every terminal that is switched to resumes its task
\* on the task's own kernel stack, and a process that waits in sys_execute for a
\* child finds its frame there.
THEOREM StacksResumed == ASSUME Calm PROVE Spec => []ResumesOwnStack
<1>1. Settled => ResumesOwnStack
  <2> SUFFICES ASSUME Settled PROVE ResumesOwnStack
    OBVIOUS
  <2>1. \A t \in Suspended : saved[t].stk = cur_task[t]
    BY SettledParts, HaltPcs DEF Suspended
  <2>2. \A p \in procs : parent_task[p] # NULL => frame[parent_task[p]] = parent_task[p]
    BY SettledParts DEF Tree
  <2> QED
    BY <2>1, <2>2, Zenon DEF ResumesOwnStack
<1> QED
  BY <1>1, AlwaysSettled, PTL

\* Under the same conditions the processes of a terminal form one chain of
\* parents from its task to its shell.
THEOREM FamiliesIntact == ASSUME Calm PROVE Spec => []FamilyTree
<1>1. Settled => FamilyTree
  <2> SUFFICES ASSUME Settled, ctx.pc = "user" PROVE FamilyTree
    BY DEF FamilyTree
  <2>1. Tree(procs, cur_task, parent_task, term_num, frame)
    BY TopsOutside, HaltPcs DEF Settled, Isolated, Chained
  <2>2. \A p \in procs : p = cur_task[term_num[p]] => ~\E q \in procs : parent_task[q] = p
    <3> SUFFICES ASSUME NEW p \in procs, p = cur_task[term_num[p]],
                        NEW q \in procs, parent_task[q] = p
                 PROVE  FALSE
      OBVIOUS
    <3>1. p # NULL
      BY <2>1 DEF Tree
    <3>2. term_num[p] = term_num[q]
      BY <2>1, <3>1 DEF Tree
    <3> QED
      BY <2>1, <3>2 DEF Tree
  <2> QED
    BY <2>1, <2>2 DEF FamilyTree, Tree
<1> QED
  BY <1>1, AlwaysSettled, PTL

\* When, besides, a tick is pending as entry() enables interrupts, no kernel code
\* ever dereferences a NULL PCB: not the calls that use cur_pcb, not execute under
\* the task of a terminal, not the return to a frame nobody stored.
THEOREM KernelLives == ASSUME Calm, "boot_race" \notin Hazards PROVE Spec => []NeverDies
<1>1. Init => NeverDies
  BY SMTT(60) DEF Init, NeverDies, At
<1>2. Settled /\ NeverDies /\ [Next]_vars => NeverDies'
  <2> SUFFICES ASSUME Settled, NeverDies, Next PROVE NeverDies'
    BY DEF NeverDies, vars, cpuVars
  <2>1. ~Die
    BY DeathAtBoot DEF Die
  <2> USE DEF NeverDies, pcbVars, termVars, flagVars, cpuVars, histVars
  <2>2. /\ cur_task \in [Terms -> Slots \cup {NULL}] /\ sched_term_id \in Terms
        /\ NextTerm \in Terms /\ ctx \in Context
    BY TheNextTerminal DEF Settled, IInv, TypeOK
  <2>3. CASE sys_execute
    BY <2>3, HaltPcs DEF sys_execute, ExecuteRefused, ExecuteNotElf, ExecuteChild,
       ExecuteAsShell, Launch, EnterProgram
  <2>4. CASE HaltMap \/ HaltLoad \/ HaltStore \/ HaltClose \/ HaltTask \/ HaltCur \/ HaltToParent
    BY <2>2, <2>4, HaltPcs DEF HaltMap, HaltLoad, HaltStore, HaltClose, HaltTask, HaltCur,
       HaltToParent, Context, At
  <2>5. CASE HaltRestart \/ exception
    <3>1. CASE HaltRestart
      <4>1. PICK status, files, live, back :
               StartShell(status, files, live, sched_term_id, back) /\ back.pc = "user"
        BY <3>1, HaltPcs DEF HaltRestart
      <4> QED
        BY <2>2, <4>1, ShellOutcome
    <3>2. CASE ExceptionToParent
      BY <3>2, HaltPcs DEF ExceptionToParent
    <3>3. CASE ExceptionRestart
      <4>1. PICK status, files, live, back :
               StartShell(status, files, live, sched_term_id, back) /\ back.pc = "user"
        BY <3>3, HaltPcs DEF ExceptionRestart
      <4> QED
        BY <2>2, <4>1, ShellOutcome
    <3> QED
      BY <2>5, <3>1, <3>2, <3>3 DEF exception
  <2>6. CASE (\E ty \in FileTypes : sys_open(ty)) \/ (\E fd \in Desc : sys_close(fd))
             \/ (\E t \in Terms : switch_terminal(t))
    BY <2>6 DEF sys_open, sys_close, switch_terminal
  <2>7. CASE pit_interrupt
    <3>1. NextTerm # sched_term_id
          /\ (switch_to_new(NextTerm) \/ switch_to_old(NextTerm))
      BY <2>7 DEF pit_interrupt, switch_tasks
    <3>2. Interrupted.pc # "dead"
      BY HaltPcs DEF Interrupted
    <3>3. CASE switch_to_new(NextTerm)
      BY <2>2, <3>2, <3>3, ShellOutcome DEF switch_to_new
    <3>4. CASE switch_to_old(NextTerm)
      BY <2>2, <3>1, <3>4, HaltPcs DEF switch_to_old, Settled, Isolated, Registers
    <3> QED
      BY <3>1, <3>3, <3>4
  <2> QED
    BY <2>1, <2>3, <2>4, <2>5, <2>6, <2>7 DEF Next, sys_halt
<1> QED
  BY <1>1, <1>2, AlwaysSettled, PTL DEF Spec

\* Under the conditions of ProcessesIsolated sys_halt returns to the parent with
\* the parent's page mapped: what it maps first is still right when it leaves.
THEOREM ParentsPageMapped == ASSUME Calm PROVE Spec => RemapsParent
<1>1. Settled /\ HaltToParent => prog_page' = cur_pcb
  BY DEF HaltToParent, HaltPc, HaltPage, Settled, HaltAlone, Isolated, Registers
<1> QED
  BY <1>1, AlwaysSettled, PTL DEF Spec, RemapsParent
=============================================================================
