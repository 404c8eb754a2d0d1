-------------------------- MODULE ProcessesRefine --------------------------
(* Processes implements TerminalJobs: the jobs of a terminal are the chain *)
(* of parents that ends in its cur_task.                                   *)
EXTENDS Processes, Sequences

\* up[<<n, p>>] is p with up to n - 1 of the processes above it, the oldest first
Chain ==
    LET up[x \in (0 .. MAX_PROCESSES) \X (Slots \cup {NULL})] ==
            LET n == x[1]
                p == x[2]
            IN  IF n = 0 \/ p = NULL THEN <<>> ELSE Append(up[<<n - 1, parent_task[p]>>], p)
    IN  [t \in Terms |-> up[<<MAX_PROCESSES, cur_task[t]>>]]

Abstract == INSTANCE TerminalJobs
    WITH Terminals <- MAX_TERM_NUM, Jobs <- Slots, jobs <- Chain, turn <- sched_term_id

\* The process table, the parent pointers and the round robin behave as stacks
\* of jobs that take turns (sys_execute, sys_halt, switch_tasks).
ImplementsJobs == Abstract!Spec
=============================================================================
