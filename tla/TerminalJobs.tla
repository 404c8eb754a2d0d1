---------------------------- MODULE TerminalJobs ----------------------------
(***************************************************************************)
(* What the process manager promises its users.  Every terminal has a      *)
(* stack of jobs: the shell at the bottom, above it the program it runs,   *)
(* and so on; the top one is the job that runs when the terminal has the   *)
(* CPU, the others wait.  The CPU goes round the terminals.  No job is on  *)
(* two stacks.  Processes implements this (module ProcessesRefine).        *)
(***************************************************************************)
EXTENDS Integers, Sequences

CONSTANTS Terminals,    \* how many terminals there are
          Jobs          \* the identities a job can have

VARIABLES jobs,         \* the stack of jobs of each terminal
          turn          \* the terminal that has the CPU

Ring == 0 .. Terminals - 1
All == UNION {{jobs[t][i] : i \in 1 .. Len(jobs[t])} : t \in Ring}

Init == jobs = [t \in Ring |-> <<>>] /\ turn = 0

\* the job of terminal turn starts another one and waits for it
Run(j) ==
    /\ jobs[turn] # <<>>
    /\ j \notin All
    /\ jobs' = [jobs EXCEPT ![turn] = Append(@, j)]
    /\ UNCHANGED turn

\* the job ends and the one that waited for it goes on
End ==
    /\ jobs[turn] # <<>>
    /\ jobs' = [jobs EXCEPT ![turn] = SubSeq(@, 1, Len(@) - 1)]
    /\ UNCHANGED turn

\* a terminal left without a job gets a new shell
Start(j) ==
    /\ Len(jobs[turn]) <= 1
    /\ \A t \in Ring \ {turn} : \A i \in 1 .. Len(jobs[t]) : jobs[t][i] # j
    /\ jobs' = [jobs EXCEPT ![turn] = <<j>>]
    /\ UNCHANGED turn

\* the next terminal gets the CPU, and a shell if it has none
Turn ==
    LET next == (turn + 1) % Terminals
    IN  /\ turn' = next
        /\ IF jobs[next] # <<>>
             THEN UNCHANGED jobs
             ELSE \E j \in Jobs \ All : jobs' = [jobs EXCEPT ![next] = <<j>>]

Next == (\E j \in Jobs : Run(j) \/ Start(j)) \/ End \/ Turn

Safety == Init /\ [][Next]_<<jobs, turn>>

Spec == Safety /\ WF_<<jobs, turn>>(Turn)
=============================================================================
