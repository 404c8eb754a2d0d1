------------------------------- MODULE Syserr -------------------------------
(***************************************************************************)
(* The program ece391syserr.c on top of the system calls of module Files:  *)
(* eight tests, each a fixed row of calls that have to be refused.  In the *)
(* same specification another process makes any calls in any order.        *)
(***************************************************************************)
EXTENDS Files

CONSTANT Addresses      \* the addresses other programs pass to sys_vidmap

VARIABLE u      \* [prog, pc, tests, answers, fail]: the program, where it is, its
                \* tests still to run, the answers in this one, the sum of failures

allVars == <<io_files, ret, got, held, u>>

NEG == -1073741823      \* NEG_FD, NEG_NUM
BIG == 1073741823       \* BIG_FD, BIG_NUM

Calls(op, args) == [i \in DOMAIN args |-> [op |-> op, on |-> args[i]]]
Opens(n) == [i \in 1 .. n |-> [op |-> "open", on |-> "."]]
FromTo(a, b) == [i \in 1 .. b - a + 1 |-> a + i - 1]
Each(on) == <<[op |-> "read", on |-> on], [op |-> "write", on |-> on], [op |-> "close", on |-> on]>>

err_neg_fd == Each(NEG)
err_big_fd == Each(BIG)
\* one open more than there are descriptors, and a close of all of them
err_open_lots == Opens(MAX_DESC - 1) \o Calls("close", FromTo(2, MAX_DESC - 1))
err_open == Calls("open", <<"helloo", "shel", "">>)
err_unopened ==
    Calls("close", FromTo(0, MAX_DESC - 1)) \o Calls("read", FromTo(2, MAX_DESC - 1))
        \o Calls("write", FromTo(2, MAX_DESC - 1))
err_vidmap == Calls("vidmap", <<0, 4194304>>)
err_stdin_out == Calls("write", <<0>>) \o Calls("read", <<1>>)
err_syscall_num == Calls("number", <<BIG, NEG, 0>>)

Tests == <<err_neg_fd, err_big_fd, err_open_lots, err_open, err_unopened, err_vidmap,
           err_stdin_out, err_syscall_num>>

\* one call of a test; 31 is the size the tests pass
Perform(c) ==
    \/ c.op = "open" /\ sys_open(c.on)
    \/ c.op = "close" /\ sys_close(c.on)
    \/ c.op = "read" /\ sys_read(c.on, 31)
    \/ c.op = "write" /\ sys_write(c.on, 31)
    \/ c.op = "vidmap" /\ sys_vidmap(c.on)
    \/ c.op = "number" /\ BadNumber(c.on)

\* what a test counts as a pass: err_open_lots one open refused, the others all calls
Passed(t, answers) ==
    IF t = 3 THEN Cardinality({i \in 1 .. MAX_DESC - 1 : answers[i] = -1}) = 1
    ELSE \A i \in DOMAIN answers : answers[i] = -1

SyserrInit ==
    /\ Init
    /\ \E p \in {"syserr", "any"} :
          u = [prog |-> p, pc |-> "select", tests |-> <<>>, answers |-> <<>>, fail |-> 0]

\* main reads the number of a test; 0 stands for all, in order
Select ==
    /\ u.prog = "syserr"
    /\ u.pc = "select"
    /\ \E n \in 0 .. Len(Tests) + 1 :
          u' = [u EXCEPT !.pc = "run",
                    !.tests = CASE n = 0 -> FromTo(1, Len(Tests))
                                [] n \in DOMAIN Tests -> <<n>>
                                [] OTHER -> <<>>]
    /\ UNCHANGED vars

Testing == u.pc = "run" /\ u.tests # <<>>
Script == Tests[Head(u.tests)]

NextCall ==
    /\ Testing
    /\ Len(u.answers) < Len(Script)
    /\ Perform(Script[Len(u.answers) + 1])
    /\ u' = [u EXCEPT !.answers = Append(@, ret')]

\* PASS or FAIL
Verdict ==
    /\ Testing
    /\ Len(u.answers) = Len(Script)
    /\ u' = [u EXCEPT !.tests = Tail(@), !.answers = <<>>,
                      !.fail = @ + IF Passed(Head(u.tests), u.answers) THEN 0 ELSE 2]
    /\ UNCHANGED vars

\* another program, which may make any call
Free == u.prog = "any" /\ UNCHANGED u

SyserrNext ==
    \/ Select
    \/ NextCall
    \/ Verdict
    \/ \E name \in Names : sys_open(name) /\ Free
    \/ \E fd \in -1 .. MAX_DESC : sys_close(fd) /\ Free
    \/ \E fd \in -1 .. MAX_DESC, nbytes \in NBytes : sys_read(fd, nbytes) /\ Free
    \/ \E fd \in -1 .. MAX_DESC, nbytes \in NBytes : sys_write(fd, nbytes) /\ Free
    \/ \E a \in Addresses : sys_vidmap(a) /\ Free
    \/ NoSignals /\ Free
    \/ \E n \in {-1, 0, Len(sys_call_jmp_tab) + 1} : BadNumber(n) /\ Free

SyserrSpec == SyserrInit /\ [][SyserrNext]_allVars

-----------------------------------------------------------------------------
(* Properties *)

\* The kernel passes its own test of refused calls: whichever test is selected,
\* or all of them one after the other in the same process, none fails
\* ("prints PASS if behavior is EXPECTED", ece391syserr.c).
SyserrPasses == u.fail = 0
=============================================================================
