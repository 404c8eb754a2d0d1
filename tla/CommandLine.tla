---------------------------- MODULE CommandLine -----------------------------
(***************************************************************************)
(* The way of a command line: typed at the prompt of ece391shell.c, cut    *)
(* into command and argument by sys_execute, kept in the PCB, and handed   *)
(* to the program by sys_getargs; and the same way in ece391emulate.c, the *)
(* library that runs the programs on a host system and promises the same   *)
(* calls.  A line is a sequence of characters.  The state of the shell is  *)
(*   line       what was typed, without its newline                        *)
(*   cmd, arg   what sys_execute made of it                                *)
(*   rval       what ece391_execute returned                               *)
(*   nbytes     the size of the buffer the program passed to ece391_getargs*)
(*   got        what that call returned, and the buffer's text             *)
(***************************************************************************)
EXTENDS UserProgram

CONSTANTS
    Typed,      \* the lines a user types
    Commands,   \* the names of the programs in the file system
    CMD_BUF,    \* cmd_buf_size, 32
    Sizes       \* the sizes of the programs' buffers

ASSUME CommandAssumption ==
    /\ CMD_BUF \in Nat \ {0}
    /\ \A c \in Commands : Len(c) <= CMD_BUF    \* what a directory entry holds
    /\ Sizes \subseteq Int

Nothing == [ret |-> -1, text |-> <<>>]
ShellVars == [prog |-> "shell", line |-> <<>>, cmd |-> <<>>, arg |-> <<>>, rval |-> 0,
              nbytes |-> 0, got |-> Nothing]

ShellInit == pc = "prompt" /\ m = ShellVars

IsShell == m.prog = "shell"

exit == <<"e", "x">>    \* for "exit"

\* the read at the prompt: "exit" ends the shell, an empty line is skipped
ShellRead(line) ==
    /\ pc = "prompt"
    /\ m' = [ShellVars EXCEPT !.line = line]
    /\ pc' = CASE line = exit -> "done" [] line = <<>> -> "prompt" [] OTHER -> "execute"

\* the read fails, and main returns 3
ShellReadFails == pc = "prompt" /\ IsShell /\ pc' = "done" /\ m' = [ShellVars EXCEPT !.rval = 3]

\* the first place from i on that holds a space, or does not; the end if none
NextIn(s, i, set) ==
    LET k == SelectInSubSeq(s, i, Len(s), LAMBDA ch : ch \in set)
    IN  IF i > Len(s) \/ k = 0 THEN Len(s) + 1 ELSE k

SkipSpaces(s, i) == NextIn(s, i, ToSet(s) \ {Space})

WordStart(s) == SkipSpaces(s, 1)

\* where the copy into cmd stops: at a space, at the end, or when cmd is full
WordEnd(s) ==
    LET e == NextIn(s, WordStart(s), {Space})
    IN  IF e - WordStart(s) > CMD_BUF THEN WordStart(s) + CMD_BUF ELSE e

Command(s) == SubSeq(s, WordStart(s), WordEnd(s) - 1)

\* Faulty: one character is skipped after the command instead of all spaces.
Argument_OneSpace(s) == SubSeq(s, WordEnd(s) + 1, Len(s))

Argument(s) == SubSeq(s, SkipSpaces(s, WordEnd(s)), Len(s))

\* "no such command", and a full process table, which is answered with 0
ExecuteFails ==
    /\ pc = "execute"
    /\ \/ Command(m.line) \notin Commands /\ m' = [ShellVars EXCEPT !.rval = -1]
       \/ m' = [ShellVars EXCEPT !.rval = 0]
    /\ pc' = "prompt"

ExecuteStarts ==
    /\ pc = "execute"
    /\ Command(m.line) \in Commands
    /\ m' = [m EXCEPT !.cmd = Command(m.line), !.arg = Argument(m.line)]
    /\ pc' = "program"

\* Faulty: no room is asked for the terminating NUL.
ArgFits_NoNul(n) == Len(m.arg) <= n /\ Len(m.arg) + 1 > 1 /\ n >= 0

ArgFits(n) == Len(m.arg) + 1 <= n /\ Len(m.arg) + 1 > 1 /\ n >= 0

\* the program's ece391_getargs, served by sys_getargs
sys_getargs(n) ==
    /\ pc = "program"
    /\ m' = [m EXCEPT !.nbytes = n,
                      !.got = IF ArgFits(n) THEN [ret |-> 0, text |-> m.arg] ELSE Nothing]
    /\ pc' = "halting"

\* the program ends, with a byte of status or by an exception (256); the shell
\* reports it and prompts again
ProgramEnds(status) ==
    /\ pc = "halting"
    /\ m' = [ShellVars EXCEPT !.rval = status]
    /\ pc' = "prompt"

Statuses == {0, 255, 256}

ShellNext ==
    \/ (\E line \in Typed : ShellRead(line)) \/ ShellReadFails
    \/ ExecuteFails \/ ExecuteStarts
    \/ \E n \in Sizes : sys_getargs(n)
    \/ \E s \in Statuses : ProgramEnds(s)

-----------------------------------------------------------------------------
(* The emulation library *)

\* where a scan for the end of a word stops
Scan(s, i) == NextIn(s, i, {Space, Newline})

\* the file that is executed, after "./"
EmulatedCommand(s) == SubSeq(s, 1, Scan(s, 1) - 1)

\* args[1], args[2] ... from place i on
RECURSIVE args(_, _)
args(s, i) ==
    LET b == SkipSpaces(s, i)
    IN  IF b > Len(s) \/ s[b] = Newline THEN <<>>
        ELSE <<SubSeq(s, b, Scan(s, b) - 1)>> \o args(s, Scan(s, b) + 1)

\* the loop of ece391_getargs: the words joined by spaces, as long as they fit;
\* text is what has been written and nbytes what is left
RECURSIVE join(_, _, _)
join(argv, text, nbytes) ==
    IF argv = <<>> THEN (IF nbytes < 1 THEN Nothing ELSE [ret |-> 0, text |-> text])
    ELSE LET len == Len(Head(argv))
             last == Len(argv) = 1
         IN  IF len > nbytes \/ (~last /\ nbytes - len < 1) THEN Nothing
             ELSE IF last THEN join(<<>>, text \o Head(argv), nbytes - len)
             ELSE join(Tail(argv), text \o Head(argv) \o <<Space>>, nbytes - len - 1)

ece391_getargs(s, nbytes) == join(args(s, Scan(s, 1) + 1), <<>>, nbytes)

-----------------------------------------------------------------------------
(* Properties *)

AtProgram == pc \in {"program", "halting"}
Spaces(n) == [i \in 1 .. n |-> Space]
Unspaced(s) == Space \notin ToSet(s)

\* The line is the command and the argument and nothing but spaces around the
\* command, the argument is kept to its last character, and the program gets
\* it from sys_getargs exactly when there is one and its buffer has room for
\* the terminated string.  A command word too long for sys_execute's buffer
\* is the exception: it is cut, and its rest becomes the argument.
ArgumentArrives ==
    /\ IsShell /\ AtProgram /\ WordEnd(m.line) = NextIn(m.line, WordStart(m.line), {Space})
         => /\ m.cmd # <<>> /\ Unspaced(m.cmd)
            /\ \E a, b \in 0 .. Len(m.line) :
                  /\ m.line = Spaces(a) \o m.cmd \o Spaces(b) \o m.arg
                  /\ m.arg # <<>> => b > 0 /\ Head(m.arg) # Space
    /\ IsShell /\ pc = "halting"
         => IF m.arg # <<>> /\ Len(m.arg) < m.nbytes
              THEN m.got = [ret |-> 0, text |-> m.arg]
              ELSE m.got = Nothing

\* a command, single spaces and at least one word after it
Plain(s) ==
    /\ Len(EmulatedCommand(s)) \in 1 .. CMD_BUF
    /\ s # EmulatedCommand(s) /\ Last(s) # Space
    /\ \A i \in 1 .. Len(s) - 1 : s[i] = Space => s[i + 1] # Space

\* A program that is run by the emulation library gets the same command, the
\* same argument and the same refusal of a small buffer as on the kernel, for
\* every command line without superfluous spaces that has an argument.
EmulationAgrees ==
    IsShell /\ pc = "halting" /\ Plain(m.line)
      => /\ EmulatedCommand(m.line) = m.cmd
         /\ ece391_getargs(m.line, m.nbytes) = m.got
=============================================================================
