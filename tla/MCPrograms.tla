----------------------------- MODULE MCPrograms -----------------------------
EXTENDS CommandLine, Utilities, Fish, Library, Keys

MCTyped == SeqOf({"a", "e", "x", Space}, 5)
MCCommands == {<<"a">>, <<"a", "x">>, <<"e", "a">>}
MCSizes == -1 .. 4

\* every text of up to six characters, and those of up to four with NULs, after the
\* directory itself and a hidden file and before a file of one line
MCDirectories ==
    {<<[name |-> <<".">>, data |-> <<>>], [name |-> <<".", "h">>, data |-> <<"x">>],
       [name |-> <<"f">>, data |-> t], [name |-> <<"g">>, data |-> <<"x", "y">>]>> :
           t \in SeqOf({"x", "y", Newline}, 6) \cup SeqOf({"x", "y", Newline, NUL}, 4)}
MCSearches == {<<>>, <<"x">>, <<"x", "y">>}

\* every picture of up to three characters, some ending in a bad block
MCFrames ==
    SeqOf({"x", Space, Newline}, 3) \cup {Append(f, Bad) : f \in SeqOf({"x", Newline}, 1)}

Init == ShellInit \/ UtilityInit \/ FishInit \/ LibraryInit \/ KeysInit
Next == ShellNext \/ UtilityNext \/ FishNext \/ LibraryNext \/ KeysNext
Spec == /\ Init /\ [][Next]_vars
        /\ WF_vars(UtilityNext) /\ WF_vars(FishNext)
        /\ WF_vars(LibraryNext)

\* fish's files have no block that cannot be read
Readable == m.prog = "fish" => \A k \in Pair : Bad \notin ToSet(m.frame[k])

\* cat, ls and grep come to an end whatever the files hold and whichever read
\* fails, and fish if its files can be read: add_frames tries a read that fails
\* again for ever (fish.c 103).  Only the shell and the keyboard go on.  Programs run
\* for as long as the scheduler gives them turns.
ProgramsEnd == m.prog \notin {"shell", "keys"} /\ Readable ~> pc = "done"
=============================================================================
