---------------------------- MODULE UserProgram -----------------------------
(* The state of one user process: where it is and what its variables hold.  *)
(* The programs are the modules that extend this one.                      *)
EXTENDS Integers, SequencesExt

VARIABLES pc,   \* the loop or call the process is in
          m     \* its variables, a record that depends on the program

vars == <<pc, m>>

Space == " "
Newline == "\n"
NUL == "NUL"

\* Contents with no more than n bytes left, as one read delivers them.
Chunk(f, pos, n) == SubSeq(f, pos + 1, IF pos + n < Len(f) THEN pos + n ELSE Len(f))
=============================================================================
