----------------------------- MODULE Utilities ------------------------------
(***************************************************************************)
(* The programs that read files: ece391cat.c, ece391ls.c and ece391grep.c. *)
(* The directory is a sequence of entries [name, data]; a read delivers    *)
(* the next bytes, as module Files shows, or fails.  The variables are     *)
(*   prog, dir, search    the program, the files, the argument             *)
(*   entry, pos           entries read, bytes read of the open file        *)
(*   data, last, cnt, line_start   those of do_one_file                    *)
(*   junk                 what do_one_file's stack frame held before       *)
(*   out, status          what was written, and the result of main         *)
(***************************************************************************)
EXTENDS UserProgram, FiniteSetsExt

CONSTANTS
    BUFSIZE,        \* 1024
    Directories,    \* the contents the file system may have
    Searches        \* the arguments; the empty one makes getargs fail

ASSUME UtilitiesAssumption == BUFSIZE \in Nat \ {0}

UtilityInit ==
    /\ pc = "main"
    /\ \E p \in {"cat", "ls", "grep"}, d \in Directories, s \in Searches, j \in {NUL, Newline} :
          /\ p # "grep" => s \in {<<>>, <<"x">>} /\ j = NUL     \* they use neither
          /\ m = [prog |-> p, dir |-> d, search |-> s, entry |-> 0, pos |-> 0,
                  data |-> [i \in 0 .. BUFSIZE |-> j], last |-> 0, cnt |-> 0,
                  line_start |-> 0, junk |-> j, out |-> <<>>, status |-> -1]

Return(s) == pc' = "done" /\ m' = [m EXCEPT !.status = s]

\* getargs, which only ls does without, and the open of the file or directory
NoArguments == pc = "main" /\ m.prog # "ls" /\ m.search = <<>> /\ Return(3)
OpenFails == pc = "main" /\ (m.prog = "ls" \/ m.search # <<>>) /\ Return(2)
Start ==
    /\ pc = "main"
    /\ m.prog = "ls" \/ m.search # <<>>
    /\ IF m.prog = "cat"
         THEN \E e \in DOMAIN m.dir : m' = [m EXCEPT !.entry = e]
         ELSE UNCHANGED m
    /\ pc' = m.prog

File == m.dir[m.entry].data

ReadFails == pc \in {"cat", "ls", "grep", "grep_read"} /\ Return(3)

cat ==
    /\ pc = "cat"
    /\ LET buf == Chunk(File, m.pos, BUFSIZE)
       IN  IF buf = <<>> THEN Return(0)
           ELSE /\ m' = [m EXCEPT !.pos = @ + Len(buf), !.out = @ \o buf]
                /\ UNCHANGED pc

ls ==
    /\ pc = "ls"
    /\ IF m.entry = Len(m.dir) THEN Return(0)
       ELSE /\ m' = [m EXCEPT !.entry = @ + 1, !.out = @ \o <<m.dir[m.entry + 1].name, Newline>>]
            /\ UNCHANGED pc

Hidden(e) == Head(e.name) = "."

\* the loop of grep's main over the directory, up to the open in do_one_file
grep ==
    /\ pc = "grep"
    /\ IF m.entry = Len(m.dir) THEN Return(0)
       ELSE /\ m' = [m EXCEPT !.entry = @ + 1, !.pos = 0, !.last = 0,
                              !.data = [i \in 0 .. BUFSIZE |-> m.junk]]
            /\ pc' = IF Hidden(m.dir[m.entry + 1]) THEN "grep" ELSE "grep_read"

do_one_file_read ==
    /\ pc = "grep_read"
    /\ LET buf == Chunk(File, m.pos, BUFSIZE - m.last)
           n == Len(buf)
       IN  m' = [m EXCEPT !.pos = @ + n, !.cnt = n, !.last = @ + n, !.line_start = 0,
                          !.data = [i \in 0 .. BUFSIZE |->
                              IF i \in m.last .. m.last + n - 1 THEN buf[i - m.last + 1] ELSE @[i]]]
    /\ pc' = "grep_line"

line_end == Min({m.last} \cup {e \in m.line_start .. m.last - 1 : m.data[e] = Newline})

\* the buffer with the line, or the piece of one, ended
Ended == [m.data EXCEPT ![line_end] = NUL]

\* Faulty: the start of a cut line is searched as a line of its own.
Incomplete_Never == FALSE

Incomplete == m.data[line_end] # Newline /\ m.cnt # 0 /\ m.line_start # 0

\* Faulty: the end of the file is not noticed.
AfterLines_More == "grep_read"

AfterLines == IF m.cnt = 0 THEN "grep" ELSE "grep_read"

\* the start of a line that goes on in the next chunk is moved down (strcpy)
MoveDown ==
    /\ pc = "grep_line"
    /\ Incomplete
    /\ LET len == Min({k \in 0 .. BUFSIZE - m.line_start : Ended[m.line_start + k] = NUL})
       IN  m' = [m EXCEPT !.last = @ - m.line_start,
                          !.data = [i \in 0 .. BUFSIZE |->
                              IF i <= len THEN Ended[m.line_start + i] ELSE Ended[i]]]
    /\ pc' = "grep_read"

\* strncmp at one place of the line; the NUL at line_end ends it
Matches(at) ==
    /\ at + Len(m.search) <= line_end
    /\ \A i \in 1 .. Len(m.search) : m.data[at + i - 1] = m.search[i]

\* what fdputs writes of it, up to the first NUL
Line ==
    LET e == Min({k \in m.line_start .. line_end : Ended[k] = NUL})
    IN  [i \in 1 .. e - m.line_start |-> m.data[m.line_start + i - 1]]

NextStart == line_end + 1

SearchLine ==
    /\ pc = "grep_line"
    /\ ~Incomplete
    /\ LET over == NextStart >= m.last
           found == \E check \in m.line_start .. line_end - 1 : Matches(check)
       IN  /\ m' = [m EXCEPT !.data = Ended, !.line_start = NextStart,
                             !.last = IF over THEN 0 ELSE @,
                             !.out = IF found
                                     THEN Append(@, <<m.dir[m.entry].name, Line>>) ELSE @]
           /\ pc' = IF over THEN AfterLines ELSE "grep_line"

UtilityNext ==
    \/ NoArguments \/ OpenFails \/ Start \/ ReadFails
    \/ cat \/ ls \/ grep \/ do_one_file_read \/ MoveDown \/ SearchLine

-----------------------------------------------------------------------------
(* Properties *)

\* the lines of a file: what stands between its newlines
LinesOf(f) ==
    LET ends == SetToSortSeq({i \in DOMAIN f : f[i] = Newline} \cup {Len(f) + 1}, <)
    IN  [k \in DOMAIN ends |-> SubSeq(f, IF k = 1 THEN 1 ELSE ends[k - 1] + 1, ends[k] - 1)]

Holds(line, s) == \E i \in 1 .. Len(line) - Len(s) + 1 : SubSeq(line, i, i + Len(s) - 1) = s

Found(e) ==
    LET lines == SelectSeq(LinesOf(e.data), LAMBDA l : Holds(l, m.search))
    IN  [k \in DOMAIN lines |-> <<e.name, lines[k]>>]

\* what grep has to do with: text without NUL in lines that fit its buffer, and no
\* newline left on the stack in the one byte of the buffer that it reads before it
\* writes it
Searchable ==
    /\ m.junk # Newline
    /\ \A i \in DOMAIN m.dir : NUL \notin ToSet(m.dir[i].data)
    /\ \A i \in DOMAIN m.dir : \A k \in DOMAIN LinesOf(m.dir[i].data) :
          Len(LinesOf(m.dir[i].data)[k]) <= BUFSIZE

\* A program that returns 0 has written exactly what it is for: cat the bytes of
\* the file, ls the names in order, and grep, which reads in chunks that cut
\* lines anywhere, every line with the argument in it once and whole, file by
\* file (main of the three programs, do_one_file).
OutputExact ==
    pc = "done" /\ m.prog \in {"cat", "ls", "grep"} /\ m.status = 0
      => CASE m.prog = "cat" -> m.out = File
           [] m.prog = "ls" -> m.out = FlattenSeq([i \in DOMAIN m.dir |->
                                          <<m.dir[i].name, Newline>>])
           [] m.prog = "grep" -> Searchable =>
                 m.out = FlattenSeq([i \in DOMAIN m.dir |->
                            IF Hidden(m.dir[i]) THEN <<>> ELSE Found(m.dir[i])])
=============================================================================
