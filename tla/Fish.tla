-------------------------------- MODULE Fish --------------------------------
(***************************************************************************)
(* The fish program, fish.c: it reads two frames side by side, one         *)
(* character of each at a time, makes a blinking character of every place  *)
(* where either has something to show, and then lets the clock blink them, *)
(* with one character more for a while.  Its variables are                 *)
(*   frame, pos, open     the two files, how far they are read, those open *)
(*   c, eof, row, col     those of add_frames                              *)
(*   i, loops             the counter of main, and which of its loops runs *)
(*   list                 the blinking characters, newest first, as module *)
(*                        Blinkers describes them: <<location, on, off>>   *)
(* The byte Bad of a file stands for a block of it that cannot be read.    *)
(***************************************************************************)
EXTENDS UserProgram, FiniteSetsExt

CONSTANTS
    CELLS,      \* 80*25, locations of the screen and room for characters
    COLS,       \* 80
    OFFSET,     \* 40, the column of a frame's left edge
    WAIT,       \* 100, ticks between two changes of the list
    EXTRA,      \* 6*80+60, the place of the character that comes and goes
    Frames,     \* the contents the two files may have
    MAX_COL     \* bound: columns followed while a row does not end

ASSUME FishAssumption ==
    /\ {COLS, OFFSET, WAIT, MAX_COL} \subseteq Nat \ {0}
    /\ EXTRA \in 1 .. CELLS - 1

Pair == {1, 2}

FishInit ==
    /\ pc = "fish"
    /\ \E f, g \in Frames :
          m = [prog |-> "fish", frame |-> <<f, g>>, pos |-> <<0, 0>>, open |-> {},
               c |-> <<"0", "0">>, eof |-> <<FALSE, FALSE>>, row |-> 0, col |-> 0,
               i |-> 0, loops |-> 1, list |-> <<>>]

\* mp1_set_video_mode fails and main returns -1; or the open of a file fails and
\* add_frames halts; or both files are open
FishOpens ==
    /\ pc = "fish"
    /\ \E files \in {{}, {1}, Pair} :
          /\ m' = [m EXCEPT !.open = files]
          /\ pc' = IF files = Pair THEN "frames" ELSE "done"

Bad == "Bad"

AtEnd(k) == m.pos[k] = Len(m.frame[k])
Reads(k) == m.c[k] # Newline

\* the read of a closed file, or in a bad block, returns -1
Fails(k) == k \notin m.open \/ (~AtEnd(k) /\ m.frame[k][m.pos[k] + 1] = Bad)

\* what c0 or c1 holds after the read of one byte; only a result of 0 is looked
\* for, so a read that fails leaves it alone, and is tried again
Byte(k) ==
    IF ~Reads(k) \/ Fails(k) THEN m.c[k]
    ELSE IF AtEnd(k) THEN Newline
    ELSE m.frame[k][m.pos[k] + 1]

EofAfter(k) == m.eof[k] \/ (Reads(k) /\ ~Fails(k) /\ AtEnd(k))

AfterReads ==
    [m EXCEPT !.c = <<Byte(1), Byte(2)>>, !.eof = <<EofAfter(1), EofAfter(2)>>,
              !.pos = [k \in Pair |-> IF Reads(k) /\ ~Fails(k) /\ ~AtEnd(k) THEN @[k] + 1 ELSE @[k]]]

\* Faulty: a row of the longer frame ends with that of the shorter.
RowEnds_Either == Byte(1) = Newline \/ Byte(2) = Newline

RowEnds == Byte(1) = Newline /\ Byte(2) = Newline

Shown(ch) == ch \notin {Space, Newline}
Padded(ch) == IF ch = Newline THEN Space ELSE ch
Place(r, k) == (r * COLS + k + OFFSET) % 2^16

\* RTC_ADD, RTC_REMOVE (RTC_SYNC changes only the rhythm)
Add(list, b) == IF b[1] >= CELLS \/ Len(list) = CELLS THEN list ELSE <<b>> \o list
Stop(list, l) ==
    LET k == SelectInSeq(list, LAMBDA b : b[1] = l)
    IN  IF k = 0 THEN list ELSE RemoveAt(list, k)

\* one turn of the inner loop that does not leave it
AddColumn ==
    /\ pc = "frames"
    /\ ~RowEnds
    /\ m.col < MAX_COL
    /\ m' = [AfterReads EXCEPT !.col = @ + 1,
                 !.list = IF Shown(Byte(1)) \/ Shown(Byte(2))
                          THEN Add(@, <<Place(m.row, m.col), Padded(Byte(1)), Padded(Byte(2))>>)
                          ELSE @]
    /\ UNCHANGED pc

\* the turn that leaves the inner loop, and the rest of the outer loop
EndRow ==
    /\ pc = "frames"
    /\ RowEnds
    /\ m' = [AfterReads EXCEPT !.c = [k \in Pair |-> IF EofAfter(k) THEN Newline ELSE "0"],
                 !.open = {k \in @ : ~EofAfter(k)}, !.row = @ + 1, !.col = 0]
    /\ pc' = IF \A k \in Pair : EofAfter(k) THEN "ticks" ELSE "frames"

\* a read of the clock, and the tasklet
TickOnce ==
    /\ pc = "ticks"
    /\ m.i < WAIT
    /\ m' = [m EXCEPT !.i = @ + 1]
    /\ UNCHANGED pc

\* what main does after its n-th loop
Change(list) ==
    CASE m.loops = 1 -> Add(list, <<EXTRA, "I", "M">>)
      [] m.loops = 3 -> Stop(list, EXTRA)
      [] OTHER -> list

EndLoop ==
    /\ pc = "ticks"
    /\ m.i = WAIT
    /\ m' = [m EXCEPT !.list = Change(@), !.loops = @ + 1, !.i = 0]
    /\ pc' = IF m.loops = 4 THEN "done" ELSE "ticks"

FishNext == FishOpens \/ AddColumn \/ EndRow \/ TickOnce \/ EndLoop

-----------------------------------------------------------------------------
(* Properties *)

\* the row and the column at which character n of frame k stands
RowOf(k, n) == Cardinality({j \in 1 .. n - 1 : m.frame[k][j] = Newline})
ColOf(k, n) == n - 1 - Max({0} \cup {j \in 1 .. n - 1 : m.frame[k][j] = Newline})

\* the character of frame k at a place, blank where the frame has none
Drawn(k, p) ==
    LET at == {n \in 1 .. Len(m.frame[k]) :
                  m.frame[k][n] # Newline /\ RowOf(k, n) = p[1] /\ ColOf(k, n) = p[2]}
    IN  IF at = {} THEN Space ELSE m.frame[k][CHOOSE n \in at : TRUE]

\* the places of the screen where either frame shows something, row by row
Expected ==
    LET size == Max({Len(m.frame[1]), Len(m.frame[2])})
        places == {p \in (0 .. size) \X (0 .. size) :
                      Place(p[1], p[2]) < CELLS /\ \E k \in Pair : Drawn(k, p) # Space}
        ordered == SetToSortSeq(places, LAMBDA p, q :
                       p[1] < q[1] \/ (p[1] = q[1] /\ p[2] < q[2]))
    IN  [n \in DOMAIN ordered |->
            <<Place(ordered[n][1], ordered[n][2]), Drawn(1, ordered[n]), Drawn(2, ordered[n])>>]

\* The two frames, read in step and padded against each other, become exactly
\* the blinking characters of the two pictures (add_frames), also with lines and
\* files of different lengths and without a last newline; and when fish is
\* done with its extra character these are the ones left (main).  With a block
\* that cannot be read fish gets to neither.
FramesShown ==
    m.prog = "fish" /\ ((pc = "ticks" /\ m.loops = 1) \/ (pc = "done" /\ m.loops = 5))
      => Reverse(m.list) = Expected
=============================================================================
