-------------------------------- MODULE Screen --------------------------------
(***************************************************************************)
(* The text screen: putc and scrolling (lib.c), the echo of the keyboard   *)
(* (keyboard.c), the video pages of the terminals (multi_term.c) and the   *)
(* mouse pointer, which shares the visible page (mouse.c).                 *)
(*                                                                         *)
(* A cell is the character it shows; colours are left out, except that     *)
(* "ptr" is the blank in the pointer's colours.  Every handler runs with   *)
(* interrupts off; the exception, a key inside a history key, is a hazard  *)
(* of LineInput.  Programs write no backspace characters.  The BIOS leaves *)
(* the pages of hidden terminals blank; boot clears the visible one.       *)
(***************************************************************************)
EXTENDS Integers, Sequences, SequencesExt

CONSTANTS
    MAX_TERM_NUM,
    NUM_ROWS, NUM_COLS,
    MAX_LINE,       \* KEY_BUF_SIZE - 1, the longest line that can be typed
    Letters,
    Texts,          \* what a program passes to terminal_write
    Message,        \* what a click of the mouse prints
    Hazards         \* {"pointer"}: text changes while the pointer is on it

ASSUME ScreenAssumption ==
    /\ MAX_TERM_NUM \in Nat \ {0, 1}
    /\ NUM_ROWS \in Nat \ {0, 1} /\ NUM_ROWS < 128
    /\ NUM_COLS \in Nat \ {0} /\ NUM_COLS < 128
    /\ MAX_LINE \in Nat \ {0} /\ MAX_LINE <= (NUM_ROWS - 1) * NUM_COLS
    /\ Letters \cap {"sp", "nul", "ptr", "nl", "bs"} = {}
    /\ Texts \cup {Message} \subseteq Seq(Letters \cup {"sp", "nl"}) \ {<<>>}
    /\ Hazards \subseteq {"pointer"}

Terms == 0 .. MAX_TERM_NUM - 1
Pages == 0 .. MAX_TERM_NUM              \* 0 is the one the monitor shows
Cells == 0 .. NUM_ROWS * NUM_COLS - 1
Shown == Letters \cup {"sp", "nul", "ptr"}
Lines == UNION {[1 .. n -> Letters] : n \in 0 .. MAX_LINE}

VARIABLES
    vis_term_id,
    vid_mem,            \* the page a terminal draws in
    video,              \* the pages
    scrn_r, scrn_c,     \* where the next character of a terminal goes
    curs_r, curs_c,     \* where the cursor of a terminal is
    position,           \* the VGA cursor
    mouse,              \* the mouse driver's variables
    line,               \* the line being edited (key_buf up to its index)
    start,              \* history: the column where that line was begun
    own                 \* history: the screen of a terminal, had it a monitor
                        \* of its own and no mouse

text == <<vid_mem, video>>
place == <<scrn_r, scrn_c, curs_r, curs_c, position>>
vars == <<vis_term_id, text, place, mouse, line, start, own>>

Noisy == -1             \* something else was printed into the line

Blank == [i \in Cells |-> "sp"]
Offset(r, c) == NUM_COLS * r + c

Init ==
    /\ vis_term_id = 0
    /\ vid_mem = [t \in Terms |-> IF t = 0 THEN 0 ELSE t + 1]
    /\ video = [p \in Pages |-> Blank]
    /\ scrn_r = [t \in Terms |-> 0] /\ scrn_c = [t \in Terms |-> 0]
    /\ curs_r = [t \in Terms |-> 0] /\ curs_c = [t \in Terms |-> 0]
    /\ position = 0
    /\ mouse = [cycle |-> 0, x |-> NUM_COLS - 1, y |-> NUM_ROWS - 1,
                old_char |-> "nul", drawn |-> FALSE]
    /\ line = [t \in Terms |-> <<>>]
    /\ start = [t \in Terms |-> 0]
    /\ own = [t \in Terms |-> Blank]

-----------------------------------------------------------------------------
(* putc on a terminal's state: position and page *)

State(t) == [r |-> scrn_r[t], c |-> scrn_c[t], cells |-> video[vid_mem[t]]]

\* a store outside the page changes other memory
Store(cells, i, ch) == IF i \in Cells THEN [cells EXCEPT ![i] = ch] ELSE cells

\* scroll: all rows up by temp, and ONE blank row
scroll(s) ==
    LET temp == s.r - NUM_ROWS + 1
        kept == (NUM_ROWS - temp) * NUM_COLS
    IN  IF s.r < NUM_ROWS THEN s
        ELSE [s EXCEPT
                !.r = NUM_ROWS - 1,
                !.cells = [i \in Cells |->
                    IF i < kept THEN s.cells[i + temp * NUM_COLS]
                    ELSE IF i < kept + NUM_COLS THEN "sp" ELSE s.cells[i]]]

putc(s, ch) ==
    LET wrapped == scroll([s EXCEPT !.r = s.r + s.c \div NUM_COLS, !.c = s.c % NUM_COLS])
    IN  CASE ch = "nl" -> scroll([s EXCEPT !.r = s.r + 1, !.c = 0])
          [] ch = "bs" -> IF s.c = 0 THEN s
                          ELSE [s EXCEPT !.c = s.c - 1,
                                         !.cells = Store(s.cells, Offset(s.r, s.c - 1), "sp")]
          [] OTHER -> [wrapped EXCEPT !.c = wrapped.c + 1,
                                      !.cells = Store(wrapped.cells, Offset(wrapped.r, wrapped.c), ch)]

puts(s, str) == FoldLeft(putc, s, str)

\* Faulty: a character on the row above is not looked for there.
Backspaced_SameRow(s) == putc(s, "bs")

\* the BACKSPACE_P case: a character on the row above is reached by stepping
\* back to that row first (scrn_r is a byte)
Backspaced(s) ==
    putc(IF s.c = 0 THEN [s EXCEPT !.r = (s.r - 1) % 256, !.c = NUM_COLS] ELSE s, "bs")

\* Faulty: the cursor of a hidden terminal moves the one on the monitor.
set_cursor_pos_Always(t, r, c) ==
    /\ curs_r' = [curs_r EXCEPT ![t] = r]
    /\ curs_c' = [curs_c EXCEPT ![t] = c]
    /\ position' = Offset(r, c)

set_cursor_pos(t, r, c) ==
    /\ curs_r' = [curs_r EXCEPT ![t] = r]
    /\ curs_c' = [curs_c EXCEPT ![t] = c]
    /\ position' = IF t = vis_term_id' THEN Offset(r, c) ELSE position

set_keyboard_pos(t, r, c) ==
    /\ scrn_r' = [scrn_r EXCEPT ![t] = r]
    /\ scrn_c' = [scrn_c EXCEPT ![t] = c]

\* what the putc calls of a handler, Op, leave behind
Draw(t, Op(_)) ==
    LET s == Op(State(t))
    IN  /\ video' = [video EXCEPT ![vid_mem[t]] = s.cells]
        /\ own' = [own EXCEPT ![t] = Op([State(t) EXCEPT !.cells = own[t]]).cells]
        /\ UNCHANGED <<vid_mem, vis_term_id>>
        /\ set_cursor_pos(t, s.r, s.c)
        /\ set_keyboard_pos(t, s.r, s.c)

\* the environment's part: without the hazard, text is left alone once the
\* pointer is on it
TextMayChange == ~mouse.drawn \/ "pointer" \in Hazards

-----------------------------------------------------------------------------
(* Keys, which go to the visible terminal *)

Column(t) == scrn_c'[t] % NUM_COLS

\* the line of the visible terminal becomes l
Edit(l) ==
    /\ line' = [line EXCEPT ![vis_term_id] = l]
    /\ start' = [start EXCEPT ![vis_term_id] =
                    IF @ = Noisy /\ l = <<>> THEN Column(vis_term_id) ELSE @]
    /\ UNCHANGED mouse

\* the visible terminal begins a new line
NewLine ==
    /\ line' = [line EXCEPT ![vis_term_id] = <<>>]
    /\ start' = [start EXCEPT ![vis_term_id] = Column(vis_term_id)]
    /\ UNCHANGED mouse

\* something is printed on terminal t
Printed(t) ==
    /\ start' = [start EXCEPT ![t] = IF line[t] = <<>> THEN Column(t) ELSE Noisy]
    /\ UNCHANGED line

Key(ch) ==
    LET v == vis_term_id
    IN  /\ TextMayChange
        /\ Len(line[v]) < MAX_LINE
        /\ Draw(v, LAMBDA s : putc(s, ch))
        /\ Edit(Append(line[v], ch))

Backspace ==
    LET v == vis_term_id
    IN  /\ TextMayChange
        /\ line[v] # <<>>
        /\ Draw(v, Backspaced)
        /\ Edit(Front(line[v]))

Enter ==
    /\ TextMayChange
    /\ Draw(vis_term_id, LAMBDA s : putc(s, "nl"))
    /\ NewLine

\* UP_KEY_P, DOWN_KEY_P: clear_cur_cmd erases the line, then the row is shown
HistoryKey(row) ==
    LET v == vis_term_id
        Erased(s) == FoldLeft(LAMBDA u, ch : Backspaced(u), s, line[v])
    IN  /\ TextMayChange
        /\ line[v] # <<>> \/ row # <<>>
        /\ Draw(v, LAMBDA s : puts(Erased(s), row))
        /\ Edit(row)

\* Ctrl+L: clear_screen and clear_buffer
clear_screen ==
    /\ TextMayChange
    /\ video' = [video EXCEPT ![0] = Blank]
    /\ own' = [own EXCEPT ![vis_term_id] = Blank]
    /\ UNCHANGED <<vid_mem, vis_term_id>>
    /\ set_keyboard_pos(vis_term_id, 0, 0)
    /\ set_cursor_pos(vis_term_id, 0, 0)
    /\ NewLine

\* Faulty: the page of the new terminal overwrites the old one's.
switch_screen_Lost(new) == [video EXCEPT ![0] = video[vid_mem[new]]]

\* the pages after the copy loop of switch_screen
switch_screen(new) ==
    [video EXCEPT ![vis_term_id + 1] = video[0], ![0] = video[vid_mem[new]]]

switch_terminal(new) ==
    /\ TextMayChange
    /\ new # vis_term_id
    /\ video' = switch_screen(new)
    /\ vid_mem' = [vid_mem EXCEPT ![vis_term_id] = vis_term_id + 1, ![new] = 0]
    /\ vis_term_id' = new
    /\ set_keyboard_pos(new, scrn_r[new], scrn_c[new])
    /\ set_cursor_pos(new, curs_r[new], curs_c[new])
    /\ UNCHANGED <<mouse, line, start, own>>

\* terminal_write by the program of terminal t, visible or not
terminal_write(t, buf) ==
    /\ TextMayChange \/ t # vis_term_id
    /\ Draw(t, LAMBDA s : puts(s, buf))
    /\ Printed(t)
    /\ UNCHANGED mouse

-----------------------------------------------------------------------------
(* The mouse.  The driver uses a bit of the first and of the third byte of *)
(* a packet, whether the mouse moved down or up, left or right, and the    *)
(* flags in the second.  They are chosen when the third byte comes: nobody *)
(* reads them before.                                                      *)

mouse_byte ==
    /\ mouse.cycle < 2
    /\ mouse' = [mouse EXCEPT !.cycle = @ + 1]
    /\ UNCHANGED <<vis_term_id, text, place, line, start, own>>

\* a packet that only tells of an overflow
mouse_overflow ==
    /\ mouse.cycle = 2
    /\ mouse' = [mouse EXCEPT !.cycle = 0]
    /\ UNCHANGED <<vis_term_id, text, place, line, start, own>>

Clamp(v, n) == IF v < 0 THEN 0 ELSE IF v >= n THEN n - 1 ELSE v

get_char(cell) == IF cell = "ptr" THEN "sp" ELSE cell

\* the character saved under the pointer is put back
Lift(cells) == [cells EXCEPT ![Offset(mouse.y, mouse.x)] = mouse.old_char]

\* any other packet: the pointer moves by dx and dy, a click prints on the
\* scheduled terminal t
mouse_packet(dx, dy, click, t) ==
    LET x == Clamp(mouse.x + dx, NUM_COLS)
        y == Clamp(mouse.y + dy, NUM_ROWS)
        Clicked(s) == IF click THEN puts(s, Message) ELSE s
        printed == Clicked(State(t))
        pages == [video EXCEPT ![vid_mem[t]] = printed.cells]
        lifted == Lift(pages[0])
    IN  /\ mouse.cycle = 2
        /\ click => TextMayChange \/ t # vis_term_id
        /\ video' = [pages EXCEPT ![0] = [lifted EXCEPT ![Offset(y, x)] = "ptr"]]
        /\ mouse' = [cycle |-> 0, x |-> x, y |-> y,
                     old_char |-> get_char(lifted[Offset(y, x)]), drawn |-> TRUE]
        /\ own' = [own EXCEPT ![t] = Clicked([State(t) EXCEPT !.cells = own[t]]).cells]
        /\ UNCHANGED <<vid_mem, vis_term_id>>
        /\ IF click
             THEN /\ set_cursor_pos(t, printed.r, printed.c)
                  /\ set_keyboard_pos(t, printed.r, printed.c)
                  /\ Printed(t)
             ELSE UNCHANGED <<place, line, start>>

-----------------------------------------------------------------------------
Next ==
    \/ \E ch \in Letters : Key(ch)
    \/ Backspace
    \/ Enter
    \/ \E row \in Lines : HistoryKey(row)
    \/ clear_screen
    \/ \E t \in Terms : switch_terminal(t)
    \/ \E t \in Terms, buf \in Texts : terminal_write(t, buf)
    \/ mouse_byte
    \/ mouse_overflow
    \/ \E dx, dy \in -1 .. 1, click \in BOOLEAN, t \in Terms : mouse_packet(dx, dy, click, t)

Spec == Init /\ [][Next]_vars

-----------------------------------------------------------------------------
(* Properties *)

\* The variables keep their types.
TypeOK ==
    /\ vis_term_id \in Terms
    /\ vid_mem \in [Terms -> Pages]
    /\ video \in [Pages -> [Cells -> Shown]]
    /\ line \in [Terms -> Lines]
    /\ start \in [Terms -> {Noisy} \cup 0 .. NUM_COLS - 1]
    /\ own \in [Terms -> [Cells -> Shown]]

\* The place of the next character is on the screen, or just behind the end of a
\* row, through any mixture of wrapping, scrolling, erasing over a row's start
\* and output into the middle of a line: no store of putc misses the page.
\* The mouse pointer is on the screen too.
InScreen ==
    /\ \A t \in Terms :
          /\ scrn_r[t] \in 0 .. NUM_ROWS - 1
          /\ scrn_c[t] \in 0 .. NUM_COLS
          /\ Len(line[t]) <= Offset(scrn_r[t], scrn_c[t])
    /\ mouse.x \in 0 .. NUM_COLS - 1 /\ mouse.y \in 0 .. NUM_ROWS - 1

\* The line being edited, if nothing else was printed into it, stands on the
\* screen right before the place of the next character, from the column where it
\* was begun, across rows, after scrolling and after any erasing; behind that
\* place there is nothing, and no store went beside the page.
EchoFaithful ==
    InScreen /\ \A t \in Terms :
        LET here == Offset(scrn_r[t], scrn_c[t])
            n == Len(line[t])
        IN  /\ start[t] # Noisy =>
                  /\ \A k \in 1 .. n : own[t][here - n + k - 1] = line[t][k]
                  /\ (here - n) % NUM_COLS = start[t]
            /\ \A i \in Cells : i >= here => own[t][i] = "sp"

\* the page of a terminal, without the pointer
Page(t) == IF t = vis_term_id /\ mouse.drawn THEN Lift(video[0]) ELSE video[vid_mem[t]]
Corner == Offset(NUM_ROWS - 1, NUM_COLS - 1)

\* Three terminals and a pointer share one monitor without a trace: however
\* terminals are switched, and the pointer moved over a resting text, every
\* terminal's page holds what that terminal printed.  The corner where the
\* pointer starts is the exception: its first move clears it.
OwnScreen ==
    \A t \in Terms, i \in Cells : Page(t)[i] = own[t][i] \/ (mouse.drawn /\ i = Corner)

\* The cursor on the monitor is where the visible terminal's next character
\* goes, whatever hidden terminals print.
CursorFollows ==
    /\ curs_r = scrn_r /\ curs_c = scrn_c
    /\ position = Offset(scrn_r[vis_term_id], scrn_c[vis_term_id])
=============================================================================
