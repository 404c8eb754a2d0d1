------------------------------ MODULE LineInput ------------------------------
(***************************************************************************)
(* The lines a user types: process_input and the command history of        *)
(* keyboard.c, writing the buffers of the visible terminal, and            *)
(* terminal_read of terminal.c, reading the buffer of the terminal that is *)
(* scheduled.                                                              *)
(*                                                                         *)
(* A keyboard interrupt is one step: its gate clears IF.  The exception is *)
(* a history key pressed over a partial line.  clear_cur_cmd then calls    *)
(* process_input, whose sti() lets other interrupts in before the outer    *)
(* handler is finished; HistBegin, HistErase and HistEnd are its parts.    *)
(* terminal_read clears IF for everything after its wait.                  *)
(***************************************************************************)
EXTENDS Integers, Sequences

CONSTANTS
    MAX_TERM_NUM,
    KEY_BUF_SIZE,       \* bytes in key_buf and in a row of hist_buf
    HIST_COM_NUM,       \* rows of hist_buf
    Letters,            \* the printing characters
    UnderOffset,        \* hist_buf[-1] is key_buf + UnderOffset (term_t, lib.h)
    OverOffset,         \* hist_buf[HIST_COM_NUM+1] is key_buf + OverOffset of the next terminal
    ReadSizes           \* the nbytes that programs pass to terminal_read

ASSUME LineInputAssumption ==
    /\ MAX_TERM_NUM \in Nat \ {0}
    /\ KEY_BUF_SIZE \in Nat /\ KEY_BUF_SIZE >= 3
    /\ HIST_COM_NUM \in Nat \ {0}
    /\ UnderOffset \in Nat \ {0} /\ OverOffset \in Nat \ {0}
    /\ {"nul", "nl"} \cap Letters = {}
    /\ ReadSizes \subseteq Nat

Terms == 0 .. MAX_TERM_NUM - 1
Cells == 0 .. KEY_BUF_SIZE - 1
Bytes == Letters \cup {"nul", "nl"}

VARIABLES
    vis_term_id,
    key_buf, key_buf_index, new_line,               \* per terminal
    hist_buf, hist_buf_index, cur_hist_index,       \* per terminal
    hist,           \* the history key whose handler was interrupted, if any
    wiped,          \* strncpy was given a negative length and ran over memory
    reply,          \* what the last terminal_read returned and copied
    line,           \* history: what the user sees as the line being edited
    entered,        \* history: the line the user ended with Enter
    disturbed       \* history: the terminals that something unforeseen happened to

edit == <<key_buf, key_buf_index, new_line>>
history == <<hist_buf, hist_buf_index, cur_hist_index>>
ghosts == <<line, entered, disturbed>>
vars == <<vis_term_id, edit, history, hist, wiped, reply, ghosts>>

NoKey == [key |-> "none"]

-----------------------------------------------------------------------------
(* C strings *)

\* strlen of the string that starts at from; never runs off the buffer because
\* the last cell is always nul (Terminated)
strlen(b, from) ==
    (CHOOSE k \in from .. KEY_BUF_SIZE - 1 :
        b[k] = "nul" /\ \A j \in from .. k - 1 : b[j] # "nul") - from

TextFrom(b, from) ==
    IF from >= KEY_BUF_SIZE THEN <<>>
    ELSE [k \in 1 .. strlen(b, from) |-> b[from + k - 1]]

Text(b) == TextFrom(b, 0)

\* the first n bytes; a negative n is a huge unsigned one
Take(s, n) == IF n < 0 \/ n > Len(s) THEN s ELSE SubSeq(s, 1, n)

\* the string without its last character, if it has one
ButLast(s) == Take(s, Len(s) - 1)

\* strncmp(s1, s2, n) == 0
Same(s1, s2, n) == Take(s1, n) = Take(s2, n)

\* Faulty: the buffer keeps its text.
Cleared_Not(b) == b

\* memset(key_buf, NULL, strlen(key_buf))
Cleared(b) == [k \in Cells |-> IF k < strlen(b, 0) THEN "nul" ELSE b[k]]

\* memcpy(key_buf, row, n), the row being nul after its text
CopyIn(b, row, n) ==
    [k \in Cells |-> IF k >= n THEN b[k] ELSE IF k < Len(row) THEN row[k + 1] ELSE "nul"]

\* terminals[t].hist_buf[r], the key_bufs being bufs.  The rows before and after
\* the array are what the layout of term_t puts there: the end of this terminal's
\* key_buf, padding, and the end of the next terminal's key_buf.
RowAmong(bufs, t, r) ==
    CASE r \in 0 .. HIST_COM_NUM - 1 -> hist_buf[t][r]
      [] r = -1 -> TextFrom(bufs[t], UnderOffset)
      [] r = HIST_COM_NUM + 1 /\ t + 1 \in Terms -> TextFrom(bufs[t + 1], OverOffset)
      [] OTHER -> <<>>

Row(t, r) == RowAmong(key_buf, t, r)

-----------------------------------------------------------------------------
Init ==
    /\ vis_term_id = 0
    /\ key_buf = [t \in Terms |-> [k \in Cells |-> "nul"]]
    /\ key_buf_index = [t \in Terms |-> 0]
    /\ new_line = [t \in Terms |-> FALSE]
    /\ hist_buf = [t \in Terms |-> [r \in 0 .. HIST_COM_NUM - 1 |-> <<>>]]
    /\ hist_buf_index = [t \in Terms |-> 0]
    /\ cur_hist_index = [t \in Terms |-> 0]
    /\ hist = NoKey
    /\ wiped = FALSE
    /\ line = [t \in Terms |-> <<>>]
    /\ entered = [t \in Terms |-> <<>>]
    /\ reply = [ret |-> 0, bytes |-> <<>>]
    /\ disturbed = {}

\* The code does not foresee
\*  - a key for a terminal whose finished line is not read yet,
\*  - a history key that finds text beside the rows of the history,
\*  - an interrupt inside a history key's handler,
\*  - a read on a terminal that is not visible,
\* and ts are the terminals one of these concerns.
Disturbs(ts) == disturbed' = disturbed \cup ts

\* the visible terminal, if its finished line is not read yet
Ahead == {t \in {vis_term_id} : new_line[t]}

\* The user's line with one more character; a line longer than any buffer is
\* wrong already and is not followed further.
Typed(l, c) == IF Len(l) < KEY_BUF_SIZE THEN Append(l, c) ELSE l

Room(i) == i # KEY_BUF_SIZE - 1

\* print_char
Char(c) ==
    LET v == vis_term_id
        i == key_buf_index[v]
    IN  /\ ~wiped
        /\ Room(i)
        /\ key_buf' = [key_buf EXCEPT ![v][i] = c]
        /\ key_buf_index' = [key_buf_index EXCEPT ![v] = i + 1]
        /\ line' = [line EXCEPT ![v] = Typed(@, c)]
        /\ Disturbs(Ahead)
        /\ UNCHANGED <<vis_term_id, new_line, history, hist, wiped, reply, entered>>

\* process_input(BACKSPACE_P), as far as the buffer of the visible terminal goes
EraseLast ==
    LET v == vis_term_id
        i == key_buf_index[v]
    IN  \/ /\ i = 0
           /\ UNCHANGED <<key_buf, key_buf_index, line>>
        \/ /\ i > 0
           /\ key_buf' = [key_buf EXCEPT ![v][i - 1] = "nul"]
           /\ key_buf_index' = [key_buf_index EXCEPT ![v] = i - 1]
           /\ line' = [line EXCEPT ![v] = ButLast(@)]

Backspace ==
    /\ ~wiped
    /\ EraseLast
    /\ UNCHANGED <<vis_term_id, new_line, history, hist, wiped, reply, entered, disturbed>>

\* Faulty: no room is made for the newline, or it always goes to the end.
LastCell_NoRoom(i) == i
LastCell_End(i) == KEY_BUF_SIZE - 2

\* where Enter puts the newline
LastCell(i) == IF i < KEY_BUF_SIZE - 1 THEN i ELSE KEY_BUF_SIZE - 2

Enter ==
    LET v == vis_term_id
        last == LastCell(key_buf_index[v])
    IN  /\ ~wiped
        /\ key_buf' = [key_buf EXCEPT ![v][last] = "nl", ![v][last + 1] = "nul"]
        /\ key_buf_index' = [key_buf_index EXCEPT ![v] = 0]
        /\ new_line' = [new_line EXCEPT ![v] = TRUE]
        /\ entered' = [entered EXCEPT ![v] = line[v]]
        /\ line' = [line EXCEPT ![v] = <<>>]
        /\ Disturbs(Ahead)
        /\ UNCHANGED <<vis_term_id, history, hist, wiped, reply>>

\* Faulty: the index is not reset.
clear_buffer_Index(v) ==
    key_buf' = [key_buf EXCEPT ![v] = Cleared(@)] /\ UNCHANGED key_buf_index

\* clear_buffer
clear_buffer(v) ==
    /\ key_buf' = [key_buf EXCEPT ![v] = Cleared(@)]
    /\ key_buf_index' = [key_buf_index EXCEPT ![v] = 0]

CtrlL ==
    /\ ~wiped
    /\ clear_buffer(vis_term_id)
    /\ line' = [line EXCEPT ![vis_term_id] = <<>>]
    /\ Disturbs(Ahead)
    /\ UNCHANGED <<vis_term_id, new_line, history, hist, wiped, reply, entered>>

\* Alt+Fn
switch_terminal(t) ==
    /\ ~wiped
    /\ t # vis_term_id
    /\ vis_term_id' = t
    /\ UNCHANGED <<edit, history, hist, wiped, reply, ghosts>>

-----------------------------------------------------------------------------
(* Command history *)

\* Indices are followed up to the first one outside the array.
InArray(c) == c \in 0 .. HIST_COM_NUM

\* the row a history key recalls, counted from terminal v's cur_hist_index c
Target(key, c) == IF key = "up" THEN c - 1 ELSE c + 1

\* the end of a history key's handler: clear_buffer, and the recalled row.
\* read_buf, read_buf_index and cur_hist_index point into terminal t, fixed when
\* the handler began; clear_buffer and hist_buf go by the visible terminal v.
\* bufs are the key_bufs after clear_cur_cmd's backspaces.
Recall(key, t, v, bufs, buf_size, prev_size) ==
    LET c == cur_hist_index[t]
        cleared == [bufs EXCEPT ![v] = Cleared(@)]
        row == RowAmong(cleared, v, Target(key, c))
    IN  IF buf_size = 0
        THEN /\ key_buf' = cleared
             /\ key_buf_index' = [key_buf_index EXCEPT ![v] = 0]
             /\ cur_hist_index' = [cur_hist_index EXCEPT ![t] = IF prev_size # 0 THEN c + 1 ELSE c]
             /\ line' = [line EXCEPT ![v] = <<>>]
        ELSE /\ key_buf' = [cleared EXCEPT ![t] = CopyIn(@, row, buf_size)]
             /\ key_buf_index' = [key_buf_index EXCEPT ![v] = 0, ![t] = buf_size]
             /\ cur_hist_index' = [cur_hist_index EXCEPT ![t] = Target(key, c)]
             /\ line' = [line EXCEPT ![v] = <<>>, ![t] = Row(t, Target(key, c))]

\* the key_bufs once all of terminal v's line is backspaced over
Erased(v) ==
    [key_buf EXCEPT ![v] = [k \in Cells |-> IF k < key_buf_index[v] THEN "nul" ELSE @[k]]]

\* the sizes the handler takes before it clears the line
BufSize(key, v) == Len(Row(v, Target(key, cur_hist_index[v])))
PrevSize(key, v) == IF key = "up" THEN 0 ELSE Len(Row(v, cur_hist_index[v]))

\* UP with nothing to recall leaves the line alone
UpIgnored(key, v) == key = "up" /\ BufSize(key, v) = 0

\* terminal v, if what the key recalls is not a row of the history
Beside(key, v) ==
    {t \in {v} : BufSize(key, t) # 0 /\ Target(key, cur_hist_index[t]) \notin 0 .. HIST_COM_NUM - 1}

\* UP_KEY_P and DOWN_KEY_P, when no interrupt comes in between
HistoryKey(key) ==
    LET v == vis_term_id
    IN  /\ ~wiped
        /\ InArray(cur_hist_index[v])
        /\ ~UpIgnored(key, v)
        /\ Recall(key, v, v, Erased(v), BufSize(key, v), PrevSize(key, v))
        /\ Disturbs(Ahead \cup Beside(key, v))
        /\ UNCHANGED <<vis_term_id, new_line, hist_buf, hist_buf_index, hist, wiped, reply, entered>>

\* the same up to the first sti()
HistBegin(key) ==
    LET v == vis_term_id
    IN  /\ ~wiped
        /\ hist = NoKey
        /\ InArray(cur_hist_index[v])
        /\ ~UpIgnored(key, v)
        /\ key_buf_index[v] > 0
        /\ hist' = [key |-> key, term |-> v, char_cnt |-> key_buf_index[v] - 1,
                    buf_size |-> BufSize(key, v), prev_size |-> PrevSize(key, v)]
        /\ EraseLast
        /\ Disturbs({v})
        /\ UNCHANGED <<vis_term_id, new_line, history, wiped, reply, entered>>

\* one more turn of clear_cur_cmd's loop, on whatever terminal is visible now
HistErase ==
    /\ ~wiped
    /\ hist # NoKey
    /\ hist.char_cnt > 0
    /\ EraseLast
    /\ hist' = [hist EXCEPT !.char_cnt = @ - 1]
    /\ UNCHANGED <<vis_term_id, new_line, history, wiped, reply, entered, disturbed>>

HistEnd ==
    /\ ~wiped
    /\ hist # NoKey
    /\ hist.char_cnt = 0
    /\ InArray(cur_hist_index[hist.term])
    /\ Recall(hist.key, hist.term, vis_term_id, key_buf, hist.buf_size, hist.prev_size)
    /\ hist' = NoKey
    /\ Disturbs({vis_term_id, hist.term})
    /\ UNCHANGED <<vis_term_id, new_line, hist_buf, hist_buf_index, wiped, reply, entered>>

-----------------------------------------------------------------------------
\* Faulty: the same command is stored again.
Stores_Repeats(prev, command, buf_size) == buf_size # 0

\* the command exists and differs from the previous one
Stores(prev, command, buf_size) == buf_size # 0 /\ ~Same(prev, command, buf_size)

\* add_to_history, called with interrupts off; v is the visible terminal
add_to_history(v, command) ==
    LET h == hist_buf_index[v]
        buf_size == Len(command) - 1
        store == Stores(Row(v, h - 1), command, buf_size)
    IN  IF h >= HIST_COM_NUM
        THEN UNCHANGED <<history, wiped>>
        ELSE /\ hist_buf' = IF store /\ buf_size > 0
                            THEN [hist_buf EXCEPT ![v][h] = Take(command, buf_size)]
                            ELSE hist_buf
             /\ hist_buf_index' = [hist_buf_index EXCEPT ![v] = IF store THEN h + 1 ELSE h]
             /\ cur_hist_index' = [cur_hist_index EXCEPT ![v] = hist_buf_index'[v]]
             /\ wiped' = (store /\ buf_size < 0)

\* memcpy(buf, key_buf, n), as far as n bytes lie in key_buf
CopyOut(b, n) == [k \in 1 .. (IF n < KEY_BUF_SIZE THEN n ELSE KEY_BUF_SIZE) |-> b[k - 1]]

\* t is the scheduled terminal, whose program has called sys_read on stdin for n
\* bytes; what is returned is the length of the line, whatever n is
terminal_read(t, n) ==
    /\ ~wiped
    /\ new_line[t]
    /\ new_line' = [new_line EXCEPT ![t] = FALSE]
    /\ reply' = [ret |-> strlen(key_buf[t], 0), bytes |-> CopyOut(key_buf[t], n)]
    /\ add_to_history(vis_term_id, Text(key_buf[t]))
    /\ clear_buffer(vis_term_id)
    /\ entered' = [entered EXCEPT ![t] = <<>>]
    /\ Disturbs(IF t = vis_term_id THEN {} ELSE {t, vis_term_id})
    /\ UNCHANGED <<vis_term_id, hist, line>>

Next ==
    \/ \E c \in Letters : Char(c)
    \/ Backspace
    \/ Enter
    \/ CtrlL
    \/ \E t \in Terms : switch_terminal(t) \/ \E n \in ReadSizes : terminal_read(t, n)
    \/ \E key \in {"up", "down"} : HistoryKey(key) \/ HistBegin(key)
    \/ HistErase
    \/ HistEnd

Spec == Init /\ [][Next]_vars

-----------------------------------------------------------------------------
(* Properties *)

\* The variables keep their types.
TypeOK ==
    /\ vis_term_id \in Terms
    /\ key_buf \in [Terms -> [Cells -> Bytes]]
    /\ key_buf_index \in [Terms -> Cells]
    /\ new_line \in [Terms -> BOOLEAN]
    /\ DOMAIN hist_buf = Terms
    /\ hist_buf_index \in [Terms -> 0 .. HIST_COM_NUM]
    /\ cur_hist_index \in [Terms -> Int]
    /\ wiped \in BOOLEAN

\* Whatever is typed, recalled, switched and read, and in whatever order, a
\* buffer ends with a nul: the strlen calls stay inside it.
Terminated == \A t \in Terms : key_buf[t][KEY_BUF_SIZE - 1] = "nul"

Undisturbed == {t \in Terms \ disturbed : ~wiped}

\* While a line is being edited, the buffer holds that line, its index is at the
\* end of it and the rest of the buffer is clear, through any mixture of typing,
\* erasing, recalling, clearing and terminal switches, and whatever unforeseen
\* happens to the other terminals (process_input).
EditFaithful ==
    \A t \in Undisturbed : ~new_line[t] =>
        /\ key_buf_index[t] = Len(line[t])
        /\ \A k \in Cells : key_buf[t][k] =
              IF k < Len(line[t]) THEN line[t][k + 1] ELSE "nul"

\* terminal_read hands the program the line the user entered on its terminal,
\* with its newline and then nuls, as far as the n bytes asked for go, and returns
\* the length of the line; a line that fills the buffer loses its last character.
DeliversLine ==
    [][\A t \in Undisturbed, n \in ReadSizes : terminal_read(t, n) =>
          LET whole == Append(Take(entered[t], KEY_BUF_SIZE - 2), "nl")
          IN  /\ reply'.ret = Len(whole)
              /\ \A k \in DOMAIN reply'.bytes :
                    reply'.bytes[k] = IF k <= Len(whole) THEN whole[k] ELSE "nul"]_vars

\* The history is never handed a line without at least its newline
\* ("if it exists", keyboard.c 284): strncpy would get a negative length.
NeverWiped == ~wiped

\* The place in the history stays within it.
HistoryPlace == \A t \in Terms : cur_hist_index[t] \in 0 .. hist_buf_index[t]

\* The history of a terminal holds no empty row below its index, nothing above
\* it, and never the same command twice in a row; the place the history keys
\* have reached stays within it; and strncpy never gets a negative length
\* (add_to_history, UP_KEY_P, DOWN_KEY_P).
HistorySound ==
    /\ wiped => disturbed # {}
    /\ \A t \in Undisturbed :
          /\ cur_hist_index[t] \in 0 .. hist_buf_index[t]
          /\ \A r \in 0 .. HIST_COM_NUM - 1 :
                /\ r < hist_buf_index[t] <=> hist_buf[t][r] # <<>>
                /\ 0 < r /\ r < hist_buf_index[t] => hist_buf[t][r] # hist_buf[t][r - 1]

\* The key buffer's text, in terms of what the user typed
Held(t) ==
    IF new_line[t] THEN Append(Take(entered[t], KEY_BUF_SIZE - 2), "nl") ELSE line[t]

\* The place in the history leaves it only where a row beside the history holds
\* text: UP at the oldest command, over more than UnderOffset characters in the
\* same terminal's buffer, or DOWN at the end of a full history, while the next
\* terminal's buffer holds more than OverOffset (UP_KEY_P, DOWN_KEY_P).
StraysOverLongLines ==
    [][\A t \in Undisturbed : cur_hist_index'[t] \notin 0 .. hist_buf_index'[t] =>
          \/ cur_hist_index[t] = 0 /\ Len(Held(t)) > UnderOffset
          \/ /\ cur_hist_index[t] = HIST_COM_NUM
             /\ t + 1 \in Undisturbed => Len(Held(t + 1)) > OverOffset]_vars

\* "Clear the old keyboard data buffer" (terminal.c 53): the line that was read
\* does not stay in the buffer it came from.
ReadClearsOwn ==
    [][\A t \in Terms : terminal_read(t, KEY_BUF_SIZE) => Text(key_buf'[t]) = <<>>]_vars

\* A command is recorded "if it exists and isn't the same as the previous
\* command" (keyboard.c 284).
RecordsNew ==
    [][\A t \in Terms :
          LET command == ButLast(Text(key_buf[t]))
              h == hist_buf_index[t]
          IN  terminal_read(t, KEY_BUF_SIZE) /\ t = vis_term_id /\ h < HIST_COM_NUM /\ command # <<>>
              /\ (h > 0 => hist_buf[t][h - 1] # command)
                => hist_buf'[t][h] = command]_vars

\* A full line is preserved: "preserving 128 and leaving the last for
\* terminators" (bug_log.txt 9).
FullLineKept ==
    [][\A t \in Terms : terminal_read(t, KEY_BUF_SIZE) /\ Len(entered[t]) = KEY_BUF_SIZE - 1
          => \A k \in DOMAIN entered[t] : reply'.bytes[k] = entered[t][k]]_vars
=============================================================================
