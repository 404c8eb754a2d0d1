-------------------------- MODULE LineInputProofs ---------------------------
(***************************************************************************)
(* Proofs about the lines a user types (LineInput), for every timing of    *)
(* keys, reads, switches and interrupts.  That the buffers stay terminated *)
(* holds for all terminals; that the line edited, the line read and the    *)
(* history are right, for those that are not disturbed.                    *)
(***************************************************************************)
EXTENDS LineInput, SequenceTheorems, NaturalsInduction, WellFoundedInduction, TLAPS

Printed == Letters \cup {"nl"}
Keys == {"up", "down"}
RowIndex == 0 .. HIST_COM_NUM - 1

\* A row of the history is a string that fits a buffer with its nul.
Rows ==
    \A t \in Terms : /\ DOMAIN hist_buf[t] = RowIndex
                     /\ \A r \in RowIndex : /\ hist_buf[t][r] \in Seq(Printed)
                                            /\ Len(hist_buf[t][r]) < KEY_BUF_SIZE

\* An interrupted history key remembers its terminal and a size that fits.
Interrupted ==
    [key : Keys, term : Terms, char_cnt : Nat, buf_size : Cells, prev_size : Nat]

Pending == hist # NoKey => hist \in Interrupted

\* The inductive invariant that holds whatever the timing.
TInv == TypeOK /\ Terminated /\ Rows /\ Pending

\* How much of an entered line is kept in front of its newline.
Kept(l) == IF Len(l) < KEY_BUF_SIZE - 1 THEN Len(l) ELSE KEY_BUF_SIZE - 2

\* The buffer b holds the entered line l, its newline, and nuls.
Holds(b, l) ==
    \A k \in Cells : b[k] = CASE k < Kept(l) -> l[k + 1]
                              [] k = Kept(l) -> "nl"
                              [] OTHER -> "nul"

-----------------------------------------------------------------------------
(* C strings *)

\* A buffer with a nul in its last cell.
Good(b) == b \in [Cells -> Bytes] /\ b[KEY_BUF_SIZE - 1] = "nul"

\* A set of natural numbers has a least element.
LEMMA Least ==
    ASSUME NEW T \in SUBSET Nat, T # {}
    PROVE  \E x \in T : \A y \in T : x <= y
<1> DEFINE Before == {ss \in Nat \X Nat : ss[1] < ss[2]}
<1>1. IsWellFoundedOn(Before, Nat)
  BY NatLessThanWellFounded DEF OpToRel
<1> HIDE DEF Before
<1>2. PICK x \in T : \A y \in T : ~(<<y, x>> \in Before)
  BY <1>1, WFMin
<1>3. \A y \in T : ~(y < x)
  BY <1>2 DEF Before
<1> QED
  BY <1>3

\* The constants, as the leaves need them.
LEMMA Sizes ==
    /\ KEY_BUF_SIZE \in Nat /\ KEY_BUF_SIZE >= 3
    /\ KEY_BUF_SIZE - 1 \in Cells /\ 0 \in Cells
    /\ Cells \subseteq Nat /\ Cells = 0 .. KEY_BUF_SIZE - 1
    /\ HIST_COM_NUM \in Nat \ {0}
    /\ MAX_TERM_NUM \in Nat \ {0} /\ 0 \in Terms /\ Terms \subseteq Nat
  BY LineInputAssumption DEF Cells, Terms

LEMMA Characters ==
    /\ "nul" \in Bytes /\ "nl" \in Bytes /\ Letters \subseteq Bytes /\ Printed = Bytes \ {"nul"}
    /\ "nul" \notin Letters /\ "nl" \notin Letters /\ "nul" \notin Printed
    /\ Letters \subseteq Printed /\ "nl" \in Printed
<1>1. {"nul", "nl"} \cap Letters = {}
  BY LineInputAssumption
<1>2. "nul" # "nl"
  OBVIOUS
<1> QED
  BY <1>1, <1>2 DEF Bytes, Printed

\* strlen finds the first nul of a terminated buffer.
LEMMA StrlenFirst ==
    ASSUME NEW b, Good(b), NEW from \in Cells
    PROVE  /\ strlen(b, from) \in Nat
           /\ from + strlen(b, from) \in Cells
           /\ b[from + strlen(b, from)] = "nul"
           /\ \A j \in from .. from + strlen(b, from) - 1 : b[j] # "nul"
<1> DEFINE T == {k \in from .. KEY_BUF_SIZE - 1 : b[k] = "nul"}
           First(k) == b[k] = "nul" /\ \A j \in from .. k - 1 : b[j] # "nul"
<1>1. T \in SUBSET Nat /\ KEY_BUF_SIZE - 1 \in T
  BY Sizes DEF Good
<1>2. PICK x \in T : \A y \in T : x <= y
  BY <1>1, Least
<1>3. x \in from .. KEY_BUF_SIZE - 1 /\ First(x)
  BY <1>1, <1>2, Sizes
<1>4. \E k \in from .. KEY_BUF_SIZE - 1 : First(k)
  BY <1>3
<1> HIDE DEF First
<1> DEFINE c == CHOOSE k \in from .. KEY_BUF_SIZE - 1 : First(k)
<1>5. c \in from .. KEY_BUF_SIZE - 1 /\ First(c)
  BY <1>4
<1>6. strlen(b, from) = c - from
  BY DEF strlen, First
<1> HIDE DEF c
<1>7. strlen(b, from) \in Nat /\ from + strlen(b, from) = c /\ c \in Cells
  BY <1>5, <1>6, Sizes
<1> QED
  BY <1>5, <1>7 DEF First

\* Only one place can be the first nul.
LEMMA StrlenUnique ==
    ASSUME NEW b, Good(b), NEW n \in Cells, b[n] = "nul", \A j \in 0 .. n - 1 : b[j] # "nul"
    PROVE  strlen(b, 0) = n
<1>1. /\ strlen(b, 0) \in Nat /\ 0 + strlen(b, 0) \in Cells
      /\ b[0 + strlen(b, 0)] = "nul"
      /\ \A j \in 0 .. 0 + strlen(b, 0) - 1 : b[j] # "nul"
  BY Sizes, StrlenFirst
<1> DEFINE m == strlen(b, 0)
<1>2. m \in Nat /\ b[m] = "nul" /\ \A j \in 0 .. m - 1 : b[j] # "nul"
  BY <1>1
<1> HIDE DEF m
<1>3. n \in Nat
  BY Sizes
<1>4. ~(m < n) /\ ~(n < m)
  BY <1>2, <1>3
<1> QED
  BY <1>2, <1>3, <1>4 DEF m

\* A string in a terminated buffer fits a buffer with its nul.
LEMMA TextFits ==
    ASSUME NEW b, Good(b), NEW from \in Nat
    PROVE  /\ TextFrom(b, from) \in Seq(Printed)
           /\ Len(TextFrom(b, from)) \in Nat /\ Len(TextFrom(b, from)) < KEY_BUF_SIZE
<1>1. CASE from >= KEY_BUF_SIZE
  BY <1>1, Sizes, EmptySeq DEF TextFrom
<1>2. CASE from < KEY_BUF_SIZE
  <2> DEFINE n == strlen(b, from)
             s == [k \in 1 .. n |-> b[from + k - 1]]
  <2>1. from \in Cells
    BY <1>2, Sizes
  <2>2. /\ n \in Nat /\ from + n \in Cells
        /\ \A j \in from .. from + n - 1 : b[j] # "nul"
    BY <2>1, StrlenFirst
  <2>3. TextFrom(b, from) = s
    BY <1>2, Sizes DEF TextFrom
  <2> HIDE DEF n
  <2>4. \A k \in 1 .. n : b[from + k - 1] \in Printed
    <3> TAKE k \in 1 .. n
    <3>1. from + k - 1 \in from .. from + n - 1 /\ from + k - 1 \in Cells
      BY <2>2, Sizes
    <3> QED
      BY <2>2, <3>1, Characters DEF Good
  <2>5. s \in [1 .. n -> Printed]
    BY <2>4
  <2>6. s \in Seq(Printed) /\ Len(s) = n
    BY <2>2, <2>5
  <2> QED
    BY <2>2, <2>3, <2>6, Sizes
<1> QED
  BY <1>1, <1>2, Sizes

LEMMA RowFits ==
    ASSUME TInv, NEW bufs, \A u \in Terms : Good(bufs[u]), NEW t \in Terms, NEW r \in Int
    PROVE  /\ RowAmong(bufs, t, r) \in Seq(Printed)
           /\ Len(RowAmong(bufs, t, r)) \in Nat /\ Len(RowAmong(bufs, t, r)) < KEY_BUF_SIZE
<1>1. CASE r \in 0 .. HIST_COM_NUM - 1
  <2>1. RowAmong(bufs, t, r) = hist_buf[t][r]
    BY <1>1, Sizes DEF RowAmong
  <2>2. hist_buf[t][r] \in Seq(Printed) /\ Len(hist_buf[t][r]) < KEY_BUF_SIZE
    BY <1>1 DEF TInv, Rows, RowIndex
  <2> QED
    BY <2>1, <2>2, LenProperties
<1>2. CASE r = -1
  <2>1. RowAmong(bufs, t, r) = TextFrom(bufs[t], UnderOffset)
    BY <1>2, Sizes DEF RowAmong
  <2> QED
    BY <2>1, TextFits, LineInputAssumption
<1>3. CASE r = HIST_COM_NUM + 1 /\ t + 1 \in Terms
  <2>1. RowAmong(bufs, t, r) = TextFrom(bufs[t + 1], OverOffset)
    BY <1>3, Sizes DEF RowAmong
  <2> QED
    BY <1>3, <2>1, TextFits, LineInputAssumption
<1>4. CASE ~(r \in 0 .. HIST_COM_NUM - 1 \/ r = -1 \/ (r = HIST_COM_NUM + 1 /\ t + 1 \in Terms))
  <2>1. RowAmong(bufs, t, r) = <<>>
    BY <1>4 DEF RowAmong
  <2> QED
    BY <2>1, Sizes, EmptySeq
<1> QED
  BY <1>1, <1>2, <1>3, <1>4

-----------------------------------------------------------------------------
(* What is done to a buffer leaves it terminated. *)

LEMMA GoodPut ==
    ASSUME NEW b, Good(b), NEW i \in Cells, NEW c \in Bytes, i = KEY_BUF_SIZE - 1 => c = "nul"
    PROVE  Good([b EXCEPT ![i] = c])
  BY Sizes DEF Good

LEMMA GoodCleared ==
    ASSUME NEW b, Good(b)
    PROVE  Good(Cleared(b))
  BY Sizes, Characters DEF Good, Cleared

LEMMA GoodCopy ==
    ASSUME NEW b, Good(b), NEW row \in Seq(Printed), Len(row) < KEY_BUF_SIZE, NEW n \in Nat
    PROVE  Good(CopyIn(b, row, n))
<1>1. Len(row) \in Nat /\ \A k \in 1 .. Len(row) : row[k] \in Printed
  BY LenProperties, ElementOfSeq
<1>2. \A k \in Cells : k < Len(row) => row[k + 1] \in Bytes
  BY <1>1, Sizes, Characters
<1>3. CopyIn(b, row, n) \in [Cells -> Bytes]
  BY <1>2, Characters DEF CopyIn, Good
<1>4. ~(KEY_BUF_SIZE - 1 < Len(row))
  BY <1>1, Sizes
<1> QED
  BY <1>3, <1>4, Sizes DEF CopyIn, Good

LEMMA GoodErased ==
    ASSUME NEW b, Good(b), NEW n \in Cells
    PROVE  Good([k \in Cells |-> IF k < n THEN "nul" ELSE b[k]])
  BY Sizes, Characters DEF Good

\* The part of the invariant that the buffers make up.
Bufs(f, index) ==
    /\ f \in [Terms -> [Cells -> Bytes]] /\ \A t \in Terms : Good(f[t])
    /\ index \in [Terms -> Cells]

LEMMA BufsAre == TInv => Bufs(key_buf, key_buf_index)
  BY DEF TInv, TypeOK, Terminated, Bufs, Good

\* The rest of it.
Rest ==
    /\ vis_term_id \in Terms
    /\ new_line \in [Terms -> BOOLEAN]
    /\ DOMAIN hist_buf = Terms
    /\ hist_buf_index \in [Terms -> 0 .. HIST_COM_NUM]
    /\ cur_hist_index \in [Terms -> Int]
    /\ wiped \in BOOLEAN
    /\ Rows /\ Pending

LEMMA TInvIs == TInv <=> Bufs(key_buf, key_buf_index) /\ Rest
<1>1. Bufs(key_buf, key_buf_index) => key_buf \in [Terms -> [Cells -> Bytes]] /\ Terminated
  BY DEF Bufs, Good, Terminated
<1> QED
  BY <1>1, BufsAre DEF TInv, TypeOK, Rest, Bufs

LEMMA TInvIsNext == TInv' <=> Bufs(key_buf', key_buf_index') /\ Rest'
<1>1. Bufs(key_buf', key_buf_index') <=> Bufs(key_buf, key_buf_index)'
  BY DEF Bufs, Good
<1>2. TInv' <=> Bufs(key_buf, key_buf_index)' /\ Rest'
  BY TInvIs, PTL
<1> QED
  BY <1>1, <1>2

LEMMA BufsPut ==
    ASSUME NEW f, NEW index, Bufs(f, index), NEW v \in Terms, NEW b, Good(b), NEW i \in Cells
    PROVE  Bufs([f EXCEPT ![v] = b], [index EXCEPT ![v] = i])
  BY DEF Bufs, Good

LEMMA BufsSet ==
    ASSUME NEW f, NEW index, Bufs(f, index), NEW v \in Terms, NEW b, Good(b)
    PROVE  Bufs([f EXCEPT ![v] = b], index)
  BY DEF Bufs, Good

LEMMA EraseKeeps ==
    ASSUME TInv, EraseLast
    PROVE  Bufs(key_buf', key_buf_index')
<1> DEFINE v == vis_term_id
           i == key_buf_index[v]
<1>1. Bufs(key_buf, key_buf_index) /\ v \in Terms
  BY TInvIs DEF Rest
<1>2. i \in Cells /\ Good(key_buf[v])
  BY <1>1 DEF Bufs
<1>3. CASE i = 0
  BY <1>1, <1>3 DEF EraseLast
<1>4. CASE i > 0
  <2>1. i - 1 \in Cells
    BY <1>2, <1>4, Sizes
  <2>2. Good([key_buf[v] EXCEPT ![i - 1] = "nul"])
    BY <1>2, <2>1, GoodPut, Characters
  <2>3. /\ key_buf' = [key_buf EXCEPT ![v] = [key_buf[v] EXCEPT ![i - 1] = "nul"]]
        /\ key_buf_index' = [key_buf_index EXCEPT ![v] = i - 1]
    BY <1>4 DEF EraseLast
  <2> QED
    BY <1>1, <2>1, <2>2, <2>3, BufsPut
<1> QED
  BY <1>3, <1>4 DEF EraseLast

LEMMA RecallKeeps ==
    ASSUME TInv, NEW key \in Keys, NEW t \in Terms, NEW v \in Terms, NEW bufs,
           Bufs(bufs, key_buf_index), NEW buf_size \in Cells, NEW prev_size,
           Recall(key, t, v, bufs, buf_size, prev_size)
    PROVE  Bufs(key_buf', key_buf_index') /\ cur_hist_index' \in [Terms -> Int]
<1> DEFINE c == cur_hist_index[t]
           cleared == [bufs EXCEPT ![v] = Cleared(bufs[v])]
           row == RowAmong(cleared, v, Target(key, c))
           index0 == [key_buf_index EXCEPT ![v] = 0]
<1>1. c \in Int /\ Target(key, c) \in Int /\ cur_hist_index \in [Terms -> Int]
  BY DEF TInv, TypeOK, Target
<1>2. Good(bufs[v])
  BY DEF Bufs
<1>3. Bufs(cleared, index0)
  BY <1>2, Sizes, GoodCleared, BufsPut
<1>4. \A u \in Terms : Good(cleared[u])
  BY <1>3 DEF Bufs
<1> HIDE DEF cleared
<1>5. row \in Seq(Printed) /\ Len(row) < KEY_BUF_SIZE
  BY <1>1, <1>4, RowFits
<1> HIDE DEF row, index0
<1>6. Good(CopyIn(cleared[t], row, buf_size))
  BY <1>4, <1>5, GoodCopy, Sizes
<1>7. CASE buf_size = 0
  <2>1. key_buf' = cleared /\ key_buf_index' = index0
    BY <1>7 DEF Recall, cleared, index0
  <2>2. cur_hist_index' = [cur_hist_index EXCEPT ![t] = IF prev_size # 0 THEN c + 1 ELSE c]
    BY <1>7 DEF Recall
  <2> QED
    BY <1>1, <1>3, <2>1, <2>2
<1>8. CASE buf_size # 0
  <2>1. /\ key_buf' = [cleared EXCEPT ![t] = CopyIn(cleared[t], row, buf_size)]
        /\ key_buf_index' = [index0 EXCEPT ![t] = buf_size]
        /\ cur_hist_index' = [cur_hist_index EXCEPT ![t] = Target(key, c)]
    BY <1>8 DEF Recall, cleared, index0, row
  <2>2. Bufs(key_buf', key_buf_index')
    BY <1>3, <1>6, <2>1, BufsPut
  <2> QED
    BY <1>1, <2>1, <2>2
<1> QED
  BY <1>7, <1>8

-----------------------------------------------------------------------------
(* Every action keeps TInv. *)

\* The variables that an action on the buffers alone leaves to Rest.
LEMMA RestSame ==
    ASSUME Rest, UNCHANGED <<new_line, hist_buf, hist_buf_index, cur_hist_index, wiped>>,
           vis_term_id' \in Terms, Pending'
    PROVE  Rest'
  BY DEF Rest, Rows, RowIndex

LEMMA CharKeeps ==
    ASSUME TInv, NEW ch \in Letters, Char(ch)
    PROVE  TInv'
<1> DEFINE v == vis_term_id
           i == key_buf_index[v]
<1>1. Bufs(key_buf, key_buf_index) /\ Rest /\ v \in Terms
  BY TInvIs DEF Rest
<1>2. i \in Cells /\ Good(key_buf[v]) /\ i # KEY_BUF_SIZE - 1
  BY <1>1 DEF Bufs, Char, Room
<1>3. i + 1 \in Cells /\ Good([key_buf[v] EXCEPT ![i] = ch])
  BY <1>2, GoodPut, Characters, Sizes
<1>4. /\ key_buf' = [key_buf EXCEPT ![v] = [key_buf[v] EXCEPT ![i] = ch]]
      /\ key_buf_index' = [key_buf_index EXCEPT ![v] = i + 1]
  BY DEF Char
<1>5. Bufs(key_buf', key_buf_index')
  BY <1>1, <1>3, <1>4, BufsPut
<1>6. Rest'
  BY <1>1, RestSame DEF Char, history, Rest, Pending
<1> QED
  BY <1>5, <1>6, TInvIsNext

LEMMA EnterBuffer ==
    ASSUME TInv, Enter
    PROVE  LET last == LastCell(key_buf_index[vis_term_id])
           IN  /\ key_buf'[vis_term_id] =
                      [key_buf[vis_term_id] EXCEPT ![last] = "nl", ![last + 1] = "nul"]
               /\ \A u \in Terms \ {vis_term_id} : key_buf'[u] = key_buf[u]
<1> DEFINE v == vis_term_id
           last == LastCell(key_buf_index[v])
           b == [key_buf[v] EXCEPT ![last] = "nl"]
<1>1. v \in Terms /\ key_buf \in [Terms -> [Cells -> Bytes]]
  BY TInvIs DEF Rest, Bufs
<1>2. key_buf' = [[key_buf EXCEPT ![v] = b] EXCEPT ![v] = [[key_buf EXCEPT ![v] = b][v]
                                                              EXCEPT ![last + 1] = "nul"]]
  BY DEF Enter
<1> HIDE DEF b, last
<1>3. [key_buf EXCEPT ![v] = b][v] = b
  BY <1>1
<1> DEFINE d == [b EXCEPT ![last + 1] = "nul"]
<1>4. key_buf' = [[key_buf EXCEPT ![v] = b] EXCEPT ![v] = d]
  BY <1>1, <1>2, <1>3
<1> HIDE DEF d
<1>5. key_buf'[v] = d /\ \A u \in Terms \ {v} : key_buf'[u] = key_buf[u]
  BY <1>1, <1>4
<1> QED
  BY <1>5 DEF b, d, last

LEMMA EnterKeeps ==
    ASSUME TInv, Enter
    PROVE  TInv'
<1> DEFINE v == vis_term_id
           last == LastCell(key_buf_index[v])
           b == [key_buf[v] EXCEPT ![last] = "nl"]
<1>1. Bufs(key_buf, key_buf_index) /\ Rest /\ v \in Terms
  BY TInvIs DEF Rest
<1>2. key_buf_index[v] \in Cells /\ Good(key_buf[v])
  BY <1>1 DEF Bufs
<1>3. last \in Cells /\ last + 1 \in Cells /\ last # KEY_BUF_SIZE - 1
  BY <1>2, Sizes DEF LastCell
<1>4. /\ key_buf' = [key_buf EXCEPT ![v] = [b EXCEPT ![last + 1] = "nul"]]
      /\ key_buf_index' = [key_buf_index EXCEPT ![v] = 0]
      /\ new_line' = [new_line EXCEPT ![v] = TRUE]
  BY DEF Enter
<1> HIDE DEF last
<1>5. Good(b)
  BY <1>2, <1>3, GoodPut, Characters
<1> HIDE DEF b
<1>6. Good([b EXCEPT ![last + 1] = "nul"])
  BY <1>3, <1>5, GoodPut, Characters
<1>7. Bufs(key_buf', key_buf_index')
  BY <1>1, <1>4, <1>6, BufsPut, Sizes
<1>8. Rest'
  BY <1>1, <1>4 DEF Rest, Rows, RowIndex, Pending, Enter, history
<1> QED
  BY <1>7, <1>8, TInvIsNext

LEMMA ClearKeeps ==
    ASSUME TInv, NEW v \in Terms, clear_buffer(v)
    PROVE  Bufs(key_buf', key_buf_index')
<1>1. Bufs(key_buf, key_buf_index) /\ Good(key_buf[v])
  BY TInvIs DEF Bufs
<1> QED
  BY <1>1, GoodCleared, BufsPut, Sizes DEF clear_buffer

\* The line of terminal v, all of it erased.
LEMMA ErasedGood ==
    ASSUME TInv, NEW v \in Terms
    PROVE  Bufs(Erased(v), key_buf_index)
<1>1. Bufs(key_buf, key_buf_index) /\ Good(key_buf[v]) /\ key_buf_index[v] \in Cells
  BY TInvIs DEF Bufs
<1> DEFINE b == [k \in Cells |-> IF k < key_buf_index[v] THEN "nul" ELSE key_buf[v][k]]
<1>2. Erased(v) = [key_buf EXCEPT ![v] = b]
  BY DEF Erased
<1>3. Good(b)
  BY <1>1, GoodErased
<1> HIDE DEF b
<1>4. Bufs([key_buf EXCEPT ![v] = b], key_buf_index)
  BY <1>1, <1>3, BufsSet
<1> QED
  BY <1>2, <1>4

LEMMA SizesFit ==
    ASSUME TInv, NEW key \in Keys, NEW v \in Terms
    PROVE  BufSize(key, v) \in Cells /\ PrevSize(key, v) \in Nat
<1>1. /\ cur_hist_index[v] \in Int /\ Target(key, cur_hist_index[v]) \in Int
      /\ \A u \in Terms : Good(key_buf[u])
  BY BufsAre DEF TInv, TypeOK, Target, Bufs
<1>2. Row(v, Target(key, cur_hist_index[v])) = RowAmong(key_buf, v, Target(key, cur_hist_index[v]))
      /\ Row(v, cur_hist_index[v]) = RowAmong(key_buf, v, cur_hist_index[v])
  BY DEF Row
<1>3. /\ Len(RowAmong(key_buf, v, Target(key, cur_hist_index[v]))) \in Nat
      /\ Len(RowAmong(key_buf, v, Target(key, cur_hist_index[v]))) < KEY_BUF_SIZE
      /\ Len(RowAmong(key_buf, v, cur_hist_index[v])) \in Nat
  BY <1>1, RowFits
<1> QED
  BY <1>2, <1>3, Sizes DEF BufSize, PrevSize

LEMMA HistoryKeyKeeps ==
    ASSUME TInv, NEW key \in Keys, HistoryKey(key)
    PROVE  TInv'
<1> DEFINE v == vis_term_id
<1>1. Rest /\ v \in Terms /\ BufSize(key, v) \in Cells /\ Bufs(Erased(v), key_buf_index)
  BY TInvIs, SizesFit, ErasedGood DEF Rest
<1>2. Recall(key, v, v, Erased(v), BufSize(key, v), PrevSize(key, v))
  BY DEF HistoryKey
<1>3. Bufs(key_buf', key_buf_index') /\ cur_hist_index' \in [Terms -> Int]
  BY <1>1, <1>2, RecallKeeps
<1>4. Rest'
  BY <1>1, <1>3 DEF Rest, Rows, RowIndex, Pending, HistoryKey
<1> QED
  BY <1>3, <1>4, TInvIsNext

LEMMA HistBeginKeeps ==
    ASSUME TInv, NEW key \in Keys, HistBegin(key)
    PROVE  TInv'
<1> DEFINE v == vis_term_id
<1>1. Rest /\ v \in Terms /\ BufSize(key, v) \in Cells /\ PrevSize(key, v) \in Nat
      /\ key_buf_index[v] \in Cells
  BY TInvIs, SizesFit DEF Rest, Bufs
<1>2. Bufs(key_buf', key_buf_index')
  BY EraseKeeps DEF HistBegin
<1>3. key_buf_index[v] - 1 \in Nat
  BY <1>1, Sizes DEF HistBegin
<1>4. hist' \in Interrupted
  BY <1>1, <1>3 DEF HistBegin, Interrupted
<1>5. Rest'
  BY <1>1, <1>4, RestSame DEF Pending, HistBegin, history
<1> QED
  BY <1>2, <1>5, TInvIsNext

LEMMA HistEraseKeeps ==
    ASSUME TInv, HistErase
    PROVE  TInv'
<1>1. Rest /\ vis_term_id \in Terms /\ hist \in Interrupted
  BY TInvIs DEF Rest, Pending, HistErase
<1>2. Bufs(key_buf', key_buf_index')
  BY EraseKeeps DEF HistErase
<1>3. hist' \in Interrupted
  BY <1>1 DEF HistErase, Interrupted
<1>4. Rest'
  BY <1>1, <1>3, RestSame DEF Pending, HistErase, history
<1> QED
  BY <1>2, <1>4, TInvIsNext

LEMMA HistEndKeeps ==
    ASSUME TInv, HistEnd
    PROVE  TInv'
<1>1. Rest /\ vis_term_id \in Terms /\ hist \in Interrupted /\ Bufs(key_buf, key_buf_index)
  BY TInvIs DEF Rest, Pending, HistEnd
<1>2. hist.key \in Keys /\ hist.term \in Terms /\ hist.buf_size \in Cells
  BY <1>1 DEF Interrupted
<1>3. Recall(hist.key, hist.term, vis_term_id, key_buf, hist.buf_size, hist.prev_size)
  BY DEF HistEnd
<1>4. Bufs(key_buf', key_buf_index') /\ cur_hist_index' \in [Terms -> Int]
  BY <1>1, <1>2, <1>3, RecallKeeps
<1>5. Rest'
  BY <1>1, <1>4 DEF Rest, Rows, RowIndex, Pending, HistEnd
<1> QED
  BY <1>4, <1>5, TInvIsNext

\* The first n characters of a string.
LEMMA TakeIs ==
    ASSUME NEW S, NEW s \in Seq(S), NEW n \in 0 .. Len(s)
    PROVE  /\ Take(s, n) \in Seq(S) /\ Len(Take(s, n)) = n
           /\ \A k \in 1 .. n : Take(s, n)[k] = s[k]
<1>1. Len(s) \in Nat /\ \A k \in 1 .. n : s[k] \in S
  BY LenProperties, ElementOfSeq
<1>2. Take(s, n) = SubSeq(s, 1, n)
  BY <1>1 DEF Take
<1>3. /\ SubSeq(s, 1, n) \in Seq(S)
      /\ Len(SubSeq(s, 1, n)) = IF 1 <= n THEN n - 1 + 1 ELSE 0
      /\ \A k \in 1 .. n - 1 + 1 : SubSeq(s, 1, n)[k] = s[1 + k - 1]
  BY <1>1, SubSeqProperties
<1> QED
  BY <1>1, <1>2, <1>3

LEMMA WithoutNewline ==
    ASSUME NEW p \in Seq(Printed)
    PROVE  /\ Append(p, "nl") \in Seq(Printed) /\ Len(Append(p, "nl")) - 1 = Len(p)
           /\ Len(p) \in Nat
           /\ Take(Append(p, "nl"), Len(Append(p, "nl")) - 1) = p
<1> DEFINE a == Append(p, "nl")
<1>1. a \in Seq(Printed) /\ Len(a) = Len(p) + 1 /\ \A k \in 1 .. Len(p) : a[k] = p[k]
  BY Characters, AppendProperties
<1> HIDE DEF a
<1>2. Len(p) \in Nat /\ Len(a) - 1 = Len(p) /\ Len(p) \in 0 .. Len(a)
  BY <1>1, LenProperties
<1>3. /\ Take(a, Len(p)) \in Seq(Printed) /\ Len(Take(a, Len(p))) = Len(p)
      /\ \A k \in 1 .. Len(p) : Take(a, Len(p))[k] = a[k]
  BY <1>1, <1>2, TakeIs
<1>4. \A k \in 1 .. Len(Take(a, Len(p))) : Take(a, Len(p))[k] = p[k]
  BY <1>1, <1>3
<1>5. Take(a, Len(p)) = p
  BY <1>3, <1>4, SeqEqual
<1> QED
  BY <1>1, <1>2, <1>5 DEF a

LEMMA AddKeeps ==
    ASSUME Rest, NEW v \in Terms, NEW command \in Seq(Printed), Len(command) < KEY_BUF_SIZE,
           add_to_history(v, command)
    PROVE  /\ Rows' /\ DOMAIN hist_buf' = Terms
           /\ hist_buf_index' \in [Terms -> 0 .. HIST_COM_NUM]
           /\ cur_hist_index' \in [Terms -> Int]
           /\ wiped' \in BOOLEAN
<1> DEFINE h == hist_buf_index[v]
           n == Len(command) - 1
           store == Stores(Row(v, h - 1), command, n)
<1>1. h \in 0 .. HIST_COM_NUM /\ Len(command) \in Nat /\ n \in Int
  BY LenProperties DEF Rest
<1>2. CASE h >= HIST_COM_NUM
  BY <1>2 DEF add_to_history, history, Rest, Rows, RowIndex
<1>3. CASE h < HIST_COM_NUM
  <2>1. /\ hist_buf' = IF store /\ n > 0 THEN [hist_buf EXCEPT ![v][h] = Take(command, n)] ELSE hist_buf
        /\ hist_buf_index' = [hist_buf_index EXCEPT ![v] = IF store THEN h + 1 ELSE h]
        /\ cur_hist_index' = [cur_hist_index EXCEPT ![v] = hist_buf_index'[v]]
        /\ wiped' = (store /\ n < 0)
    BY <1>1, <1>3, Sizes DEF add_to_history
  <2> HIDE DEF store
  <2>2. hist_buf_index' \in [Terms -> 0 .. HIST_COM_NUM]
    <3>1. (IF store THEN h + 1 ELSE h) \in 0 .. HIST_COM_NUM
      BY <1>1, <1>3, Sizes
    <3> QED
      BY <2>1, <3>1 DEF Rest
  <2>3. hist_buf_index'[v] \in Int
    BY <2>2, Sizes
  <2>4. cur_hist_index' \in [Terms -> Int]
    BY <2>1, <2>3 DEF Rest
  <2>5. ASSUME n > 0
        PROVE  Take(command, n) \in Seq(Printed) /\ Len(Take(command, n)) < KEY_BUF_SIZE
    <3>1. n \in 0 .. Len(command)
      BY <1>1, <2>5
    <3> HIDE DEF n
    <3>2. Take(command, n) \in Seq(Printed) /\ Len(Take(command, n)) = n
      BY <3>1, TakeIs
    <3> QED
      BY <1>1, <3>1, <3>2, Sizes
  <2>6. Rows' /\ DOMAIN hist_buf' = Terms
    <3>1. CASE store /\ n > 0
      <4> DEFINE row == Take(command, n)
      <4>1. hist_buf' = [hist_buf EXCEPT ![v][h] = row]
        BY <2>1, <3>1
      <4>2. row \in Seq(Printed) /\ Len(row) < KEY_BUF_SIZE
        BY <2>5, <3>1
      <4> HIDE DEF row, n
      <4>3. h \in RowIndex
        BY <1>1, <1>3, Sizes DEF RowIndex
      <4> QED
        BY <4>1, <4>2, <4>3 DEF Rest, Rows
    <3>2. CASE ~(store /\ n > 0)
      BY <2>1, <3>2 DEF Rest, Rows
    <3> QED
      BY <3>1, <3>2
  <2>7. wiped' \in BOOLEAN
    BY <2>1
  <2> QED
    BY <2>2, <2>4, <2>6, <2>7
<1> QED
  BY <1>1, <1>2, <1>3, Sizes

LEMMA ReadKeeps ==
    ASSUME TInv, NEW t \in Terms, NEW n, terminal_read(t, n)
    PROVE  TInv'
<1>1. Rest /\ vis_term_id \in Terms /\ Good(key_buf[t])
  BY TInvIs DEF Rest, Bufs
<1>2. Bufs(key_buf', key_buf_index')
  BY <1>1, ClearKeeps DEF terminal_read
<1> DEFINE command == Text(key_buf[t])
<1>3. command \in Seq(Printed) /\ Len(command) < KEY_BUF_SIZE
  BY <1>1, TextFits, Sizes DEF Text
<1>4. add_to_history(vis_term_id, command)
  BY DEF terminal_read
<1> HIDE DEF command
<1>5. /\ Rows' /\ DOMAIN hist_buf' = Terms
      /\ hist_buf_index' \in [Terms -> 0 .. HIST_COM_NUM]
      /\ cur_hist_index' \in [Terms -> Int]
      /\ wiped' \in BOOLEAN
  BY <1>1, <1>3, <1>4, AddKeeps
<1>6. /\ new_line' = [new_line EXCEPT ![t] = FALSE] /\ vis_term_id' = vis_term_id /\ hist' = hist
  BY DEF terminal_read
<1>7. Rest'
  BY <1>1, <1>5, <1>6 DEF Rest, Pending
<1> QED
  BY <1>2, <1>7, TInvIsNext

LEMMA TInvInit == Init => TInv
<1> SUFFICES ASSUME Init PROVE TInv
  OBVIOUS
<1>1. Bufs(key_buf, key_buf_index)
  BY Sizes, Characters DEF Init, Bufs, Good
<1>2. Rows
  BY Sizes, EmptySeq DEF Init, Rows, RowIndex
<1>3. /\ hist_buf_index \in [Terms -> 0 .. HIST_COM_NUM] /\ cur_hist_index \in [Terms -> Int]
      /\ vis_term_id \in Terms /\ DOMAIN hist_buf = Terms /\ Pending
  BY Sizes DEF Init, Pending
<1>4. new_line \in [Terms -> BOOLEAN] /\ wiped \in BOOLEAN
  BY DEF Init
<1> QED
  BY <1>1, <1>2, <1>3, <1>4, TInvIs DEF Rest

LEMMA TInvStep == TInv /\ [Next]_vars => TInv'
<1> SUFFICES ASSUME TInv, [Next]_vars PROVE TInv'
  OBVIOUS
<1>0. Bufs(key_buf, key_buf_index) /\ Rest
  BY TInvIs
<1>1. ASSUME NEW t \in Terms, switch_terminal(t)
      PROVE  TInv'
  <2>1. Rest'
    BY <1>0, <1>1, RestSame DEF switch_terminal, edit, history, Rest, Pending
  <2>2. Bufs(key_buf', key_buf_index')
    BY <1>0, <1>1 DEF switch_terminal, edit
  <2> QED
    BY <2>1, <2>2, TInvIsNext
<1>2. CASE Backspace
  <2>1. Rest'
    BY <1>0, <1>2, RestSame DEF Backspace, history, Rest, Pending
  <2>2. Bufs(key_buf', key_buf_index')
    BY <1>2, EraseKeeps DEF Backspace
  <2> QED
    BY <2>1, <2>2, TInvIsNext
<1>3. CASE CtrlL
  <2>1. Rest'
    BY <1>0, <1>3, RestSame DEF CtrlL, history, Rest, Pending
  <2>2. Bufs(key_buf', key_buf_index')
    BY <1>0, <1>3, ClearKeeps DEF CtrlL, Rest
  <2> QED
    BY <2>1, <2>2, TInvIsNext
<1>4. CASE UNCHANGED vars
  BY <1>4 DEF vars, edit, history, TInv, TypeOK, Terminated, Rows, RowIndex, Pending
<1> QED
  BY <1>1, <1>2, <1>3, <1>4, CharKeeps, EnterKeeps, ReadKeeps, HistoryKeyKeeps, HistBeginKeeps,
     HistEraseKeeps, HistEndKeeps DEF Next, Keys

\* Whatever is typed, recalled, switched and read, in whatever order and with
\* whatever interrupts inside a history key's handler, a key buffer keeps its nul:
\* no strlen of process_input, terminal_read or add_to_history runs off it.
THEOREM BuffersTerminated == Spec => []Terminated
<1>1. TInv => Terminated
  BY DEF TInv
<1> QED
  BY TInvInit, TInvStep, <1>1, PTL DEF Spec

-----------------------------------------------------------------------------
(* One terminal: its buffer b and index i, the line l being edited, the    *)
(* line e entered.                                                         *)

Line(l) == l \in Seq(Letters) /\ Len(l) < KEY_BUF_SIZE

Edits(b, i, l) ==
    i = Len(l) /\ \A k \in Cells : b[k] = IF k < Len(l) THEN l[k + 1] ELSE "nul"

Waits(b, i, l, e) == l = <<>> /\ i = 0 /\ Holds(b, e)

\* One terminal's history: its rows, the next free row and the place reached.
Sound(rows, h, c) ==
    /\ c \in 0 .. h
    /\ \A r \in RowIndex :
          /\ rows[r] \in Seq(Letters) /\ Len(rows[r]) < KEY_BUF_SIZE - 1
          /\ r < h <=> rows[r] # <<>>
          /\ 0 < r /\ r < h => rows[r] # rows[r - 1]

LEMMA LineIs ==
    ASSUME NEW l, Line(l)
    PROVE  /\ Len(l) \in Nat /\ Len(l) \in Cells /\ Len(l) < KEY_BUF_SIZE /\ l \in Seq(Letters)
           /\ \A k \in Cells : k < Len(l) => l[k + 1] \in Letters /\ l[k + 1] # "nul"
<1>1. Len(l) \in Nat /\ \A k \in 1 .. Len(l) : l[k] \in Letters
  BY LenProperties, ElementOfSeq DEF Line
<1>2. \A k \in Cells : k < Len(l) => k + 1 \in 1 .. Len(l)
  BY <1>1, Sizes
<1> QED
  BY <1>1, <1>2, Sizes, Characters DEF Line

LEMMA NoLine == Line(<<>>)
  BY EmptySeq, Sizes DEF Line

\* d is b with c in cell i.
Put(d, b, i, c) == d = [b EXCEPT ![i] = c]

LEMMA EditsChar ==
    ASSUME NEW b \in [Cells -> Bytes], NEW i, NEW l, Line(l), Edits(b, i, l), NEW c \in Letters,
           i # KEY_BUF_SIZE - 1, NEW d, Put(d, b, i, c)
    PROVE  Edits(d, i + 1, Typed(l, c)) /\ Line(Typed(l, c))
<1>1. Len(l) \in Nat /\ Len(l) < KEY_BUF_SIZE /\ l \in Seq(Letters) /\ i = Len(l) /\ i \in Cells
  BY LineIs DEF Edits
<1>2. Typed(l, c) = Append(l, c)
  BY <1>1 DEF Typed
<1>3. /\ Append(l, c) \in Seq(Letters) /\ Len(Append(l, c)) = Len(l) + 1
      /\ \A k \in 1 .. Len(l) : Append(l, c)[k] = l[k]
      /\ Append(l, c)[Len(l) + 1] = c
  BY <1>1, AppendProperties
<1> DEFINE m == Append(l, c)
<1>4. \A k \in Cells : k < Len(l) => m[k + 1] = l[k + 1]
  BY <1>1, <1>3, Sizes
<1>5. \A k \in Cells : d[k] = IF k = i THEN c ELSE b[k]
  BY <1>1 DEF Put
<1>6. Len(m) = Len(l) + 1 /\ m[Len(l) + 1] = c /\ m \in Seq(Letters)
  BY <1>3
<1> HIDE DEF m
<1>7. \A k \in Cells : d[k] = IF k < Len(m) THEN m[k + 1] ELSE "nul"
  BY <1>1, <1>4, <1>5, <1>6, Sizes DEF Edits
<1>8. Edits(d, i + 1, m) /\ Line(m)
  BY <1>1, <1>6, <1>7, Sizes DEF Edits, Line
<1> QED
  BY <1>2, <1>8 DEF m

LEMMA EditsErase ==
    ASSUME NEW b \in [Cells -> Bytes], NEW i, NEW l, Line(l), Edits(b, i, l), i > 0,
           NEW d, d = [b EXCEPT ![i - 1] = "nul"]
    PROVE  Edits(d, i - 1, ButLast(l)) /\ Line(ButLast(l))
<1>1. Len(l) \in Nat /\ Len(l) < KEY_BUF_SIZE /\ l \in Seq(Letters) /\ i = Len(l) /\ i - 1 \in Cells
  BY LineIs, Sizes DEF Edits
<1> DEFINE m == ButLast(l)
<1>2. Len(l) - 1 \in 0 .. Len(l)
  BY <1>1
<1>3. /\ Take(l, Len(l) - 1) \in Seq(Letters) /\ Len(Take(l, Len(l) - 1)) = Len(l) - 1
      /\ \A k \in 1 .. Len(l) - 1 : Take(l, Len(l) - 1)[k] = l[k]
  BY <1>1, <1>2, TakeIs
<1>4. m \in Seq(Letters) /\ Len(m) = Len(l) - 1 /\ \A k \in 1 .. Len(l) - 1 : m[k] = l[k]
  BY <1>3 DEF ButLast
<1>5. \A k \in Cells : d[k] = IF k = i - 1 THEN "nul" ELSE b[k]
  BY <1>1
<1> HIDE DEF m
<1>6. \A k \in Cells : k < Len(m) => m[k + 1] = l[k + 1]
  BY <1>1, <1>4, Sizes
<1>7. \A k \in Cells : d[k] = IF k < Len(m) THEN m[k + 1] ELSE "nul"
  <2> TAKE k \in Cells
  <2>1. k \in Nat /\ b[k] = IF k < Len(l) THEN l[k + 1] ELSE "nul"
    BY Sizes DEF Edits
  <2>2. CASE k < Len(m)
    BY <1>1, <1>4, <1>5, <1>6, <2>1, <2>2
  <2>3. CASE k = Len(m)
    BY <1>1, <1>4, <1>5, <2>1, <2>3
  <2>4. CASE k > Len(m)
    BY <1>1, <1>4, <1>5, <2>1, <2>4
  <2> QED
    BY <1>1, <1>4, <2>1, <2>2, <2>3, <2>4
<1>8. Edits(d, i - 1, m) /\ Line(m)
  BY <1>1, <1>4, <1>7, Sizes DEF Edits, Line
<1> QED
  BY <1>8 DEF m

LEMMA EditsEnter ==
    ASSUME NEW b \in [Cells -> Bytes], NEW i, NEW l, Line(l), Edits(b, i, l),
           NEW j, j = LastCell(i), NEW d, d = [b EXCEPT ![j] = "nl", ![j + 1] = "nul"]
    PROVE  Waits(d, 0, <<>>, l)
<1>1. Len(l) \in Nat /\ Len(l) < KEY_BUF_SIZE /\ i = Len(l)
  BY LineIs DEF Edits
<1>2. j = Kept(l) /\ j \in Cells /\ j + 1 \in Cells /\ j <= Len(l) /\ j + 1 # j /\ Len(l) <= j + 1
      /\ j \in Nat
  BY <1>1, Sizes DEF LastCell, Kept
<1>3. \A k \in Cells : d[k] = IF k = j + 1 THEN "nul" ELSE IF k = j THEN "nl" ELSE b[k]
  BY <1>2
<1>4. \A k \in Cells : d[k] = CASE k < j -> l[k + 1] [] k = j -> "nl" [] OTHER -> "nul"
  <2> TAKE k \in Cells
  <2>1. k \in Nat
    BY Sizes
  <2>2. CASE k < j
    BY <1>1, <1>2, <1>3, <2>1, <2>2 DEF Edits
  <2>3. CASE k = j
    BY <1>2, <1>3, <2>1, <2>3
  <2>4. CASE k > j
    BY <1>1, <1>2, <1>3, <2>1, <2>4 DEF Edits
  <2> QED
    BY <1>2, <2>1, <2>2, <2>3, <2>4
<1>5. Holds(d, l)
  BY <1>2, <1>4 DEF Holds
<1> QED
  BY <1>5 DEF Waits

\* A buffer of nuls holds the empty line.
LEMMA EditsNone ==
    ASSUME NEW b, \A k \in Cells : b[k] = "nul"
    PROVE  Edits(b, 0, <<>>)
<1>1. Len(<<>>) = 0 /\ \A k \in Cells : ~(k < 0)
  BY Sizes, EmptySeq
<1> QED
  BY <1>1 DEF Edits

LEMMA EditsCleared ==
    ASSUME NEW b, Good(b), NEW i, NEW l, Line(l), Edits(b, i, l)
    PROVE  Edits(Cleared(b), 0, <<>>)
<1>1. /\ Len(l) \in Nat /\ Len(l) \in Cells
      /\ \A k \in Cells : k < Len(l) => l[k + 1] # "nul"
  BY LineIs
<1>2. b[Len(l)] = "nul" /\ \A j \in 0 .. Len(l) - 1 : b[j] # "nul"
  BY <1>1, Sizes DEF Edits
<1>3. strlen(b, 0) = Len(l)
  BY <1>1, <1>2, StrlenUnique
<1>4. \A k \in Cells : Cleared(b)[k] = "nul"
  BY <1>1, <1>3, Sizes DEF Cleared, Edits
<1> QED
  BY <1>4, EditsNone

\* The string of a finished line: the line, cut to its room, and the newline.
LEMMA WaitsText ==
    ASSUME NEW b, Good(b), NEW i, NEW l, NEW e, Line(e), Waits(b, i, l, e)
    PROVE  /\ Take(e, KEY_BUF_SIZE - 2) \in Seq(Letters)
           /\ Len(Take(e, KEY_BUF_SIZE - 2)) = Kept(e)
           /\ Kept(e) \in Nat /\ Kept(e) < KEY_BUF_SIZE - 1
           /\ strlen(b, 0) = Kept(e) + 1
           /\ Text(b) = Append(Take(e, KEY_BUF_SIZE - 2), "nl")
<1>1. /\ Len(e) \in Nat /\ Len(e) < KEY_BUF_SIZE /\ e \in Seq(Letters)
      /\ \A k \in Cells : k < Len(e) => e[k + 1] \in Letters /\ e[k + 1] # "nul"
  BY LineIs
<1> DEFINE n == Kept(e)
           p == Take(e, KEY_BUF_SIZE - 2)
<1>2. n \in Nat /\ n < KEY_BUF_SIZE - 1 /\ n <= Len(e) /\ n + 1 \in Cells /\ n \in Cells
  BY <1>1, Sizes DEF Kept
<1>3. /\ p \in Seq(Letters) /\ Len(p) = n
      /\ \A k \in 1 .. n : p[k] = e[k]
  <2>1. CASE Len(e) < KEY_BUF_SIZE - 2
    BY <1>1, <2>1, Sizes DEF Kept, Take
  <2>2. CASE Len(e) >= KEY_BUF_SIZE - 2
    <3>1. KEY_BUF_SIZE - 2 \in 0 .. Len(e) /\ n = KEY_BUF_SIZE - 2
      BY <1>1, <2>2, Sizes DEF Kept
    <3> QED
      BY <1>1, <3>1, TakeIs
  <2> QED
    BY <1>1, <2>1, <2>2, Sizes
<1>4. \A k \in Cells : b[k] = CASE k < n -> e[k + 1] [] k = n -> "nl" [] OTHER -> "nul"
  BY DEF Waits, Holds
<1> HIDE DEF n, p
<1>5. b[n + 1] = "nul" /\ b[n] = "nl" /\ \A k \in Cells : k < n => b[k] = e[k + 1] /\ b[k] # "nul"
  <2>1. b[n + 1] = "nul" /\ b[n] = "nl"
    BY <1>2, <1>4
  <2>2. \A k \in Cells : k < n => b[k] = e[k + 1]
    BY <1>2, <1>4, Sizes
  <2> QED
    BY <1>1, <1>2, <2>1, <2>2, Sizes
<1>6. \A j \in 0 .. (n + 1) - 1 : b[j] # "nul"
  <2> TAKE j \in 0 .. (n + 1) - 1
  <2>1. j \in Cells /\ (j < n \/ j = n)
    BY <1>2, Sizes
  <2>2. "nl" # "nul"
    OBVIOUS
  <2> QED
    BY <1>5, <2>1, <2>2
<1>7. strlen(b, 0) = n + 1
  BY <1>2, <1>5, <1>6, StrlenUnique
<1>8. /\ Append(p, "nl") \in Seq(Printed) /\ Len(Append(p, "nl")) = n + 1
      /\ \A k \in 1 .. n : Append(p, "nl")[k] = p[k]
      /\ Append(p, "nl")[n + 1] = "nl"
  <2>1. p \in Seq(Printed)
    BY <1>3, Characters, SeqMonotonic
  <2> QED
    BY <1>3, <2>1, Characters, AppendProperties
<1>9. Text(b) = [k \in 1 .. n + 1 |-> b[0 + k - 1]]
  <2>1. ~(0 >= KEY_BUF_SIZE)
    BY Sizes
  <2>2. Text(b) = [k \in 1 .. strlen(b, 0) |-> b[0 + k - 1]]
    BY <2>1, Zenon DEF Text, TextFrom
  <2> QED
    BY <1>7, <2>2
<1>10. Text(b) \in Seq(Printed) /\ Len(Text(b)) = n + 1
  <2>1. Text(b) \in Seq(Printed)
    BY TextFits DEF Text
  <2> QED
    BY <1>2, <1>9, <2>1, LenProperties
<1>11. ASSUME NEW k \in 1 .. n + 1
       PROVE  Text(b)[k] = Append(p, "nl")[k]
  <2>1. Text(b)[k] = b[k - 1]
    BY <1>2, <1>9
  <2>2. CASE k = n + 1
    BY <1>2, <1>5, <1>8, <2>1, <2>2
  <2>3. CASE k <= n
    <3>1. k - 1 \in Cells /\ k - 1 < n /\ (k - 1) + 1 = k /\ k \in 1 .. n
      BY <1>2, <2>3, Sizes
    <3>2. b[k - 1] = e[k]
      BY <1>5, <3>1
    <3> QED
      BY <1>3, <1>8, <2>1, <3>1, <3>2
  <2>4. k = n + 1 \/ k <= n
    BY <1>2
  <2> QED
    BY <2>2, <2>3, <2>4, Zenon
<1>12. Text(b) = Append(p, "nl")
  BY <1>8, <1>10, <1>11, SeqEqual
<1> QED
  BY <1>2, <1>3, <1>7, <1>12 DEF n, p

LEMMA WaitsCleared ==
    ASSUME NEW b, Good(b), NEW i, NEW l, NEW e, Line(e), Waits(b, i, l, e)
    PROVE  Edits(Cleared(b), 0, <<>>)
<1>1. strlen(b, 0) = Kept(e) + 1 /\ Kept(e) \in Nat
  BY WaitsText
<1>2. \A k \in Cells : k > Kept(e) => b[k] = "nul"
  BY <1>1, Sizes DEF Waits, Holds
<1>3. \A k \in Cells : Cleared(b)[k] = "nul"
  BY <1>1, <1>2, Sizes DEF Cleared
<1> QED
  BY <1>3, EditsNone

\* A row recalled into a clear buffer is the line being edited.
LEMMA EditsRecalled ==
    ASSUME NEW b, \A k \in Cells : b[k] = "nul", NEW row, Line(row)
    PROVE  Edits(CopyIn(b, row, Len(row)), Len(row), row)
<1>1. Len(row) \in Nat
  BY LineIs
<1>2. \A k \in Cells : CopyIn(b, row, Len(row))[k] =
          IF k >= Len(row) THEN b[k] ELSE IF k < Len(row) THEN row[k + 1] ELSE "nul"
  BY DEF CopyIn
<1>3. \A k \in Cells : k >= Len(row) <=> ~(k < Len(row))
  BY <1>1, Sizes
<1> QED
  BY <1>2, <1>3 DEF Edits


-----------------------------------------------------------------------------
(* The terminals, and their history. *)

\* What holds of a terminal that is not disturbed.
Fine(t) ==
    /\ Line(line[t]) /\ Line(entered[t])
    /\ ~new_line[t] => Edits(key_buf[t], key_buf_index[t], line[t])
    /\ new_line[t] => Waits(key_buf[t], key_buf_index[t], line[t], entered[t])
    /\ Sound(hist_buf[t], hist_buf_index[t], cur_hist_index[t])

\* The inductive invariant: it is the terminals not disturbed that are in order.
SInv ==
    /\ TInv
    /\ DOMAIN line = Terms /\ DOMAIN entered = Terms
    /\ disturbed \subseteq Terms
    /\ hist # NoKey => hist.term \in disturbed
    /\ wiped => disturbed # {}
    /\ \A t \in Terms \ disturbed : Fine(t)

\* What SInv says of one terminal.
LEMMA TerminalIs ==
    ASSUME SInv, NEW t \in Terms
    PROVE  /\ Good(key_buf[t]) /\ key_buf[t] \in [Cells -> Bytes] /\ key_buf_index[t] \in Cells
           /\ hist_buf_index[t] \in 0 .. HIST_COM_NUM
           /\ t \notin disturbed =>
                 /\ Line(line[t]) /\ Line(entered[t])
                 /\ ~new_line[t] => Edits(key_buf[t], key_buf_index[t], line[t])
                 /\ new_line[t] => Waits(key_buf[t], key_buf_index[t], line[t], entered[t])
                 /\ Sound(hist_buf[t], hist_buf_index[t], cur_hist_index[t])
<1>1. Bufs(key_buf, key_buf_index) /\ hist_buf_index[t] \in 0 .. HIST_COM_NUM
  BY TInvIs DEF SInv, Rest
<1>2. t \notin disturbed => Fine(t)
  BY DEF SInv
<1> QED
  BY <1>1, <1>2 DEF Bufs, Fine

\* The functions that make up the state are functions on the terminals.
LEMMA Domains ==
    ASSUME SInv
    PROVE  /\ DOMAIN key_buf = Terms /\ DOMAIN key_buf_index = Terms /\ DOMAIN new_line = Terms
           /\ DOMAIN hist_buf = Terms /\ DOMAIN hist_buf_index = Terms
           /\ DOMAIN cur_hist_index = Terms /\ DOMAIN line = Terms /\ DOMAIN entered = Terms
           /\ vis_term_id \in Terms
  BY TInvIs DEF SInv, Bufs, Rest

\* The same after a step.
FineThen(t) ==
    /\ Line(line'[t]) /\ Line(entered'[t])
    /\ ~new_line'[t] => Edits(key_buf'[t], key_buf_index'[t], line'[t])
    /\ new_line'[t] => Waits(key_buf'[t], key_buf_index'[t], line'[t], entered'[t])
    /\ Sound(hist_buf'[t], hist_buf_index'[t], cur_hist_index'[t])

LEMMA FineNext ==
    ASSUME NEW t \in Terms
    PROVE  FineThen(t) <=> Fine(t)'
  BY DEF Fine, FineThen, Line, Edits, Waits, Holds, Sound, RowIndex

\* What is the same about terminal u after a step.
SameLine(u) ==
    /\ key_buf'[u] = key_buf[u] /\ key_buf_index'[u] = key_buf_index[u]
    /\ new_line'[u] = new_line[u] /\ line'[u] = line[u] /\ entered'[u] = entered[u]

SameHistory(u) ==
    /\ hist_buf'[u] = hist_buf[u] /\ hist_buf_index'[u] = hist_buf_index[u]
    /\ cur_hist_index'[u] = cur_hist_index[u]

\* A terminal, once disturbed, stays so; and a wiped memory is one's fault.
Marks ==
    /\ disturbed \subseteq disturbed' /\ disturbed' \subseteq Terms
    /\ hist' # NoKey => hist'.term \in disturbed'
    /\ wiped' => disturbed' # {}

LEMMA SameIsFine ==
    ASSUME SInv, NEW u \in Terms \ disturbed, SameLine(u), SameHistory(u)
    PROVE  FineThen(u)
<1>1. Fine(u)
  BY DEF SInv
<1> QED
  BY <1>1 DEF Fine, FineThen, SameLine, SameHistory

\* A step of terminal v keeps SInv when it leaves v in order, or disturbed.
LEMMA OneTerminal ==
    ASSUME SInv, TInv', Marks, NEW v \in Terms,
           DOMAIN line' = Terms, DOMAIN entered' = Terms,
           \A u \in Terms \ {v} : u \notin disturbed' => SameLine(u) /\ SameHistory(u),
           v \notin disturbed' => FineThen(v)
    PROVE  SInv'
<1>1. ASSUME NEW t \in Terms \ disturbed', t # v
      PROVE  Fine(t)'
  <2>1. t \in Terms \ disturbed
    BY <1>1 DEF Marks
  <2>2. SameLine(t) /\ SameHistory(t)
    BY <1>1
  <2> QED
    BY <2>1, <2>2, SameIsFine, FineNext
<1>2. \A t \in Terms \ disturbed' : Fine(t)'
  BY <1>1, FineNext
<1> QED
  BY <1>2 DEF SInv, Marks

\* A step that edits the line of v and leaves the rest, but may move v's place in
\* the history.
Edited(v, b, i, l) ==
    /\ key_buf' = [key_buf EXCEPT ![v] = b]
    /\ key_buf_index' = [key_buf_index EXCEPT ![v] = i]
    /\ line' = [line EXCEPT ![v] = l]
    /\ UNCHANGED <<new_line, hist_buf, hist_buf_index, entered>>
    /\ \A u \in Terms \ {v} : cur_hist_index'[u] = cur_hist_index[u]

LEMMA EditStep ==
    ASSUME SInv, TInv', Marks, NEW v \in Terms, NEW b, NEW i, NEW l, Edited(v, b, i, l),
           v \notin disturbed' =>
              /\ ~new_line[v] /\ Edits(b, i, l) /\ Line(l)
              /\ Sound(hist_buf[v], hist_buf_index[v], cur_hist_index'[v])
    PROVE  SInv'
<1>1. \A u \in Terms \ {v} : SameLine(u) /\ SameHistory(u)
  BY Domains DEF SameLine, SameHistory, Edited
<1>2. key_buf'[v] = b /\ key_buf_index'[v] = i /\ line'[v] = l
  BY Domains DEF Edited
<1>3. DOMAIN line' = Terms /\ DOMAIN entered' = Terms
  BY Domains DEF Edited
<1>4. ASSUME v \notin disturbed'
      PROVE  FineThen(v)
  <2>1. v \notin disturbed
    BY <1>4 DEF Marks
  <2>2. Line(entered[v])
    BY <2>1, TerminalIs
  <2>3. Edits(key_buf'[v], key_buf_index'[v], line'[v]) /\ Line(line'[v])
    BY <1>2, <1>4
  <2>4. ~new_line'[v] /\ Line(entered'[v]) /\ Sound(hist_buf'[v], hist_buf_index'[v], cur_hist_index'[v])
    BY <1>4, <2>2 DEF Edited
  <2> QED
    BY <2>3, <2>4 DEF FineThen
<1> QED
  BY <1>1, <1>3, <1>4, OneTerminal

\* A key that leaves the visible terminal undisturbed comes for a line that is being
\* edited.
LEMMA KeyForEdit ==
    ASSUME SInv, Marks, Ahead \subseteq disturbed', vis_term_id \notin disturbed'
    PROVE  /\ vis_term_id \notin disturbed /\ ~new_line[vis_term_id]
           /\ Edits(key_buf[vis_term_id], key_buf_index[vis_term_id], line[vis_term_id])
           /\ Line(line[vis_term_id])
           /\ Sound(hist_buf[vis_term_id], hist_buf_index[vis_term_id], cur_hist_index[vis_term_id])
<1>1. vis_term_id \in Terms /\ vis_term_id \notin disturbed
  BY Domains DEF Marks
<1>2. ~new_line[vis_term_id]
  BY DEF Ahead
<1> QED
  BY <1>1, <1>2, TerminalIs

\* The marks of an action that marks ts and whose hist and wiped stay.
LEMMA MarksMade ==
    ASSUME SInv, NEW ts \in SUBSET Terms, Disturbs(ts), hist' = hist, wiped' = wiped
    PROVE  Marks /\ ts \subseteq disturbed'
  BY DEF SInv, Marks, Disturbs

LEMMA AheadIs == SInv => Ahead \in SUBSET Terms
  BY Domains DEF Ahead

LEMMA CharSound ==
    ASSUME SInv, TInv', NEW ch \in Letters, Char(ch)
    PROVE  SInv'
<1> DEFINE v == vis_term_id
           i == key_buf_index[v]
           b == [key_buf[v] EXCEPT ![i] = ch]
           l == Typed(line[v], ch)
<1>1. v \in Terms /\ key_buf[v] \in [Cells -> Bytes]
  BY Domains, TerminalIs
<1>2. Marks /\ Ahead \subseteq disturbed'
  BY AheadIs, MarksMade DEF Char
<1>3. Edited(v, b, i + 1, l)
  BY DEF Char, history, Edited
<1>4. ASSUME v \notin disturbed'
      PROVE  /\ ~new_line[v] /\ Edits(b, i + 1, l) /\ Line(l)
             /\ Sound(hist_buf[v], hist_buf_index[v], cur_hist_index'[v])
  <2> DEFINE a == key_buf[v]
             k == line[v]
  <2>1. /\ ~new_line[v] /\ Edits(a, i, k) /\ Line(k)
        /\ Sound(hist_buf[v], hist_buf_index[v], cur_hist_index[v])
    BY <1>2, <1>4, KeyForEdit
  <2>2. i # KEY_BUF_SIZE - 1 /\ cur_hist_index' = cur_hist_index
    BY DEF Char, Room, history
  <2>3. a \in [Cells -> Bytes] /\ Put(b, a, i, ch)
    BY <1>1 DEF Put
  <2> HIDE DEF a, b, i, k
  <2>4. Edits(b, i + 1, Typed(k, ch)) /\ Line(Typed(k, ch))
    BY <2>1, <2>2, <2>3, EditsChar
  <2> QED
    BY <2>1, <2>2, <2>4 DEF k
<1> HIDE DEF b, l
<1> QED
  BY <1>1, <1>2, <1>3, <1>4, EditStep

\* Erasing the last character, for a backspace and inside a history key.
LEMMA EraseSound ==
    ASSUME SInv, TInv', Marks, EraseLast,
           UNCHANGED <<new_line, hist_buf, hist_buf_index, cur_hist_index, entered>>
    PROVE  SInv'
<1> DEFINE v == vis_term_id
           i == key_buf_index[v]
           b == [key_buf[v] EXCEPT ![i - 1] = "nul"]
           l == ButLast(line[v])
<1>1. v \in Terms /\ key_buf[v] \in [Cells -> Bytes] /\ i \in Cells
  BY Domains, TerminalIs
<1>2. CASE i = 0
  <2>1. UNCHANGED <<key_buf, key_buf_index, line>>
    BY <1>2 DEF EraseLast
  <2>2. \A u \in Terms : SameLine(u) /\ SameHistory(u)
    BY <2>1 DEF SameLine, SameHistory
  <2>3. v \notin disturbed' => FineThen(v)
    BY <1>1, <2>2, SameIsFine DEF Marks
  <2>4. DOMAIN line' = Terms /\ DOMAIN entered' = Terms
    BY <2>1, Domains
  <2> QED
    BY <1>1, <2>2, <2>3, <2>4, OneTerminal
<1>3. CASE i > 0
  <2>1. /\ key_buf' = [key_buf EXCEPT ![v] = b]
        /\ key_buf_index' = [key_buf_index EXCEPT ![v] = i - 1]
        /\ line' = [line EXCEPT ![v] = l]
    BY <1>3 DEF EraseLast
  <2>2. ASSUME v \notin disturbed'
        PROVE  /\ ~new_line[v] /\ Edits(b, i - 1, l) /\ Line(l)
               /\ Sound(hist_buf[v], hist_buf_index[v], cur_hist_index'[v])
    <3>1. v \notin disturbed
      BY <2>2 DEF Marks
    <3>2. /\ Line(line[v]) /\ Sound(hist_buf[v], hist_buf_index[v], cur_hist_index[v])
          /\ ~new_line[v] => Edits(key_buf[v], i, line[v])
          /\ new_line[v] => Waits(key_buf[v], i, line[v], entered[v])
      BY <1>1, <3>1, TerminalIs
    <3>3. ~new_line[v]
      BY <1>3, <3>2 DEF Waits
    <3>4. Edits(b, i - 1, l) /\ Line(l)
      BY <1>1, <1>3, <3>2, <3>3, EditsErase
    <3> QED
      BY <3>2, <3>3, <3>4
  <2> HIDE DEF b, l
  <2>3. Edited(v, b, i - 1, l)
    BY <2>1 DEF Edited
  <2> QED
    BY <1>1, <2>2, <2>3, EditStep
<1> QED
  BY <1>1, <1>2, <1>3, Sizes

LEMMA BackspaceSound ==
    ASSUME SInv, TInv', Backspace
    PROVE  SInv'
<1>1. Marks
  BY DEF SInv, Marks, Backspace
<1> QED
  BY <1>1, EraseSound DEF Backspace, history

LEMMA CtrlLSound ==
    ASSUME SInv, TInv', CtrlL
    PROVE  SInv'
<1> DEFINE v == vis_term_id
           b == Cleared(key_buf[v])
<1>1. v \in Terms /\ Good(key_buf[v])
  BY Domains, TerminalIs
<1>2. Marks /\ Ahead \subseteq disturbed'
  BY AheadIs, MarksMade DEF CtrlL
<1>3. Edited(v, b, 0, <<>>)
  BY DEF CtrlL, clear_buffer, history, Edited
<1>4. ASSUME v \notin disturbed'
      PROVE  /\ ~new_line[v] /\ Edits(b, 0, <<>>) /\ Line(<<>>)
             /\ Sound(hist_buf[v], hist_buf_index[v], cur_hist_index'[v])
  <2>1. /\ ~new_line[v] /\ Edits(key_buf[v], key_buf_index[v], line[v]) /\ Line(line[v])
        /\ Sound(hist_buf[v], hist_buf_index[v], cur_hist_index[v])
    BY <1>2, <1>4, KeyForEdit
  <2>2. Edits(b, 0, <<>>)
    BY <1>1, <2>1, EditsCleared
  <2>3. cur_hist_index' = cur_hist_index
    BY DEF CtrlL, history
  <2> QED
    BY <2>1, <2>2, <2>3, NoLine
<1> HIDE DEF b
<1> QED
  BY <1>1, <1>2, <1>3, <1>4, EditStep

LEMMA EnterSound ==
    ASSUME SInv, TInv', Enter
    PROVE  SInv'
<1> DEFINE v == vis_term_id
           last == LastCell(key_buf_index[v])
           b == [key_buf[v] EXCEPT ![last] = "nl", ![last + 1] = "nul"]
<1>1. v \in Terms /\ key_buf[v] \in [Cells -> Bytes]
  BY Domains, TerminalIs
<1>2. Marks /\ Ahead \subseteq disturbed'
  BY AheadIs, MarksMade DEF Enter
<1>3. key_buf'[v] = b /\ \A u \in Terms \ {v} : key_buf'[u] = key_buf[u]
  BY EnterBuffer DEF SInv
<1>4. /\ key_buf_index' = [key_buf_index EXCEPT ![v] = 0]
      /\ new_line' = [new_line EXCEPT ![v] = TRUE]
      /\ entered' = [entered EXCEPT ![v] = line[v]]
      /\ line' = [line EXCEPT ![v] = <<>>]
      /\ UNCHANGED <<hist_buf, hist_buf_index, cur_hist_index>>
  BY DEF Enter, history
<1>5. \A u \in Terms \ {v} : SameLine(u) /\ SameHistory(u)
  BY <1>3, <1>4, Domains DEF SameLine, SameHistory
<1>6. DOMAIN line' = Terms /\ DOMAIN entered' = Terms
  BY <1>4, Domains
<1>7. ASSUME v \notin disturbed'
      PROVE  FineThen(v)
  <2>1. /\ Edits(key_buf[v], key_buf_index[v], line[v]) /\ Line(line[v])
        /\ Sound(hist_buf[v], hist_buf_index[v], cur_hist_index[v])
    BY <1>2, <1>7, KeyForEdit
  <2>2. Waits(b, 0, <<>>, line[v])
    BY <1>1, <2>1, EditsEnter
  <2> HIDE DEF b
  <2>3. key_buf_index'[v] = 0 /\ line'[v] = <<>> /\ entered'[v] = line[v] /\ new_line'[v]
    BY <1>1, <1>4, Domains
  <2>4. /\ Waits(key_buf'[v], key_buf_index'[v], line'[v], entered'[v])
        /\ Line(line'[v]) /\ Line(entered'[v])
    BY <1>3, <2>1, <2>2, <2>3, NoLine
  <2>5. Sound(hist_buf'[v], hist_buf_index'[v], cur_hist_index'[v])
    BY <1>4, <2>1
  <2> QED
    BY <2>3, <2>4, <2>5 DEF FineThen
<1> QED
  BY <1>1, <1>2, <1>5, <1>6, <1>7, OneTerminal

\* Once the line is backspaced over and the buffer cleared, it is all nul.
LEMMA ErasedClear ==
    ASSUME SInv, NEW v \in Terms \ disturbed, Edits(key_buf[v], key_buf_index[v], line[v]),
           NEW cleared, cleared = [Erased(v) EXCEPT ![v] = Cleared(Erased(v)[v])]
    PROVE  \A k \in Cells : cleared[v][k] = "nul"
<1> DEFINE b == [k \in Cells |-> IF k < key_buf_index[v] THEN "nul" ELSE key_buf[v][k]]
<1>1. DOMAIN key_buf = Terms /\ Line(line[v])
  BY TerminalIs, Domains
<1>2. key_buf_index[v] = Len(line[v]) /\ Len(line[v]) \in Nat
  BY <1>1, LineIs DEF Edits
<1>3. \A k \in Cells : b[k] = "nul"
  BY <1>2, Sizes DEF Edits
<1>4. Erased(v) = [key_buf EXCEPT ![v] = b]
  BY DEF Erased
<1> HIDE DEF b
<1>5. Erased(v)[v] = b /\ DOMAIN Erased(v) = Terms
  BY <1>1, <1>4
<1>6. \A k \in Cells : Cleared(b)[k] = "nul"
  BY <1>3 DEF Cleared
<1> QED
  BY <1>5, <1>6

\* The place a history key moves to is a place of the history.
LEMMA PlaceKept ==
    ASSUME SInv, NEW key \in Keys, NEW v \in Terms \ disturbed, NEW c, c = cur_hist_index[v]
    PROVE  /\ BufSize(key, v) # 0 /\ Target(key, c) \in RowIndex =>
                 /\ Sound(hist_buf[v], hist_buf_index[v], Target(key, c))
                 /\ Row(v, Target(key, c)) = hist_buf[v][Target(key, c)]
                 /\ Line(hist_buf[v][Target(key, c)])
           /\ PrevSize(key, v) # 0 => Sound(hist_buf[v], hist_buf_index[v], c + 1)
<1> DEFINE h == hist_buf_index[v]
<1>1. Sound(hist_buf[v], h, c) /\ h \in 0 .. HIST_COM_NUM
  BY TerminalIs
<1>2. c \in 0 .. h /\ c \in Int
  BY <1>1 DEF Sound
<1>3. ASSUME BufSize(key, v) # 0, Target(key, c) \in RowIndex
      PROVE  /\ Sound(hist_buf[v], h, Target(key, c))
             /\ Row(v, Target(key, c)) = hist_buf[v][Target(key, c)]
             /\ Line(hist_buf[v][Target(key, c)])
  <2> DEFINE r == Target(key, c)
  <2>1. r \in RowIndex
    BY <1>3
  <2>2. BufSize(key, v) = Len(Row(v, r))
    BY DEF BufSize
  <2> HIDE DEF r
  <2>3. Row(v, r) = hist_buf[v][r]
    BY <2>1, Sizes DEF Row, RowAmong, RowIndex
  <2>4. hist_buf[v][r] # <<>>
    BY <1>3, <2>2, <2>3, EmptySeq
  <2>5. r < h /\ Line(hist_buf[v][r])
    BY <1>1, <2>1, <2>4, Sizes, LenProperties DEF Sound, Line
  <2>6. r \in 0 .. h
    BY <1>1, <2>1, <2>5, Sizes DEF RowIndex
  <2>7. Sound(hist_buf[v], h, r)
    BY <1>1, <2>6 DEF Sound
  <2> QED
    BY <2>3, <2>5, <2>7 DEF r
<1>4. ASSUME PrevSize(key, v) # 0
      PROVE  Sound(hist_buf[v], h, c + 1)
  <2>1. Len(Row(v, c)) # 0
    BY <1>4 DEF PrevSize
  <2>2. Row(v, c) # <<>>
    BY <2>1, EmptySeq
  <2>3. c # HIST_COM_NUM
    BY <2>2, Sizes DEF Row, RowAmong
  <2>4. c \in RowIndex
    BY <1>1, <1>2, <2>3, Sizes DEF RowIndex
  <2>5. Row(v, c) = hist_buf[v][c]
    BY <2>4, Sizes DEF Row, RowAmong, RowIndex
  <2>6. c < h
    BY <1>1, <2>2, <2>4, <2>5 DEF Sound
  <2>7. c + 1 \in 0 .. h
    BY <1>1, <1>2, <2>6
  <2> QED
    BY <1>1, <2>7 DEF Sound
<1> QED
  BY <1>3, <1>4, ZenonT(40)

\* What the end of a history key leaves alone.
LEMMA RecallOthers ==
    ASSUME SInv, NEW key \in Keys, NEW t \in Terms, NEW v \in Terms, NEW bufs, DOMAIN bufs = Terms,
           NEW n, NEW m, Recall(key, t, v, bufs, n, m)
    PROVE  /\ \A u \in Terms \ {t, v} : /\ key_buf'[u] = bufs[u]
                                        /\ key_buf_index'[u] = key_buf_index[u]
                                        /\ line'[u] = line[u]
           /\ \A u \in Terms \ {t} : cur_hist_index'[u] = cur_hist_index[u]
           /\ DOMAIN line' = Terms
<1> DEFINE c == cur_hist_index[t]
           cleared == [bufs EXCEPT ![v] = Cleared(bufs[v])]
           row == RowAmong(cleared, v, Target(key, c))
           b == CopyIn(cleared[t], row, n)
           i == [key_buf_index EXCEPT ![v] = 0]
           l == [line EXCEPT ![v] = <<>>]
<1>1. /\ DOMAIN cleared = Terms /\ \A u \in Terms \ {v} : cleared[u] = bufs[u]
      /\ DOMAIN i = Terms /\ \A u \in Terms \ {v} : i[u] = key_buf_index[u]
      /\ DOMAIN l = Terms /\ \A u \in Terms \ {v} : l[u] = line[u]
  BY Domains
<1>2. CASE n = 0
  <2>1. /\ key_buf' = cleared /\ key_buf_index' = i /\ line' = l
        /\ cur_hist_index' = [cur_hist_index EXCEPT ![t] = IF m # 0 THEN c + 1 ELSE c]
    BY <1>2 DEF Recall
  <2> HIDE DEF cleared, i, l
  <2> QED
    BY <1>1, <2>1, Domains
<1>3. CASE n # 0
  <2>1. /\ key_buf' = [cleared EXCEPT ![t] = b] /\ key_buf_index' = [i EXCEPT ![t] = n]
        /\ line' = [l EXCEPT ![t] = Row(t, Target(key, c))]
        /\ cur_hist_index' = [cur_hist_index EXCEPT ![t] = Target(key, c)]
    BY <1>3 DEF Recall
  <2> HIDE DEF cleared, b, i, l
  <2> QED
    BY <1>1, <2>1, Domains
<1> QED
  BY <1>2, <1>3

LEMMA HistEndSound ==
    ASSUME SInv, TInv', HistEnd
    PROVE  SInv'
<1>1. hist \in Interrupted /\ vis_term_id \in Terms
  BY Domains, TInvIs DEF SInv, Rest, Pending, HistEnd
<1>2. hist.key \in Keys /\ hist.term \in Terms
  BY <1>1 DEF Interrupted
<1>3. disturbed' = disturbed \cup {vis_term_id, hist.term} /\ hist' = NoKey /\ wiped' = wiped
  BY DEF HistEnd, Disturbs
<1>4. Marks
  BY <1>1, <1>2, <1>3 DEF Marks, SInv
<1>5. /\ \A u \in Terms \ {hist.term, vis_term_id} :
               /\ key_buf'[u] = key_buf[u]
               /\ key_buf_index'[u] = key_buf_index[u]
               /\ line'[u] = line[u]
      /\ \A u \in Terms \ {hist.term} : cur_hist_index'[u] = cur_hist_index[u]
      /\ DOMAIN line' = Terms
  BY <1>1, <1>2, RecallOthers, Domains DEF HistEnd
<1>6. UNCHANGED <<new_line, hist_buf, hist_buf_index, entered>>
  BY DEF HistEnd
<1>7. \A u \in Terms : u \notin disturbed' => SameLine(u) /\ SameHistory(u)
  BY <1>3, <1>5, <1>6 DEF SameLine, SameHistory
<1> QED
  BY <1>1, <1>3, <1>4, <1>5, <1>6, <1>7, OneTerminal, Domains

LEMMA HistoryKeySound ==
    ASSUME SInv, TInv', NEW key \in Keys, HistoryKey(key)
    PROVE  SInv'
<1> DEFINE v == vis_term_id
           c == cur_hist_index[v]
           n == BufSize(key, v)
           m == PrevSize(key, v)
           r == Target(key, c)
           cleared == [Erased(v) EXCEPT ![v] = Cleared(Erased(v)[v])]
           row == RowAmong(cleared, v, r)
<1>1. v \in Terms
  BY Domains
<1>2. Marks /\ Ahead \subseteq disturbed' /\ Beside(key, v) \subseteq disturbed'
  <2>1. Ahead \cup Beside(key, v) \in SUBSET Terms
    BY <1>1, AheadIs DEF Beside
  <2> QED
    BY <2>1, MarksMade DEF HistoryKey
<1>3. UNCHANGED <<new_line, hist_buf, hist_buf_index, entered>>
  BY DEF HistoryKey
<1>4. Recall(key, v, v, Erased(v), n, m)
  BY DEF HistoryKey
<1>5. DOMAIN Erased(v) = Terms /\ \A u \in Terms \ {v} : Erased(v)[u] = key_buf[u]
  BY Domains DEF Erased
<1>6. /\ \A u \in Terms \ {v} : SameLine(u) /\ SameHistory(u)
      /\ DOMAIN line' = Terms
  <2> HIDE DEF n, m
  <2>1. /\ \A u \in Terms \ {v, v} : /\ key_buf'[u] = Erased(v)[u]
                                     /\ key_buf_index'[u] = key_buf_index[u]
                                     /\ line'[u] = line[u]
        /\ \A u \in Terms \ {v} : cur_hist_index'[u] = cur_hist_index[u]
        /\ DOMAIN line' = Terms
    BY <1>1, <1>4, <1>5, RecallOthers
  <2> QED
    BY <1>3, <1>5, <2>1 DEF SameLine, SameHistory
<1>7. DOMAIN entered' = Terms
  BY <1>3, Domains
<1>8. ASSUME v \notin disturbed'
      PROVE  FineThen(v)
  <2>1. /\ ~new_line[v] /\ Edits(key_buf[v], key_buf_index[v], line[v])
        /\ Sound(hist_buf[v], hist_buf_index[v], c) /\ v \in Terms \ disturbed
    BY <1>1, <1>2, <1>8, KeyForEdit
  <2>2. n # 0 => r \in RowIndex
    BY <1>2, <1>8 DEF Beside, RowIndex
  <2>3. /\ n # 0 => /\ Sound(hist_buf[v], hist_buf_index[v], r)
                    /\ Row(v, r) = hist_buf[v][r]
                    /\ Line(hist_buf[v][r])
        /\ m # 0 => Sound(hist_buf[v], hist_buf_index[v], c + 1)
    BY <2>1, <2>2, PlaceKept, ZenonT(40)
  <2>4. \A k \in Cells : cleared[v][k] = "nul"
    <3>1. cleared = [Erased(v) EXCEPT ![v] = Cleared(Erased(v)[v])]
      OBVIOUS
    <3> HIDE DEF cleared
    <3> QED
      BY <2>1, <3>1, ErasedClear
  <2>5. DOMAIN cleared = Terms
    BY <1>5
  <2>6. ~new_line'[v] /\ Line(entered'[v])
    BY <1>1, <1>3, <2>1, TerminalIs
  <2>7. CASE n = 0
    <3>1. /\ key_buf' = cleared
          /\ key_buf_index' = [key_buf_index EXCEPT ![v] = 0]
          /\ cur_hist_index' = [cur_hist_index EXCEPT ![v] = IF m # 0 THEN c + 1 ELSE c]
          /\ line' = [line EXCEPT ![v] = <<>>]
      BY <1>4, <2>7 DEF Recall
    <3> HIDE DEF cleared, n, m
    <3>2. /\ key_buf'[v] = cleared[v] /\ key_buf_index'[v] = 0 /\ line'[v] = <<>>
          /\ cur_hist_index'[v] = IF m # 0 THEN c + 1 ELSE c
      BY <1>1, <3>1, Domains, ZenonT(40)
    <3>3. Edits(key_buf'[v], key_buf_index'[v], line'[v]) /\ Line(line'[v])
      BY <2>4, <3>2, EditsNone, NoLine, ZenonT(40)
    <3>4. Sound(hist_buf'[v], hist_buf_index'[v], cur_hist_index'[v])
      BY <1>3, <2>1, <2>3, <3>2, ZenonT(40)
    <3> QED
      BY <2>6, <3>3, <3>4 DEF FineThen
  <2>8. CASE n # 0
    <3>1. row = hist_buf[v][r] /\ n = Len(hist_buf[v][r])
      BY <2>2, <2>3, <2>8, Sizes DEF RowAmong, RowIndex, BufSize
    <3>2. /\ key_buf' = [cleared EXCEPT ![v] = CopyIn(cleared[v], row, n)]
          /\ key_buf_index' = [[key_buf_index EXCEPT ![v] = 0] EXCEPT ![v] = n]
          /\ cur_hist_index' = [cur_hist_index EXCEPT ![v] = r]
          /\ line' = [[line EXCEPT ![v] = <<>>] EXCEPT ![v] = Row(v, r)]
      BY <1>4, <2>8 DEF Recall
    <3> HIDE DEF cleared, n, m, r, row
    <3>3. /\ key_buf'[v] = CopyIn(cleared[v], row, n) /\ key_buf_index'[v] = n
          /\ line'[v] = Row(v, r) /\ cur_hist_index'[v] = r
      BY <1>1, <2>5, <3>2, Domains, ZenonT(40)
    <3>4. Edits(CopyIn(cleared[v], row, n), n, row) /\ Line(row)
      BY <2>3, <2>4, <2>8, <3>1, EditsRecalled, ZenonT(40)
    <3>5. Edits(key_buf'[v], key_buf_index'[v], line'[v]) /\ Line(line'[v])
      BY <2>3, <2>8, <3>1, <3>3, <3>4, ZenonT(40)
    <3>6. Sound(hist_buf'[v], hist_buf_index'[v], cur_hist_index'[v])
      BY <1>3, <2>3, <2>8, <3>3, ZenonT(40)
    <3> QED
      BY <2>6, <3>5, <3>6 DEF FineThen
  <2> QED
    BY <2>7, <2>8
<1> QED
  BY <1>1, <1>2, <1>6, <1>7, <1>8, OneTerminal

\* A line recorded keeps the history sound.
LEMMA RecordSound ==
    ASSUME SInv, NEW v \in Terms \ disturbed, ~wiped, NEW p \in Seq(Letters),
           Len(p) < KEY_BUF_SIZE - 1, add_to_history(v, Append(p, "nl"))
    PROVE  /\ Sound(hist_buf'[v], hist_buf_index'[v], cur_hist_index'[v])
           /\ ~wiped'
<1> DEFINE command == Append(p, "nl")
           n == Len(command) - 1
           h == hist_buf_index[v]
           prev == Row(v, h - 1)
           store == Stores(prev, command, n)
<1>1. /\ Sound(hist_buf[v], h, cur_hist_index[v]) /\ h \in 0 .. HIST_COM_NUM
      /\ DOMAIN hist_buf = Terms /\ DOMAIN hist_buf_index = Terms /\ DOMAIN cur_hist_index = Terms
      /\ DOMAIN hist_buf[v] = RowIndex
  BY TerminalIs, Domains, TInvIs DEF SInv, Rest, Rows
<1>2. p \in Seq(Printed)
  BY Characters, SeqMonotonic
<1>3. add_to_history(v, command)
  OBVIOUS
<1>4. n = Len(p) /\ Len(p) \in Nat
  BY <1>2, WithoutNewline
<1>5. Take(command, n) = p
  BY <1>2, WithoutNewline
<1> HIDE DEF command, n
<1>6. Take(p, n) = p
  BY <1>2, <1>4, SubSeqFull DEF Take
<1>7. CASE h >= HIST_COM_NUM
  <2>1. UNCHANGED <<hist_buf, hist_buf_index, cur_hist_index, wiped>>
    BY <1>3, <1>7 DEF add_to_history, history
  <2> QED
    BY <1>1, <2>1
<1>8. CASE h < HIST_COM_NUM
  <2>1. /\ hist_buf' = IF store /\ n > 0 THEN [hist_buf EXCEPT ![v][h] = Take(command, n)] ELSE hist_buf
        /\ hist_buf_index' = [hist_buf_index EXCEPT ![v] = IF store THEN h + 1 ELSE h]
        /\ cur_hist_index' = [cur_hist_index EXCEPT ![v] = hist_buf_index'[v]]
        /\ wiped' = (store /\ n < 0)
    <3>1. ~(h >= HIST_COM_NUM)
      BY <1>1, <1>8, Sizes
    <3> QED
      BY <1>3, <3>1, ZenonT(40) DEF add_to_history, n
  <2>2. store => n > 0 /\ prev # p
    <3>1. store => n # 0 /\ ~(Take(prev, n) = Take(command, n))
      BY DEF Stores, Same
    <3> QED
      BY <1>4, <1>5, <1>6, <3>1
  <2>3. h - 1 \in RowIndex => prev = hist_buf[v][h - 1]
    BY Sizes DEF Row, RowAmong, RowIndex
  <2>4. h \in RowIndex /\ h \in Nat
    BY <1>1, <1>8, Sizes DEF RowIndex
  <2> HIDE DEF store, prev
  <2>5. ~wiped'
    <3>1. ~(n < 0)
      BY <1>2, <1>4
    <3> QED
      BY <2>1, <3>1, Zenon
  <2>6. CASE store
    <3>1. /\ hist_buf' = [hist_buf EXCEPT ![v][h] = p] /\ n > 0 /\ prev # p
          /\ hist_buf_index' = [hist_buf_index EXCEPT ![v] = h + 1]
      BY <1>5, <2>1, <2>2, <2>6
    <3>2. /\ hist_buf_index'[v] = h + 1 /\ cur_hist_index'[v] = h + 1
          /\ hist_buf'[v][h] = p /\ \A r \in RowIndex \ {h} : hist_buf'[v][r] = hist_buf[v][r]
      BY <1>1, <2>1, <2>4, <3>1
    <3>4. p # <<>>
      BY <1>4, <3>1, EmptySeq
    <3>5. ASSUME NEW r \in RowIndex
          PROVE  /\ hist_buf'[v][r] \in Seq(Letters) /\ Len(hist_buf'[v][r]) < KEY_BUF_SIZE - 1
                 /\ r < h + 1 <=> hist_buf'[v][r] # <<>>
                 /\ 0 < r /\ r < h + 1 => hist_buf'[v][r] # hist_buf'[v][r - 1]
      <4>1. r \in Nat /\ h \in Nat
        BY <2>4, Sizes DEF RowIndex
      <4>2. 0 < r => r - 1 \in RowIndex
        BY <4>1, Sizes DEF RowIndex
      <4>3. CASE r = h
        <5>1. 0 < r => hist_buf'[v][r - 1] = hist_buf[v][h - 1] /\ prev = hist_buf[v][h - 1]
          <6>1. h - 1 # h
            BY <4>1
          <6>2. 0 < r => h - 1 \in RowIndex \ {h}
            BY <4>2, <4>3, <6>1
          <6> QED
            BY <2>3, <3>2, <4>3, <6>2
        <5>2. hist_buf'[v][r] = p /\ r < h + 1
          BY <3>2, <4>1, <4>3, SMTT(60)
        <5> QED
          BY <3>1, <3>4, <5>1, <5>2
      <4>4. CASE r # h
        <5>1. hist_buf'[v][r] = hist_buf[v][r] /\ (r < h + 1 <=> r < h)
          BY <3>2, <4>1, <4>4, SMTT(60)
        <5>2. 0 < r /\ r < h => hist_buf'[v][r - 1] = hist_buf[v][r - 1]
          BY <3>2, <4>1, <4>2
        <5>3. /\ hist_buf[v][r] \in Seq(Letters) /\ Len(hist_buf[v][r]) < KEY_BUF_SIZE - 1
              /\ r < h <=> hist_buf[v][r] # <<>>
              /\ 0 < r /\ r < h => hist_buf[v][r] # hist_buf[v][r - 1]
          BY <1>1 DEF Sound
        <5> QED
          BY <5>1, <5>2, <5>3
      <4> QED
        BY <4>3, <4>4
    <3>6. h + 1 \in 0 .. h + 1
      BY <2>4
    <3>7. Sound(hist_buf'[v], h + 1, h + 1)
      BY <3>5, <3>6 DEF Sound
    <3> QED
      BY <2>5, <3>2, <3>7
  <2>7. CASE ~store
    <3>1. /\ hist_buf' = hist_buf
          /\ hist_buf_index' = [hist_buf_index EXCEPT ![v] = h]
      BY <2>1, <2>7
    <3>2. hist_buf_index'[v] = h /\ cur_hist_index'[v] = h
      BY <1>1, <2>1, <3>1
    <3>4. Sound(hist_buf[v], h, h)
      BY <1>1, SMTT(60) DEF Sound
    <3> QED
      BY <2>5, <3>1, <3>2, <3>4
  <2> QED
    BY <2>6, <2>7, ZenonT(40)
<1>9. h >= HIST_COM_NUM \/ h < HIST_COM_NUM
  BY <1>1, Sizes
<1> QED
  BY <1>7, <1>8, <1>9, Zenon

\* add_to_history is about one terminal's history.
LEMMA RecordOthers ==
    ASSUME SInv, NEW v \in Terms, NEW command, add_to_history(v, command)
    PROVE  \A u \in Terms \ {v} : SameHistory(u)
<1> DEFINE h == hist_buf_index[v]
           n == Len(command) - 1
           row == Take(command, n)
           store == Stores(Row(v, h - 1), command, n)
<1>1. CASE h >= HIST_COM_NUM
  BY <1>1 DEF add_to_history, history, SameHistory
<1>2. CASE ~(h >= HIST_COM_NUM)
  <2>1. /\ hist_buf' = hist_buf \/ hist_buf' = [hist_buf EXCEPT ![v][h] = row]
        /\ hist_buf_index' = [hist_buf_index EXCEPT ![v] = IF store THEN h + 1 ELSE h]
        /\ cur_hist_index' = [cur_hist_index EXCEPT ![v] = hist_buf_index'[v]]
    BY <1>2 DEF add_to_history
  <2> HIDE DEF row, store
  <2> QED
    BY <2>1, Domains DEF SameHistory
<1> QED
  BY <1>1, <1>2

\* The program reads the terminal that is visible.
LEMMA ReadVisible ==
    ASSUME SInv, TInv', NEW v \in Terms, v = vis_term_id, NEW n, terminal_read(v, n)
    PROVE  SInv'
<1> DEFINE e == entered[v]
           p == Take(e, KEY_BUF_SIZE - 2)
<1>1. /\ new_line[v] /\ ~wiped /\ add_to_history(v, Text(key_buf[v]))
      /\ key_buf' = [key_buf EXCEPT ![v] = Cleared(key_buf[v])]
      /\ key_buf_index' = [key_buf_index EXCEPT ![v] = 0]
      /\ new_line' = [new_line EXCEPT ![v] = FALSE]
      /\ entered' = [entered EXCEPT ![v] = <<>>]
      /\ hist' = hist /\ line' = line /\ disturbed' = disturbed
  BY DEF terminal_read, clear_buffer, Disturbs
<1>2. ASSUME v \notin disturbed
      PROVE  FineThen(v) /\ ~wiped'
  <2>1. /\ Good(key_buf[v]) /\ Line(e) /\ Line(line[v])
        /\ Waits(key_buf[v], key_buf_index[v], line[v], e)
    BY <1>1, <1>2, TerminalIs, ZenonT(40)
  <2>2. /\ p \in Seq(Letters) /\ Len(p) < KEY_BUF_SIZE - 1
        /\ Text(key_buf[v]) = Append(p, "nl")
    BY <2>1, WaitsText, ZenonT(40)
  <2> HIDE DEF p, e
  <2>3. Sound(hist_buf'[v], hist_buf_index'[v], cur_hist_index'[v]) /\ ~wiped'
    BY <1>1, <1>2, <2>2, RecordSound
  <2>4. /\ key_buf'[v] = Cleared(key_buf[v]) /\ key_buf_index'[v] = 0 /\ ~new_line'[v]
        /\ entered'[v] = <<>> /\ line'[v] = <<>>
    BY <1>1, <2>1, Domains DEF Waits
  <2>5. Edits(Cleared(key_buf[v]), 0, <<>>) /\ Line(<<>>)
    BY <2>1, WaitsCleared, NoLine
  <2>6. /\ Edits(key_buf'[v], key_buf_index'[v], line'[v])
        /\ Line(line'[v]) /\ Line(entered'[v])
    BY <2>4, <2>5
  <2> QED
    BY <2>3, <2>4, <2>6 DEF FineThen
<1>3. \A u \in Terms \ {v} : SameHistory(u)
  BY <1>1, RecordOthers
<1>4. \A u \in Terms \ {v} : SameLine(u)
  BY <1>1, Domains DEF SameLine
<1>5. Marks
  BY <1>1, <1>2 DEF Marks, SInv
<1>6. DOMAIN line' = Terms /\ DOMAIN entered' = Terms
  BY <1>1, Domains
<1> QED
  BY <1>1, <1>2, <1>3, <1>4, <1>5, <1>6, OneTerminal

\* The program reads a terminal t that is not.
LEMMA ReadHidden ==
    ASSUME SInv, TInv', NEW t \in Terms, t # vis_term_id, NEW n, terminal_read(t, n)
    PROVE  SInv'
<1> DEFINE v == vis_term_id
           command == Text(key_buf[t])
<1>1. v \in Terms
  BY Domains
<1>2. /\ add_to_history(v, command)
      /\ key_buf' = [key_buf EXCEPT ![v] = Cleared(key_buf[v])]
      /\ key_buf_index' = [key_buf_index EXCEPT ![v] = 0]
      /\ new_line' = [new_line EXCEPT ![t] = FALSE]
      /\ entered' = [entered EXCEPT ![t] = <<>>]
      /\ hist' = hist /\ line' = line /\ disturbed' = disturbed \cup {t, v}
  BY DEF terminal_read, clear_buffer, Disturbs
<1> HIDE DEF command
<1>3. \A u \in Terms \ {v} : SameHistory(u)
  BY <1>1, <1>2, RecordOthers
<1>4. \A u \in Terms \ {t, v} : SameLine(u)
  BY <1>2, Domains DEF SameLine
<1>5. Marks
  BY <1>1, <1>2 DEF Marks, SInv
<1>6. DOMAIN line' = Terms /\ DOMAIN entered' = Terms
  BY <1>2, Domains
<1>7. \A u \in Terms \ {v} : u \notin disturbed' => SameLine(u) /\ SameHistory(u)
  BY <1>2, <1>3, <1>4
<1> QED
  BY <1>1, <1>2, <1>5, <1>6, <1>7, OneTerminal

LEMMA SInvInit == Init => SInv
<1> SUFFICES ASSUME Init PROVE SInv
  OBVIOUS
<1>1. TInv
  BY TInvInit
<1>2. hist = NoKey /\ ~wiped /\ DOMAIN line = Terms /\ DOMAIN entered = Terms /\ disturbed = {}
  BY Zenon DEF Init
<1>3. ASSUME NEW t \in Terms
      PROVE  Fine(t)
  <2>1. /\ line[t] = <<>> /\ entered[t] = <<>> /\ ~new_line[t] /\ key_buf_index[t] = 0
        /\ \A k \in Cells : key_buf[t][k] = "nul"
        /\ hist_buf_index[t] = 0 /\ cur_hist_index[t] = 0
        /\ \A r \in RowIndex : hist_buf[t][r] = <<>>
    BY DEF Init, RowIndex
  <2>2. <<>> \in Seq(Letters) /\ Len(<<>>) < KEY_BUF_SIZE - 1
    BY EmptySeq, Sizes
  <2>3. 0 \in 0 .. 0 /\ \A r \in RowIndex : ~(r < 0)
    BY Sizes DEF RowIndex
  <2>4. ASSUME NEW r \in RowIndex
        PROVE  /\ hist_buf[t][r] \in Seq(Letters) /\ Len(hist_buf[t][r]) < KEY_BUF_SIZE - 1
               /\ r < 0 <=> hist_buf[t][r] # <<>>
               /\ 0 < r /\ r < 0 => hist_buf[t][r] # hist_buf[t][r - 1]
    <3>1. hist_buf[t][r] = <<>> /\ ~(r < 0)
      BY <2>1, <2>3
    <3> QED
      BY <2>2, <3>1
  <2>5. Sound(hist_buf[t], 0, 0)
    BY <2>3, <2>4 DEF Sound
  <2>6. Sound(hist_buf[t], hist_buf_index[t], cur_hist_index[t])
    BY <2>1, <2>5
  <2>7. Edits(key_buf[t], key_buf_index[t], line[t])
    BY <2>1, EditsNone
  <2> QED
    BY <2>1, <2>6, <2>7, NoLine DEF Fine
<1> QED
  BY <1>1, <1>2, <1>3 DEF SInv

LEMMA SInvStep == SInv /\ [Next]_vars => SInv'
<1> SUFFICES ASSUME SInv, [Next]_vars PROVE SInv'
  OBVIOUS
<1>0. TInv'
  BY TInvStep DEF SInv
<1>1. ASSUME UNCHANGED <<edit, history, hist, wiped, ghosts>>
      PROVE  SInv'
  <2>1. \A u \in Terms : SameLine(u) /\ SameHistory(u)
    BY <1>1 DEF edit, history, ghosts, SameLine, SameHistory
  <2>2. Marks /\ DOMAIN line' = Terms /\ DOMAIN entered' = Terms /\ disturbed' = disturbed
    BY <1>1 DEF ghosts, Marks, SInv
  <2>3. \A u \in Terms \ disturbed' : FineThen(u)
    BY <2>1, <2>2, SameIsFine
  <2>4. 0 \in Terms /\ (0 \notin disturbed' => FineThen(0))
    BY <2>3, Sizes
  <2> QED
    BY <1>0, <2>1, <2>2, <2>4, OneTerminal
<1>2. CASE UNCHANGED vars
  BY <1>1, <1>2 DEF vars
<1>3. ASSUME NEW t \in Terms, switch_terminal(t)
      PROVE  SInv'
  BY <1>1, <1>3 DEF switch_terminal
<1>4. ASSUME NEW key \in Keys, HistBegin(key)
      PROVE  SInv'
  <2>1. /\ disturbed' = disturbed \cup {vis_term_id} /\ wiped' = wiped
        /\ hist'.term = vis_term_id
    BY <1>4 DEF HistBegin, Disturbs
  <2>2. Marks
    BY <2>1, Domains DEF Marks, SInv
  <2> QED
    BY <1>0, <1>4, <2>2, EraseSound DEF HistBegin, history
<1>5. ASSUME HistErase
      PROVE  SInv'
  <2>1. hist \in Interrupted
    BY <1>5, TInvIs DEF SInv, Rest, Pending, HistErase
  <2>2. hist'.term = hist.term /\ hist # NoKey
    BY <1>5, <2>1 DEF HistErase, Interrupted
  <2>3. Marks
    BY <1>5, <2>2 DEF Marks, SInv, HistErase
  <2> QED
    BY <1>0, <1>5, <2>3, EraseSound DEF HistErase, history
<1>6. ASSUME NEW t \in Terms, NEW n \in ReadSizes, terminal_read(t, n)
      PROVE  SInv'
  BY <1>0, <1>6, ReadVisible, ReadHidden
<1> QED
  BY <1>0, <1>2, <1>3, <1>4, <1>5, <1>6, CharSound, BackspaceSound, EnterSound, CtrlLSound,
     HistEndSound, HistoryKeySound DEF Next, Keys

-----------------------------------------------------------------------------
(* The theorems, for every timing: of keys and reads, of terminal          *)
(* switches, and of the interrupts inside a history key's handler.         *)

\* While a line is edited on a terminal that is not disturbed, its key buffer holds
\* that line, the index is at its end and the rest is clear (process_input,
\* clear_buffer and the history keys), for buffers of any size and any number of
\* terminals, whatever happens to the others.
THEOREM LinesEdited == Spec => []EditFaithful
<1>1. SInv => EditFaithful
  BY DEF SInv, Fine, EditFaithful, Undisturbed, Edits
<1> QED
  BY SInvInit, SInvStep, <1>1, PTL DEF Spec

\* add_to_history keeps the rows below hist_buf_index non-empty, those above empty
\* and no command twice in a row, the history keys stay between the first row and
\* the next free one, and strncpy gets a negative length only after a disturbance.
THEOREM HistoryKept == Spec => []HistorySound
<1>1. SInv => HistorySound
  BY DEF SInv, Fine, HistorySound, Undisturbed, Sound, RowIndex
<1> QED
  BY SInvInit, SInvStep, <1>1, PTL DEF Spec

\* terminal_read hands over as much of the line entered on its terminal as the
\* caller asked for, and returns the length of the line, visible or not.
THEOREM LinesDelivered == Spec => DeliversLine
<1>1. ASSUME SInv, NEW t \in Undisturbed, NEW n \in ReadSizes, terminal_read(t, n),
             NEW whole, whole = Append(Take(entered[t], KEY_BUF_SIZE - 2), "nl")
      PROVE  /\ reply'.ret = Len(whole)
             /\ \A k \in DOMAIN reply'.bytes :
                   reply'.bytes[k] = IF k <= Len(whole) THEN whole[k] ELSE "nul"
  <2> DEFINE b == key_buf[t]
             e == entered[t]
             size == IF n < KEY_BUF_SIZE THEN n ELSE KEY_BUF_SIZE
  <2>1. t \in Terms /\ t \notin disturbed /\ new_line[t]
    BY <1>1 DEF Undisturbed, terminal_read
  <2>2. Good(b) /\ Line(e) /\ Waits(b, key_buf_index[t], line[t], e)
    BY <1>1, <2>1, TerminalIs
  <2>3. /\ Text(b) = whole /\ strlen(b, 0) = Kept(e) + 1 /\ Kept(e) \in Nat
        /\ Len(whole) = Kept(e) + 1
    <3>1. /\ Take(e, KEY_BUF_SIZE - 2) \in Seq(Letters)
          /\ Len(Take(e, KEY_BUF_SIZE - 2)) = Kept(e)
          /\ Kept(e) \in Nat /\ strlen(b, 0) = Kept(e) + 1 /\ Text(b) = whole
      BY <1>1, <2>2, WaitsText
    <3>2. Take(e, KEY_BUF_SIZE - 2) \in Seq(Printed)
      BY <3>1, Characters, SeqMonotonic
    <3>3. Len(whole) = Kept(e) + 1
      BY <1>1, <3>1, <3>2, Characters, AppendProperties
    <3> QED
      BY <3>1, <3>3
  <2>4. Holds(b, e)
    BY <2>2 DEF Waits
  <2>5. /\ reply'.ret = strlen(b, 0)
        /\ reply'.bytes = [k \in 1 .. size |-> b[k - 1]]
    BY <1>1 DEF terminal_read, CopyOut
  <2>6. n \in Nat /\ size \in Nat /\ size <= KEY_BUF_SIZE
    BY <1>1, LineInputAssumption, Sizes
  <2> HIDE DEF b, e, size
  <2>7. ASSUME NEW k \in 1 .. size
        PROVE  b[k - 1] = IF k <= Len(whole) THEN whole[k] ELSE "nul"
    <3>1. k - 1 \in Cells /\ k \in Nat /\ k >= 1
      BY <2>6, Sizes
    <3>2. CASE k <= Len(whole)
      <4>1. Text(b) = [j \in 1 .. strlen(b, 0) |-> b[0 + j - 1]]
        <5>1. ~(0 >= KEY_BUF_SIZE)
          BY Sizes
        <5> QED
          BY <5>1, Zenon DEF Text, TextFrom
      <4>2. k \in 1 .. strlen(b, 0)
        BY <2>3, <3>1, <3>2
      <4>3. Text(b)[k] = b[0 + k - 1] /\ 0 + k - 1 = k - 1
        BY <3>1, <4>1, <4>2
      <4> QED
        BY <2>3, <3>2, <4>3
    <3>3. CASE ~(k <= Len(whole))
      <4>1. ~(k - 1 < Kept(e)) /\ k - 1 # Kept(e)
        BY <2>3, <3>1, <3>3
      <4>2. b[k - 1] = "nul"
        BY <2>4, <3>1, <4>1 DEF Holds
      <4> QED
        BY <3>3, <4>2
    <3> QED
      BY <3>2, <3>3
  <2> QED
    BY <2>3, <2>5, <2>7
<1>2. SInv /\ [Next]_vars =>
          [\A t \in Undisturbed, n \in ReadSizes : terminal_read(t, n) =>
              LET whole == Append(Take(entered[t], KEY_BUF_SIZE - 2), "nl")
              IN  /\ reply'.ret = Len(whole)
                  /\ \A k \in DOMAIN reply'.bytes :
                        reply'.bytes[k] = IF k <= Len(whole) THEN whole[k] ELSE "nul"]_vars
  BY <1>1
<1> QED
  BY SInvInit, SInvStep, <1>2, PTL DEF Spec, DeliversLine

\* A row beside the history holds text only over a long line.
LEMMA TextBeyond ==
    ASSUME SInv, NEW u \in Terms \ disturbed, NEW o \in Nat, TextFrom(key_buf[u], o) # <<>>
    PROVE  Len(Held(u)) > o
<1> DEFINE b == key_buf[u]
<1>1. /\ Good(b) /\ Line(line[u]) /\ Line(entered[u])
      /\ ~new_line[u] => Edits(b, key_buf_index[u], line[u])
      /\ new_line[u] => Waits(b, key_buf_index[u], line[u], entered[u])
  BY TerminalIs
<1>2. o \in Cells
  BY Sizes DEF TextFrom
<1>3. b[o] # "nul"
  <2>1. SUFFICES ASSUME b[o] = "nul" PROVE FALSE
    OBVIOUS
  <2>2. /\ strlen(b, o) \in Nat
        /\ \A j \in o .. o + strlen(b, o) - 1 : b[j] # "nul"
    BY <1>1, <1>2, StrlenFirst
  <2>3. strlen(b, o) = 0
    BY <1>2, <2>1, <2>2
  <2>4. TextFrom(b, o) = [k \in 1 .. strlen(b, o) |-> b[o + k - 1]]
    BY <1>2, Sizes DEF TextFrom
  <2>5. TextFrom(b, o) \in Seq(Printed) /\ DOMAIN TextFrom(b, o) = 1 .. 0
    BY <1>1, <2>3, <2>4, TextFits
  <2> QED
    BY <2>5, EmptySeq
<1>4. CASE new_line[u]
  <2>1. Waits(b, key_buf_index[u], line[u], entered[u])
    BY <1>1, <1>4
  <2> DEFINE p == Take(entered[u], KEY_BUF_SIZE - 2)
  <2>2. p \in Seq(Letters) /\ Len(p) = Kept(entered[u]) /\ Kept(entered[u]) \in Nat
    BY <1>1, <2>1, WaitsText
  <2>3. Held(u) = Append(p, "nl")
    BY <1>4 DEF Held
  <2> HIDE DEF p
  <2>4. p \in Seq(Printed)
    BY <2>2, Characters, SeqMonotonic
  <2>5. Len(Held(u)) = Kept(entered[u]) + 1
    BY <2>2, <2>3, <2>4, Characters, AppendProperties
  <2>6. o < Kept(entered[u]) \/ o = Kept(entered[u])
    BY <1>2, <1>3, <2>1 DEF Waits, Holds
  <2> QED
    BY <2>2, <2>5, <2>6
<1>5. CASE ~new_line[u]
  <2>1. o < Len(line[u])
    BY <1>1, <1>2, <1>3, <1>5 DEF Edits
  <2>2. Held(u) = line[u] /\ Len(line[u]) \in Nat
    BY <1>1, <1>5, LineIs DEF Held
  <2> QED
    BY <2>1, <2>2
<1> QED
  BY <1>4, <1>5

\* The history keys take the place out of the history only where a row beside it
\* holds text: UP over a line of more than UnderOffset characters, or DOWN while the
\* next terminal's buffer holds more than OverOffset.
THEOREM PlaceKeptOrLong == Spec => StraysOverLongLines
<1> DEFINE Out(t) == cur_hist_index'[t] \notin 0 .. hist_buf_index'[t]
           Under(t) == cur_hist_index[t] = 0 /\ Len(Held(t)) > UnderOffset
           Over(t) == /\ cur_hist_index[t] = HIST_COM_NUM
                      /\ t + 1 \in Undisturbed => Len(Held(t + 1)) > OverOffset
<1>1. ASSUME SInv, NEW t \in Terms \ disturbed,
             cur_hist_index'[t] = cur_hist_index[t], hist_buf_index'[t] = hist_buf_index[t]
      PROVE  ~Out(t)
  BY <1>1, TerminalIs DEF Sound
<1>2. ASSUME SInv, NEW t \in Terms \ disturbed, NEW key \in Keys, HistoryKey(key), Out(t)
      PROVE  Under(t) \/ Over(t)
  <2> DEFINE v == vis_term_id
             c == cur_hist_index[t]
             n == BufSize(key, t)
             m == PrevSize(key, t)
             r == Target(key, c)
             h == hist_buf_index[t]
  <2>1. v \in Terms /\ Recall(key, v, v, Erased(v), BufSize(key, v), PrevSize(key, v))
        /\ hist_buf_index' = hist_buf_index
    BY <1>2, Domains DEF HistoryKey
  <2>2. t = v
    <3>1. DOMAIN Erased(v) = Terms
      BY <1>2, Domains DEF Erased
    <3>2. \A u \in Terms \ {v} : cur_hist_index'[u] = cur_hist_index[u]
      BY <1>2, <2>1, <3>1, RecallOthers
    <3> QED
      BY <1>1, <1>2, <2>1, <3>2
  <2>3. Recall(key, t, t, Erased(t), n, m)
    BY <2>1, <2>2
  <2>4. Sound(hist_buf[t], h, c) /\ h \in 0 .. HIST_COM_NUM /\ DOMAIN cur_hist_index = Terms
    BY <1>2, TerminalIs, Domains
  <2>5. c \in 0 .. h /\ c \in Int
    BY <2>4 DEF Sound
  <2>6. /\ n # 0 /\ r \in RowIndex => Sound(hist_buf[t], h, r)
        /\ m # 0 => Sound(hist_buf[t], h, c + 1)
    BY <1>2, PlaceKept, ZenonT(40)
  <2>7. n # 0
    <3>1. SUFFICES ASSUME n = 0 PROVE FALSE
      OBVIOUS
    <3>2. cur_hist_index' = [cur_hist_index EXCEPT ![t] = IF m # 0 THEN c + 1 ELSE c]
      BY <2>3, <3>1 DEF Recall
    <3> HIDE DEF m
    <3>3. cur_hist_index'[t] = IF m # 0 THEN c + 1 ELSE c
      BY <2>4, <3>2
    <3>4. m # 0 => c + 1 \in 0 .. h
      BY <2>6 DEF Sound
    <3> QED
      BY <1>2, <2>1, <2>5, <3>3, <3>4
  <2>8. cur_hist_index'[t] = r
    <3>1. cur_hist_index' = [cur_hist_index EXCEPT ![t] = r]
      BY <2>3, <2>7 DEF Recall
    <3> HIDE DEF r
    <3> QED
      BY <2>4, <3>1
  <2>9. r \notin RowIndex
    <3>1. r \in RowIndex => r \in 0 .. h
      BY <2>6, <2>7 DEF Sound
    <3> QED
      BY <1>2, <2>1, <2>8, <3>1
  <2>10. Row(t, r) # <<>>
    BY <2>7, EmptySeq DEF BufSize
  <2>11. CASE key = "up"
    <3>1. r = c - 1
      BY <2>11 DEF Target
    <3> HIDE DEF r
    <3>2. c = 0 /\ r = -1
      BY <2>4, <2>5, <2>9, <3>1, Sizes DEF RowIndex
    <3>3. TextFrom(key_buf[t], UnderOffset) # <<>>
      BY <2>10, <3>2, Sizes DEF Row, RowAmong
    <3>4. Len(Held(t)) > UnderOffset
      BY <1>2, <3>3, TextBeyond, LineInputAssumption
    <3> QED
      BY <3>2, <3>4
  <2>12. CASE key = "down"
    <3>1. r = c + 1
      BY <2>12 DEF Target
    <3> HIDE DEF r
    <3>2. r = HIST_COM_NUM \/ r = HIST_COM_NUM + 1
      BY <2>4, <2>5, <2>9, <3>1, Sizes DEF RowIndex
    <3>3. r = HIST_COM_NUM + 1 /\ c = HIST_COM_NUM
      <4>1. r # HIST_COM_NUM
        BY <2>10, Sizes DEF Row, RowAmong
      <4> QED
        BY <2>4, <2>5, <3>1, <3>2, <4>1, Sizes
    <3>4. ASSUME t + 1 \in Undisturbed
          PROVE  Len(Held(t + 1)) > OverOffset
      <4>1. t + 1 \in Terms \ disturbed
        BY <3>4 DEF Undisturbed
      <4>2. TextFrom(key_buf[t + 1], OverOffset) # <<>>
        BY <2>10, <3>3, <4>1, Sizes DEF Row, RowAmong
      <4> QED
        BY <1>2, <4>1, <4>2, TextBeyond, LineInputAssumption
    <3> QED
      BY <3>3, <3>4
  <2> QED
    BY <2>11, <2>12 DEF Keys
<1>3. ASSUME SInv, NEW t \in Terms \ disturbed, NEW u \in Terms, NEW n, terminal_read(u, n)
      PROVE  ~Out(t)
  <2> DEFINE v == vis_term_id
             command == Text(key_buf[u])
             store == Stores(Row(v, hist_buf_index[v] - 1), command, Len(command) - 1)
  <2>1. v \in Terms /\ add_to_history(v, command) /\ hist_buf_index[v] \in 0 .. HIST_COM_NUM
    BY <1>3, Domains, TerminalIs DEF terminal_read
  <2> HIDE DEF command
  <2>2. CASE t # v \/ hist_buf_index[v] >= HIST_COM_NUM
    <3>1. cur_hist_index'[t] = cur_hist_index[t] /\ hist_buf_index'[t] = hist_buf_index[t]
      BY <1>3, <2>1, <2>2, RecordOthers DEF SameHistory, add_to_history, history
    <3> QED
      BY <1>1, <1>3, <3>1
  <2>3. CASE t = v /\ ~(hist_buf_index[v] >= HIST_COM_NUM)
    <3>1. /\ hist_buf_index' = [hist_buf_index EXCEPT ![v] = IF store THEN hist_buf_index[v] + 1
                                                               ELSE hist_buf_index[v]]
          /\ cur_hist_index' = [cur_hist_index EXCEPT ![v] = hist_buf_index'[v]]
      BY <2>1, <2>3 DEF add_to_history
    <3> HIDE DEF store
    <3>2. hist_buf_index'[v] \in Nat /\ cur_hist_index'[v] = hist_buf_index'[v]
      BY <1>3, <2>1, <3>1, Domains, Sizes
    <3> QED
      BY <2>3, <3>2
  <2> QED
    BY <2>2, <2>3
<1>4. ASSUME SInv, NEW t \in Terms \ disturbed, HistEnd
      PROVE  ~Out(t)
  <2>1. hist \in Interrupted /\ vis_term_id \in Terms /\ hist.term \in disturbed
    BY <1>4, Domains, TInvIs DEF SInv, Rest, Pending, HistEnd
  <2>2. hist.key \in Keys /\ hist.term \in Terms /\ hist.term # t
    BY <1>4, <2>1 DEF Interrupted
  <2>3. cur_hist_index'[t] = cur_hist_index[t]
    BY <1>4, <2>1, <2>2, RecallOthers, Domains DEF HistEnd
  <2> QED
    BY <1>1, <1>4, <2>3 DEF HistEnd
<1>5. ASSUME SInv, Next, NEW t \in Undisturbed, Out(t)
      PROVE  Under(t) \/ Over(t)
  <2>1. t \in Terms \ disturbed
    BY <1>5 DEF Undisturbed
  <2>2. \/ UNCHANGED history
        \/ \E key \in Keys : HistoryKey(key)
        \/ HistEnd
        \/ \E u \in Terms, n \in ReadSizes : terminal_read(u, n)
    BY <1>5 DEF Next, Char, Backspace, Enter, CtrlL, switch_terminal, HistBegin, HistErase, Keys
  <2>3. ~UNCHANGED history
    BY <1>1, <1>5, <2>1 DEF history
  <2> HIDE DEF Out, Under, Over
  <2> QED
    BY <1>2, <1>3, <1>4, <1>5, <2>1, <2>2, <2>3
<1>6. SInv /\ [Next]_vars =>
          [\A t \in Undisturbed : cur_hist_index'[t] \notin 0 .. hist_buf_index'[t] =>
              \/ cur_hist_index[t] = 0 /\ Len(Held(t)) > UnderOffset
              \/ /\ cur_hist_index[t] = HIST_COM_NUM
                 /\ t + 1 \in Undisturbed => Len(Held(t + 1)) > OverOffset]_vars
  BY <1>5
<1> QED
  BY SInvInit, SInvStep, <1>6, PTL DEF Spec, StraysOverLongLines
=============================================================================
