------------------------------- MODULE Blink --------------------------------
(***************************************************************************)
(* The blinking characters of the fish program: the linked list of blink.S *)
(* and the allocator of fish.c, which hands out the elements of a fixed    *)
(* array and takes location 0 for "free".  An element of the array is      *)
(* named by its index; the screen is one character per location.  fish     *)
(* has one thread, so every call is one step.                              *)
(***************************************************************************)
EXTENDS Integers, SequencesExt

CONSTANTS
    CELLS,      \* 80*25: locations of the screen, and elements of the array
    Structs,    \* the structures clients pass to RTC_ADD
    Asked       \* the locations clients pass to the other calls

ASSUME BlinkAssumption ==
    /\ CELLS \in Nat \ {0}
    /\ Asked \subseteq 0 .. CELLS
    /\ \A s \in Structs : s.location \in Nat \ {0}  \* fish asks for 40 or more

VARIABLES
    blink_array,    \* the elements
    mp1_list_head,  \* the first element of the list, or NULL
    vmem,           \* the screen at vmem_base_addr
    reply,          \* the result of the last mp1_ioctl
    drew            \* history: the element that drew at a place last, NULL if a
                    \* sync did or none

vars == <<blink_array, mp1_list_head, vmem, reply, drew>>

NULL == -1
Blank == " "
Elements == 0 .. CELLS - 1

\* a structure after memset(0)
Zero == [location |-> 0, on_char |-> Blank, off_char |-> Blank, on_length |-> 0,
         off_length |-> 0, countdown |-> 0, status |-> 0, next |-> NULL]

Fail == [ret |-> -1, location |-> 0, on_char |-> Blank, on |-> FALSE]
Success == [Fail EXCEPT !.ret = 0]

\* a 16-bit word as the signed comparison jg sees it
Signed(w) == IF w >= 2^15 THEN w - 2^16 ELSE w

\* the elements in the order in which loops that follow NEXT meet them; such a
\* loop over a list with a cycle does not end, and has CELLS + 1 elements here
List ==
    LET from[n \in 0 .. CELLS + 1, p \in Elements \cup {NULL}] ==
            IF n = 0 \/ p = NULL THEN <<>> ELSE <<p>> \o from[n - 1, blink_array[p].next]
    IN  from[CELLS + 1, mp1_list_head]

\* main: the array is cleared, the list is empty
Init ==
    /\ blink_array = [n \in Elements |-> Zero]
    /\ mp1_list_head = NULL
    /\ vmem = [l \in 0 .. CELLS - 1 |-> Blank]
    /\ reply = Success
    /\ drew = [l \in 0 .. CELLS - 1 |-> NULL]

\* the first element that looks free
mp1_malloc ==
    LET free == {n \in Elements : blink_array[n].location = 0}
    IN  IF free = {} THEN NULL ELSE CHOOSE n \in free : \A m \in free : n <= m

\* the first element of the list with this location
mp1_find_helper(l) ==
    LET k == SelectInSeq(List, LAMBDA n : blink_array[n].location = l)
    IN  IF k = 0 THEN NULL ELSE List[k]

AddRefused(s) ==
    /\ s.location >= CELLS \/ mp1_malloc = NULL
    /\ reply' = Fail
    /\ UNCHANGED <<blink_array, mp1_list_head, vmem, drew>>

Added(s) ==
    [location |-> s.location, on_char |-> s.on_char, off_char |-> s.off_char,
     on_length |-> s.on_length, off_length |-> s.off_length,
     countdown |-> s.on_length, status |-> 1, next |-> mp1_list_head]

AddAccepted(s) ==
    /\ s.location < CELLS
    /\ mp1_malloc # NULL
    /\ blink_array' = [blink_array EXCEPT ![mp1_malloc] = Added(s)]
    /\ mp1_list_head' = mp1_malloc
    /\ vmem' = [vmem EXCEPT ![s.location] = s.on_char]
    /\ reply' = Success
    /\ drew' = [drew EXCEPT ![s.location] = mp1_malloc]

mp1_ioctl_add(s) == AddRefused(s) \/ AddAccepted(s)

RemoveRefused(l) ==
    /\ mp1_find_helper(l) = NULL
    /\ reply' = Fail
    /\ UNCHANGED <<blink_array, mp1_list_head, vmem, drew>>

\* the pointer to n, if it is another element's, becomes n's NEXT; mp1_free
\* clears n
Unlinked(n) ==
    [m \in Elements |->
        IF m = n THEN Zero
        ELSE IF blink_array[m].next = n THEN [blink_array[m] EXCEPT !.next = blink_array[n].next]
        ELSE blink_array[m]]

RemoveFound(l) ==
    LET n == mp1_find_helper(l)
    IN  /\ n # NULL
        /\ blink_array' = Unlinked(n)
        /\ mp1_list_head' = IF mp1_list_head = n THEN blink_array[n].next ELSE mp1_list_head
        /\ reply' = Success
        /\ UNCHANGED <<vmem, drew>>

mp1_ioctl_remove(l) == RemoveRefused(l) \/ RemoveFound(l)

SyncRefused(l, m) ==
    /\ mp1_find_helper(l) = NULL \/ mp1_find_helper(m) = NULL
    /\ reply' = Fail
    /\ UNCHANGED <<blink_array, mp1_list_head, vmem, drew>>

\* The character shown is the OFF_CHAR in either phase: the cmovl after
\* "testb $0x1" tests the sign, which is never set, and not the bit.
SyncFound(l, m) ==
    LET first == mp1_find_helper(l)
        second == mp1_find_helper(m)
        b == blink_array[first]
    IN  /\ first # NULL /\ second # NULL
        /\ blink_array' = [blink_array EXCEPT ![second] =
               [@ EXCEPT !.on_length = b.on_length, !.off_length = b.off_length,
                         !.countdown = b.countdown, !.status = b.status]]
        /\ vmem' = [vmem EXCEPT ![m] = blink_array[second].off_char]
        /\ reply' = Success
        /\ drew' = [drew EXCEPT ![m] = NULL]
        /\ UNCHANGED mp1_list_head

mp1_ioctl_sync(l, m) == SyncRefused(l, m) \/ SyncFound(l, m)

\* the caller's structure is overwritten with the one found
mp1_ioctl_find(l) ==
    LET n == mp1_find_helper(l)
    IN  /\ reply' = IF n = NULL THEN Fail
                    ELSE [ret |-> 0, location |-> blink_array[n].location,
                          on_char |-> blink_array[n].on_char, on |-> blink_array[n].status = 1]
        /\ UNCHANGED <<blink_array, mp1_list_head, vmem, drew>>

\* decw, before the signed comparison
Counted(n) == (blink_array[n].countdown - 1) % 2^16
Expired(n) == Signed(Counted(n)) <= 0

\* Faulty: the countdown is loaded with the length of the phase that ended.
Blinked_OldLength(n) ==
    IF ~Expired(n) THEN [blink_array[n] EXCEPT !.countdown = Counted(n)]
    ELSE IF blink_array[n].status = 1
      THEN [blink_array[n] EXCEPT !.status = 0, !.countdown = blink_array[n].on_length]
    ELSE [blink_array[n] EXCEPT !.status = 1, !.countdown = blink_array[n].off_length]

Blinked(n) ==
    IF ~Expired(n) THEN [blink_array[n] EXCEPT !.countdown = Counted(n)]
    ELSE IF blink_array[n].status = 1
      THEN [blink_array[n] EXCEPT !.status = 0, !.countdown = blink_array[n].off_length]
    ELSE [blink_array[n] EXCEPT !.status = 1, !.countdown = blink_array[n].on_length]

\* Faulty: the character of the phase that ends.
NewChar_Old(n) == IF blink_array[n].status = 1 THEN blink_array[n].on_char
                  ELSE blink_array[n].off_char

\* the character of the phase that begins
NewChar(n) == IF blink_array[n].status = 1 THEN blink_array[n].off_char
              ELSE blink_array[n].on_char

\* mp1_poke, for every element that changes phase, in the order of the list
Poked ==
    FoldLeft(LAMBDA v, n : [v EXCEPT ![blink_array[n].location] = NewChar(n)],
             vmem, SelectSeq(List, Expired))

mp1_rtc_tasklet ==
    /\ blink_array' = [n \in Elements |-> IF Contains(List, n) THEN Blinked(n) ELSE blink_array[n]]
    /\ vmem' = Poked
    /\ drew' = FoldLeft(LAMBDA d, n : [d EXCEPT ![blink_array[n].location] = n],
                        drew, SelectSeq(List, Expired))
    /\ UNCHANGED <<mp1_list_head, reply>>

Next ==
    \/ \E s \in Structs : mp1_ioctl_add(s)
    \/ \E l \in Asked : mp1_ioctl_remove(l) \/ mp1_ioctl_find(l)
    \/ \E l, m \in Asked : mp1_ioctl_sync(l, m)
    \/ mp1_rtc_tasklet

Spec == Init /\ [][Next]_vars

-----------------------------------------------------------------------------
(* Properties *)

\* the row of characters the list stands for
Row ==
    [i \in DOMAIN List |->
        LET b == blink_array[List[i]]
        IN  [location |-> b.location, on_char |-> b.on_char, off_char |-> b.off_char,
             on_length |-> b.on_length, off_length |-> b.off_length, on |-> b.status = 1,
             left |-> IF b.countdown \in 1 .. 2^15 THEN b.countdown ELSE 1]]

Abstract == INSTANCE Blinkers
    WITH Cells <- CELLS, Requests <- Structs, blinkers <- Row, answer <- reply

\* The structures, followed from the head, behave as the row of blinking
\* characters that Blinkers describes: every call finds, removes or changes the
\* newest character at a location, answers as it should, and every phase lasts
\* as long as its length says (mp1_rtc_tasklet and mp1_ioctl).
ImplementsBlinkers == Abstract!Spec

\* Whoever drew at a place last, in mp1_ioctl_add or in the tasklet, shows the
\* phase it is in now: no change of phase goes unshown, also when characters
\* share a place.  (After a sync the place shows the off character in either
\* phase, until the next change.)
ShowsPhase ==
    \A n \in ToSet(List) :
        LET b == blink_array[n]
        IN  drew[b.location] = n
              => vmem[b.location] = IF b.status = 1 THEN b.on_char ELSE b.off_char
=============================================================================
