------------------------------ MODULE Blinkers ------------------------------
(***************************************************************************)
(* What blink.S promises fish: a row of blinking characters, the newest    *)
(* first, each of which alternates between its two phases and stays in     *)
(* each for the length asked for.  Blink implements this.                  *)
(***************************************************************************)
EXTENDS Integers, SequencesExt

CONSTANTS Cells,        \* how many places the screen has, and how many fit
          Requests      \* the characters that clients ask for

VARIABLES blinkers,     \* the blinking characters
          answer        \* what the last call returned

Fail == [ret |-> -1, location |-> 0, on_char |-> " ", on |-> FALSE]
Done == [Fail EXCEPT !.ret = 0]

\* how many ticks a phase of 16-bit length n lasts: a length of 0, or beyond
\* the range of a signed word, counts as one tick
Ticks(n) == IF n \in 1 .. 2^15 THEN n ELSE 1

At(l) == SelectInSeq(blinkers, LAMBDA b : b.location = l)

Init == blinkers = <<>> /\ answer = Done

\* a new character starts in its on phase
Add(r) ==
    IF r.location >= Cells \/ Len(blinkers) = Cells
      THEN answer' = Fail /\ UNCHANGED blinkers
      ELSE /\ answer' = Done
           /\ blinkers' = <<[location |-> r.location, on_char |-> r.on_char,
                             off_char |-> r.off_char, on_length |-> r.on_length,
                             off_length |-> r.off_length, on |-> TRUE,
                             left |-> Ticks(r.on_length)]>> \o blinkers

Stop(l) ==
    IF At(l) = 0
      THEN answer' = Fail /\ UNCHANGED blinkers
      ELSE answer' = Done /\ blinkers' = RemoveAt(blinkers, At(l))

\* the character at m takes over the rhythm of the one at l
Sync(l, m) ==
    IF At(l) = 0 \/ At(m) = 0
      THEN answer' = Fail /\ UNCHANGED blinkers
      ELSE LET b == blinkers[At(l)]
           IN  /\ answer' = Done
               /\ blinkers' = [blinkers EXCEPT ![At(m)] =
                     [@ EXCEPT !.on_length = b.on_length, !.off_length = b.off_length,
                               !.on = b.on, !.left = b.left]]

Find(l) ==
    /\ answer' = IF At(l) = 0 THEN Fail
                 ELSE LET b == blinkers[At(l)]
                      IN  [ret |-> 0, location |-> l, on_char |-> b.on_char, on |-> b.on]
    /\ UNCHANGED blinkers

Ticked(b) ==
    IF b.left > 1 THEN [b EXCEPT !.left = @ - 1]
    ELSE [b EXCEPT !.on = ~@, !.left = Ticks(IF b.on THEN b.off_length ELSE b.on_length)]

Tick == blinkers' = [i \in DOMAIN blinkers |-> Ticked(blinkers[i])] /\ UNCHANGED answer

Next ==
    \/ \E r \in Requests : Add(r)
    \/ \E l \in 0 .. Cells : Stop(l) \/ Find(l) \/ \E m \in 0 .. Cells : Sync(l, m)
    \/ Tick

Spec == Init /\ [][Next]_<<blinkers, answer>>
=============================================================================
