------------------------------ MODULE MCBlink -------------------------------
EXTENDS Blink

Struct(l, on, off, n, m) ==
    [location |-> l, on_char |-> on, off_char |-> off, on_length |-> n, off_length |-> m]

\* two places of a screen of three, one beyond it, and lengths at the edges of
\* the signed comparison
MCStructs == {Struct(1, "a", "b", 1, 2), Struct(2, "c", "d", 40000, 0),
              Struct(3, "a", "b", 1, 1)}

\* the state without reply, which no step reads
Live == <<blink_array, mp1_list_head, vmem, drew>>
=============================================================================
