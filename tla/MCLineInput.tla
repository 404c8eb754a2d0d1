---------------------------- MODULE MCLineInput -----------------------------
EXTENDS LineInput

\* What the program or a property looks at: not the last reply, and not the
\* lines of terminals that are disturbed.
Followed ==
    <<vis_term_id, edit, history, hist, wiped, disturbed,
      [t \in Terms \ disturbed |-> <<line[t], entered[t]>>]>>

\* Bounds.  In the instance with the larger buffers history keys are not
\* interrupted, and some terminal is left for the properties to speak of; in the
\* other one they are interrupted while some terminal is left.
NotNested == hist = NoKey
OneLeft == Undisturbed # {}
NestedWhileLeft == NotNested \/ OneLeft
=============================================================================
