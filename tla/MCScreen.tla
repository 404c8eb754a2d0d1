------------------------------ MODULE MCScreen -------------------------------
EXTENDS Screen

MCTexts == {<<"nl">>, <<"a">>}
MCMessage == <<"a", "nl">>

\* Nobody reads the backing page of the visible terminal: switch_screen writes
\* all of it first.
Live == <<vis_term_id, vid_mem, [video EXCEPT ![vis_term_id + 1] = Blank],
          place, mouse, line, start, own>>
=============================================================================
