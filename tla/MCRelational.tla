----------------------------- MODULE MCRelational -----------------------------
(* Two rows a side and two join values: a left row can have no partner,    *)
(* one, or two (the left-keys duplicate case), either side can hold an     *)
(* error in its join column, and the sides share one key of two.          *)
EXTENDS Relational

CONSTANTS l1, l2, r1, err, none, absent

MCLKeys == {l1, l2}
MCRKeys == {l1, r1}
=============================================================================
