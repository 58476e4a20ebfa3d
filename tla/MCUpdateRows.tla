---------------------------- MODULE MCUpdateRows ----------------------------
EXTENDS UpdateRows

CONSTANTS k1, k2, a, b

MCKeys == {k1, k2}
MCVals == {a, b}
=============================================================================
