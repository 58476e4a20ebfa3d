------------------------------- MODULE MCDriver -------------------------------
EXTENDS Driver

CONSTANTS w1, w2

MCWorkers == {w1, w2}

=============================================================================
