------------------------------ MODULE MCErrorLog ------------------------------
EXTENDS ErrorLog

CONSTANTS o1, o2, e1, e2, e3

MCOps == {o1, o2}
MCErrors == {e1, e2, e3}

=============================================================================
