------------------------------- MODULE MCArrow -------------------------------
EXTENDS Arrow

=============================================================================
