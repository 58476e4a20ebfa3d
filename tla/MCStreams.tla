------------------------------ MODULE MCStreams ------------------------------
(* Two keys and two values: enough for keys to be inserted, updated and  *)
(* deleted at one time, in every combination, and for the two merged     *)
(* streams to touch the same key or different ones.                     *)
EXTENDS Streams

CONSTANTS k1, k2, a, b, none

MCKeys == {k1, k2}
MCVals == {a, b}
=============================================================================
