-------------------------- MODULE MCStatefulReduce --------------------------
EXTENDS StatefulReduce, TLC

CONSTANTS err, none, a, b

\* Four rows: two carry a, one b and one Value::Error.
MCValOf == (1 :> a @@ 2 :> b @@ 3 :> err @@ 4 :> a)

=============================================================================
