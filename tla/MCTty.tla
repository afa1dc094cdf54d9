------------------------------- MODULE MCTty --------------------------------
(* Instances of Tty for TLC.                                               *)
EXTENDS Tty

CONSTANTS w1, l1, l2, r1, r2

\* A '\n' takes two units of osem before its writer drains anything.
MCMsg == [t \in Writers \cup Loggers |-> <<"x", "nl">>]
=============================================================================
