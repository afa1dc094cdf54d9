------------------------------ MODULE MCSched ------------------------------
(* Instances of Sched for TLC.                                             *)
EXTENDS Sched

CONSTANTS t1, t2, t3, idle

MCTasks == {t1, t2, t3}

\* With OS_TICK_MS = 10: one tick and two ticks.
MCMs    == {10, 20}
=============================================================================
