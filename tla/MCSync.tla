------------------------------- MODULE MCSync -------------------------------
(* Instances of Sync for TLC.                                              *)
EXTENDS Sync

CONSTANTS t1, t2, t3, idle, s1, m1, m2

MCTasks == {t1, t2, t3}

\* With OS_TICK_MS = 10: one tick, and less than a tick.
MCMs    == {5, 10}

\* A semaphore that starts empty, like isem.
MCSemInit == [s \in Sems |-> 0]

\* m1 is klog's mutex, m2 the mutex of a console.
MCRank == [m \in Mutexes |-> IF m = m1 THEN 1 ELSE 2]
=============================================================================
