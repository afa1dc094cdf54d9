------------------------------ MODULE MCFiles -------------------------------
(* An instance of Files for TLC, with too few files and descriptors.       *)
EXTENDS Files, TLC

CONSTANTS t1, t2, t3

MCTasks == {t1, t2, t3}
Symmetric == Permutations(MCTasks)
=============================================================================
