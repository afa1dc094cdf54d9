------------------------------- MODULE MCLoad -------------------------------
(* An instance of Load for TLC: a program with one segment, of two pages,  *)
(* and a second program header that is not to be loaded.                   *)
EXTENDS Load, TLC

CONSTANTS t1, t2

MCTasks   == {t1, t2}
Symmetric == Permutations(MCTasks)
MCFile ==
    << [kind |-> "ehdr", phoff |-> 1, phnum |-> 2, entry |-> 7],
       [kind |-> "phdr", load |-> TRUE, offset |-> 3, pages |-> 2, vaddr |-> 1],
       [kind |-> "phdr", load |-> FALSE, offset |-> 5, pages |-> 1, vaddr |-> 4],
       [kind |-> "page", text |-> 1],
       [kind |-> "page", text |-> 2],
       [kind |-> "page", text |-> 3] >>
=============================================================================
