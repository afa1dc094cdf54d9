-------------------------------- MODULE MCVm --------------------------------
(* Instances of Vm for TLC: a page of the first task, two programs with a  *)
(* page of code, a heap and a page of stack.  The heap needs a table of    *)
(* its own.  The program a has two headers, and its segment is loaded      *)
(* twice; the segment of b starts in the middle of a page, and its heap in *)
(* a page that is not mapped.                                              *)
EXTENDS Vm

CONSTANTS t1, t2

MCTasks    == {t1, t2}
MCPrograms == {"a", "b"}
MCFile     == [a |-> [vaddr |-> 2, memsz |-> 1, phnum |-> 2],
               b |-> [vaddr |-> 3, memsz |-> 2, phnum |-> 1]]
MCEsp      == [p \in MCPrograms \cup {"first_task"} |-> IF p = "first_task" THEN 0 ELSE 5]

\* Within a page, over a page border, and back.
MCIncr == {1, 4, -1}
=============================================================================
