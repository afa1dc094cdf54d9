------------------------------ MODULE ListOps ------------------------------
(***************************************************************************)
(* What the operations of kernel/lib/list.c promise: the value of a list   *)
(* is the sequence of its nodes.  A node is on one list at a time, once:   *)
(* its callers insert nodes that are on no list and delete members.        *)
(***************************************************************************)
EXTENDS Integers, Sequences

Members(q) == {q[i] : i \in DOMAIN q}

Injective(q) == \A i, j \in DOMAIN q : q[i] = q[j] => i = j

Before(q, t, u) == \E i, j \in DOMAIN q : i < j /\ q[i] = t /\ q[j] = u

list_insert_first(q, t) == <<t>> \o q

list_insert_last(q, t) == Append(q, t)

list_delete_first(q) == Tail(q)

\* Every node after t moves one place towards the front.
list_delete(q, t) ==
    LET k == CHOOSE i \in DOMAIN q : q[i] = t
    IN  [i \in 1 .. Len(q) - 1 |-> IF i < k THEN q[i] ELSE q[i + 1]]

=============================================================================
