------------------------------- MODULE KList --------------------------------
(***************************************************************************)
(* The doubly linked lists of kernel/lib/list.c and include/list.h, field  *)
(* by field.  The nodes are shared by the lists: run_node links a task     *)
(* into ready_list and into sleep_list, wait_node into the wait list of    *)
(* every semaphore and mutex.                                              *)
(*                                                                         *)
(* The actions are the calls the kernel makes: a node is inserted when it  *)
(* is on no list and deleted from the list it is on (Sched's OneList and   *)
(* CurrIsHead, Sync's OneWaitList show that it keeps to this).  The        *)
(* history variable val follows each list by the operations of ListOps.    *)
(***************************************************************************)
EXTENDS ListOps

CONSTANTS Nodes, Lists, NULL

ASSUME NullAssumption == NULL \notin Nodes

VARIABLES
    first, last, count,     \* of list_t
    pre, next,              \* of list_node_t
    val                     \* history: the sequence a list stands for

vars == <<first, last, count, pre, next, val>>

OnNoList(n) == \A l \in Lists : n \notin Members(val[l])

-----------------------------------------------------------------------------
\* list_init, list_node_init.
Init ==
    /\ first = [l \in Lists |-> NULL]
    /\ last = [l \in Lists |-> NULL]
    /\ count = [l \in Lists |-> 0]
    /\ pre = [n \in Nodes |-> NULL]
    /\ next = [n \in Nodes |-> NULL]
    /\ val = [l \in Lists |-> <<>>]

list_is_empty(l) == count[l] = 0

insert_first(l, n) ==
    /\ OnNoList(n)
    /\ next' = [next EXCEPT ![n] = first[l]]
    /\ first' = [first EXCEPT ![l] = n]
    /\ IF list_is_empty(l)
       THEN /\ last' = [last EXCEPT ![l] = n]
            /\ pre' = [pre EXCEPT ![n] = NULL]
       ELSE /\ pre' = [pre EXCEPT ![n] = NULL, ![first[l]] = n]
            /\ UNCHANGED last
    /\ count' = [count EXCEPT ![l] = @ + 1]
    /\ val' = [val EXCEPT ![l] = list_insert_first(@, n)]

insert_last(l, n) ==
    /\ OnNoList(n)
    /\ pre' = [pre EXCEPT ![n] = last[l]]
    /\ last' = [last EXCEPT ![l] = n]
    /\ IF list_is_empty(l)
       THEN /\ first' = [first EXCEPT ![l] = n]
            /\ next' = [next EXCEPT ![n] = NULL]
       ELSE /\ next' = [next EXCEPT ![n] = NULL, ![last[l]] = n]
            /\ UNCHANGED first
    /\ count' = [count EXCEPT ![l] = @ + 1]
    /\ val' = [val EXCEPT ![l] = list_insert_last(@, n)]

\* An empty list is left alone.
delete_first(l) ==
    /\ ~list_is_empty(l)
    /\ LET n == first[l]
       IN  /\ first' = [first EXCEPT ![l] = next[n]]
           /\ next' = [next EXCEPT ![n] = NULL]
           /\ IF next[n] = NULL
              THEN /\ last' = [last EXCEPT ![l] = NULL]
                   /\ pre' = [pre EXCEPT ![n] = NULL]
              ELSE /\ pre' = [pre EXCEPT ![next[n]] = NULL, ![n] = NULL]
                   /\ UNCHANGED last
    /\ count' = [count EXCEPT ![l] = @ - 1]
    /\ val' = [val EXCEPT ![l] = list_delete_first(@)]

\* Store v in field f of node n, if there is one.
Set(f, n, v) == IF n = NULL THEN f ELSE [f EXCEPT ![n] = v]

\* Mutant: list->last still points to the deleted node.
delete_last_kept(l, n) ==
    /\ n \in Members(val[l])
    /\ first' = IF n = first[l] THEN [first EXCEPT ![l] = next[n]] ELSE first
    /\ next' = [Set(next, pre[n], next[n]) EXCEPT ![n] = NULL]
    /\ pre' = [Set(pre, next[n], pre[n]) EXCEPT ![n] = NULL]
    /\ count' = [count EXCEPT ![l] = @ - 1]
    /\ val' = [val EXCEPT ![l] = list_delete(@, n)]
    /\ UNCHANGED last

delete(l, n) ==
    /\ n \in Members(val[l])
    /\ first' = IF n = first[l] THEN [first EXCEPT ![l] = next[n]] ELSE first
    /\ last' = IF n = last[l] THEN [last EXCEPT ![l] = pre[n]] ELSE last
    /\ next' = [Set(next, pre[n], next[n]) EXCEPT ![n] = NULL]
    /\ pre' = [Set(pre, next[n], pre[n]) EXCEPT ![n] = NULL]
    /\ count' = [count EXCEPT ![l] = @ - 1]
    /\ val' = [val EXCEPT ![l] = list_delete(@, n)]

Next ==
    \E l \in Lists :
        \/ \E n \in Nodes : insert_first(l, n) \/ insert_last(l, n) \/ delete(l, n)
        \/ delete_first(l)

Spec == Init /\ [][Next]_vars

-----------------------------------------------------------------------------
(* Properties.                                                             *)

TypeOK ==
    /\ first \in [Lists -> Nodes \cup {NULL}]
    /\ last \in [Lists -> Nodes \cup {NULL}]
    /\ count \in [Lists -> Int]
    /\ pre \in [Nodes -> Nodes \cup {NULL}]
    /\ next \in [Nodes -> Nodes \cup {NULL}]
    /\ val \in [Lists -> Seq(Nodes)]

\* The fields of list l and of its nodes are those of the sequence q.
Represents(l, q) ==
    /\ count[l] = Len(q)
    /\ first[l] = IF Len(q) = 0 THEN NULL ELSE q[1]
    /\ last[l] = IF Len(q) = 0 THEN NULL ELSE q[Len(q)]
    /\ \A i \in 1 .. Len(q) :
          /\ next[q[i]] = IF i = Len(q) THEN NULL ELSE q[i + 1]
          /\ pre[q[i]] = IF i = 1 THEN NULL ELSE q[i - 1]

\* However the lists share their nodes, each list is linked as the sequence that
\* ListOps says it is: list.c implements the lists that Sched and Sync use.  A node
\* that is taken off its list is left with no links.
Linked ==
    /\ \A l \in Lists : Represents(l, val[l])
    /\ \A n \in Nodes : OnNoList(n) => pre[n] = NULL /\ next[n] = NULL
=============================================================================
