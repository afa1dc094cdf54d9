------------------------------ MODULE MCKList -------------------------------
(* An instance of KList for TLC: two lists that share four nodes.          *)
EXTENDS KList

CONSTANTS n1, n2, n3, n4, a, b

MCNodes == {n1, n2, n3, n4}
MCLists == {a, b}
=============================================================================
