SPECIFICATION Spec
CONSTANTS
    n1 = n1
    n2 = n2
    n3 = n3
    n4 = n4
    a = a
    b = b
    Nodes <- MCNodes
    Lists <- MCLists
    NULL = NULL
INVARIANTS
    Linked
