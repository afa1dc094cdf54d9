SPECIFICATION Spec
CONSTANTS
    t1 = t1
    t2 = t2
    Tasks <- MCTasks
    NULL = NULL
    MaxLoads = 2
    FILE <- MCFile
SYMMETRY Symmetric
CHECK_DEADLOCK FALSE
INVARIANTS
    LoadedAlone
    EntryReal
