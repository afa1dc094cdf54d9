SPECIFICATION Spec
CONSTANTS
    t1 = t1
    t2 = t2
    Tasks <- MCTasks
    First <- t1
    NULL = NULL
    BAD = BAD
    NPAGES = 14
    PDE_CNT = 3
    PTE_CNT = 2
    PAGE_SIZE = 2
    FIRST_START = 0
    FIRST_SIZE = 2
    Programs <- MCPrograms
    FILE <- MCFile
    STACK_START = 10
    STACK_SIZE = 2
    ESP <- MCEsp
    ARGS = 5
    INCR <- MCIncr
    MaxCalls = 4
CHECK_DEADLOCK FALSE
INVARIANTS
    PagesUsedOnce
    AllAccountedFor
    ImageBacked
PROPERTIES
    MappingsKept
    ForkCopies
