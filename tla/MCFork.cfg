SPECIFICATION Spec
CONSTANTS
    First = First
    NULL = NULL
    MaxCalls = 5
    NTASKS = 3
    RESERVED = 3
    GDT_TABLE_SIZE = 6
    TASK_NAME_SIZE = 4
    FirstName <- MCFirstName
    Paths <- MCPaths
CHECK_DEADLOCK FALSE
INVARIANTS
    SlotsApart
    SelectorsOwn
