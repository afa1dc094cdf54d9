SPECIFICATION Spec
CONSTANTS
    t1 = t1
    t2 = t2
    t3 = t3
    Tasks <- MCTasks
    NULL = NULL
    FILE_TABLE_SIZE = 3
    TASK_OFILE_NR = 3
    TEMP_FILE_ID = 2
    DEV_TABLE_SIZE = 2
    Ttys = {0, 1}
    Names = {0, 1, 9}
SYMMETRY Symmetric
CHECK_DEADLOCK FALSE
INVARIANTS
    FilesAccounted
    LeadsToTerminal
    DevicesCounted
