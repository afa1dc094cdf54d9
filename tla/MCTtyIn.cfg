SPECIFICATION Spec
CONSTANTS
    w1 = w1
    l1 = l1
    l2 = l2
    r1 = r1
    r2 = r2
    Kbd = Kbd
    NULL = NULL
    Writers = {}
    Loggers = {}
    Readers = {r1, r2}
    MSG <- MCMsg
    SIZE = 2
    OBUF_SIZE = 3
    IBUF_SIZE = 2
    MaxKeys = 4
CHECK_DEADLOCK FALSE
INVARIANTS
    InputUnits
    InputInOrder
