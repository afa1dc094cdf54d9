SPECIFICATION FairSpec
CONSTANTS
    w1 = w1
    l1 = l1
    l2 = l2
    r1 = r1
    r2 = r2
    Kbd = Kbd
    NULL = NULL
    Writers = {w1}
    Loggers = {l1, l2}
    Readers = {}
    MSG <- MCMsg
    SIZE = 1
    OBUF_SIZE = 4
    IBUF_SIZE = 1
    MaxKeys = 0
CHECK_DEADLOCK FALSE
INVARIANTS
    OutputRoom
    OutputInOrder
    WrittenIsShown
    LogLinesWhole
PROPERTIES
    WriteReturns
