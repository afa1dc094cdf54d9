SPECIFICATION ScreenSpec
CONSTANTS
    Keys <- MCKeys
    Ttys = {0, 1}
    IBUF_SIZE = 1
    MaxReaders = 2
    MaxWire = 6
    MaxEvents = 4
    CONSOLE_NR = 2
    ROWS = 2
    COLS = 2
    ESC_PARAM_MAX = 2
    Writers = {"sh1"}
    Console_of <- MCConsoleOf
    Chars <- MCChars
    MaxParam = 31
    MaxOut <- MCMaxOut
    BiosCursor = {2}
CHECK_DEADLOCK FALSE
INVARIANTS
    KeysUnderstood
    UnitsOfOpen
