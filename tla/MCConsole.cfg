SPECIFICATION ConsoleSpec
CONSTANTS
    sh0 = sh0
    log = log
    CONSOLE_NR = 2
    ROWS = 2
    COLS = 2
    ESC_PARAM_MAX = 2
    Writers = {sh0, log}
    Console_of <- MCConsoleOf
    Chars <- MCChars
    MaxParam = 31
    MaxOut <- MCMaxOut
    BiosCursor = {2}
CHECK_DEADLOCK FALSE
INVARIANTS
    CursorShown
PROPERTIES
    ShowsPaper
