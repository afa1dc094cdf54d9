SPECIFICATION Spec
CONSTANTS
    MaxLen = 4
    Nums <- MCNums
CHECK_DEADLOCK FALSE
INVARIANTS
    StringsRight
    NumbersRight
