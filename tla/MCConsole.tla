----------------------------- MODULE MCConsole ------------------------------
(* An instance of Console for TLC: a shell and the log on the first of two *)
(* consoles.  A screen has two rows of two cells.                          *)
EXTENDS Console

CONSTANTS sh0, log

MCConsoleOf == [w \in Writers |-> 0]
MCMaxOut    == [w \in Writers |-> IF w = sh0 THEN 5 ELSE 1]
MCChars     == [w \in Writers |->
    IF w = log THEN {"LF"}
    ELSE {"ESC", "DEL", "BS", "CR", "LF", "7", "8", "[", ";", "m", "D", "C",
          "H", "J", "1", "2", "3"}]
=============================================================================
