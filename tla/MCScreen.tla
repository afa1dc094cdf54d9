------------------------------ MODULE MCScreen ------------------------------
(* An instance of Screen for TLC: both kinds of Ctrl, a shift, function    *)
(* keys for two terminals, a letter, and the keys with the long sequences; *)
(* on the second terminal, which is opened later, a task writes.           *)
EXTENDS Screen

MCKeys      == {"LShift", "LCtrl", "RCtrl", "Caps", "F1", "F2", "S", "PrtSc", "Pause"}
MCConsoleOf == [w \in Writers |-> 1]
MCMaxOut    == [w \in Writers |-> 1]
MCChars     == [w \in Writers |-> {"x"}]
=============================================================================
