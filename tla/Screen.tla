------------------------------- MODULE Screen -------------------------------
(***************************************************************************)
(* The keyboard driver and the consoles together, which share curr_tty and *)
(* the terminals that are open: tty_select of the keyboard interrupt       *)
(* changes the screen between any two steps of a task in console_write,    *)
(* and tty_open sets up the buffers of a terminal and its console.         *)
(***************************************************************************)
EXTENDS Kbd, Console

\* Every terminal has a console.
ASSUME ScreenAssumption == Ttys \subseteq Consoles

inputVars == <<recv_state, press, caps_lock, ififo, isem, waiting, holding, seen, since,
               overrun, userVars>>

Key(k) == (KeyDown(k) \/ KeyUp(k)) /\ UNCHANGED consoleVars

\* An interrupt that selects another terminal shows it.
Interrupt ==
    /\ handle_kbd
    /\ IF curr_tty' = curr_tty THEN UNCHANGED consoleVars
       ELSE console_select(curr_tty')

Open(i) == tty_open(i) /\ open_console(i)

\* The reader's echo is a write of its own.
Read(i) == (tty_read(i) \/ tty_fifo_get(i)) /\ UNCHANGED consoleVars

Display(w) ==
    /\ (\E c \in Chars[w] : Write(w, c)) \/ UpdatePos(w) \/ UpdateOut(w)
    /\ UNCHANGED inputVars

ScreenInit == Init /\ ConsoleInit

ScreenNext ==
    \/ \E k \in Keys : Key(k)
    \/ Interrupt
    \/ \E i \in Ttys : Open(i) \/ Read(i)
    \/ \E w \in Writers : Display(w)

ScreenSpec == ScreenInit /\ [][ScreenNext]_<<vars, consoleVars>>

\* When the bytes sent are handled, the screen shown is that of the terminal the user
\* chose, unless a function key was released after another terminal was chosen.
ChosenIsShown == wire = <<>> /\ ~misled => hw.start = chosen * AREA
=============================================================================
