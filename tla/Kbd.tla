-------------------------------- MODULE Kbd ---------------------------------
(***************************************************************************)
(* The keyboard interrupt: handle_kbd, do_normal_key, do_e0_key and        *)
(* do_fx_key of kernel/dev/tty/kbd.c, and what they call in tty.c: tty_in  *)
(* and tty_select; with tty_open and a reader, for the terminals' input.   *)
(*                                                                         *)
(* The keyboard, which is external, sends one or more bytes for every key  *)
(* that is pressed, repeated or released; the handler is called once for   *)
(* each byte and keeps what it has seen in recv_state.  A byte is a key    *)
(* code and its highest bit, which is set when the key is released.        *)
(***************************************************************************)
EXTENDS Integers, Sequences, FiniteSets, Terminals

CONSTANTS
    Keys,           \* the keys in use
    Ttys,           \* the terminals, numbered from 0
    IBUF_SIZE,      \* TTY_IBUF_SIZE
    MaxReaders,     \* bound on the readers of one terminal at a time
    MaxWire,        \* bound on the bytes waiting in the controller
    MaxEvents       \* bound on the key events

Modifiers == {"LShift", "RShift", "LCtrl", "RCtrl", "LAlt", "RAlt"}
FKeys     == {"F1", "F2", "F3"}
Others    == {"A", "S", "Esc", "Enter", "Up", "PrtSc", "Pause"}

ASSUME KeysAssumption == Keys \subseteq Modifiers \cup FKeys \cup Others \cup {"Caps"}
ASSUME TtysAssumption == 0 \in Ttys /\ Ttys \subseteq 0 .. 7 /\ IBUF_SIZE \in Nat \ {0}
ASSUME BoundAssumption == MaxReaders \in Nat /\ MaxWire \in Nat /\ MaxEvents \in Nat

VARIABLES
    wire,           \* the bytes sent and not yet handled
    recv_state,     \* the static variable of handle_kbd
    press,          \* kbd_state: the keys whose flag is set
    caps_lock,      \* kbd_state.caps_lock
    ififo, isem,    \* per terminal: the characters in the buffer, the count
    waiting,        \* per terminal: the readers blocked in sem_wait
    holding,        \* per terminal: those past it that have not taken a character
    held,           \* history: the keys that are down
    caps,           \* history: how often CapsLock was pressed, modulo 2
    chosen,         \* history: the terminal chosen with Ctrl and a function key
    text,           \* history: the keys typed for a terminal, with what was in effect
    misled,         \* history: an event that the driver takes for another happened
    seen,           \* history: the characters tty_in was called with for a terminal
    since,          \* history: the number of them when it was opened
    overrun,        \* history: a character was counted and not stored since then
    events          \* history: the number of key events

driverVars == <<recv_state, press, caps_lock, curr_tty>>
ttyVars    == <<opened, ififo, isem, waiting, holding, seen, since, overrun>>
userVars   == <<wire, held, caps, chosen, text, misled, events>>
vars       == <<driverVars, ttyVars, userVars>>

Make(c)  == [code |-> c, make |-> TRUE]
Break(c) == [code |-> c, make |-> FALSE]
KEY_E0   == Break("60")
KEY_E1   == Break("61")

-----------------------------------------------------------------------------
(* The keyboard.  The keys right of the letters send E0 first, PrtSc with  *)
(* a shift of its own, and Pause sends all its bytes when it is pressed.   *)

Code == [LShift |-> "2A", RShift |-> "36", LCtrl |-> "1D", RCtrl |-> "1D", LAlt |-> "38",
         RAlt |-> "38", Caps |-> "3A", F1 |-> "3B", F2 |-> "3C", F3 |-> "3D", A |-> "1E",
         S |-> "1F", Esc |-> "01", Enter |-> "1C", Up |-> "48"]

Extended == {"RCtrl", "RAlt", "Up"}

MakeBytes(k) ==
    CASE k = "Pause" -> <<KEY_E1, Make("1D"), Make("45"), KEY_E1, Break("1D"), Break("45")>>
      [] k = "PrtSc" -> <<KEY_E0, Make("2A"), KEY_E0, Make("37")>>
      [] k \in Extended -> <<KEY_E0, Make(Code[k])>>
      [] OTHER -> <<Make(Code[k])>>

BreakBytes(k) ==
    CASE k = "Pause" -> <<>>
      [] k = "PrtSc" -> <<KEY_E0, Break("37"), KEY_E0, Break("2A")>>
      [] k \in Extended -> <<KEY_E0, Break(Code[k])>>
      [] OTHER -> <<Break(Code[k])>>

Send(bytes) ==
    /\ events < MaxEvents /\ events' = events + 1
    /\ Len(wire) + Len(bytes) <= MaxWire
    /\ wire' = wire \o bytes

-----------------------------------------------------------------------------
(* What a user means by the keys, whatever the driver makes of them.       *)

Shifted(keys) == keys \cap {"LShift", "RShift"} # {}
Control(keys) == keys \cap {"LCtrl", "RCtrl"} # {}

FNumber(k) == CASE k = "F1" -> 0 [] k = "F2" -> 1 [] k = "F3" -> 2

\* There is a function key for each of the eight terminals.
ASSUME FKeysAssumption == \A k \in Keys \cap FKeys : FNumber(k) \in Ttys

\* The keys with a character of their own, and Pause, which has none.
TypingKeys == {"A", "S", "Esc", "Enter", "Pause"}

\* The character of an entry of text: Shift and CapsLock make a letter a capital, and
\* undo each other.
Meant(e) ==
    LET capital == e.shift # e.caps
    IN  CASE e.key = "A"     -> IF capital THEN "A" ELSE "a"
          [] e.key = "S"     -> IF capital THEN "S" ELSE "s"
          [] e.key = "Enter" -> "nl"
          [] e.key = "Esc"   -> "esc"
          [] e.key = "Pause" -> "none"

\* What the driver types wrongly: map_table has a B for S with Shift, and nothing for
\* Esc; and Pause, which a comment at BEGIN_E1 says is not handled, types the NUL of its
\* third byte, as only one is ignored.
Mistyped(e, ch) ==
    \/ e.key = "S" /\ e.shift /\ ch = IF e.caps THEN "b" ELSE "B"
    \/ e.key \in {"Esc", "Pause"} /\ ch = "NUL"

\* A key goes down, or is repeated.  CapsLock counts once until it is released, but
\* the driver turns it over with every repetition.
KeyDown(k) ==
    /\ Send(MakeBytes(k))
    /\ held' = held \cup ({k} \ {"Pause"})
    /\ caps' = IF k = "Caps" /\ k \notin held THEN 1 - caps ELSE caps
    /\ chosen' = IF k \in FKeys /\ Control(held) THEN FNumber(k) ELSE chosen
    /\ text' = IF k \in TypingKeys
               THEN [text EXCEPT ![chosen] =
                         Append(@, [key |-> k, shift |-> Shifted(held), caps |-> caps = 1])]
               ELSE text
    /\ misled' = (misled \/ (k = "Caps" /\ k \in held))
    /\ UNCHANGED <<driverVars, ttyVars>>

\* A function key chooses a terminal when it goes down; the driver selects it again
\* when the key comes up, although another may be chosen by then.
KeyUp(k) ==
    /\ k \in held
    /\ Send(BreakBytes(k))
    /\ held' = held \ {k}
    /\ misled' = (misled \/ (k \in FKeys /\ Control(held) /\ FNumber(k) # chosen))
    /\ UNCHANGED <<driverVars, ttyVars, caps, chosen, text>>

-----------------------------------------------------------------------------
(* tty.c                                                                   *)

\* Mutant: the semaphore keeps the units of what was typed before.
tty_open_isem_kept(i) ==
    /\ i \notin opened
    /\ opened' = opened \cup {i}
    /\ ififo' = [ififo EXCEPT ![i] = <<>>]
    /\ since' = [since EXCEPT ![i] = Len(seen[i])]
    /\ overrun' = [overrun EXCEPT ![i] = FALSE]
    /\ UNCHANGED <<driverVars, userVars, isem, waiting, holding, seen>>

\* dev_open calls it once for each terminal, before there is a reader.
tty_open(i) ==
    /\ i \notin opened
    /\ opened' = opened \cup {i}
    /\ ififo' = [ififo EXCEPT ![i] = <<>>]
    /\ isem' = [isem EXCEPT ![i] = 0]
    /\ since' = [since EXCEPT ![i] = Len(seen[i])]
    /\ overrun' = [overrun EXCEPT ![i] = FALSE]
    /\ UNCHANGED <<driverVars, userVars, waiting, holding, seen>>

\* A blocked reader is handed the unit, which is not counted then.
sem_notify(i) ==
    IF waiting[i] > 0
    THEN /\ waiting' = [waiting EXCEPT ![i] = @ - 1]
         /\ holding' = [holding EXCEPT ![i] = @ + 1]
         /\ UNCHANGED isem
    ELSE /\ isem' = [isem EXCEPT ![i] = @ + 1]
         /\ UNCHANGED <<waiting, holding>>

\* A terminal that is not open has a buffer of size 0: the put fails, and the unit is
\* counted all the same.  So it does when a reader has a unit and not yet its character.
tty_in(ch) ==
    LET size == IF curr_tty \in opened THEN IBUF_SIZE ELSE 0
        full == Len(ififo[curr_tty]) >= size
    IN  /\ seen' = [seen EXCEPT ![curr_tty] = Append(@, ch)]
        /\ IF isem[curr_tty] >= IBUF_SIZE
           THEN UNCHANGED <<ififo, isem, waiting, holding, overrun>>
           ELSE /\ ififo' = [ififo EXCEPT ![curr_tty] = IF full THEN @ ELSE Append(@, ch)]
                /\ overrun' = [overrun EXCEPT ![curr_tty] = @ \/ full]
                /\ sem_notify(curr_tty)
        /\ UNCHANGED <<opened, since>>

\* A task in tty_read calls sem_wait, and waits unless there is a unit.
tty_read(i) ==
    /\ i \in opened /\ waiting[i] + holding[i] < MaxReaders
    /\ IF isem[i] > 0
       THEN /\ isem' = [isem EXCEPT ![i] = @ - 1]
            /\ holding' = [holding EXCEPT ![i] = @ + 1]
            /\ UNCHANGED waiting
       ELSE /\ waiting' = [waiting EXCEPT ![i] = @ + 1]
            /\ UNCHANGED <<isem, holding>>
    /\ UNCHANGED <<driverVars, userVars, opened, ififo, seen, since, overrun>>

\* Past sem_wait it takes a character, if there is one; Tty has the steps of two
\* readers inside tty_fifo_get, and the echo.
tty_fifo_get(i) ==
    /\ holding[i] > 0
    /\ holding' = [holding EXCEPT ![i] = @ - 1]
    /\ ififo' = [ififo EXCEPT ![i] = IF @ = <<>> THEN @ ELSE Tail(@)]
    /\ UNCHANGED <<driverVars, userVars, opened, isem, waiting, seen, since, overrun>>

\* Console models what is displayed then.
tty_select(i) == curr_tty' = i

-----------------------------------------------------------------------------
(* kbd.c                                                                   *)

\* The characters of map_table, with and without shift; NUL where it has no entry.
map_table ==
    [c \in {"1E", "1F", "1C"} |-> CASE c = "1E" -> <<"a", "A">>
                                    [] c = "1F" -> <<"s", "B">>
                                    [] c = "1C" -> <<"nl", "nl">>]
Char(c, shift) == IF c \in DOMAIN map_table THEN map_table[c][IF shift THEN 2 ELSE 1] ELSE "NUL"

SwapCase(ch) ==
    LET swap == [a |-> "A", A |-> "a", s |-> "S", b |-> "B", B |-> "b"]
    IN  IF ch \in DOMAIN swap THEN swap[ch] ELSE ch

Flag(k, b) == press' = IF b.make THEN press \cup {k} ELSE press \ {k}

do_fx_key(n) == IF Control(press) THEN tty_select(n) ELSE UNCHANGED curr_tty

KEY_F == [c \in {"3B", "3C", "3D"} |-> CASE c = "3B" -> 0 [] c = "3C" -> 1 [] c = "3D" -> 2]

\* The character that do_normal_key gives to tty_in.
KeyChar(c) ==
    LET ch == Char(c, Shifted(press))
    IN  IF caps_lock THEN SwapCase(ch) ELSE ch

do_normal_key(b) ==
    LET flags == [c \in {"36", "2A", "38", "1D"} |->
                     CASE c = "36" -> "RShift" [] c = "2A" -> "LShift"
                       [] c = "38" -> "LAlt"   [] c = "1D" -> "LCtrl"]
    IN  \/ /\ b.code \in DOMAIN flags
           /\ Flag(flags[b.code], b)
           /\ UNCHANGED <<caps_lock, curr_tty, ttyVars>>
        \/ /\ b.code = "3A"
           /\ caps_lock' = IF b.make THEN ~caps_lock ELSE caps_lock
           /\ UNCHANGED <<press, curr_tty, ttyVars>>
        \/ /\ b.code \in DOMAIN KEY_F
           /\ do_fx_key(KEY_F[b.code])
           /\ UNCHANGED <<press, caps_lock, ttyVars>>
        \/ /\ b.code \notin DOMAIN flags \cup DOMAIN KEY_F \cup {"3A"}
           /\ IF b.make THEN tty_in(KeyChar(b.code)) ELSE UNCHANGED ttyVars
           /\ UNCHANGED <<press, caps_lock, curr_tty>>

\* Right Ctrl and Alt; every other key is ignored.
do_e0_key(b) ==
    /\ CASE b.code = "1D" -> Flag("RCtrl", b)
         [] b.code = "38" -> Flag("RAlt", b)
         [] OTHER         -> UNCHANGED press
    /\ UNCHANGED <<caps_lock, curr_tty, ttyVars>>

\* Mutant: the byte after an E0 does not end it.
handle_kbd_state_kept ==
    LET b == Head(wire)
    IN  /\ wire # <<>>
        /\ wire' = Tail(wire)
        /\ IF b \in {KEY_E0, KEY_E1}
           THEN /\ recv_state' = IF b = KEY_E0 THEN "BEGIN_E0" ELSE "BEGIN_E1"
                /\ UNCHANGED <<press, caps_lock, curr_tty, ttyVars>>
           ELSE \/ recv_state = "NORMAL" /\ do_normal_key(b) /\ UNCHANGED recv_state
                \/ recv_state = "BEGIN_E0" /\ do_e0_key(b) /\ UNCHANGED recv_state
                \/ /\ recv_state = "BEGIN_E1" /\ recv_state' = "NORMAL"
                   /\ UNCHANGED <<press, caps_lock, curr_tty, ttyVars>>
        /\ UNCHANGED <<held, caps, chosen, text, misled, events>>

\* One interrupt; without a byte it returns at once.
handle_kbd ==
    LET b == Head(wire)
    IN  /\ wire # <<>>
        /\ wire' = Tail(wire)
        /\ IF b \in {KEY_E0, KEY_E1}
           THEN /\ recv_state' = IF b = KEY_E0 THEN "BEGIN_E0" ELSE "BEGIN_E1"
                /\ UNCHANGED <<press, caps_lock, curr_tty, ttyVars>>
           ELSE /\ recv_state' = "NORMAL"
                /\ \/ recv_state = "NORMAL" /\ do_normal_key(b)
                   \/ recv_state = "BEGIN_E0" /\ do_e0_key(b)
                   \/ recv_state = "BEGIN_E1" /\ UNCHANGED <<press, caps_lock, curr_tty, ttyVars>>
        /\ UNCHANGED <<held, caps, chosen, text, misled, events>>

\* log_init has opened the terminal 0.
Init ==
    /\ wire = <<>> /\ recv_state = "NORMAL" /\ press = {} /\ caps_lock = FALSE
    /\ curr_tty = 0 /\ opened = {0}
    /\ ififo = [i \in Ttys |-> <<>>] /\ isem = [i \in Ttys |-> 0]
    /\ waiting = [i \in Ttys |-> 0] /\ holding = [i \in Ttys |-> 0]
    /\ held = {} /\ caps = 0 /\ chosen = 0 /\ misled = FALSE
    /\ text = [i \in Ttys |-> <<>>] /\ seen = [i \in Ttys |-> <<>>]
    /\ since = [i \in Ttys |-> 0] /\ overrun = [i \in Ttys |-> FALSE]
    /\ events = 0

Next ==
    \/ \E k \in Keys : KeyDown(k) \/ KeyUp(k)
    \/ handle_kbd
    \/ \E i \in Ttys : tty_open(i) \/ tty_read(i) \/ tty_fifo_get(i)

Spec == Init /\ [][Next]_vars

-----------------------------------------------------------------------------
(* Properties.                                                             *)

\* When the bytes sent are handled, the driver knows which modifiers are down,
\* although Pause and PrtSc send the codes of Ctrl and Shift.  It knows CapsLock and the
\* terminal chosen, and every key typed has given one character, in order, to the
\* terminal chosen when it went down: the one that was meant, or one of the three named
\* wrong ones.  Only a user who keeps CapsLock down, or releases a function key after
\* choosing another terminal, is no longer understood.
KeysUnderstood ==
    wire = <<>> =>
        /\ recv_state = "NORMAL"
        /\ press = held \cap Modifiers
        /\ ~misled =>
              /\ caps_lock <=> caps = 1
              /\ curr_tty = chosen
              /\ \A i \in Ttys :
                    /\ Len(seen[i]) = Len(text[i])
                    /\ \A j \in 1 .. Len(text[i]) :
                          seen[i][j] = Meant(text[i][j]) \/ Mistyped(text[i][j], seen[i][j])

\* Every character in the buffer of an open terminal has a unit of its semaphore,
\* counted or with a reader that has yet to take it; there are no other units unless a
\* put failed, and no reader waits while one is counted.  The characters were typed
\* after it was opened: what is typed to a terminal that is chosen and not yet open is
\* counted and not stored, and must be forgotten at tty_open.
UnitsOfOpen ==
    \A i \in opened :
        /\ isem[i] + holding[i] >= Len(ififo[i])
        /\ ~overrun[i] => isem[i] + holding[i] = Len(ififo[i])
        /\ waiting[i] > 0 => isem[i] = 0
        /\ Len(ififo[i]) <= Len(seen[i]) - since[i]
=============================================================================
