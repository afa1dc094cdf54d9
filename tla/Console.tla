------------------------------ MODULE Console -------------------------------
(***************************************************************************)
(* The consoles of kernel/dev/tty/console.c: escape sequences, cursor,     *)
(* scrolling, and the cursor and start registers of the display, with the  *)
(* choice of the visible console (tty_select of tty.c).                    *)
(*                                                                         *)
(* The consoles lie one after the other in one display memory.  A task     *)
(* that calls console_write changes the console under its mutex, one       *)
(* character here; it then unlocks the mutex, computes the cursor's place  *)
(* and writes it to the registers, three steps between which other tasks   *)
(* and the keyboard interrupt can run.                                     *)
(*                                                                         *)
(* A character is its name; every printable one but the blank looks alike  *)
(* on the screen.                                                          *)
(***************************************************************************)
EXTENDS Integers, Sequences, FiniteSets, SequencesExt, Terminals

CONSTANTS
    CONSOLE_NR,         \* consoles are 0 .. CONSOLE_NR - 1
    ROWS, COLS,         \* CONSOLE_ROW_MAX, CONSOLE_COL_MAX
    ESC_PARAM_MAX,
    Writers,            \* tasks that write to a terminal, klog's among them
    Console_of,         \* the console each of them writes to
    Chars,              \* the characters each of them writes
    MaxParam,           \* bound on the numbers in escape sequences
    MaxOut,             \* bound on the characters each task writes
    BiosCursor          \* where the BIOS may have left the cursor

Consoles == 0 .. CONSOLE_NR - 1
AREA     == ROWS * COLS
Memory   == 0 .. CONSOLE_NR * AREA - 1

Digits   == [c \in {"0", "1", "2", "3", "4", "9"} |->
               CASE c = "0" -> 0 [] c = "1" -> 1 [] c = "2" -> 2
                 [] c = "3" -> 3 [] c = "4" -> 4 [] c = "9" -> 9]
Glyph(c) == IF c = " " THEN " " ELSE "x"

\* color_table of set_font_style, and the colours of console_init.  A cell has three
\* bits for the background, which still tell these apart.
Colors   == <<"Black", "Red", "Green", "Yellow", "Blue", "Magenta", "Cyan", "White">>
Default  == [fg |-> "White", bg |-> "Black"]
Pens     == [fg : ToSet(Colors), bg : ToSet(Colors)]

ASSUME SizeAssumption ==
    /\ {CONSOLE_NR, ROWS, COLS, ESC_PARAM_MAX} \subseteq Nat \ {0}
    /\ COLS > 1 /\ ESC_PARAM_MAX > 1
    /\ CONSOLE_NR * AREA <= 65536       \* the registers of the display have 16 bits
ASSUME WriterAssumption ==
    /\ Console_of \in [Writers -> Consoles] /\ MaxOut \in [Writers -> Nat] /\ MaxParam \in Nat
    /\ BiosCursor \subseteq 0 .. AREA - 1

VARIABLES
    con,        \* console_buf: per console its cursor, saved cursor, colours, escape state
    mem,        \* display memory: cells, each a glyph and its colours
    inited,     \* consoles with a disp_base
    hw,         \* the start and cursor registers of the display
    pc, pos,    \* where each task is in console_write, and its local variable pos
    left,       \* how much each task may still write
    gone,       \* history: the cells scrolled off each console
    args,       \* history: the numbers in each console's escape sequence so far
    op,         \* history: the command of each console that is being carried out
    wild,       \* history: a cursor was sent off the screen, or parameters overflowed
    stale,      \* history: tasks whose pos is older than the last character
    last        \* history: the console whose cursor was written to hw last, and if
                \* the place was stale

consoleVars == <<con, mem, inited, hw, pc, pos, left, gone, args, op, wild, stale, last>>
displayVars == <<consoleVars, opened, curr_tty>>

-----------------------------------------------------------------------------
(* Operations on a state s: a console k, the display memory m, and what    *)
(* the console has scrolled off (g).                                       *)

Base(s) == s.k.base

erease_rows(s, from, to) ==
    [s EXCEPT !.m = [p \in Memory |->
        IF p \in Base(s) + COLS * from .. Base(s) + COLS * (to + 1) - 1
        THEN <<" ", s.k.pen>> ELSE s.m[p]]]

\* The k_memcpy of scroll_up: the row at the top leaves the screen.
copy_rows(s) ==
    [s EXCEPT !.m = [p \in Memory |->
                 IF p \in Base(s) .. Base(s) + AREA - COLS - 1 THEN s.m[p + COLS] ELSE s.m[p]],
              !.g = @ \o [j \in 1 .. COLS |-> s.m[Base(s) + j - 1]]]

\* Mutant: the row that comes into view is not erased.
scroll_up_no_erase(s) == [copy_rows(s) EXCEPT !.k.row = @ - 1]

\* scroll_up by one line, which is what all its callers ask for.
scroll_up(s) == [erease_rows(copy_rows(s), ROWS - 1, ROWS - 1) EXCEPT !.k.row = @ - 1]

mov_to_col0(s) == [s EXCEPT !.k.col = 0]

mov_next_row(s) ==
    LET t == [s EXCEPT !.k.row = @ + 1] IN IF t.k.row >= ROWS THEN scroll_up(t) ELSE t

move_forward(s) == IF s.k.col + 1 >= COLS THEN mov_next_row(mov_to_col0(s))
                                          ELSE [s EXCEPT !.k.col = @ + 1]

CanMoveBack(s) == s.k.col > 0 \/ s.k.row > 0

move_backward(s) ==
    IF s.k.col > 0 THEN [s EXCEPT !.k.col = @ - 1]
    ELSE IF s.k.row > 0 THEN [s EXCEPT !.k.row = @ - 1, !.k.col = COLS - 1]
    ELSE s

\* With the cursor off the screen the cell is another console's, or outside.
show_char(s, c) ==
    LET p == Base(s) + s.k.col + s.k.row * COLS
    IN  move_forward([s EXCEPT !.m = IF p \in Memory THEN [@ EXCEPT ![p] = <<Glyph(c), s.k.pen>>]
                                                     ELSE @])

erease_back(s) ==
    IF CanMoveBack(s) THEN move_backward(show_char(move_backward(s), " ")) ELSE s

clear_display(s) == erease_rows(s, 0, ROWS - 1)

move_left(s, n) ==
    LET col == s.k.col - (IF n = 0 THEN 1 ELSE n)
    IN  [s EXCEPT !.k.col = IF col >= 0 THEN col ELSE 0]

move_right(s, n) ==
    LET col == s.k.col + (IF n = 0 THEN 1 ELSE n)
    IN  [s EXCEPT !.k.col = IF col >= COLS THEN COLS - 1 ELSE col]

clear_esc_param(s) == [s EXCEPT !.k.param = [i \in DOMAIN @ |-> 0], !.k.index = 0]

save_cursor(s)    == [s EXCEPT !.k.old_row = s.k.row, !.k.old_col = s.k.col]
restore_cursor(s) == [s EXCEPT !.k.row = s.k.old_row, !.k.col = s.k.old_col]

\* index has been incremented: there is always one parameter.
move_cursor(s) ==
    [s EXCEPT !.k.row = s.k.param[0],
              !.k.col = IF s.k.index >= 2 THEN s.k.param[1] ELSE @]

erase_in_display(s) ==
    IF s.k.param[0] = 2 THEN [erease_rows(s, 0, ROWS - 1) EXCEPT !.k.row = 0, !.k.col = 0] ELSE s

\* The loop of set_font_style: of the parameters that set the foreground, or the
\* background, the last one decides.
Foreground == [p \in (30 .. 37) \cup {39} |-> IF p = 39 THEN Default.fg ELSE Colors[p - 29]]
Background == [p \in (40 .. 47) \cup {49} |-> IF p = 49 THEN Default.bg ELSE Colors[p - 39]]

Dyed(color, table, ps) ==
    LET S == {i \in DOMAIN ps : ps[i] \in DOMAIN table}
    IN  IF S = {} THEN color
        ELSE CHOOSE d \in ToSet(Colors) :
                \A i \in S : (\A j \in S : j <= i) => d = table[ps[i]]

\* The entry after the last one is index itself, too small to be a colour.
set_font_style(s) ==
    LET n  == IF s.k.index < ESC_PARAM_MAX THEN s.k.index ELSE ESC_PARAM_MAX
        ps == [i \in 0 .. n - 1 |-> s.k.param[i]]
    IN  [s EXCEPT !.k.pen = [fg |-> Dyed(@.fg, Foreground, ps),
                             bg |-> Dyed(@.bg, Background, ps)]]

write_nomal(s, c) ==
    CASE c = "ESC" -> [s EXCEPT !.k.write_state = "ESC"]
      [] c = "DEL" -> erease_back(s)
      [] c = "BS"  -> move_backward(s)
      [] c = "CR"  -> mov_to_col0(s)
      [] c = "LF"  -> mov_next_row(mov_to_col0(s))
      [] c = "NUL" -> s
      [] OTHER     -> show_char(s, c)

write_esc(s, c) ==
    CASE c = "7" -> [save_cursor(s) EXCEPT !.k.write_state = "NOMAL"]
      [] c = "8" -> [restore_cursor(s) EXCEPT !.k.write_state = "NOMAL"]
      [] c = "[" -> [clear_esc_param(s) EXCEPT !.k.write_state = "SQUARE"]
      [] OTHER   -> [s EXCEPT !.k.write_state = "NOMAL"]

\* esc_param[ESC_PARAM_MAX] is the int behind the array, curr_param_index; with an
\* index beyond that the digit goes to memory outside the console.
AddDigit(s, d) ==
    IF s.k.index < ESC_PARAM_MAX THEN [s EXCEPT !.k.param[s.k.index] = @ * 10 + d]
    ELSE IF s.k.index = ESC_PARAM_MAX THEN [s EXCEPT !.k.index = @ * 10 + d]
    ELSE s

\* 'f' is the same as 'H'.
EscCommand(s, c) ==
    CASE c = "m" -> set_font_style(s)
      [] c = "D" -> move_left(s, s.k.param[0])
      [] c = "C" -> move_right(s, s.k.param[0])
      [] c = "H" -> move_cursor(s)
      [] c = "J" -> erase_in_display(s)
      [] OTHER   -> s

write_esc_square(s, c) ==
    IF c \in DOMAIN Digits THEN AddDigit(s, Digits[c])
    ELSE IF c = ";" /\ s.k.index < ESC_PARAM_MAX THEN [s EXCEPT !.k.index = @ + 1]
    ELSE [EscCommand([s EXCEPT !.k.index = @ + 1], c) EXCEPT !.k.write_state = "NOMAL"]

Written(s, c) ==
    CASE s.k.write_state = "NOMAL"  -> write_nomal(s, c)
      [] s.k.write_state = "ESC"    -> write_esc(s, c)
      [] s.k.write_state = "SQUARE" -> write_esc_square(s, c)

\* console_init of a console other than the first.
console_init(s) ==
    clear_display([s EXCEPT !.k.row = 0, !.k.col = 0, !.k.old_row = 0, !.k.old_col = 0,
                            !.k.pen = Default, !.k.write_state = "NOMAL"])

\* update_cursor_pos: the place of the cursor of console i, a uint16_t.
CursorPos(i, k) == (i * AREA + k.row * COLS + k.col) % 65536

-----------------------------------------------------------------------------
(* What a reader of the output would say: the command that character c     *)
(* completes, after an escape sequence with the numbers a so far.          *)

\* Numbers are separated by ";" and are 0 if left out.
Parse(a, c) == IF c = ";" THEN Append(a, 0) ELSE [a EXCEPT ![Len(a)] = 10 * @ + Digits[c]]

CommandOf(state, a, c) ==
    CASE state = "NOMAL" ->
           (CASE c = "DEL" -> <<"rub">> [] c = "BS" -> <<"back">> [] c = "CR" -> <<"return">>
              [] c = "LF" -> <<"feed">> [] c \in {"ESC", "NUL"} -> <<>>
              [] OTHER -> <<"print", Glyph(c)>>)
      [] state = "ESC" ->
           (CASE c = "7" -> <<"save">> [] c = "8" -> <<"restore">> [] OTHER -> <<>>)
      [] state = "SQUARE" ->
           (CASE c = "m" -> <<"dye">> [] c = "D" -> <<"left", a[1]>>
              [] c = "C" -> <<"right", a[1]>>
              [] c = "H" -> IF Len(a) = 1 THEN <<"goto", a[1]>> ELSE <<"goto", a[1], a[2]>>
              [] c = "J" /\ a[1] = 2 -> <<"wipe">>
              [] OTHER -> <<>>)

OffScreen(cmd) ==
    /\ cmd # <<>> /\ cmd[1] = "goto"
    /\ cmd[2] >= ROWS \/ (Len(cmd) > 2 /\ cmd[3] >= COLS)

TooMany(state, a, c) == state = "SQUARE" /\ c \in DOMAIN Digits /\ Len(a) > ESC_PARAM_MAX

-----------------------------------------------------------------------------
NewConsole(i, p) ==
    [base |-> i * AREA, row |-> p \div COLS, col |-> p % COLS, old_row |-> p \div COLS,
     old_col |-> p % COLS, pen |-> Default, write_state |-> "NOMAL",
     param |-> [j \in 0 .. ESC_PARAM_MAX - 1 |-> 0], index |-> 0]

\* Console 0 is set up first, with the cursor and the text the BIOS left.
ConsoleInit ==
    /\ \E p \in BiosCursor :
          /\ con = [i \in Consoles |-> NewConsole(i, IF i = 0 THEN p ELSE 0)]
          /\ hw = [start |-> 0, cursor |-> p]
    /\ mem = [p \in Memory |-> <<IF p < AREA THEN "x" ELSE " ", Default>>]
    /\ inited = {0} /\ opened = {0} /\ curr_tty = 0
    /\ pc = [w \in Writers |-> "idle"] /\ pos = [w \in Writers |-> 0]
    /\ left = MaxOut
    /\ gone = [i \in Consoles |-> <<>>] /\ args = [i \in Consoles |-> <<0>>]
    /\ op = [i \in Consoles |-> <<>>]
    /\ wild = FALSE /\ stale = {} /\ last = [console |-> 0, stale |-> FALSE]

State(i) == [k |-> con[i], m |-> mem, g |-> gone[i]]

\* What console_write does with character c, under the mutex of the console.  The
\* loop of set_font_style reads on if curr_param_index was overwritten.
Write(w, c) ==
    LET i   == Console_of[w]
        k   == con[i]
        t   == Written(State(i), c)
        cmd == CommandOf(k.write_state, args[i], c)
    IN  /\ i \in opened /\ pc[w] = "idle" /\ left[w] > 0
        /\ k.write_state = "SQUARE" /\ c \in DOMAIN Digits /\ k.index < ESC_PARAM_MAX
             => k.param[k.index] * 10 + Digits[c] <= MaxParam
        /\ \E pen \in IF cmd = <<"dye">> /\ k.index > ESC_PARAM_MAX THEN Pens ELSE {t.k.pen} :
              con' = [con EXCEPT ![i] = [t.k EXCEPT !.pen = pen]]
        /\ mem' = t.m
        /\ gone' = [gone EXCEPT ![i] = t.g]
        /\ args' = [args EXCEPT ![i] = IF k.write_state = "SQUARE" /\ t.k.write_state = "SQUARE"
                                     THEN Parse(@, c) ELSE <<0>>]
        /\ op' = IF cmd = <<>> THEN op ELSE [op EXCEPT ![i] = cmd]
        /\ wild' = (wild \/ OffScreen(cmd) \/ TooMany(k.write_state, args[i], c))
        /\ stale' = stale \cup {u \in Writers : pc[u] = "out" /\ Console_of[u] = i}
        /\ left' = [left EXCEPT ![w] = @ - 1]
        /\ pc' = [pc EXCEPT ![w] = "update"]
        /\ UNCHANGED <<inited, opened, curr_tty, hw, pos, last>>

\* update_cursor_pos after the mutex is unlocked: the place is computed from the
\* console as it is now ...
UpdatePos(w) ==
    /\ pc[w] = "update"
    /\ pos' = [pos EXCEPT ![w] = CursorPos(Console_of[w], con[Console_of[w]])]
    /\ op' = [op EXCEPT ![Console_of[w]] = <<>>]
    /\ pc' = [pc EXCEPT ![w] = "out"]
    /\ UNCHANGED <<con, mem, inited, opened, curr_tty, hw, left, gone, args, wild, stale, last>>

\* ... and written to the registers in a protected section.
UpdateOut(w) ==
    /\ pc[w] = "out"
    /\ hw' = [hw EXCEPT !.cursor = pos[w]]
    /\ last' = [console |-> Console_of[w], stale |-> w \in stale]
    /\ stale' = stale \ {w}
    /\ pc' = [pc EXCEPT ![w] = "idle"]
    /\ pos' = [pos EXCEPT ![w] = 0]
    /\ UNCHANGED <<con, mem, inited, opened, curr_tty, left, gone, args, op, wild>>

\* console_init(i), the history included.
SetUp(i) ==
    LET t == console_init(State(i))
    IN  /\ con' = [con EXCEPT ![i] = t.k]
        /\ mem' = t.m
        /\ gone' = [gone EXCEPT ![i] = <<>>]
        /\ args' = [args EXCEPT ![i] = <<0>>]
        /\ op' = [op EXCEPT ![i] = <<"open">>]
        /\ inited' = inited \cup {i}

\* dev_open calls tty_open once per terminal.  It sets the console up, also if
\* console_select has done so before.
open_console(i) ==
    /\ i \notin opened
    /\ opened' = opened \cup {i}
    /\ SetUp(i)
    /\ hw' = [hw EXCEPT !.cursor = CursorPos(i, con'[i])]
    /\ last' = [console |-> i, stale |-> FALSE]
    /\ UNCHANGED <<curr_tty, pc, pos, left, wild, stale>>

\* Mutant: the cursor stays on the console that was visible before.
console_select_no_cursor(i) ==
    /\ i # curr_tty
    /\ IF i \in inited THEN UNCHANGED <<con, mem, gone, args, op, inited>> ELSE SetUp(i)
    /\ hw' = [hw EXCEPT !.start = i * AREA]
    /\ last' = [console |-> i, stale |-> FALSE]
    /\ curr_tty' = i
    /\ UNCHANGED <<opened, pc, pos, left, wild, stale>>

\* tty_select and console_select, from the keyboard interrupt.
console_select(i) ==
    /\ i # curr_tty
    /\ IF i \in inited THEN UNCHANGED <<con, mem, gone, args, op, inited>> ELSE SetUp(i)
    /\ hw' = [start |-> i * AREA, cursor |-> CursorPos(i, con'[i])]
    /\ last' = [console |-> i, stale |-> FALSE]
    /\ curr_tty' = i
    /\ UNCHANGED <<opened, pc, pos, left, wild, stale>>

ConsoleNext ==
    \/ \E w \in Writers : \E c \in Chars[w] : Write(w, c)
    \/ \E w \in Writers : UpdatePos(w) \/ UpdateOut(w)
    \/ \E i \in Consoles : open_console(i) \/ console_select(i)

ConsoleSpec == ConsoleInit /\ [][ConsoleNext]_displayVars

-----------------------------------------------------------------------------
(* Properties.                                                             *)

\* Every console is a sheet of paper of its own: what scrolled off and what is on
\* the screen.  So scrolling loses and repeats nothing, lines wrap and are rubbed
\* out over their borders, escape sequences do what their parameters say, and no
\* console writes into the screen of another, unless a cursor was sent off the
\* screen or a sequence had more than ESC_PARAM_MAX parameters: the code checks
\* neither (console.c:244, console.c:320).
Screen(i) == [p \in 1 .. AREA |-> mem[i * AREA + p - 1]]

Paper == INSTANCE Sheet WITH
    Terminals <- Consoles,
    text <- [i \in Consoles |-> gone[i] \o Screen(i)],
    at   <- [i \in Consoles |-> Len(gone[i]) + con[i].row * COLS + con[i].col],
    mark <- [i \in Consoles |-> con[i].old_row * COLS + con[i].old_col],
    pen  <- [i \in Consoles |-> con[i].pen],
    torn <- wild

ShowsPaper == Paper!Spec

\* When no console_write is under way, the cursor shown is where the console that
\* moved it last has its cursor, and the screen shown is that of the selected
\* terminal.  Not so if the place shown was computed before another task's
\* character and written to the registers after it: update_cursor_pos comes after
\* mutex_unlock (console.c:386) and reads the console before its protected section.
CursorShown ==
    /\ hw.start = curr_tty * AREA
    /\ (\A w \in Writers : pc[w] = "idle") /\ ~last.stale =>
           hw.cursor = CursorPos(last.console, con[last.console])

=============================================================================
