------------------------------- MODULE Sheet --------------------------------
(***************************************************************************)
(* What the display of a terminal promises.  Every terminal writes on an   *)
(* endless sheet of paper of its own: text[i] is all that terminal i has   *)
(* shown since it was set up, row after row, the rows that have left the   *)
(* screen included; the screen is its last ROWS rows.  Nothing is copied   *)
(* when the paper moves, a row is added at its end.                        *)
(*                                                                         *)
(* op[i] is the command terminal i carries out, as a reader of its output  *)
(* would name it.  The promise ends when a program moves a cursor off the  *)
(* screen or gives a command too many parameters (torn).                   *)
(***************************************************************************)
EXTENDS Integers, Sequences

CONSTANTS Terminals, ROWS, COLS, Pens, Default

VARIABLES
    text,       \* per terminal: a sequence of cells, each a glyph and a pen
    at,         \* the cell the cursor is on, counted from 0
    mark,       \* the saved cursor, counted from the first cell of the screen
    pen,        \* the colours of what is written next
    op,         \* the command, <<>> between two commands
    torn

sheetVars == <<text, at, mark, pen, op, torn>>

SIZE   == ROWS * COLS
Top(i) == Len(text[i]) - SIZE
Col(i) == at[i] % COLS
Blanks(n, p) == [k \in 1 .. n |-> <<" ", p>>]

Command(i, name) == op'[i] # <<>> /\ op'[i][1] = name
Arg(i, k)        == op'[i][k + 1]

\* The cursor goes to p on the paper s; past its end a row is added.
MoveTo(i, s, p) ==
    /\ at' = [at EXCEPT ![i] = p]
    /\ text' = [text EXCEPT ![i] = IF p < Len(s) THEN s ELSE s \o Blanks(COLS, pen[i])]
    /\ UNCHANGED <<mark, pen>>

Type(i) ==
    /\ Command(i, "print")
    /\ MoveTo(i, [text[i] EXCEPT ![at[i] + 1] = <<Arg(i, 1), pen[i]>>], at[i] + 1)

Feed(i) == Command(i, "feed") /\ MoveTo(i, text[i], at[i] - Col(i) + COLS)

Return(i) == Command(i, "return") /\ MoveTo(i, text[i], at[i] - Col(i))

\* One cell back, to the row above too, but not off the screen.
Back(i) ==
    /\ Command(i, "back")
    /\ MoveTo(i, text[i], IF at[i] > Top(i) THEN at[i] - 1 ELSE at[i])

\* The same, leaving a blank there.
Rub(i) ==
    /\ Command(i, "rub")
    /\ IF at[i] > Top(i)
       THEN MoveTo(i, [text[i] EXCEPT ![at[i]] = <<" ", pen[i]>>], at[i] - 1)
       ELSE MoveTo(i, text[i], at[i])

\* Sideways within the row; 0 counts as 1.
Steps(i) == IF Arg(i, 1) = 0 THEN 1 ELSE Arg(i, 1)

Left(i) ==
    /\ Command(i, "left")
    /\ MoveTo(i, text[i], at[i] - (IF Steps(i) < Col(i) THEN Steps(i) ELSE Col(i)))

Right(i) ==
    LET room == COLS - 1 - Col(i)
    IN  /\ Command(i, "right")
        /\ MoveTo(i, text[i], at[i] + (IF Steps(i) < room THEN Steps(i) ELSE room))

\* To a row and, if a column was given, to that column.
Goto(i) ==
    /\ Command(i, "goto")
    /\ MoveTo(i, text[i], Top(i) + Arg(i, 1) * COLS
                          + (IF Len(op'[i]) > 2 THEN Arg(i, 2) ELSE Col(i)))

Save(i) ==
    /\ Command(i, "save")
    /\ mark' = [mark EXCEPT ![i] = at[i] - Top(i)]
    /\ UNCHANGED <<text, at, pen>>

\* The saved place is a place of the screen, not of the text.
Restore(i) == Command(i, "restore") /\ MoveTo(i, text[i], Top(i) + mark[i])

Wipe(i) ==
    /\ Command(i, "wipe")
    /\ MoveTo(i, SubSeq(text[i], 1, Top(i)) \o Blanks(SIZE, pen[i]), Top(i))

Dye(i) ==
    /\ Command(i, "dye")
    /\ \E p \in Pens : pen' = [pen EXCEPT ![i] = p]
    /\ UNCHANGED <<text, at, mark>>

\* The terminal is set up.
Open(i) ==
    /\ Command(i, "open")
    /\ text' = [text EXCEPT ![i] = Blanks(SIZE, Default)]
    /\ at' = [at EXCEPT ![i] = 0]
    /\ mark' = [mark EXCEPT ![i] = 0]
    /\ pen' = [pen EXCEPT ![i] = Default]

Init ==
    /\ \A i \in Terminals : Len(text[i]) = SIZE /\ at[i] \in 0 .. SIZE - 1 /\ mark[i] = at[i]
    /\ pen = [i \in Terminals |-> Default]
    /\ op = [i \in Terminals |-> <<>>]
    /\ torn = FALSE

Rest(i) == op'[i] = <<>> /\ UNCHANGED <<text, at, mark, pen>>

\* A step carries out one command on one sheet.
Next ==
    \/ torn'
    \/ \E i \in Terminals :
          /\ op' = [op EXCEPT ![i] = op'[i]]
          /\ \/ Rest(i) \/ Type(i) \/ Feed(i) \/ Return(i) \/ Back(i) \/ Rub(i)
             \/ Left(i) \/ Right(i) \/ Goto(i) \/ Save(i) \/ Restore(i) \/ Wipe(i) \/ Dye(i) \/ Open(i)

Spec == Init /\ [][Next]_sheetVars
=============================================================================
