-------------------------------- MODULE Tty ---------------------------------
(***************************************************************************)
(* One terminal: tty_write, tty_read and tty_in of kernel/dev/tty/tty.c,   *)
(* console_write of console.c and klog of kernel/log.c, run by several     *)
(* tasks and by the keyboard interrupt.                                    *)
(*                                                                         *)
(* System calls run with the interrupts on, so another task can run after  *)
(* every instruction that is not inside irq_enter_proection.  A step here  *)
(* is one such protected section, or one unprotected read or write of      *)
(* shared data (the tests of fifo->count); which task takes the next step  *)
(* is left open, which covers every schedule of Sched.  Semaphores and     *)
(* mutexes hand over to their first waiter, as in Sync.                    *)
(*                                                                         *)
(* A character is a pair: the task it belongs to (Kbd for typed ones) and  *)
(* its kind.  Which glyph it is does not matter here; Console models what  *)
(* the display does with it.                                               *)
(***************************************************************************)
EXTENDS Integers, Sequences, FiniteSets

CONSTANTS
    Writers,        \* tasks that call tty_write
    Loggers,        \* tasks that call klog
    Readers,        \* tasks that call tty_read
    Kbd,            \* the keyboard interrupt
    NULL,
    MSG,            \* what a writer or logger writes: a sequence of kinds
    SIZE,           \* the size argument of tty_read
    OBUF_SIZE, IBUF_SIZE,
    MaxKeys         \* bound on the keys typed

Users == Writers \cup Loggers \cup Readers
Kinds == {"x", "cr", "nl"}
Chars == (Users \cup {Kbd}) \X Kinds

ASSUME UsersAssumption ==
    /\ Kbd \notin Users /\ NULL \notin Users
    /\ Writers \cap Loggers = {} /\ Writers \cap Readers = {} /\ Loggers \cap Readers = {}
ASSUME MsgAssumption == MSG \in [Writers \cup Loggers -> Seq(Kinds)]
\* 512 bytes each, at most 130 tasks: g_task_table, first_task and idle_task.
\* A task may hold a '\r' in the buffer while it waits for room for the '\n'.
ASSUME BufferAssumption ==
    /\ OBUF_SIZE \in Nat /\ IBUF_SIZE \in Nat \ {0}
    /\ IsFiniteSet(Users) /\ OBUF_SIZE > Cardinality(Users)
ASSUME BoundAssumption == MaxKeys \in Nat /\ SIZE \in Nat \ {0}

VARIABLES
    ofifo, ififo,   \* tty->ofifo, tty->ififo
    osem, isem,     \* tty->osem, tty->isem: count and wait list
    mutex,          \* console->mutex and klog's mutex: owner and wait list
    pc,             \* where each task is
    todo,           \* what is left of the buf of its tty_write
    pend,           \* what it puts before its next console_write
    ch,             \* its local variable ch
    input,          \* what its tty_read has stored in buf
    screen,         \* every character the console has processed
    sent,           \* history: every character put into ofifo
    typed,          \* history: the characters put into ififo
    received,       \* history: the characters taken out of ififo
    overrun,        \* history: units of isem without a character in ififo
    keys            \* history: the number of keys accepted by tty_in

vars == <<ofifo, ififo, osem, isem, mutex, pc, todo, pend, ch, input, screen, sent,
          typed, received, overrun, keys>>

-----------------------------------------------------------------------------
(* tty_fifo_t: a ring.                                                     *)

tty_fifo_init(size) ==
    [buf |-> [i \in 0 .. size - 1 |-> NULL], size |-> size,
     read |-> 0, write |-> 0, count |-> 0]

\* Mutant: the write index wraps one place early.
tty_fifo_put_wraps_early(f, c) ==
    [f EXCEPT !.buf[f.write] = c,
              !.write = IF f.write + 1 >= f.size - 1 THEN 0 ELSE f.write + 1,
              !.count = @ + 1]

\* The protected half of tty_fifo_put; the test of count comes before.
tty_fifo_put(f, c) ==
    [buf |-> [f.buf EXCEPT ![f.write] = c], size |-> f.size, read |-> f.read,
     write |-> IF f.write + 1 >= f.size THEN 0 ELSE f.write + 1,
     count |-> f.count + 1]

\* The protected half of tty_fifo_get.
tty_fifo_get(f) ==
    [buf |-> f.buf, size |-> f.size, write |-> f.write,
     read |-> IF f.read + 1 >= f.size THEN 0 ELSE f.read + 1,
     count |-> f.count - 1]

Contents(f) == [i \in 1 .. f.count |-> f.buf[(f.read + i - 1) % f.size]]

-----------------------------------------------------------------------------
(* Semaphores and mutexes, as in Sync.                                     *)

Blocked(t) ==
    \/ \E i \in DOMAIN osem.list : osem.list[i] = t
    \/ \E i \in DOMAIN isem.list : isem.list[i] = t
    \/ \E m \in DOMAIN mutex : \E i \in DOMAIN mutex[m].list : mutex[m].list[i] = t

Sem(n, q)   == [count |-> n, list |-> q]
Mutex(t, q) == [owner |-> t, list |-> q]

sem_wait(s, t) == IF s.count > 0 THEN Sem(s.count - 1, s.list)
                                 ELSE Sem(s.count, Append(s.list, t))

sem_notify(s) == IF s.list = <<>> THEN Sem(s.count + 1, s.list)
                                  ELSE Sem(s.count, Tail(s.list))

mutex_lock(m, t) == IF m.owner = NULL THEN Mutex(t, m.list)
                                      ELSE Mutex(m.owner, Append(m.list, t))

mutex_unlock(m) == IF m.list = <<>> THEN Mutex(NULL, m.list)
                                    ELSE Mutex(Head(m.list), Tail(m.list))

-----------------------------------------------------------------------------
(* tty_open: the buffers are empty, osem counts the room in ofifo, isem    *)
(* the characters in ififo.                                                *)
Init ==
    /\ ofifo = tty_fifo_init(OBUF_SIZE)
    /\ ififo = tty_fifo_init(IBUF_SIZE)
    /\ osem = Sem(OBUF_SIZE, <<>>)
    /\ isem = Sem(0, <<>>)
    /\ mutex = [m \in {"console", "log"} |-> Mutex(NULL, <<>>)]
    /\ pc = [t \in Users |-> "start"]
    /\ todo = [t \in Users |-> <<>>]
    /\ pend = [t \in Users |-> <<>>]
    /\ ch = [t \in Users |-> NULL]
    /\ input = [t \in Users |-> <<>>]
    /\ screen = <<>> /\ sent = <<>> /\ typed = <<>> /\ received = <<>>
    /\ overrun = 0 /\ keys = 0

At(t, l)   == pc[t] = l /\ ~Blocked(t)
Goto(t, l) == pc' = [pc EXCEPT ![t] = l]

outVars == <<ofifo, osem, screen, sent>>
inVars  == <<ififo, isem, typed, received, overrun, keys>>
locals  == <<todo, pend, ch, input>>

-----------------------------------------------------------------------------
(* The calls.                                                              *)

Message(t) == [i \in DOMAIN MSG[t] |-> <<t, MSG[t][i]>>]

\* tty_write of a whole message.
CallWrite(t) ==
    /\ t \in Writers /\ At(t, "start")
    /\ todo' = [todo EXCEPT ![t] = Message(t)]
    /\ Goto(t, "loop")
    /\ UNCHANGED <<outVars, inVars, mutex, pend, ch, input>>

\* Mutant: klog does not lock its mutex.
CallLog_no_lock(t) ==
    /\ t \in Loggers /\ At(t, "start")
    /\ todo' = [todo EXCEPT ![t] = Message(t)]
    /\ Goto(t, "loop")
    /\ UNCHANGED <<outVars, inVars, mutex, pend, ch, input>>

\* klog: its mutex, then "log:", the text and '\n' by three calls of dev_write.
CallLog(t) ==
    /\ t \in Loggers /\ At(t, "start")
    /\ mutex' = [mutex EXCEPT !["log"] = mutex_lock(@, t)]
    /\ todo' = [todo EXCEPT ![t] = Message(t)]
    /\ Goto(t, "loop")
    /\ UNCHANGED <<outVars, inVars, pend, ch, input>>

CallRead(t) ==
    /\ t \in Readers /\ At(t, "start")
    /\ input' = [input EXCEPT ![t] = <<>>]
    /\ Goto(t, "rwait")
    /\ UNCHANGED <<outVars, inVars, mutex, todo, pend, ch>>

-----------------------------------------------------------------------------
(* tty_write, lines 97-119.                                                *)

\* The next character; '\n' is preceded by '\r' (TTY_OCRLF).
WriteNext(t) ==
    /\ At(t, "loop") /\ todo[t] # <<>>
    /\ LET c == Head(todo[t])
       IN  pend' = [pend EXCEPT ![t] = IF c[2] = "nl" THEN << <<c[1], "cr">>, c >>
                                                     ELSE <<c>>]
    /\ todo' = [todo EXCEPT ![t] = Tail(@)]
    /\ Goto(t, "wait")
    /\ UNCHANGED <<outVars, inVars, mutex, ch, input>>

WriteWait(t) ==
    /\ At(t, "wait")
    /\ osem' = sem_wait(osem, t)
    /\ Goto(t, "test")
    /\ UNCHANGED <<ofifo, screen, sent, inVars, mutex, locals>>

\* The test of tty_fifo_put: a full buffer ends tty_write (break).
WriteTest(t) ==
    /\ At(t, "test")
    /\ IF ofifo.count >= ofifo.size
       THEN /\ todo' = [todo EXCEPT ![t] = <<>>]
            /\ pend' = [pend EXCEPT ![t] = <<>>]
            /\ Goto(t, "loop")
       ELSE /\ UNCHANGED <<todo, pend>>
            /\ Goto(t, "put")
    /\ UNCHANGED <<outVars, inVars, mutex, ch, input>>

WritePut(t) ==
    /\ At(t, "put")
    /\ ofifo' = tty_fifo_put(ofifo, Head(pend[t]))
    /\ sent' = Append(sent, Head(pend[t]))
    /\ pend' = [pend EXCEPT ![t] = Tail(@)]
    /\ Goto(t, IF Len(pend[t]) > 1 THEN "wait" ELSE "lock")
    /\ UNCHANGED <<osem, screen, inVars, mutex, todo, ch, input>>

\* The end of tty_write, and what its caller does: klog unlocks its mutex,
\* tty_read goes on unless it has a whole line or buf is full.
WriteDone(t) ==
    /\ At(t, "loop") /\ todo[t] = <<>>
    /\ IF t \in Readers
       THEN Goto(t, IF ch[t][2] \in {"nl", "cr"} \/ Len(input[t]) >= SIZE
                    THEN "start" ELSE "rwait")
       ELSE Goto(t, "done")
    /\ mutex' = IF t \in Loggers THEN [mutex EXCEPT !["log"] = mutex_unlock(@)] ELSE mutex
    /\ UNCHANGED <<outVars, inVars, locals>>

-----------------------------------------------------------------------------
(* console_write: drain ofifo under the mutex of the console.              *)

\* Mutant: the drain does not lock the console.
DrainLock_no_lock(t) ==
    /\ At(t, "lock")
    /\ Goto(t, "gtest")
    /\ UNCHANGED <<outVars, inVars, mutex, locals>>

\* Mutant: a task that finds the console busy leaves the drain to its owner.
DrainLock_or_skip(t) ==
    /\ At(t, "lock")
    /\ IF mutex["console"].owner = NULL
       THEN /\ mutex' = [mutex EXCEPT !["console"].owner = t]
            /\ Goto(t, "gtest")
       ELSE /\ UNCHANGED mutex
            /\ Goto(t, "loop")
    /\ UNCHANGED <<outVars, inVars, locals>>

DrainLock(t) ==
    /\ At(t, "lock")
    /\ mutex' = [mutex EXCEPT !["console"] = mutex_lock(@, t)]
    /\ Goto(t, "gtest")
    /\ UNCHANGED <<outVars, inVars, locals>>

\* The test of tty_fifo_get: empty ends the loop.
DrainTest(t) ==
    /\ At(t, "gtest")
    /\ IF ofifo.count <= 0 THEN Goto(t, "unlock") ELSE Goto(t, "get")
    /\ UNCHANGED <<outVars, inVars, mutex, locals>>

\* The character on its way to the display is kept in pend, which is empty
\* during the drain.
DrainGet(t) ==
    /\ At(t, "get")
    /\ pend' = [pend EXCEPT ![t] = <<ofifo.buf[ofifo.read]>>]
    /\ ofifo' = tty_fifo_get(ofifo)
    /\ Goto(t, "notify")
    /\ UNCHANGED <<osem, screen, sent, inVars, mutex, todo, ch, input>>

\* Mutant: sem_notify(osem) is missing.
DrainNotify_missing(t) ==
    /\ At(t, "notify")
    /\ Goto(t, "show")
    /\ UNCHANGED <<outVars, inVars, mutex, locals>>

DrainNotify(t) ==
    /\ At(t, "notify")
    /\ osem' = sem_notify(osem)
    /\ Goto(t, "show")
    /\ UNCHANGED <<ofifo, screen, sent, inVars, mutex, locals>>

\* write_nomal, write_esc or write_esc_square.
DrainShow(t) ==
    /\ At(t, "show")
    /\ screen' = Append(screen, Head(pend[t]))
    /\ pend' = [pend EXCEPT ![t] = <<>>]
    /\ Goto(t, "gtest")
    /\ UNCHANGED <<ofifo, osem, sent, inVars, mutex, todo, ch, input>>

\* Mutant: the console stays locked.
DrainUnlock_missing(t) ==
    /\ At(t, "unlock")
    /\ Goto(t, "loop")
    /\ UNCHANGED <<outVars, inVars, mutex, locals>>

DrainUnlock(t) ==
    /\ At(t, "unlock")
    /\ mutex' = [mutex EXCEPT !["console"] = mutex_unlock(@)]
    /\ Goto(t, "loop")
    /\ UNCHANGED <<outVars, inVars, locals>>

-----------------------------------------------------------------------------
(* tty_read, lines 131-159, and tty_in.                                    *)

ReadWait(t) ==
    /\ At(t, "rwait")
    /\ isem' = sem_wait(isem, t)
    /\ Goto(t, "rtest")
    /\ UNCHANGED <<outVars, ififo, typed, received, overrun, keys, mutex, locals>>

\* Store the character in buf and echo it (TTY_IECHO).
Store(t, c) ==
    /\ ch' = [ch EXCEPT ![t] = c]
    /\ input' = [input EXCEPT ![t] = Append(@, c)]
    /\ todo' = [todo EXCEPT ![t] = << <<t, c[2]>> >>]
    /\ Goto(t, "loop")
    /\ UNCHANGED <<outVars, isem, typed, keys, mutex, pend>>

\* tty_fifo_get finds nothing and its result is not looked at: ch, which is not
\* initialised, is anything.
ReadTest(t) ==
    /\ At(t, "rtest")
    /\ \/ /\ ififo.count <= 0
          /\ \E k \in Kinds : Store(t, <<NULL, k>>)
          /\ overrun' = overrun - 1
          /\ UNCHANGED <<ififo, received>>
       \/ /\ ififo.count > 0
          /\ Goto(t, "rget")
          /\ UNCHANGED <<outVars, inVars, mutex, locals>>

ReadGet(t) ==
    /\ At(t, "rget")
    /\ LET c == ififo.buf[ififo.read]
       IN  /\ Store(t, c)
           /\ received' = Append(received, c)
    /\ ififo' = tty_fifo_get(ififo)
    /\ UNCHANGED overrun

\* Mutant: the readers are not notified.
tty_in_no_notify(k) ==
    /\ keys < MaxKeys
    /\ keys' = keys + 1
    /\ isem.count < IBUF_SIZE
    /\ ififo.count < ififo.size
    /\ ififo' = tty_fifo_put(ififo, <<Kbd, k>>)
    /\ typed' = Append(typed, <<Kbd, k>>)
    /\ UNCHANGED <<outVars, isem, received, overrun, mutex, pc, locals>>

\* The interrupt handler: one step.  The result of tty_fifo_put is not looked at.
tty_in(k) ==
    /\ keys < MaxKeys
    /\ keys' = keys + 1
    /\ isem.count < IBUF_SIZE
    /\ IF ififo.count >= ififo.size
       THEN /\ overrun' = overrun + 1
            /\ UNCHANGED <<ififo, typed>>
       ELSE /\ ififo' = tty_fifo_put(ififo, <<Kbd, k>>)
            /\ typed' = Append(typed, <<Kbd, k>>)
            /\ UNCHANGED overrun
    /\ isem' = sem_notify(isem)
    /\ UNCHANGED <<outVars, received, mutex, pc, locals>>

-----------------------------------------------------------------------------
Step(t) ==
    \/ WriteNext(t) \/ WriteWait(t) \/ WriteTest(t) \/ WritePut(t) \/ WriteDone(t)
    \/ DrainLock(t) \/ DrainTest(t) \/ DrainGet(t) \/ DrainNotify(t) \/ DrainShow(t)
    \/ DrainUnlock(t)
    \/ ReadWait(t) \/ ReadTest(t) \/ ReadGet(t)

Next ==
    \/ \E t \in Users : CallWrite(t) \/ CallLog(t) \/ CallRead(t)
    \/ \E t \in Users : Step(t)
    \/ \E k \in {"x", "nl"} : tty_in(k)

Spec == Init /\ [][Next]_vars

\* A task that is not blocked is on the ready list and gets the CPU (Sched,
\* ReadyTaskRuns); nobody has to call, and nobody has to type.
FairSpec == Spec /\ \A t \in Users : WF_vars(Step(t))

-----------------------------------------------------------------------------
(* Properties.                                                             *)

TypeOK ==
    /\ ofifo.count \in Int /\ ofifo.read \in 0 .. OBUF_SIZE - 1
    /\ ofifo.write \in 0 .. OBUF_SIZE - 1
    /\ ififo.count \in Int /\ ififo.read \in 0 .. IBUF_SIZE - 1
    /\ ififo.write \in 0 .. IBUF_SIZE - 1
    /\ osem.count \in Nat /\ osem.list \in Seq(Users)
    /\ isem.count \in Nat /\ isem.list \in Seq(Users)
    /\ \A m \in {"console", "log"} :
          mutex[m].owner \in Users \cup {NULL} /\ mutex[m].list \in Seq(Users)
    /\ pc \in [Users -> {"start", "loop", "wait", "test", "put", "lock", "gtest", "get",
                         "notify", "show", "unlock", "rwait", "rtest", "rget", "done"}]
    /\ overrun \in Int /\ keys \in 0 .. MaxKeys

\* A writer that has passed sem_wait(osem) and not yet put its character.
MayPut(t) == pc[t] \in {"test", "put"} /\ ~Blocked(t)

\* Every unit of osem is room in ofifo: a unit is free, or stands for a character
\* in the buffer, for one about to be put, or for one just taken out and not yet
\* notified.  So tty_fifo_put of tty_write finds room although it tests count
\* outside the protected section and other tasks put in between.
OutputRoom ==
    osem.count + ofifo.count + Cardinality({t \in Users : MayPut(t)})
        + Cardinality({t \in Users : pc[t] = "notify"}) = OBUF_SIZE

\* The character a task has taken out of ofifo and not yet given to the display.
InHand == LET D == {t \in Users : pc[t] \in {"notify", "show"}}
          IN  IF D = {} THEN <<>> ELSE pend[CHOOSE t \in D : TRUE]

\* What the tasks put is displayed in that order, once, and nothing is lost: the
\* ring is a FIFO queue however its users are interleaved.
OutputInOrder == sent = screen \o InHand \o Contents(ofifo)

\* On q the first n characters of t's message are at the places at, in their order, each
\* '\n' after a '\r' of its own at the place cr.
InLine(q, t, n, at, cr) ==
    \A i \in 1 .. n :
        /\ q[at[i]] = <<t, MSG[t][i]>>
        /\ IF MSG[t][i] = "nl" THEN cr[i] < at[i] /\ q[cr[i]] = <<t, "cr">> ELSE cr[i] = at[i]
        /\ i > 1 => at[i - 1] < cr[i]

\* The same, and q has no other character of t.
Has(q, t, n) ==
    \E at, cr \in [1 .. n -> DOMAIN q] :
        /\ InLine(q, t, n, at, cr)
        /\ \A p \in DOMAIN q : q[p][1] = t => \E i \in 1 .. n : p = at[i] \/ p = cr[i]

\* When tty_write has returned, all its characters are on the display, in order,
\* with a '\r' for every '\n', whoever drained them.
WrittenIsShown ==
    \A t \in Writers \cup Loggers : pc[t] = "done" => Has(screen, t, Len(MSG[t]))

\* Two log lines are not mixed: klog holds its mutex until its line is displayed.
LogLinesWhole ==
    \A t, u \in Loggers : \A i, j, k \in DOMAIN screen :
        i < j /\ j < k /\ screen[i][1] = t /\ screen[k][1] = t /\ screen[j][1] = u => u = t

\* A reader that has passed sem_wait(isem) and not yet taken its character.
MayGet(t) == pc[t] \in {"rtest", "rget"} /\ ~Blocked(t)

\* isem counts the characters in ififo, but for the overruns: tty_in tests the
\* count of isem and not that of ififo, which is larger while a reader is between
\* sem_wait and tty_fifo_get; its put then fails and it notifies all the same.
InputUnits ==
    isem.count + Cardinality({t \in Users : MayGet(t)}) = ififo.count + overrun

\* As long as no put into ififo has failed, the readers get what was typed, in
\* that order, and no reader stores an uninitialised character.
InputInOrder ==
    keys = Len(typed) =>
        /\ typed = received \o Contents(ififo)
        /\ \A t \in Readers : \A i \in DOMAIN input[t] : input[t][i][1] = Kbd

\* Every tty_write and klog returns, and so does the echo of tty_read: writers
\* that wait for room, for the console or for klog's mutex do not wait for each
\* other.
WriteReturns ==
    \A t \in Users :
        pc[t] \notin {"start", "done", "rwait", "rtest"} ~> pc[t] \in {"start", "done", "rwait"}

=============================================================================
