------------------------------- MODULE Sched -------------------------------
(***************************************************************************)
(* The task scheduler of the kernel (kernel/task.c, driven by the timer    *)
(* handler of kernel/dev/mtime.c): one CPU, a FIFO ready list whose first  *)
(* element is the running task, a list of sleeping tasks scanned on every  *)
(* timer tick, and an idle task that is on no list.                        *)
(*                                                                         *)
(* Every critical section of task.c runs between irq_enter_proection and   *)
(* irq_leave_proection, or in an interrupt gate, so each one is a single   *)
(* step, with one exception that the model keeps: task_time_tick can       *)
(* switch away in its middle (line 303), after the time slice and before   *)
(* the scan of the sleep list, and then finishes that scan only when the   *)
(* preempted task is dispatched again.  handler[t] says that t is inside   *)
(* task_time_tick with its scan still to do.                               *)
(*                                                                         *)
(* The lists of the kernel are sequences here, with the operations of      *)
(* ListOps; the pointer structure that implements them is modelled in      *)
(* KList.                                                                  *)
(***************************************************************************)
EXTENDS ListOps

CONSTANTS
    Tasks,          \* the task_t objects other than idle: first_task, g_task_table
    First,          \* g_task_manager.first_task
    Idle,           \* g_task_manager.idle_task
    TIME_SLICE,     \* TASK_TIME_SLICE_DEFAULT
    OS_TICK_MS,     \* milliseconds of a timer tick
    MsValues        \* the arguments sys_sleep is called with

ASSUME FirstAssumption == First \in Tasks
ASSUME IdleAssumption  == Idle \notin Tasks
ASSUME SliceAssumption == TIME_SLICE \in Nat \ {0}
ASSUME TickAssumption  == OS_TICK_MS \in Nat \ {0}
\* lib_syscall.c: msleep returns at once for ms <= 0
ASSUME MsAssumption    == MsValues \subseteq Nat \ {0}

VARIABLES
    curr,           \* g_task_manager.curr_task
    ready,          \* g_task_manager.ready_list
    sleeping,       \* g_task_manager.sleep_list
    waiting,        \* the tasks that are on the wait_list of a semaphore or mutex
    state,          \* task->state
    slice_ticks,    \* task->slice_ticks
    sleep_ticks,    \* task->sleep_ticks
    handler,        \* TRUE: in task_time_tick, before or in the scan of sleep_list
    scan            \* index in sleep_list of the node the scan visits next

schedVars == <<curr, ready, sleeping, waiting, state, slice_ticks, sleep_ticks,
               handler, scan>>

AllTasks == Tasks \cup {Idle}
States   == {"CREATED", "RUNNING", "SLEEP", "READY", "ZOMBIE"}

-----------------------------------------------------------------------------
(* The helpers of task.c.  The idle task is never put on the ready list.   *)

\* Mutant: the idle task is queued like any other.
task_set_ready_list_with_idle(q, t) == list_insert_last(q, t)

task_set_ready_list(q, t) == IF t = Idle THEN q ELSE list_insert_last(q, t)

task_set_ready_state(st, t) ==
    IF t = Idle THEN st ELSE [st EXCEPT ![t] = "READY"]

task_set_block(q, t) == IF t = Idle THEN q ELSE list_delete(q, t)

task_next_run(q) == IF Len(q) = 0 THEN Idle ELSE Head(q)

\* Select the next task from list q and switch to it, task states being st.
task_dispatch(q, st) ==
    LET to == task_next_run(q)
    IN  /\ curr' = to
        /\ state' = IF to = curr THEN st ELSE [st EXCEPT ![to] = "RUNNING"]

-----------------------------------------------------------------------------
(* task_manager_init and first_task_init: the first task is the current    *)
(* one and the only one on the ready list; the interrupts are still off.   *)
Init ==
    /\ curr = First
    /\ ready = <<First>>
    /\ sleeping = <<>>
    /\ waiting = {}
    /\ state = [t \in AllTasks |-> IF t = First THEN "READY" ELSE "CREATED"]
    /\ slice_ticks = [t \in AllTasks |-> TIME_SLICE]
    /\ sleep_ticks = [t \in AllTasks |-> 0]
    /\ handler = [t \in AllTasks |-> FALSE]
    /\ scan = 1

\* The current task executes outside every critical section.
Running == ~handler[curr]

\* ... and it is a task that makes system calls: idle_task_func only halts.
Calling == Running /\ curr # Idle

-----------------------------------------------------------------------------
(* The timer interrupt: handle_time calls task_time_tick.                  *)

\* Mutant: a used-up slice is reloaded, but the task keeps its place.
task_time_tick_no_switch ==
    /\ Running
    /\ handler' = [handler EXCEPT ![curr] = TRUE]
    /\ slice_ticks' = [slice_ticks EXCEPT ![curr] = IF @ = 1 THEN TIME_SLICE ELSE @ - 1]
    /\ UNCHANGED <<curr, ready, state, sleeping, waiting, sleep_ticks, scan>>

\* Lines 294-304: the slice of the current task, and the forced switch.
task_time_tick ==
    /\ Running
    /\ handler' = [handler EXCEPT ![curr] = TRUE]
    /\ IF slice_ticks[curr] = 1
       THEN LET q == task_set_ready_list(task_set_block(ready, curr), curr)
            IN  /\ slice_ticks' = [slice_ticks EXCEPT ![curr] = TIME_SLICE]
                /\ ready' = q
                /\ task_dispatch(q, task_set_ready_state(state, curr))
       ELSE /\ slice_ticks' = [slice_ticks EXCEPT ![curr] = @ - 1]
            /\ UNCHANGED <<curr, ready, state>>
    /\ UNCHANGED <<sleeping, waiting, sleep_ticks, scan>>

\* Mutant: task_set_wakeup is missing, the task stays on the sleep list.
TickScan_no_wakeup ==
    /\ handler[curr]
    /\ scan <= Len(sleeping)
    /\ LET t == sleeping[scan]
       IN  /\ sleep_ticks' = [sleep_ticks EXCEPT ![t] = @ - 1]
           /\ ready' = IF sleep_ticks[t] = 1 THEN task_set_ready_list(ready, t) ELSE ready
           /\ state' = IF sleep_ticks[t] = 1 THEN task_set_ready_state(state, t) ELSE state
    /\ scan' = scan + 1
    /\ UNCHANGED <<curr, sleeping, waiting, slice_ticks, handler>>

\* Mutant: the ticks of a task that has more than one to go are not counted.
TickScan_not_counted ==
    /\ handler[curr]
    /\ scan <= Len(sleeping)
    /\ LET t == sleeping[scan]
       IN  IF sleep_ticks[t] = 1
           THEN /\ sleep_ticks' = [sleep_ticks EXCEPT ![t] = 0]
                /\ sleeping' = list_delete(sleeping, t)
                /\ ready' = task_set_ready_list(ready, t)
                /\ state' = task_set_ready_state(state, t)
                /\ scan' = scan
           ELSE /\ scan' = scan + 1
                /\ UNCHANGED <<sleeping, ready, state, sleep_ticks>>
    /\ UNCHANGED <<curr, waiting, slice_ticks, handler>>

\* Lines 307-316, one turn of the loop over the sleep list.  The handler runs
\* with the interrupts off, so nothing but the next turn can follow.
TickScan ==
    /\ handler[curr]
    /\ scan <= Len(sleeping)
    /\ LET t == sleeping[scan]
       IN  /\ sleep_ticks' = [sleep_ticks EXCEPT ![t] = @ - 1]
           /\ IF sleep_ticks[t] = 1
              THEN /\ sleeping' = list_delete(sleeping, t)     \* task_set_wakeup
                   /\ ready' = task_set_ready_list(ready, t)
                   /\ state' = task_set_ready_state(state, t)
                   /\ scan' = scan
              ELSE /\ scan' = scan + 1
                   /\ UNCHANGED <<sleeping, ready, state>>
    /\ UNCHANGED <<curr, waiting, slice_ticks, handler>>

\* Line 318 and the return from the interrupt.
TickDone ==
    /\ handler[curr]
    /\ scan > Len(sleeping)
    /\ handler' = [handler EXCEPT ![curr] = FALSE]
    /\ scan' = 1
    /\ task_dispatch(ready, state)
    /\ UNCHANGED <<ready, sleeping, waiting, slice_ticks, sleep_ticks>>

-----------------------------------------------------------------------------
(* System calls.                                                           *)

\* Mutant: the slot of a task that has exited is started again.
task_start_zombie(t) ==
    /\ Calling
    /\ state[t] \in {"CREATED", "ZOMBIE"}
    /\ ready' = task_set_ready_list(ready, t)
    /\ state' = task_set_ready_state(state, t)
    /\ UNCHANGED <<curr, sleeping, waiting, slice_ticks, sleep_ticks, handler, scan>>

\* task_start of a task that task_init has just made: sys_fork.
task_start(t) ==
    /\ Calling
    /\ state[t] = "CREATED"
    /\ ready' = task_set_ready_list(ready, t)
    /\ state' = task_set_ready_state(state, t)
    /\ UNCHANGED <<curr, sleeping, waiting, slice_ticks, sleep_ticks, handler, scan>>

sys_yield ==
    /\ Calling
    /\ Len(ready) > 1
    /\ LET q == task_set_ready_list(task_set_block(ready, curr), curr)
       IN  /\ ready' = q
           /\ task_dispatch(q, task_set_ready_state(state, curr))
    /\ UNCHANGED <<sleeping, waiting, slice_ticks, sleep_ticks, handler, scan>>

\* task_set_sleep returns without a word when the time is less than a tick.
sys_sleep(ms) ==
    /\ Calling
    /\ LET q     == task_set_block(ready, curr)
           ticks == ms \div OS_TICK_MS
       IN  /\ ready' = q
           /\ IF ticks <= 0
              THEN /\ UNCHANGED <<sleeping, sleep_ticks>>
                   /\ task_dispatch(q, state)
              ELSE /\ sleep_ticks' = [sleep_ticks EXCEPT ![curr] = ticks]
                   /\ sleeping' = list_insert_last(sleeping, curr)
                   /\ task_dispatch(q, [state EXCEPT ![curr] = "SLEEP"])
    /\ UNCHANGED <<waiting, slice_ticks, handler, scan>>

sys_exit ==
    /\ Calling
    /\ LET q == task_set_block(ready, curr)
       IN  /\ ready' = q
           /\ task_dispatch(q, [state EXCEPT ![curr] = "ZOMBIE"])
    /\ UNCHANGED <<sleeping, waiting, slice_ticks, sleep_ticks, handler, scan>>

\* The blocking half of sem_wait and mutex_lock.  The state of the task stays
\* what it was: TASK_WAITING is never assigned.
WaitCurr ==
    /\ Calling
    /\ LET q == task_set_block(ready, curr)
       IN  /\ ready' = q
           /\ task_dispatch(q, state)
    /\ waiting' = waiting \cup {curr}
    /\ UNCHANGED <<sleeping, slice_ticks, sleep_ticks, handler, scan>>

\* Mutant: the waiter leaves its wait list and is not made ready.
WakeTask_not_ready(t) ==
    /\ Running
    /\ waiting' = waiting \ {t}
    /\ UNCHANGED <<curr, ready, state, sleeping, slice_ticks, sleep_ticks, handler, scan>>

\* Mutant: the woken task runs next.
WakeTask_runs_next(t) ==
    LET q == IF ready = <<>> THEN <<t>> ELSE <<Head(ready), t>> \o Tail(ready)
    IN  /\ Running
        /\ ready' = q
        /\ task_dispatch(q, task_set_ready_state(state, t))
        /\ waiting' = waiting \ {t}
        /\ UNCHANGED <<sleeping, slice_ticks, sleep_ticks, handler, scan>>

\* Mutant: the task that wakes another one gives up the CPU.
WakeTask_yields(t) ==
    LET q == task_set_ready_list(task_set_ready_list(task_set_block(ready, curr), t), curr)
    IN  /\ Running
        /\ ready' = q
        /\ task_dispatch(q, task_set_ready_state(task_set_ready_state(state, t), curr))
        /\ waiting' = waiting \ {t}
        /\ UNCHANGED <<sleeping, slice_ticks, sleep_ticks, handler, scan>>

\* The waking half of sem_notify and mutex_unlock, also from an interrupt
\* handler over the idle task.
WakeTask(t) ==
    /\ Running
    /\ ready' = task_set_ready_list(ready, t)
    /\ task_dispatch(task_set_ready_list(ready, t), task_set_ready_state(state, t))
    /\ waiting' = waiting \ {t}
    /\ UNCHANGED <<sleeping, slice_ticks, sleep_ticks, handler, scan>>

-----------------------------------------------------------------------------
Next ==
    \/ task_time_tick
    \/ TickScan
    \/ TickDone
    \/ \E t \in Tasks : task_start(t)
    \/ sys_yield
    \/ \E ms \in MsValues : sys_sleep(ms)
    \/ sys_exit
    \/ WaitCurr
    \/ \E t \in waiting : WakeTask(t)

Spec == Init /\ [][Next]_schedVars

\* The timer keeps interrupting and an interrupt handler runs to its end.
Fairness ==
    /\ WF_schedVars(task_time_tick)
    /\ WF_schedVars(TickScan)
    /\ WF_schedVars(TickDone)

FairSpec == Spec /\ Fairness

-----------------------------------------------------------------------------
(* Properties.                                                             *)

TypeOK ==
    /\ curr \in AllTasks
    /\ ready \in Seq(Tasks)
    /\ sleeping \in Seq(Tasks)
    /\ waiting \subseteq Tasks
    /\ state \in [AllTasks -> States]
    /\ slice_ticks \in [AllTasks -> Int]
    /\ sleep_ticks \in [AllTasks -> Int]
    /\ handler \in [AllTasks -> BOOLEAN]
    /\ scan \in Nat \ {0}

Blocked(t) == t \in Members(sleeping) \/ t \in waiting

\* run_node links a task into the ready list and into the sleep list: it is in
\* at most one of them, once, and never while the task waits.  This is what
\* every list_insert_last (free node) and list_delete (member) of task.c needs.
OneList ==
    /\ Injective(ready)
    /\ Injective(sleeping)
    /\ \A t \in Members(ready) : ~Blocked(t)
    /\ \A t \in Members(sleeping) : t \notin waiting

\* The task that executes is the first of the ready list, and the idle task only
\* executes when that list is empty (or until the tick that filled it returns):
\* what task_set_block(curr) and task_dispatch rely on.
CurrIsHead ==
    \/ /\ ready # <<>>
       /\ curr = Head(ready)
    \/ /\ curr = Idle
       /\ ready = <<>> \/ handler[Idle]

\* The counters are tested for equality with zero, so one that passed zero would
\* never fire again: outside the handler a slice is at least 1, and a task on
\* the sleep list has at least one tick to go.
CountersPositive ==
    /\ \A t \in AllTasks : slice_ticks[t] \in 1 .. TIME_SLICE
    /\ \A t \in Members(sleeping) : sleep_ticks[t] >= 1

\* What task->state tells about the lists: SLEEP is exactly the sleep list, a
\* CREATED or ZOMBIE task is on no list, and of the tasks on the ready list only
\* the current one can be RUNNING.
StateMatchesLists ==
    /\ \A t \in Tasks : state[t] = "SLEEP" <=> t \in Members(sleeping)
    /\ \A t \in Tasks : state[t] \in {"CREATED", "ZOMBIE"} =>
                           t \notin Members(ready) /\ t \notin waiting
    /\ \A t \in Members(ready) : state[t] = "RUNNING" => t = curr

\* A tick whose scan was put off by the forced switch at line 303 is not lost:
\* the task that has to finish it can still be dispatched (it is on the ready
\* list), and the idle task never leaves one behind.
PutOffScanReady ==
    \A t \in AllTasks : handler[t] /\ t # curr => t \in Members(ready)

\* Only the task that executes is in the middle of a scan.
ScanInBounds ==
    /\ scan <= Len(sleeping) + 1
    /\ ~handler[curr] => scan = 1

\* The lists, counters and states of the scheduler and the scans that are put off
\* agree, in the middle of a timer handler and between handlers: the inductive
\* invariant.  None of its parts is preserved without the others.
SafetyInv ==
    /\ OneList
    /\ CurrIsHead
    /\ CountersPositive
    /\ StateMatchesLists
    /\ PutOffScanReady
    /\ ScanInBounds

\* A task that was started and has not exited is on no list at all: no code of
\* the kernel can find it.
Lost(t) ==
    /\ state[t] \notin {"CREATED", "ZOMBIE"}
    /\ t \notin Members(ready)
    /\ ~Blocked(t)

\* Every task that was started and has not exited is on the ready list, on the
\* sleep list or on a wait list.  It needs SleepsWholeTicks: sys_sleep takes the
\* caller off the ready list before task_set_sleep looks at the time.
NoLostTask == \A t \in Tasks : ~Lost(t)

SleepsWholeTicks == \A ms \in MsValues : ms >= OS_TICK_MS

TurnsKept ==
    \A t, u \in Tasks :
        t \in Members(ready) /\ t # curr /\ u # t /\ ~Before(ready, u, t) =>
            t \in Members(ready') /\ (u \in Members(ready') => Before(ready', t, u))

\* Round robin: whoever joins the ready list joins it behind every task that
\* waits there for the CPU, and whoever is on it stays behind.  Only the current
\* task can fall behind a task it was ahead of.
NoOvertaking == [][TurnsKept]_schedVars

SwitchDue ==
    \A t \in Tasks :
        curr = t /\ curr' # t /\ t \in Members(ready') =>
            \/ slice_ticks[t] = 1 /\ slice_ticks'[t] = TIME_SLICE
            \/ /\ Members(ready') = Members(ready)
               /\ UNCHANGED <<waiting, sleeping, slice_ticks, handler>>

\* A task that can go on loses the CPU at the end of its slice, or in a sys_yield
\* that leaves everything but the order of the ready list alone: a wake up or the
\* start of a task never preempts.
NoEarlyPreemption == [][SwitchDue]_schedVars

StaysGone ==
    \A t \in Tasks : /\ state[t] = "ZOMBIE" => state'[t] = "ZOMBIE"
                     /\ Lost(t) => Lost(t)'

\* sys_exit is final, and so is a sleep of less than a tick.
GoneForGood == [][StaysGone]_schedVars

\* A task on the ready list gets the CPU outside the interrupt handler.
ReadyTaskRuns ==
    \A t \in Tasks : t \in Members(ready) ~> curr = t /\ ~handler[t]

\* A task on the sleep list is made ready by the ticks.
SleeperWakes ==
    \A t \in Tasks : t \in Members(sleeping) ~> t \in Members(ready)

=============================================================================
