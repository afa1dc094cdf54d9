-------------------------------- MODULE Fork --------------------------------
(***************************************************************************)
(* The task table and the descriptor table while tasks fork, execve and    *)
(* exit: alloc_task, tss_init, task_init, task_uninit, free_task, sys_fork *)
(* and the renaming by sys_execve (kernel/task.c), gdt_alloc_desc,         *)
(* segment_desc_set and gdt_free_sel (kernel/gdt.c).                       *)
(*                                                                         *)
(* Both tables are searched under a mutex, and in both the entry found is  *)
(* taken later: a slot when the name is copied into it, a descriptor when  *)
(* its attributes are set.  System calls are preempted in between.  Which  *)
(* page allocations fail is left open; Vm has the pages.                   *)
(***************************************************************************)
EXTENDS KLib, FiniteSetsExt

CONSTANTS
    NTASKS,             \* the size of g_task_table
    GDT_TABLE_SIZE,
    RESERVED,           \* descriptors in use after the initialisation, the null one included
    TASK_NAME_SIZE,
    First,              \* first_task, which is not in g_task_table
    NULL,
    FirstName,          \* its name
    Paths,              \* the paths sys_execve is called with
    MaxCalls            \* bound on the number of forks and execves

g_task_table == 0 .. NTASKS - 1
Tasks        == g_task_table \cup {First}
Descs        == 1 .. GDT_TABLE_SIZE - 1

\* The null descriptor and that of first_task are among the reserved ones.
ASSUME TableAssumption ==
    NTASKS \in Nat \ {0} /\ GDT_TABLE_SIZE \in Nat /\ RESERVED \in Nat \ {0, 1}
\* 256 descriptors; 8 and one for each of 128 slots are needed.
ASSUME GdtAssumption == GDT_TABLE_SIZE >= RESERVED + NTASKS
ASSUME BoundAssumption == MaxCalls \in Nat
ASSUME FirstAssumption == First \notin g_task_table /\ NULL \notin Tasks \cup Int \cup {"seg"}
\* The names fit into a slot.
ASSUME NameAssumption ==
    /\ TASK_NAME_SIZE \in Nat \ {0, 1, 2}
    /\ Len(FirstName) \in 1 .. TASK_NAME_SIZE - 1 /\ DOMAIN FirstName = 1 .. Len(FirstName)
    /\ FirstName[1] # NUL
    /\ \A p \in Paths : Len(get_file_name(p)) \in 0 .. TASK_NAME_SIZE - 1

VARIABLES
    name,       \* task->name; a slot is free if its name is empty
    tss_sel,    \* task->tss_sel; 0 if there is none
    base,       \* per descriptor: the task whose tss it describes, "seg", or NULL if
                \* its attr is 0
    live,       \* the tasks that were started and have not exited
    gone,       \* the tasks that have exited
    pc, loc,    \* where a task is in sys_fork, and its local variables child and tss_sel
    raced,      \* history: alloc_task was called while another fork had not named its slot
    emptied,    \* history: a task was given the empty name
    calls       \* history: the number of forks and execves

vars == <<name, tss_sel, base, live, gone, pc, loc, raced, emptied, calls>>

NoLoc == [child |-> NULL, sel |-> NULL]

\* After task_manager_init and first_task_init.
Init ==
    /\ name = [t \in Tasks |-> IF t = First THEN FirstName ELSE <<>>]
    /\ tss_sel = [t \in Tasks |-> IF t = First THEN RESERVED - 1 ELSE 0]
    /\ base = [d \in Descs |-> IF d = RESERVED - 1 THEN First
                               ELSE IF d < RESERVED THEN "seg" ELSE NULL]
    /\ live = {First}
    /\ gone = {}
    /\ pc = [t \in Tasks |-> "user"]
    /\ loc = [t \in Tasks |-> NoLoc]
    /\ raced = FALSE
    /\ emptied = FALSE
    /\ calls = 0

At(t, l)  == t \in live /\ pc[t] = l
Go(t, l)  == pc' = [pc EXCEPT ![t] = l]
Return(t) == Go(t, "user") /\ loc' = [loc EXCEPT ![t] = NoLoc]
Count     == calls < MaxCalls /\ calls' = calls + 1

\* The string that k_strncpy leaves in task->name.
Named(s) == StringAt(k_strncpy([i \in 0 .. TASK_NAME_SIZE |-> NUL], s, TASK_NAME_SIZE))

\* A fork that has its slot and has not named it, or is about to clear it.
Window == {t \in live : pc[t] \in {"alloc", "desc", "pages", "name", "uninit", "free"}}

-----------------------------------------------------------------------------
(* sys_fork                                                                *)

\* alloc_task.  Without a free slot, sys_fork returns -1.
ForkSlot(t) ==
    LET free == {s \in g_task_table : name[s] = <<>>}
    IN  /\ At(t, "user") /\ Count /\ free # {}
        /\ loc' = [loc EXCEPT ![t].child = Min(free)]
        /\ Go(t, "alloc")
        /\ raced' = (raced \/ Window # {})
        /\ UNCHANGED <<name, tss_sel, base, live, gone, emptied>>

\* tss_init: gdt_alloc_desc; -1 if there is no free descriptor.
gdt_alloc_desc ==
    LET free == {d \in Descs : base[d] = NULL}
    IN  IF free = {} THEN -1 ELSE Min(free)

ForkDesc(t) ==
    /\ At(t, "alloc")
    /\ loc' = [loc EXCEPT ![t].sel = gdt_alloc_desc]
    /\ Go(t, "desc")
    /\ UNCHANGED <<name, tss_sel, base, live, gone, raced, emptied, calls>>

\* tss_init: segment_desc_set; with -1 it writes outside the table.
segment_desc_set(sel, task) ==
    base' = [d \in Descs |-> IF d = sel THEN task ELSE base[d]]

ForkSeg(t) ==
    /\ At(t, "desc")
    /\ segment_desc_set(loc[t].sel, loc[t].child)
    /\ Go(t, "pages")
    /\ UNCHANGED <<name, tss_sel, live, gone, loc, raced, emptied, calls>>

gdt_free_sel(sel) == base' = [d \in Descs |-> IF d = sel THEN NULL ELSE base[d]]

\* Mutant: the descriptor of a failed fork is not freed.
ForkPages_not_freed(t) ==
    /\ At(t, "pages")
    /\ \/ /\ tss_sel' = [tss_sel EXCEPT ![loc[t].child] = loc[t].sel]
          /\ Go(t, "name")
       \/ Go(t, "uninit") /\ UNCHANGED tss_sel
    /\ UNCHANGED <<name, base, live, gone, loc, raced, emptied, calls>>

\* tss_init: the kernel stack and the page directory.  Without them the descriptor
\* is freed.
ForkPages(t) ==
    /\ At(t, "pages")
    /\ \/ /\ tss_sel' = [tss_sel EXCEPT ![loc[t].child] = loc[t].sel]
          /\ Go(t, "name")
          /\ UNCHANGED base
       \/ /\ gdt_free_sel(loc[t].sel)
          /\ Go(t, "uninit")
          /\ UNCHANGED tss_sel
    /\ UNCHANGED <<name, live, gone, loc, raced, emptied, calls>>

\* Mutant: the new task is not named.
ForkName_unnamed(t) ==
    /\ At(t, "name")
    /\ Go(t, "start")
    /\ UNCHANGED <<name, tss_sel, base, live, gone, loc, raced, emptied, calls>>

\* task_init: the name of the parent.
ForkName(t) ==
    /\ At(t, "name")
    /\ name' = [name EXCEPT ![loc[t].child] = Named(name[t])]
    /\ Go(t, "start")
    /\ UNCHANGED <<tss_sel, base, live, gone, loc, raced, emptied, calls>>

\* The rest of task_init and sys_fork, up to task_start: a copy of the address space
\* that fails is not noticed (Vm).
ForkStart(t) ==
    /\ At(t, "start")
    /\ live' = live \cup {loc[t].child}
    /\ Return(t)
    /\ UNCHANGED <<name, tss_sel, base, gone, raced, emptied, calls>>

\* fork_failed: task_uninit frees the selector, if the slot has one, and clears the
\* slot.
ForkUninit(t) ==
    LET c == loc[t].child
    IN  /\ At(t, "uninit")
        /\ IF tss_sel[c] # 0 THEN gdt_free_sel(tss_sel[c]) ELSE UNCHANGED base
        /\ tss_sel' = [tss_sel EXCEPT ![c] = 0]
        /\ name' = [name EXCEPT ![c] = <<>>]
        /\ Go(t, "free")
        /\ UNCHANGED <<live, gone, loc, raced, emptied, calls>>

free_task(s) == name' = [name EXCEPT ![s] = <<>>]

ForkFree(t) ==
    /\ At(t, "free")
    /\ free_task(loc[t].child)
    /\ Return(t)
    /\ UNCHANGED <<tss_sel, base, live, gone, raced, emptied, calls>>

-----------------------------------------------------------------------------
\* sys_execve renames the task before it looks for the file, and keeps the new name
\* if it fails.
sys_execve(t, path) ==
    /\ At(t, "user") /\ Count
    /\ name' = [name EXCEPT ![t] = Named(get_file_name(path))]
    /\ emptied' = (emptied \/ name'[t] = <<>>)
    /\ UNCHANGED <<tss_sel, base, live, gone, pc, loc, raced>>

\* sys_exit leaves slot and descriptor taken: nothing frees them.
sys_exit(t) ==
    /\ At(t, "user") /\ t # First
    /\ live' = live \ {t}
    /\ gone' = gone \cup {t}
    /\ UNCHANGED <<name, tss_sel, base, pc, loc, raced, emptied, calls>>

Next ==
    \E t \in Tasks :
        \/ ForkSlot(t) \/ ForkDesc(t) \/ ForkSeg(t) \/ ForkPages(t) \/ ForkName(t)
        \/ ForkStart(t) \/ ForkUninit(t) \/ ForkFree(t)
        \/ \E p \in Paths : sys_execve(t, p)
        \/ sys_exit(t)

Spec == Init /\ [][Next]_vars

-----------------------------------------------------------------------------
(* Properties.                                                             *)

Forking == {t \in live : loc[t].child # NULL}

\* As long as no fork starts while another one has not named its slot, and no task
\* has lost its name to a path that ends in a separator, no two forks work on the
\* same slot, and none works on the slot of a task that was started.  A fork that
\* starts later than that is harmless, however the rest of the two is interleaved.
SlotsApart ==
    ~raced /\ ~emptied =>
        /\ \A t, u \in Forking : loc[t].child = loc[u].child => t = u
        /\ \A t \in Forking : loc[t].child \notin live \cup gone

\* The descriptors that stand for no task: found and not yet set, or set for a fork
\* that has not stored its selector.
HeldBy(t) == IF pc[t] = "pages" THEN {loc[t].sel} ELSE {}

\* Under the same conditions the selector of a task that was started leads to its
\* own tss, every descriptor in use belongs to a task or to a fork under way, so
\* that failed forks lose none, and gdt_alloc_desc always finds one.
SelectorsOwn ==
    ~raced /\ ~emptied =>
        /\ \A t \in live \cup gone : tss_sel[t] \in Descs /\ base[tss_sel[t]] = t
        /\ \A d \in Descs : d >= RESERVED /\ base[d] # NULL =>
              \/ \E t \in Tasks : tss_sel[t] = d
              \/ \E t \in Forking : d \in HeldBy(t)
        /\ \A t \in Forking : loc[t].sel # -1
=============================================================================
