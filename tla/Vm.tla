--------------------------------- MODULE Vm ---------------------------------
(***************************************************************************)
(* Physical pages and address spaces: kernel/mem.c with its page bitmap    *)
(* (lib/bitmap.c), and the operations of task.c that use them: sys_fork,   *)
(* sys_execve, sys_exit.                                                   *)
(*                                                                         *)
(* A system call can be preempted at any time; only addr_alloc_page and    *)
(* addr_free_page are atomic, under the mutex of the allocator.  Each step *)
(* here makes at most one call of them, and a task between two of its      *)
(* steps can see the allocator change.  Page directories and page tables   *)
(* are the contents of physical pages, and a freed page keeps them until   *)
(* it is used again, as in the code.                                       *)
(*                                                                         *)
(* Virtual addresses are those of user space, in pages from 0; the kernel  *)
(* half of a directory is shared and never changes.  The heap is measured  *)
(* in units, PAGE_SIZE of them to a page.                                  *)
(***************************************************************************)
EXTENDS Integers, Sequences, FiniteSets

CONSTANTS
    Tasks, First, NULL,
    BAD,                    \* the page directory at (uint32_t)-1
    NPAGES,                 \* physical pages of g_paddr_alloc
    PDE_CNT, PTE_CNT,       \* entries of a directory (user half) and of a table
    PAGE_SIZE,
    FIRST_START, FIRST_SIZE,    \* the memory of the first task
    Programs, FILE,         \* what execve can load: the first program header of each file
    STACK_START, STACK_SIZE,    \* the user stack of a program
    ESP,                    \* of a program: the page below its stack pointer when it forks
    ARGS,                   \* the page above the first stack pointer of a program
    INCR,                   \* the arguments of sys_sbrk
    MaxCalls                \* bound on the number of system calls

Pages  == 0 .. NPAGES - 1
VPages == 0 .. PDE_CNT * PTE_CNT - 1

pde_index(v) == v \div PTE_CNT
pte_index(v) == v % PTE_CNT

ASSUME TaskAssumption == First \in Tasks /\ NULL \notin Tasks
ASSUME SizeAssumption ==
    /\ {NPAGES, PDE_CNT, PTE_CNT, PAGE_SIZE} \subseteq Nat \ {0}
    /\ NULL \notin Pages /\ BAD \notin Pages /\ BAD # NULL
\* vaddr and memsz are those of the first header, the others are never read; phnum is
\* the number of headers.
ASSUME ProgramAssumption ==
    /\ FILE \in [Programs -> [vaddr : Nat, memsz : Nat \ {0}, phnum : Nat \ {0}]]
    /\ "first_task" \notin Programs
    /\ {FIRST_START, FIRST_SIZE, STACK_START, STACK_SIZE} \subseteq Nat
    /\ ESP \in [Programs \cup {"first_task"} -> VPages] /\ ARGS \in VPages
\* The assertion that rules out negative increments is commented out in sys_sbrk.
ASSUME IncrAssumption == INCR \subseteq Int \ {0} /\ MaxCalls \in Nat

VARIABLES
    bitmap,     \* the pages marked allocated
    pde, pte,   \* the contents of a page as a directory and as a table
    slot,       \* per entry of the task table: free, init, run or zombie
    kstack,     \* tss.esp0: the kernel stack page
    cr3,        \* tss.cr3
    heap_start, heap_end,   \* fields of the task; 0 while they are not in user space
    pc, loc,    \* where a task is, and the local variables of its system call
    leaked,     \* history: allocated pages the kernel has lost track of
    short,      \* history: the task was let run with pages missing
    runs,       \* history: the program a task runs
    loads,      \* history: the last program it tried to load
    calls       \* history: the number of system calls made

progVars == <<heap_start, runs, loads>>
vars == <<bitmap, pde, pte, slot, kstack, cr3, heap_end, pc, loc, leaked, short, progVars, calls>>

NoTable == [i \in 0 .. PDE_CNT - 1 |-> NULL]
NoPage  == [j \in 0 .. PTE_CNT - 1 |-> NULL]

\* The local variables of a fork or of the end of an address space, and those of an
\* execve or sys_sbrk.
Space(dir, page, pos, child) ==
    [dir |-> dir, page |-> page, pos |-> pos, child |-> child,
     todo |-> <<>>, end |-> 0, lack |-> FALSE]
Fill(dir, page, todo, end, lack) ==
    [dir |-> dir, page |-> page, pos |-> 0, child |-> NULL,
     todo |-> todo, end |-> end, lack |-> lack]
NoLoc == Space(NULL, NULL, 0, NULL)

-----------------------------------------------------------------------------
(* mem.c                                                                   *)

\* The first clear bit; the kernel asks for one bit at a time.
bitmap_alloc_nbits ==
    IF bitmap = Pages THEN -1
                      ELSE CHOOSE p \in Pages \ bitmap : \A q \in Pages \ bitmap : p <= q

addr_alloc_page == IF bitmap_alloc_nbits >= 0 THEN bitmap_alloc_nbits ELSE NULL

addr_free_page(p) == bitmap' = bitmap \ {p}

\* find_pte without allocation, and the page its entry maps.
find_pte(d, v) == LET t == pde[d][pde_index(v)]
                  IN  IF t = NULL THEN NULL ELSE pte[t][pte_index(v)]

Mapped(d) == {v \in VPages : find_pte(d, v) # NULL}

\* memory_create_uvm with a page from addr_alloc_page.
memory_create_uvm(p) ==
    /\ bitmap' = bitmap \cup {p}
    /\ pde' = [pde EXCEPT ![p] = NoTable]
    /\ UNCHANGED pte

CanMap(d, v) == pde[d][pde_index(v)] # NULL \/ addr_alloc_page # NULL

\* memory_create_map of one page.  An entry that is present is overwritten.
memory_create_map(d, v, p) ==
    LET i == pde_index(v)
        t == addr_alloc_page
    IN  IF pde[d][i] # NULL
        THEN /\ pte' = [pte EXCEPT ![pde[d][i]][pte_index(v)] = p]
             /\ leaked' = leaked \cup ({find_pte(d, v)} \ {NULL})
             /\ UNCHANGED <<bitmap, pde>>
        ELSE /\ bitmap' = bitmap \cup {t}
             /\ pde' = [pde EXCEPT ![d][i] = t]
             /\ pte' = [pte EXCEPT ![t] = [NoPage EXCEPT ![pte_index(v)] = p]]
             /\ UNCHANGED leaked

LastPos == PDE_CNT * (PTE_CNT + 1)

\* Mutant: a table is freed before the pages it maps.
Victim_table_first(d, k) ==
    LET i == k \div (PTE_CNT + 1)
        j == k % (PTE_CNT + 1)
    IN  IF k = LastPos THEN d
        ELSE IF pde[d][i] = NULL \/ j = 0 THEN pde[d][i]
        ELSE pte[pde[d][i]][j - 1]

\* The order in which memory_destory_uvm frees: the pages of each table, the
\* table, and the directory at the end.
Victim(d, k) ==
    LET i == k \div (PTE_CNT + 1)
        j == k % (PTE_CNT + 1)
    IN  IF k = LastPos THEN d
        ELSE IF pde[d][i] = NULL \/ j = PTE_CNT THEN pde[d][i]
        ELSE pte[pde[d][i]][j]

-----------------------------------------------------------------------------
(* Programs, and the first task.                                           *)

\* Mutant: the size is rounded down.
AllocPages_rounded_down(v, n) ==
    [i \in 1 .. n \div PAGE_SIZE |-> v \div PAGE_SIZE + i - 1]

\* The pages that memory_alloc_for_page_dir maps for n units at v: as many as n needs,
\* wherever in its page v is.
AllocPages(v, n) ==
    [i \in 1 .. (n + PAGE_SIZE - 1) \div PAGE_SIZE |-> v \div PAGE_SIZE + i - 1]

\* What execve maps: load_elf_file reads the first header for each of them, then comes
\* the stack.
Segments(p) ==
    [i \in 1 .. FILE[p].phnum |-> AllocPages(FILE[p].vaddr, FILE[p].memsz)]
    \o <<AllocPages(STACK_START, STACK_SIZE)>>

\* The heap of a program starts behind its first segment.  That of the first task is at
\* e_first_task, an address of the kernel: its load address, not the one it runs at.
HeapStart(p) == IF p \in Programs THEN FILE[p].vaddr + FILE[p].memsz ELSE 0

PagesOf(s) == {s[i] : i \in DOMAIN s}
FirstPages == PagesOf(AllocPages(FIRST_START, FIRST_SIZE))

\* The pages of a program, without its heap.
Image(p) ==
    IF p \in Programs THEN UNION {PagesOf(Segments(p)[i]) : i \in DOMAIN Segments(p)}
                      ELSE FirstPages

\* Every page that is mapped at the start of a program is in user space.
ASSUME SpaceAssumption ==
    FirstPages \subseteq VPages /\ \A p \in Programs : Segments(p) \in Seq(Seq(VPages))

\* A directory in page 0, a stack in page 1, the tables, and then the memory of the first task.
Dirs        == {pde_index(v) : v \in FirstPages}
Table(i)    == 2 + Cardinality({k \in Dirs : k < i})
Page(v)     == 2 + Cardinality(Dirs) + Cardinality({w \in FirstPages : w < v})
Entry(p, j) == {v \in FirstPages : Table(pde_index(v)) = p /\ pte_index(v) = j}

\* There is room for it.
ASSUME FitAssumption == 2 + Cardinality(Dirs) + Cardinality(FirstPages) <= NPAGES

Init ==
    /\ bitmap = 0 .. 1 + Cardinality(Dirs) + Cardinality(FirstPages)
    /\ pde = [p \in Pages |-> [i \in DOMAIN NoTable |->
                IF p = 0 /\ i \in Dirs THEN Table(i) ELSE NULL]]
    /\ pte = [p \in Pages |-> [j \in DOMAIN NoPage |->
                IF Entry(p, j) = {} THEN NULL ELSE Page(CHOOSE v \in Entry(p, j) : TRUE)]]
    /\ slot = [t \in Tasks |-> IF t = First THEN "run" ELSE "free"]
    /\ kstack = [t \in Tasks |-> IF t = First THEN 1 ELSE NULL]
    /\ cr3 = [t \in Tasks |-> IF t = First THEN 0 ELSE NULL]
    /\ heap_start = [t \in Tasks |-> 0] /\ heap_end = [t \in Tasks |-> 0]
    /\ pc = [t \in Tasks |-> "user"]
    /\ loc = [t \in Tasks |-> NoLoc]
    /\ leaked = {}
    /\ short = [t \in Tasks |-> FALSE]
    /\ runs = [t \in Tasks |-> "first_task"] /\ loads = [t \in Tasks |-> "first_task"]
    /\ calls = 0

\* A task whose directory is at -1 does not get as far as its first instruction.
At(t, l)    == slot[t] = "run" /\ cr3[t] # BAD /\ pc[t] = l
Go(t, l)    == pc' = [pc EXCEPT ![t] = l]
Set(t, r)   == loc' = [loc EXCEPT ![t] = r]
memVars     == <<bitmap, pde, pte>>
taskVars    == <<slot, kstack, cr3, heap_end, progVars>>

\* memory_destory_uvm(d), then back to user mode, or to the end of fork.
Destroy(t, l, d) ==
    /\ Go(t, l)
    /\ Set(t, Space(d, NULL, 0, loc[t].child))

Return(t) == Go(t, "user") /\ Set(t, NoLoc)

-----------------------------------------------------------------------------
(* sys_fork                                                                *)

\* alloc_task and the kernel stack of tss_init; without a page, nothing happens.
ForkStack(t, c) ==
    /\ At(t, "user") /\ slot[c] = "free"
    /\ addr_alloc_page # NULL
    /\ bitmap' = bitmap \cup {addr_alloc_page}
    /\ kstack' = [kstack EXCEPT ![c] = addr_alloc_page]
    /\ slot' = [slot EXCEPT ![c] = "init"]
    /\ Go(t, "fork_dir")
    /\ Set(t, Space(NULL, NULL, 0, c))
    /\ UNCHANGED <<pde, pte, cr3, heap_end, progVars, leaked, short>>

\* The page directory of tss_init.
ForkDir(t) ==
    /\ At(t, "fork_dir")
    /\ IF addr_alloc_page = NULL
       THEN /\ Go(t, "undo_stack")
            /\ UNCHANGED <<memVars, cr3>>
       ELSE /\ memory_create_uvm(addr_alloc_page)
            /\ cr3' = [cr3 EXCEPT ![loc[t].child] = addr_alloc_page]
            /\ Go(t, "copy_dir")
    /\ UNCHANGED <<slot, kstack, heap_end, progVars, loc, leaked, short>>

\* tss_init_failed gives the kernel stack back.
UndoStack(t) ==
    /\ At(t, "undo_stack")
    /\ addr_free_page(kstack[loc[t].child])
    /\ kstack' = [kstack EXCEPT ![loc[t].child] = NULL]
    /\ Go(t, "undo_user")
    /\ UNCHANGED <<pde, pte, slot, cr3, heap_end, progVars, loc, leaked, short>>

\* memory_free_page of a user address, in the address space of the caller.
memory_free_page(t, v) ==
    LET p == find_pte(cr3[t], v)
    IN  /\ addr_free_page(p)
        /\ pte' = IF p = NULL THEN pte
                  ELSE [pte EXCEPT ![pde[cr3[t]][pde_index(v)]][pte_index(v)] = NULL]

\* task_uninit finds esp0 set and frees the page at tss.esp - MEM_PAGE_SIZE: esp is
\* the user stack pointer of the child, an address of the caller.
UndoUser(t) ==
    /\ At(t, "undo_user")
    /\ memory_free_page(t, ESP[runs[t]])
    /\ slot' = [slot EXCEPT ![loc[t].child] = "free"]
    /\ short' = [short EXCEPT ![t] = TRUE]
    /\ Return(t)
    /\ UNCHANGED <<pde, kstack, cr3, heap_end, progVars, leaked>>

\* memory_copy_uvm returned d, or -1, which as an unsigned number is not < 0: the
\* child is started all the same.  The directory of tss_init is lost.
ForkEnd(t, d) ==
    LET c == loc[t].child
    IN  /\ leaked' = leaked \cup {cr3[c]}
        /\ cr3' = [cr3 EXCEPT ![c] = d]
        /\ slot' = [slot EXCEPT ![c] = "run"]
        /\ short' = [short EXCEPT ![c] = short[t]]
        /\ runs' = [runs EXCEPT ![c] = runs[t]]
        /\ Return(t)
        /\ UNCHANGED <<kstack, heap_start, heap_end, loads>>

CopyDir(t) ==
    /\ At(t, "copy_dir")
    /\ IF addr_alloc_page = NULL
       THEN /\ ForkEnd(t, BAD)
            /\ UNCHANGED memVars
       ELSE /\ memory_create_uvm(addr_alloc_page)
            /\ Go(t, "copy")
            /\ Set(t, Space(addr_alloc_page, NULL, 0, loc[t].child))
            /\ UNCHANGED <<taskVars, leaked, short>>

\* Mutant: the entries of a table that are not present are copied too.
ToCopy_not_present(t) ==
    {v \in VPages : pde[cr3[t]][pde_index(v)] # NULL /\ v >= loc[t].pos}

\* The pages of the caller that are still to be copied.
ToCopy(t) == {v \in Mapped(cr3[t]) : v >= loc[t].pos}

CopyPage(t) ==
    /\ At(t, "copy") /\ ToCopy(t) # {}
    /\ IF addr_alloc_page = NULL
       THEN /\ Destroy(t, "undo_copy", loc[t].dir)
            /\ UNCHANGED bitmap
       ELSE /\ bitmap' = bitmap \cup {addr_alloc_page}
            /\ Set(t, Space(loc[t].dir, addr_alloc_page,
                            CHOOSE v \in ToCopy(t) : \A w \in ToCopy(t) : v <= w, loc[t].child))
            /\ Go(t, "copy_map")
    /\ UNCHANGED <<pde, pte, taskVars, leaked, short>>

CopyMap(t) ==
    /\ At(t, "copy_map")
    /\ IF CanMap(loc[t].dir, loc[t].pos)
       THEN /\ memory_create_map(loc[t].dir, loc[t].pos, loc[t].page)
            /\ Set(t, Space(loc[t].dir, NULL, loc[t].pos + 1, loc[t].child))
            /\ Go(t, "copy")
       ELSE /\ leaked' = leaked \cup {loc[t].page}
            /\ Destroy(t, "undo_copy", loc[t].dir)
            /\ UNCHANGED memVars
    /\ UNCHANGED <<taskVars, short>>

CopyDone(t) ==
    /\ At(t, "copy") /\ ToCopy(t) = {}
    /\ ForkEnd(t, loc[t].dir)
    /\ UNCHANGED memVars

-----------------------------------------------------------------------------
(* memory_destory_uvm, one addr_free_page.                                 *)

DestroyStep(t) ==
    LET d     == loc[t].dir
        ready == {k \in loc[t].pos .. LastPos : Victim(d, k) # NULL}
        k     == CHOOSE x \in ready : \A y \in ready : x <= y
    IN  /\ pc[t] \in {"undo_copy", "destroy"} /\ At(t, pc[t])
        /\ addr_free_page(Victim(d, k))
        /\ IF k # LastPos
           THEN /\ Set(t, Space(d, NULL, k + 1, loc[t].child))
                /\ UNCHANGED <<taskVars, pc, leaked, short>>
           ELSE IF pc[t] = "undo_copy"
           THEN ForkEnd(t, BAD)
           ELSE Return(t) /\ UNCHANGED <<taskVars, leaked, short>>
        /\ UNCHANGED <<pde, pte>>

-----------------------------------------------------------------------------
(* memory_alloc_for_page_dir, for the segments of a program or for a heap. *)

\* Without a page it returns 0, which says that all went well.  load_elf_file sets
\* the heap when a segment is done, and the old program may still have to go on.
AllocPage(t) ==
    LET l    == loc[t]
        segs == l.todo
        p    == addr_alloc_page
    IN  /\ At(t, "alloc") /\ segs # <<>>
        /\ IF Head(segs) # <<>> /\ p # NULL
           THEN /\ bitmap' = bitmap \cup {p}
                /\ Set(t, Fill(l.dir, p, segs, l.end, l.lack))
                /\ Go(t, "map")
                /\ UNCHANGED <<heap_start, heap_end>>
           ELSE /\ Set(t, Fill(l.dir, NULL, Tail(segs), l.end, l.lack \/ Head(segs) # <<>>))
                /\ IF l.dir # cr3[t] /\ Len(segs) > 1
                   THEN /\ heap_start' = [heap_start EXCEPT ![t] = HeapStart(loads[t])]
                        /\ heap_end' = [heap_end EXCEPT ![t] = HeapStart(loads[t])]
                   ELSE UNCHANGED <<heap_start, heap_end>>
                /\ UNCHANGED <<bitmap, pc>>
        /\ UNCHANGED <<pde, pte, slot, kstack, cr3, runs, loads, leaked, short>>

\* Without a table, addr_free_page is called with a virtual address, which is
\* outside the bitmap: no page is given back.
MapPage(t) ==
    /\ At(t, "map")
    /\ LET l == loc[t]
           v == Head(Head(l.todo))
       IN  IF CanMap(l.dir, v)
           THEN /\ memory_create_map(l.dir, v, l.page)
                /\ Set(t, Fill(l.dir, NULL, <<Tail(Head(l.todo))>> \o Tail(l.todo), l.end, l.lack))
                /\ Go(t, "alloc")
           ELSE /\ leaked' = leaked \cup {l.page}
                /\ IF l.dir = cr3[t] THEN Return(t) ELSE Destroy(t, "destroy", l.dir)
                /\ UNCHANGED memVars
    /\ UNCHANGED <<taskVars, short>>

\* Mutant: the part of the heap in its last page is not skipped.
SbrkFrom_not_rounded(h) == h - (h % PAGE_SIZE)

\* sys_sbrk: within the last page, or from the next page on.
SbrkFrom(h) == IF h % PAGE_SIZE = 0 THEN h ELSE h + PAGE_SIZE - (h % PAGE_SIZE)

SbrkPages(h, n) == AllocPages(SbrkFrom(h), h + n - SbrkFrom(h))

\* Before an execve neither the first task nor a forked one has a heap in user space,
\* and they do not call this.  With n < 0 it moves the end back and unmaps nothing, but
\* for a page or more of a heap that ends on the border of a page: that is mapped, n
\* taken as unsigned, and not modelled.  The callers give back no more than they got.
sys_sbrk(t, n) ==
    LET h == heap_end[t]
    IN  /\ At(t, "user") /\ h > 0
        /\ n < 0 => (h % PAGE_SIZE # 0 \/ -n < PAGE_SIZE) /\ h + n >= heap_start[t]
        /\ (h + n + PAGE_SIZE - 1) \div PAGE_SIZE - 1 \in VPages
        /\ IF h % PAGE_SIZE # 0 /\ (h % PAGE_SIZE) + n <= PAGE_SIZE
           THEN /\ heap_end' = [heap_end EXCEPT ![t] = h + n]
                /\ UNCHANGED <<pc, loc>>
           ELSE /\ Go(t, "alloc")
                /\ Set(t, Fill(cr3[t], NULL, <<SbrkPages(h, n)>>, h + n, FALSE))
                /\ UNCHANGED heap_end
        /\ UNCHANGED <<memVars, slot, kstack, cr3, progVars, leaked, short>>

SbrkDone(t) ==
    /\ At(t, "alloc") /\ loc[t].todo = <<>> /\ loc[t].dir = cr3[t]
    /\ heap_end' = [heap_end EXCEPT ![t] = loc[t].end]
    /\ short' = [short EXCEPT ![t] = @ \/ loc[t].lack]
    /\ Return(t)
    /\ UNCHANGED <<memVars, slot, kstack, cr3, progVars, leaked>>

-----------------------------------------------------------------------------
(* sys_execve, sys_exit                                                    *)

\* The new directory; without a page for it, nothing happens.
ExecDir(t, p) ==
    /\ At(t, "user")
    /\ addr_alloc_page # NULL
    /\ memory_create_uvm(addr_alloc_page)
    /\ Go(t, "alloc")
    /\ Set(t, Fill(addr_alloc_page, NULL, Segments(p), 0, FALSE))
    /\ loads' = [loads EXCEPT ![t] = p]
    /\ UNCHANGED <<slot, kstack, cr3, heap_start, heap_end, runs, leaked, short>>

\* load_elf_file finds no file, or no ELF header in it.
ExecNoFile(t) ==
    /\ At(t, "alloc") /\ loc[t].dir # cr3[t] /\ loc[t].todo = Segments(loads[t])
    /\ Destroy(t, "destroy", loc[t].dir)
    /\ UNCHANGED <<memVars, taskVars, leaked, short>>

\* Mutant: the old address space is destroyed and stays in cr3.
ExecArgs_cr3_kept(t) ==
    /\ At(t, "alloc") /\ loc[t].dir # cr3[t] /\ loc[t].todo = <<>>
    /\ Destroy(t, "destroy", IF find_pte(loc[t].dir, ARGS) = NULL THEN loc[t].dir ELSE cr3[t])
    /\ UNCHANGED <<memVars, taskVars, leaked, short>>

\* copy_args fails if the page of the arguments, on the stack, is not mapped.
\* Otherwise the new address space is used and the old one destroyed.
ExecArgs(t) ==
    /\ At(t, "alloc") /\ loc[t].dir # cr3[t] /\ loc[t].todo = <<>>
    /\ IF find_pte(loc[t].dir, ARGS) = NULL
       THEN /\ Destroy(t, "destroy", loc[t].dir)
            /\ UNCHANGED <<cr3, short, runs>>
       ELSE /\ cr3' = [cr3 EXCEPT ![t] = loc[t].dir]
            /\ short' = [short EXCEPT ![t] = loc[t].lack]
            /\ runs' = [runs EXCEPT ![t] = loads[t]]
            /\ Destroy(t, "destroy", cr3[t])
    /\ UNCHANGED <<memVars, slot, kstack, heap_start, heap_end, loads, leaked>>

\* Nothing is given back: no parent waits for the task.
sys_exit(t) ==
    /\ At(t, "user")
    /\ slot' = [slot EXCEPT ![t] = "zombie"]
    /\ UNCHANGED <<memVars, kstack, cr3, heap_end, progVars, pc, loc, leaked, short>>

-----------------------------------------------------------------------------
Call(t) ==
    /\ calls < MaxCalls
    /\ calls' = calls + 1
    /\ \/ \E c \in Tasks : ForkStack(t, c)
       \/ \E p \in Programs : ExecDir(t, p)
       \/ \E n \in INCR : sys_sbrk(t, n)
       \/ sys_exit(t)

Step(t) ==
    /\ \/ ForkDir(t) \/ UndoStack(t) \/ UndoUser(t)
       \/ CopyDir(t) \/ CopyPage(t) \/ CopyMap(t) \/ CopyDone(t)
       \/ ExecNoFile(t) \/ ExecArgs(t)
       \/ AllocPage(t) \/ MapPage(t) \/ SbrkDone(t) \/ DestroyStep(t)
    /\ UNCHANGED calls

Next == \E t \in Tasks : Call(t) \/ Step(t)

Spec == Init /\ [][Next]_vars

-----------------------------------------------------------------------------
(* Properties.                                                             *)

TypeOK ==
    /\ bitmap \subseteq Pages /\ leaked \subseteq Pages
    /\ pde \in [Pages -> [0 .. PDE_CNT - 1 -> Pages \cup {NULL}]]
    /\ pte \in [Pages -> [0 .. PTE_CNT - 1 -> Pages \cup {NULL}]]
    /\ slot \in [Tasks -> {"free", "init", "run", "zombie"}]
    /\ kstack \in [Tasks -> Pages \cup {NULL}]
    /\ cr3 \in [Tasks -> Pages \cup {NULL, BAD}]
    /\ {heap_start, heap_end} \subseteq [Tasks -> 0 .. PAGE_SIZE * Cardinality(VPages)]
    /\ {runs, loads} \subseteq [Tasks -> Programs \cup {"first_task"}]

\* Task t works on a directory that is not (any more) its own.
OtherDir(t) == loc[t].dir # NULL /\ loc[t].dir # cr3[t]
From(t)     == IF pc[t] \in {"undo_copy", "destroy"} THEN loc[t].pos ELSE 0

DirUses(tag, t, d, from) ==
    {<<tag, t, k, Victim(d, k)>> : k \in {x \in from .. LastPos : Victim(d, x) # NULL}}

\* Every place a page is used in: kernel stacks, directories, tables, mapped pages,
\* and a page that was allocated and is not mapped yet.
Uses ==
    {<<"stack", t, 0, kstack[t]>> : t \in {u \in Tasks : kstack[u] # NULL}}
    \cup {<<"page", t, 0, loc[t].page>> : t \in {u \in Tasks : loc[u].page # NULL}}
    \cup (UNION {DirUses("cr3", t, cr3[t], 0) : t \in {u \in Tasks : cr3[u] \in Pages}})
    \cup (UNION {DirUses("dir", t, loc[t].dir, From(t)) : t \in {u \in Tasks : OtherDir(u)}})

Used == {u[4] : u \in Uses}

\* No page is used in two places, by two tasks or twice by one, however their
\* system calls are interleaved, whichever of their allocations fails, and while
\* an address space is taken apart.
PagesUsedOnce == \A u, w \in Uses : u[4] = w[4] => u = w

\* Every page that is used is marked allocated, so that it cannot be handed out
\* again, and every page that is marked is used, or was lost where leaked says:
\* the first directory of a forked task, a page for which there was no table, a
\* page whose table entry was overwritten.
AllAccountedFor == bitmap = Used \cup leaked /\ Used \cap leaked = {}

\* The heap of t is that of the program it runs, behind a segment from the border of a page.
HeapFollows(t) ==
    /\ heap_start[t] = HeapStart(runs[t])
    /\ runs[t] \in Programs => FILE[runs[t]].vaddr % PAGE_SIZE = 0

\* A task in user mode that was never let run short of pages has the pages of the program
\* it runs, and those of its heap.  The one page that may be missing is the one the heap
\* starts in, and only if the segment before it does not start at the border of a page, or
\* after an execve that failed when a segment was loaded, which leaves the old program with
\* the heap of one that is not there.
ImageBacked ==
    \A t \in Tasks :
        At(t, "user") /\ ~short[t] =>
            /\ Image(runs[t]) \subseteq Mapped(cr3[t])
            /\ \A v \in VPages :
                  v * PAGE_SIZE < heap_end[t] /\ (v + 1) * PAGE_SIZE > heap_start[t] =>
                      \/ v \in Mapped(cr3[t])
                      \/ v * PAGE_SIZE < heap_start[t] /\ ~HeapFollows(t)

\* No step takes a mapped page from an address space in use, or puts another one
\* in its place: but for the stack page of a task whose fork found no page for the
\* directory, and for a sys_sbrk over pages mapped beyond the end of the heap, where
\* a failed sys_sbrk, a failed execve or one with n < 0 left them.
MappingsKept ==
    [][\A t \in Tasks :
          slot[t] = "run" /\ cr3[t] \in Pages /\ cr3'[t] = cr3[t] =>
              \A v \in Mapped(cr3[t]) :
                  \/ find_pte(cr3[t], v)' = find_pte(cr3[t], v)
                  \/ pc[t] = "undo_user" /\ v = ESP[runs[t]]
                  \/ pc[t] = "map" /\ ~OtherDir(t) /\ v * PAGE_SIZE >= heap_end[t]]_vars

\* A child that is started with an address space has the pages of its parent.
ForkCopies ==
    [][\A t \in Tasks : \A c \in {loc[t].child} \ {NULL} :
          slot[c] = "init" /\ slot'[c] = "run" /\ cr3'[c] # BAD =>
              Mapped(cr3[c])' = Mapped(cr3[t])]_vars

=============================================================================
