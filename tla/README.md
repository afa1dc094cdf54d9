# TLA+ specifications of the dmos kernel

dmos is a small 32-bit x86 operating system: a boot sector and loader, a kernel
with preemptive multitasking, paging, terminals and a minimal file layer, and a
shell. This directory models the kernel's own logic, which is in `src/src/kernel`.
Paths below are relative to that directory.

## The system

| part | state | operations | used by |
|---|---|---|---|
| lists (`lib/list.c`) | `first`, `last`, `count` of a list, `pre`, `next` of a node | insert first/last, delete first, delete a node | everything below |
| scheduler (`task.c`, `dev/mtime.c`) | `g_task_manager`: current task, ready list, sleep list; per task state, slice and sleep counters | start, yield, sleep, exit, block, make ready, dispatch, timer tick | system calls, semaphores, mutexes, the timer interrupt |
| semaphores (`sem.c`) | count, wait list | wait, notify | terminal (also from the keyboard interrupt) |
| mutexes (`mutex.c`) | owner, depth, wait list | lock, unlock | console, log, task table, page allocator, file table |
| terminal (`dev/tty/tty.c`) | two ring buffers and two semaphores per terminal | open, write, read, `tty_in` from the keyboard | file layer, `klog` |
| console (`dev/tty/console.c`) | display memory, cursor, escape state, mutex, the display's registers | drain the terminal's output buffer, select | terminal, keyboard |
| keyboard (`dev/tty/kbd.c`) | prefix state, modifiers, CapsLock | scan code interrupt | terminal |
| log (`log.c`) | mutex | `klog` | whole kernel |
| task creation (`task.c`, `gdt.c`) | task table, descriptor table, TSS | `alloc_task`, `task_init`, `sys_fork`, `task_uninit` | system calls |
| program loader (`task.c`) | page directory, heap bounds of the caller | `sys_execve`, ELF loading | system calls |
| memory (`mem.c`, `lib/bitmap.c`) | page bitmap, page directories | map, copy, destroy address spaces, pages, `sys_sbrk` | task creation, loader |
| files and devices (`fs/`, `dev/dev.c`) | file table, reference counts, per task descriptors, device table | open, read, write, seek, close, dup | system calls, `klog` |
| kernel library (`lib/klib.c`) | none | strings, memory, numbers, formats | everything |
| interrupts, system calls (`irq.c`, `syscall.c`, `kernel.S`) | interrupt flag, tables | protected sections, dispatch of calls | everything |

There is one CPU. A critical section is a protected section: it runs with the
interrupt flag off (`irq_enter_proection` ... `irq_leave_proection`, or an
interrupt gate). Everything else, the code of the system calls included, can be
preempted by the timer between any two instructions. Interrupt handlers take part
in the same data: the timer moves tasks between lists, the keyboard puts
characters into a terminal's buffer and notifies its semaphore.

What is hard here, and where it bites, is the list `hazards` of `PROJECT.json`:
a context switch in the middle of the timer handler, nodes shared by lists,
direct hand over of semaphores and mutexes, tests of a buffer's count outside the
protected section, mutexes held while waiting, counters that must hit zero
exactly, slots and descriptors that are found but not reserved, operations of
several steps of which one fails.

## Modules

* `ListOps`: the operations of `list.c` on the *value* of a list, a sequence.
  `Sched` and `Sync` are written with them.
* `KList`: `list.c` field by field, with two or more lists sharing their nodes and
  a history variable `val` that follows `ListOps`. Its invariant `Linked` is the
  refinement: the fields are those of the sequence.
* `Sched`: the scheduler. One action per operation; the timer handler is three
  actions (`task_time_tick` up to the forced switch, `TickScan` one turn of the
  loop over the sleep list, `TickDone` the final dispatch and the return) because
  the forced switch at `task.c:303` leaves the handler in its middle.
  `handler[t]` is the rest of the handler on t's kernel stack. While the current
  task is in the handler nothing else can happen, since the interrupts are off.
  `WaitCurr` and `WakeTask` are the halves of the semaphore and mutex operations
  that belong to the scheduler; `waiting` stands for all wait lists together.
* `Sync`: semaphores and mutexes, extending `Sched`. `SchedSpec` says that it
  implements `Sched`. A task makes a system call with no mutex held, nests
  mutexes in the order `Rank` (log, then console) and waits for a semaphore only
  with a mutex of `HeldOverWait` held, as `klog` does.
* `Tty`: one terminal used by several tasks and the keyboard. Each step is one
  protected section or one unprotected access to shared data, and which task
  steps next is left open; this covers every schedule of `Sched`. Two characters
  differ in their sender and in whether they are `\n`, `\r` or something else.
  `tty_read` of an empty buffer yields any character: the code then uses an
  uninitialised variable.
* `Vm`: physical pages and address spaces, with `sys_fork`, `sys_execve`,
  `sys_sbrk` and `sys_exit` as their users. A step makes at most one call of the
  page allocator, whose mutex makes it atomic; between two steps any other task may
  allocate and free. Directories and tables are the contents of pages (`pde`,
  `pte`), and a freed page keeps its contents until it is used again, so an access
  after the free would be seen. `leaked` lists the pages the code loses, `short`
  the tasks it lets run with pages missing. The first task has an image of its own
  (`FirstPages`), and execve loads one of `Programs` (`FILE` has the header it reads
  of each); `runs` is the program a task runs and `loads` the one it last tried to
  load, whose heap it then has. Only the user half of a directory is
  modelled: the first task's heap starts at an address of the kernel
  (`e_first_task`, `task.c:195`), so it has none here; it never calls `sys_sbrk`.
  Task slots are assumed to be distinct.
* `Files`: descriptors, the file table and the device table. `asked` remembers
  what a descriptor was opened for, `lost` the descriptors of exited tasks.
  `sys_read_dev` and `sys_write_dev` are the device a read or a write goes to, none
  for a read of `TEMP_FILE_ID`, which goes to the program buffer.
* `Sheet`: what a console promises, in terms of a sheet of paper: commands (print,
  feed, rub, goto, wipe ...) on a text that only grows. It has no display memory,
  no scrolling and no escape sequences.
* `Console`: `console.c` in full, over one display memory that holds all consoles,
  with the registers of the display. `ShowsPaper` says that each console implements
  a `Sheet`: the text is what has scrolled off (`gone`) and what is on the screen.
  The command of a step is named by `CommandOf` from the numbers read so far (`args`),
  which grow with every `;` and know nothing of the code's parameter array. The update
  of the cursor, which follows the release of the mutex, is two steps. What a digit or character beyond the
  bounds of array or screen overwrites is modelled as far as it is in the console
  (`curr_param_index`, another console's cells); after it `wild` is set, and
  the sheet may be torn.
* `Kbd`: the keyboard interrupt, byte by byte, against a user who presses and
  releases keys; the bytes of several keys may wait in the controller. The
  keyboard's byte sequences are external, and so is what a user means by a key
  (`Meant`), which does not look at the driver's table; `text` has each key typed with
  the Shift and CapsLock in effect. `misled` is set by the two things a user may do
  that the driver takes for others: to keep CapsLock down, which repeats, and to
  release a function key, with Ctrl down, after choosing another terminal. With it,
  the choice of the terminal, its opening, and readers, who wait (`waiting`), have a
  unit and not yet a character (`holding`) or are not there; `overrun` says that a
  character was counted and not stored.
* `Screen`: `Kbd` and `Console` composed over what they share, `curr_tty` and the
  terminals that are open (`Terminals`). An interrupt that selects another terminal shows it, at
  any point of a task's `console_write`; `tty_open` sets up the buffers and the
  console in one step.
* `Fork`: the task table and the descriptor table during `sys_fork`, `sys_execve`
  and `sys_exit`. Each lookup is a step, since the mutex makes it atomic, and what
  the code does with the entry it found is another. `raced` says that a fork began
  while another one had found its slot and not named it.
* `Load`: `load_elf_file` over the one file buffer and the one position. A file is
  a sequence of units, an ELF header, program headers and pages; a unit read in the
  wrong place is taken for whatever it may look like. `disturbed` says that another
  task moved the position during a load; `Segments` are the headers that are to be
  loaded.
* `KLib`: the string and number algorithms, as operators. `Fork` uses them for the
  names of tasks.
* `MCSched`, `MCSync`, `MCTty`, `MCKList`, `MCVm`, `MCFiles`, `MCConsole`, `MCScreen`,
  `MCFork`, `MCLoad`: instances for TLC. `MCKLib` calls each operator of `KLib`
  with all its arguments and holds the reference definitions.
* `SyncProofs` (of `Sched` and `Sync`), `KListProofs`, `LoadProofs`, `TtyProofs`,
  `FilesProofs`, `ForkProofs`, `VmProofs`, `ScreenProofs` (of `Kbd`, `Console` and
  `Screen`): theorems, for every value of the constants.

Definitions whose comment begins with "Mutant" are not part of the model. Each
is a plausible mistake in the operation defined after it, and is listed in
`PROJECT.json` with the property that rejects it.

## Runs

| run | instance | shows |
|---|---|---|
| `sched` | 3 tasks, slice 2, sleeps of 1 or 2 ticks | types; `SafetyInv`: a task is on one list at a time and once (`OneList`), the current task is the first ready one (`CurrIsHead`), counters never pass zero (`CountersPositive`), task states agree with the lists (`StateMatchesLists`), a put-off scan is not lost (`PutOffScanReady`); no task falls off all lists (`NoLostTask`); round robin (`NoOvertaking`); no preemption but at the end of a slice (`NoEarlyPreemption`); every ready task runs (`ReadyTaskRuns`), every sleeper wakes up (`SleeperWakes`) |
| `sync` | 3 tasks, 1 semaphore, 2 mutexes, slice 1, depth 2, sleeps of half a tick or one | refinement of `Sched` (`SchedSpec`); one wait list per task (`OneWaitList`); no unit or mutex is free while a task waits for it (`NoUnitUnused`); an owner can always come to its unlock (`OwnerCanRelease`); `FirstComeFirstServed`; a waiter gets the mutex, and passes the semaphore if it is notified again and again (`WaitersServed`); a task that sleeps less than a tick never comes back, as after `sys_exit` (`GoneForGood`; `NoLostTask` does not hold here) |
| `tty_output` | 1 writer and 2 loggers, buffer of 4, messages that need 3 places each | room is accounted for (`OutputRoom`), output is a queue (`OutputInOrder`), a returned write is displayed (`WrittenIsShown`), log lines are not mixed (`LogLinesWhole`), every write returns (`WriteReturns`) |
| `tty_input` | 2 readers, buffer of 2, 4 keys | what `isem` counts (`InputUnits`), typed characters arrive in order while no put has failed (`InputInOrder`) |
| `klist` | 2 lists, 4 nodes | the fields are those of the sequences, and a node on no list has no links (`Linked`) |
| `vm` | 2 tasks, 14 pages, 4 calls, a first task and two programs, a heap that grows and shrinks | no page is used twice (`PagesUsedOnce`); used pages are marked, marked pages are used or known to be lost (`AllAccountedFor`); a forked task has all pages of its parent (`ForkCopies`); mappings in use are left alone (`MappingsKept`); a task that was not let run short has its program and heap mapped, a failed execve or not, but for one page it names (`ImageBacked`) |
| `files` | 3 tasks, 3 files, 3 descriptors of which the last has the program file's number, 2 devices | counts of files are exact and no file is shared (`FilesAccounted`); descriptors lead where they were opened to (`LeadsToTerminal`); a terminal in use is counted and not set up again (`DevicesCounted`) |
| `console` | 2 consoles of 2 by 2 cells, 5 characters of a shell and a line feed of the log, a user who opens and selects | each console is a `Sheet` (`ShowsPaper`); the cursor shown is that of the console that moved it last (`CursorShown`) |
| `kbd` | keyboard and consoles together: 9 keys, 4 events, 6 bytes waiting, 2 terminals with a buffer of one character, 2 readers, a writer on the second | modifiers, CapsLock, terminal and characters are what the user meant, but for the wrong characters `Mistyped` names (`KeysUnderstood`); an open terminal has a unit, counted or in a reader's hands, for each character it stores (`UnitsOfOpen`) |
| `fork` | first task and 3 slots, 3 descriptors, 5 calls | slots are not shared (`SlotsApart`), selectors lead to their own task and none is lost (`SelectorsOwn`) |
| `load` | 2 tasks, 2 loads, a program of two headers of which the first is to be loaded | an undisturbed load is complete (`LoadedAlone`), a disturbed one fails or has the real entry (`EntryReal`) |
| `klib` | strings of up to 4 characters, 18 numbers | copying, comparing, file names (`StringsRight`), numerals and formats (`NumbersRight`) |

What the runs showed about the code, beyond the properties that hold:

* `sys_sleep` of less than `OS_TICK_MS` loses its caller: it is taken off the
  ready list at `task.c:328`, and `task_set_sleep` returns without inserting it
  anywhere. `NoLostTask` needs `SleepsWholeTicks`.
* `tty_in` compares the buffer size with the count of `isem`, which is smaller
  than the number of characters in the buffer while a reader is between
  `sem_wait` and `tty_fifo_get`. The put then fails, the character is dropped and
  the semaphore is notified all the same; a reader later stores an uninitialised
  character. `overrun` counts these units; `InputInOrder` holds without them.
* `tty_write` of `\n` takes a unit for `\r` and one for `\n` before it drains.
  If `OBUF_SIZE` were not larger than the number of writers, all of them could
  hold a `\r` and wait for ever. `BufferAssumption` states what the code has: 512
  places, at most 130 tasks.
* The count in `task_time_tick`'s test, `&g_task_manager.ready_list.count > 0`,
  is an address and always true, so the test is left out of the model.
* Memory is lost in places the runs of `Vm` enumerate (`leaked`): each fork loses
  the directory that `tss_init` made, which `memory_copy_uvm`'s replaces
  (`task.c:432`); a page for which no table can be allocated is "freed" by its
  virtual address (`mem.c:224`); a mapping over one that exists loses the old page
  (`mem.c:122`), which happens on every execve of a program with more than one
  header, since `e_phoff` is not advanced (`task.c:510`). Nothing else is lost,
  and nothing is freed too early.
* Out of memory, `memory_alloc_for_page_dir` returns 0, which is success
  (`mem.c:218`): execve and sbrk go on with pages missing (`short`). A fork that
  cannot copy starts its child with a directory at 0xFFFFFFFF, because -1 is
  compared as an unsigned number (`task.c:432`). A fork that gets no directory
  frees the page below the *caller's* user stack pointer (`task.c:388`).
* A failed execve leaves the old program with the heap end of the new one
  (`task.c:529`). The next sbrk maps over the heap that is still mapped, or leaves the
  page the heap starts in without one, since it belongs to the program that was not
  loaded. A segment that does not start on the border of a page has the same effect
  without a failure: its pages are counted from its size alone (`mem.c:211`). These are
  the cases `ImageBacked` exempts, and only for that page (`HeapFollows`).
* `sys_sbrk` accepts a negative argument (the assertion is commented out). The pages
  behind the new end stay mapped, and the next growth maps over them and loses them.
* Two forks can get the same slot: one that calls `alloc_task` after another one has,
  and before that one has copied the name (`task.c:365` to `task.c:108`, with page
  allocations in between), or while a failed one is cleared. The same goes for the
  descriptor. `SlotsApart` and `SelectorsOwn` hold without such a start (`raced`):
  a fork that starts later is harmless, however the two are interleaved.
* `sys_execve` of a path that ends in a separator gives the caller an empty name:
  its slot, while it runs, is free for the next fork (`task.c:575`). `emptied`
  excludes it.
* Two loads at once read from each other's positions. The check of the magic number
  keeps a wrong header from being used, so a load that succeeds starts at the
  program's entry, but its pages may be wrong. Only the first program header is ever
  loaded, `e_phnum` times: a program with further segments lacks them. `LoadedAlone`
  says that nothing else is loaded than what the headers name, and that a program is
  complete if it has one segment.
* `move_cursor` does not check row and column, and a digit after
  `ESC_PARAM_MAX` separators overwrites `curr_param_index` (`console.c:244`,
  `console.c:320`). Everything else on a console is as on paper.
* The cursor can be left where it was before the last character, if a second task
  wrote between `mutex_unlock` and the protected section of `update_cursor_pos`. A
  write to a console that is not shown moves the visible cursor to that console.
* Shift and S type a B (`map_table`, `kbd.c:39`). Pause, of which a comment says that
  it is not handled (`kbd.c:232`), types a NUL by the byte that follows its prefix and
  Ctrl; so do Esc and the other keys without an entry. `Mistyped` names these, and
  `KeysUnderstood` admits no others. A function key selects its terminal on release
  too, and CapsLock kept down turns over with each repetition (`misled`).
* Characters typed to a terminal that was selected and never opened are counted and
  not stored; `tty_open` forgets them.
* `k_strncpy` cuts the last character of a string of `size - 1` and writes behind the
  buffer for longer ones; task names are shorter. `k_strncmp` does not count. `k_itoa`
  in base 16 is wrong for negative numbers, that is for addresses from 0x80000000 on.
* `sys_read` reads from descriptor 0 whatever it is given, but for 12
  (`TEMP_FILE_ID`), which stands for the program file: `sys_open` of a path gives it
  out without taking a place in the task's table, so that a task's thirteenth
  descriptor, opened for a terminal, has the same number; its reads then copy from the
  program buffer and move the position of a load. `LeadsToTerminal` says of reads that
  any other descriptor leads to the terminal of descriptor 0, and that a task with a
  descriptor has one there.
* `sys_close` does nothing and `sys_exit` drops only descriptors: files and device
  counts never go down. `dev_close` has no caller.

### Bounds

Three tasks are enough for a running task, one ahead of another on a list, and one
that joins; longer lists repeat the same steps, and the theorems about `Sched`
and `Sync` hold for any number. A slice of 2 has a tick with and a tick without a
switch. Sleeps of 1 and 2 ticks have a scan that wakes and one that passes
over, in both orders on one list. `MaxCount` and `MaxDepth` bound the counters of
a semaphore and a mutex; the code has no bound but the integer's. Ring buffers of
2 and 4 wrap around in every run, and are too small for what is written.
`MaxKeys` bounds the keys accepted. Messages have one or two characters, with
`\n` in each, because the pair `\r` `\n` is the hard case.

`MaxCalls` bounds the system calls of a `Vm` run. Four are enough for an execve, a heap
that grows, an execve of the other program that fails and a heap that grows after it,
or for a fork and an execve in each task; with 14 pages
a second program can be built beside the first but not a third, and each kind of
allocation fails in some behaviour. A table has two entries, so a program, its heap
and its stack need more than one. The program a has two headers, so its segment is
loaded twice; that of b starts in the middle of a page. When all tasks have exited or the calls are used
up the run ends: the `Vm` run does not check deadlock, and neither do the runs of
`Fork`, `Load`, `Screen` and `Console`, which end when their bounds are used up.
`Files` needs no bound,
because nothing is ever given back; its tables are too small, so each allocation
fails in some behaviour, and it ends when all tasks have exited.

The buffers' quiescent states, with everything written and no key left, are
final: the Tty runs do not check deadlock, `WriteReturns` says what matters of it.

`Console`: five characters are the longest sequence that matters, a number with a
prefix and a command, or two separators too many for an array of two
(`ESC_PARAM_MAX`); a screen of two rows and columns wraps, scrolls and is left on
every side within them, and one character of a second task is enough to come between
the first one's and its cursor. `Screen`: the longest key sends six bytes
(`MaxWire`), and four events (`MaxEvents`) hold Ctrl, a function key, and a key
interleaved with the bytes of Pause; two readers (`MaxReaders`) are one that waits
and one that has a unit, and a buffer of one is full at once; the writer's one character has an interrupt
between each two of its steps. `Fork`: three slots and five calls let two forks overlap
while a third has failed or an execve has renamed a parent. `Load`: two loads
(`MaxLoads`), by two tasks or by one after the other; a third repeats them.

### Fairness

`Sched`: the timer keeps interrupting a task that runs with the interrupts on, and
an interrupt handler runs to its end. Nothing is assumed of the tasks, which may
compute for ever. `Sync` adds that an owner of a mutex that gets the CPU again and
again comes to its `mutex_unlock` (strong fairness, since it is interrupted), and,
locks being nested to a fixed depth, to the one that gives the mutex away: the
code between lock and unlock is finite. Notifying a semaphore is not assumed;
`WaitersServed` has it as its premise. `Tty`: a task that is not blocked goes
on, which is what `ReadyTaskRuns` of `Sched` gives; nobody has to call or type.

## Proofs

All theorems hold for every value of the constants that the named assumptions of
the modules allow. Each proof has an inductive invariant, which TLC checked on the
instance of the component's run before it was proved, a lemma per action that the
action keeps it, and a last step that draws the property from it.

`SyncProofs`, about `Sched`, for every set of tasks, slice, tick length and set of sleep
times:

* `TypeCorrect`: `Spec => []TypeOK`;
* `SchedulerSafe`: `Spec => []SafetyInv`, that is `OneList`, `CurrIsHead`,
  `CountersPositive`, `StateMatchesLists`, `PutOffScanReady` and `ScanInBounds`;
* `NoTaskLost`: `SleepsWholeTicks => (Spec => []NoLostTask)`;
* `RoundRobin`, `PreemptedInTurn`, `ExitIsFinal`: the action properties
  `NoOvertaking`, `NoEarlyPreemption` and `GoneForGood`.

The inductive invariant is the type invariant with `SafetyInv`. None of its parts
is inductive alone: `list_delete` on the ready list is harmless only if the
current task is on it, once (`CurrIsHead`, `OneList`); a task woken by the scan
is inserted into the ready list, so it must not be there (`OneList`), and stays
off zero only because every sleeper has a tick left (`CountersPositive`); that
the idle task may be current with a task ready holds only inside its handler, and
`TickDone` ends that state by its dispatch. The list operations are used through the
lemmas at the start of `SyncProofs`, which say how they change the members, the order and the
head of a list. The action properties follow from the same invariant, step by step:
that a list has a task once is what makes "before" on it an order.

`SyncProofs`, about `Sync`, for any number of semaphores and mutexes:

* `SyncImplementsSched`: `SyncSpec => SchedSpec`;
* `WaitListsSound`: `SyncSpec => []OneWaitList`;
* `NoUnitLeftUnused`: `SyncSpec => []NoUnitUnused`;
* `OwnersCanRelease`: `SyncSpec => []OwnerCanRelease`;
* `InTurn`: the action property `FirstComeFirstServed`.

The refinement makes `SchedulerSafe` available to `Sync`: that the caller is not
waiting already, so that its `wait_node` is free, is `OneList` and `CurrIsHead`.

`KListProofs`: `ListsLinked`, `Spec => []Linked`, for any number of lists and nodes.
With it the sequences that `Sched`, `Sync` and `Tty` use stand for the linked lists.

`LoadProofs`, for every program file that begins with an ELF header with at least
one program header in the file (`FileAssumption`):

* `RealEntries`: `Spec => []EntryReal`;
* `AloneLoads`: `Spec => []LoadedAlone`: what an undisturbed load of a file whose first
  header is to be loaded leaves is what headers put there, and it is complete if that
  header is the only one of its kind. Nothing is stated of disturbed loads here, and of
  programs with more segments not that they are complete, which they are not. The
  invariant follows the position of the
  one undisturbed load through each of its reads. With `e_phnum = 0` nothing is
  loaded and the load succeeds: the property is false there, hence the assumption.

`TtyProofs`, for any number of readers, writers and loggers, any messages, and any
buffer sizes with more places for output than users (`BufferAssumption`):

* `OutputHasRoom` and `InputIsCounted`: `OutputRoom` and `InputUnits`. The invariant
  (`UnitsOK`) counts units in a semaphore and in the hands of tasks between
  `sem_wait` and `tty_fifo_put` or `tty_fifo_get`;
* `InputIsInOrder` and `OutputIsInOrder`: `InputInOrder` and `OutputInOrder`. The
  ring buffer is shown to be a queue (`RingOK`): its places from `read` on, taken
  modulo the size, are the contents, which needs the counts above, since the code
  trusts the semaphore and does not look at the buffer. A drained character is in
  one task's hands at most, because it holds the console's mutex (`ConsoleOK`);
* `LogIsWhole`: `LogLinesWhole`. What a logger has put (`LinesOK`) is behind every
  other logger's line as long as it holds the log's mutex, and on the display or
  behind it in the buffer by the time it gives the mutex away;
* `WrittenIsDisplayed`: `WrittenIsShown`. `WrittenOK` follows a task through its message:
  what was put has its first characters in line (`Has`), or these and the `\r` of the next
  one (`Half`), and `todo` and `pend` hold the rest. The test of the buffer, which could end
  the write early, never does, by `OutputRoom`. `ShownOK`: what a task has put is on the
  display once its drain has found the buffer empty, since then nothing is in any hand.

`FilesProofs`, for any number of tasks and any sizes of the three tables:

* `TerminalReached`: `Spec => []LeadsToTerminal`;
* `FilesCounted`: `Spec => []FilesAccounted`;
* `DevicesOpenOnce`: `Spec => []DevicesCounted`.

The invariant `FilesOK` says who holds a file (`OwnOK`): one task at most, but for a
descriptor whose open failed and which is about to be removed; after `file_free` and
before `task_remove_fd` another task may have the file already. Without that
exception it is false, and without ownership a later open could change the device of
a file in use, so `LeadsToTerminal` is not inductive alone. The counts are equations
between numbers of descriptors, of files without a descriptor yet and of descriptors
not counted yet (`CountOK`, `DeviceOK`); each step changes each of these sets by one
element at most (`SizeMoves`), and `sys_exit` by the descriptors it drops.
`RowsOK` is what reads need: descriptors are given out from 0 on and go back from the
last, so a task that has any has descriptor 0, also while the last one it opened is
about to be removed.

`VmProofs`, for any number of tasks and pages, tables of any size, any program and
any arguments of `sys_sbrk`:

* `UsedOnce`: `Spec => []PagesUsedOnce`;
* `AccountedFor`: `Spec => []AllAccountedFor`;
* `AddressesKept`: `Spec => MappingsKept`;
* `ChildHasPages`: `Spec => ForkCopies`;
* `ProgramsBacked`: `Spec => []ImageBacked`.

The invariant `VmOK` gives every page its place: the kernel stack of a task, the page
a task holds between allocating and mapping it, or a position of the directory it
runs on ("cr3") or of the one it builds or takes apart ("dir"), counted in the order
in which `memory_destory_uvm` frees them. `PlacesOK` says that no page is in two
places and that the pages in places are the marked ones that are not lost. It is not
inductive alone. Which variables a task has where it is (`TasksOK`), that a forked slot
has one parent (`ChildOK`), and that its first directory has no tables (`EmptyOK`),
since `sys_fork` drops that directory and frees nothing of it, make it so. Each step
changes one place, exchanges two directories or
writes one page; that the other places keep their pages is because a directory or
table is only written by the task in whose place it is (`TreeUntouched`), which is
where `PagesUsedOnce` is needed for its own preservation. While an address space is
taken apart, the positions before the current one are empty, and the tables of those
ahead have not been freed yet: a table's own position comes after those of its pages.
In the first state, pages are numbered by rank, and a counting argument shows that
every one has one place (`RankOnto`).

The other three add to `VmOK` what a system call under way has done so far. `HeapOK`:
the pages `sys_sbrk` is still to map lie behind the heap end, so that mapping one can
only replace a page left there, the exception that `MappingsKept` names. `CopyOK`:
the directory that `memory_copy_uvm` fills has a page where its parent has one below the
current position and none from there on, so at the end it has them all. `ImageOK`: of
a task that was not let run short, every page of the program it runs and every page from
`heap_start` to the heap end is mapped (`Needs`), except those still on the list of the
call that maps them, and the directory an execve builds has the pages of the program it
loads, or they are on its list. During `sys_sbrk` the heap end is the one the call is
about to set; once an execve has set the heap, it is empty, which is all that a
program leaves whose load fails. All three
need that a step of one task leaves the mappings in the directories of the others as
they are, which is `PagesUsedOnce` again: tables are not shared.

`ForkProofs`, for task and descriptor tables of any size, any names and any number of
calls:

* `ForksApart`: `Spec => []SlotsApart`;
* `OwnDescriptors`: `Spec => []SelectorsOwn`.

Both are conditional on the histories `raced` and `emptied`, so the invariant `ForkInv` is
what always holds (`Shape`) and what holds until one of the two is set (`Tables`). It
says of each line of `sys_fork` what is in the slot and in the descriptor the fork
works on (`ForksOK`), that at most one fork has an unnamed slot (`Alone`), that a slot
no one works on is empty (`UnusedOK`), and that each descriptor in use is that of one
slot (`DescsOK`). `SlotsApart` alone says nothing of the names, by which `alloc_task`
tells whether a slot is free. That `gdt_alloc_desc` finds a descriptor is a
counting argument: no slot has two (`OneEach`), the slot of the fork has none yet, and
there are as many as slots (`DescLeft`). Names need that what `k_strncpy` leaves of
a name is not empty (`NamedProper`).

`ScreenProofs`, for any keys, terminals, sizes of the display and writers:

* `KeysAreUnderstood` and `UnitsAreOfOpen`: `KeysUnderstood` and `UnitsOfOpen` of `Kbd`;
* `CursorIsShown`: `CursorShown` of `Console`;
* `ConsolesArePaper`: `ConsoleSpec => ShowsPaper`, `Console` implements `Sheet`;
* `ScreenImplements`: `ScreenSpec => Spec /\ ConsoleSpec`, so what is proved of keyboard and
  console holds of the two together;
* `ChosenTerminalIsShown`: `ScreenSpec => []ChosenIsShown`, when the bytes sent are handled
  the screen shown is that of the terminal the user chose.

`KeysUnderstood` speaks of the states in which no byte waits, so it is not inductive.
`WireInv` says of all states that the driver's state (`Driver`), taken through the waiting
bytes one by one by `After`, ends in one that expresses what the user did (`Leads`): a run
of states is the witness, one longer than the wire. An interrupt drops its first state, a key appends
one per byte it sends, and there is a lemma for each kind of key that its bytes do to a
driver's state what the key means. `GotBy` is what the driver types for the keys of
`text`; that it is what they mean, or one of the characters `Mistyped` names, is a
separate step, over the entries that exist. `UnitsInv` adds to `UnitsOfOpen` that a
terminal that is not open has no readers, so that `tty_open` may set its count. `CursorInv`
says that the cursor is at its place or a task is still on its way to moving it, and of
a task that has read its position and not written the registers, that the console has
not moved since unless it is `stale`; and that only open consoles are written to.
`BytesInv`, needed for `ScreenImplements`, says that the function keys on their way name
terminals that exist.

`ConsolesArePaper` needs `PaperInv`: until `wild` is set, each console lies in its own
area of the display memory, its cursor and its saved cursor are on the screen, what has
left the screen is a number of whole rows (`Sound`), and during an escape sequence the
parameter array holds the numbers a reader has seen, zeros behind them (`Spelled`). The
argument has three layers. Lemmas about cells say what writing one, scrolling by a row
and erasing do to the paper, which is the cells gone followed by the cells of the area
(`PaperPut`, `PaperScrolled`, `PaperWiped`): copying the rows up and erasing the last
one adds a blank row at the paper's end. On these rest the operations of `console.c`,
each of which moves the cursor to a place on a paper and leaves the rest of the memory
alone (`Moves`, `Within`). `WrittenCarries` puts them together: a character takes a console to where
the command it completes takes its sheet (`Carries`). Since areas do not overlap
(`AreasApart`), the other sheets stay as they are.

Assumed of the constants, besides that sizes are positive: `Tasks` of `Files` and the
users of a terminal are finite, which the task table makes them; the first program
task fits into memory (`FitAssumption` of `Vm`), programs and stack into user space
(`SpaceAssumption`), and a program has a header to load, of at least one byte
(`ProgramAssumption`); `TEMP_FILE_ID` is not 0 (`TempAssumption`: it is 12), but may be
the number of another descriptor; for `Fork`, that there is a descriptor for each slot beside the reserved
ones (`GdtAssumption`: 256, for 128 slots and 8) and that names fit (`NameAssumption`);
for `Kbd`, that the function keys pressed have a terminal (`FKeysAssumption`: F1 to F8,
for 8 terminals); for `Console`, that the display
memory of all consoles fits the 16 bits of the display's registers (`SizeAssumption`:
8 times 80 by 25), and that a terminal has a console (`ScreenAssumption`).

Only model-checked, and why:

* liveness (`ReadyTaskRuns`, `SleeperWakes`, `WaitersServed`, `WriteReturns`): the
  prover has no fairness and no `ENABLED`;
* `StringsRight` and `NumbersRight`: they are about what recursive functions compute on
  strings, which takes induction over data.

## Plan

* An abstract specification of page ownership (allocate, hand over, free) that
  `Vm` implements, and one of a queue with back pressure that `Tty` implements.

## Not modelled

* A negative `sys_sbrk` of a page or more at a heap end on a page boundary, which maps
  the whole address space as an unsigned size; `sys_sbrk` of a task without a heap, over the
  kernel's pages.
* The set-up of the kernel's own mappings, allocations of several pages at once and
  `dev_close`, which the kernel does not use.
* The program arguments that `copy_args` puts on the stack, and the register frames:
  data. An execve of a terminal's name, which reads the program from the keyboard.
* The 128 bytes of `klog`'s buffer, which a longer line overruns.
* `k_memcmp`, which has no caller; `k_memset` and `strings_count`, plain loops.
* The boot sector and loader (straight-line hardware set-up), the interrupt
  descriptor tables (data layout; their effect, that handlers run with the
  interrupts off, is the atomicity of the actions), port I/O, the user programs,
  which are clients of the system calls, and the vendored newlib, which is most of
  the repository's lines.
