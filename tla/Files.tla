------------------------------- MODULE Files --------------------------------
(***************************************************************************)
(* Descriptors, files and devices: sys_open of a terminal, sys_dup and     *)
(* sys_close (fs/fs.c), the file table (fs/file.c), the device table       *)
(* (dev/dev.c), the descriptors of a task and sys_exit (task.c).           *)
(*                                                                         *)
(* file_alloc and file_free hold a mutex and dev_open is a protected       *)
(* section; sys_open is preempted between them.  sys_close does nothing,   *)
(* and sys_exit drops the descriptors only.                                *)
(***************************************************************************)
EXTENDS Integers, FiniteSets, FiniteSetsExt

CONSTANTS
    Tasks, NULL,
    FILE_TABLE_SIZE, TASK_OFILE_NR, DEV_TABLE_SIZE,
    TEMP_FILE_ID,   \* the descriptor of the program file, which has no file_t
    Ttys,           \* the minor numbers tty_open accepts
    Names           \* the minor numbers that sys_open is called with

file_tb == 0 .. FILE_TABLE_SIZE - 1
dev_tb  == 0 .. DEV_TABLE_SIZE - 1
fds     == 0 .. TASK_OFILE_NR - 1

ASSUME SizeAssumption ==
    {FILE_TABLE_SIZE, TASK_OFILE_NR, DEV_TABLE_SIZE} \subseteq Nat \ {0}
\* task_alloc_fd gives out descriptors from 0 on, and so this one too in its turn.
ASSUME TempAssumption == TEMP_FILE_ID \in Nat \ {0}
\* The kernel opens the terminal 0 for its log.
ASSUME NameAssumption == 0 \in Ttys /\ Ttys \subseteq Nat /\ Names \subseteq Nat
ASSUME NullAssumption == NULL \notin Int
ASSUME TaskAssumption == IsFiniteSet(Tasks)

VARIABLES
    ref, dev_id,        \* fields of a file
    minor, open_count,  \* fields of a device
    file_table,         \* the descriptors of a task
    zombie,             \* the tasks that have called sys_exit
    pc, loc,            \* where a task is, and the local variables of sys_open
    asked,              \* history: the terminal a descriptor was opened for
    lost                \* history: per file, descriptors dropped by sys_exit

vars == <<ref, dev_id, minor, open_count, file_table, zombie, pc, loc, asked, lost>>

Local(file, fd, num, dev) == [file |-> file, fd |-> fd, num |-> num, dev |-> dev]
NoLoc == Local(NULL, NULL, NULL, NULL)

\* After fs_init, log_init and the start of the tasks.
Init ==
    /\ ref = [f \in file_tb |-> 0]
    /\ dev_id = [f \in file_tb |-> 0]
    /\ minor = [d \in dev_tb |-> 0]
    /\ open_count = [d \in dev_tb |-> IF d = DEV_TABLE_SIZE - 1 THEN 1 ELSE 0]
    /\ file_table = [t \in Tasks |-> [fd \in fds |-> NULL]]
    /\ zombie = {}
    /\ pc = [t \in Tasks |-> "user"]
    /\ loc = [t \in Tasks |-> NoLoc]
    /\ asked = [t \in Tasks |-> [fd \in fds |-> NULL]]
    /\ lost = [f \in file_tb |-> 0]

At(t, l)  == t \notin zombie /\ pc[t] = l
Go(t, l)  == pc' = [pc EXCEPT ![t] = l]
Return(t) == Go(t, "user") /\ loc' = [loc EXCEPT ![t] = NoLoc]

fileVars == <<ref, dev_id>>
devVars  == <<minor, open_count>>

FreeFds(t) == {fd \in fds : file_table[t][fd] = NULL}

-----------------------------------------------------------------------------
(* sys_open of "tty" with the number num.                                  *)

\* file_alloc clears the file it has found.
file_alloc(f) ==
    /\ ref' = [ref EXCEPT ![f] = 1]
    /\ dev_id' = [dev_id EXCEPT ![f] = 0]

\* Without a free file, sys_open fails and changes nothing.
OpenFile(t, num) ==
    LET free == {f \in file_tb : ref[f] = 0}
    IN  /\ At(t, "user") /\ free # {}
        /\ file_alloc(Min(free))
        /\ loc' = [loc EXCEPT ![t] = Local(Min(free), NULL, num, NULL)]
        /\ Go(t, "fd")
        /\ UNCHANGED <<devVars, file_table, zombie, asked, lost>>

\* task_alloc_fd
OpenFd(t) ==
    /\ At(t, "fd")
    /\ IF FreeFds(t) = {}
       THEN Go(t, "free") /\ UNCHANGED <<file_table, loc>>
       ELSE LET fd == Min(FreeFds(t))
            IN  /\ file_table' = [file_table EXCEPT ![t][fd] = loc[t].file]
                /\ loc' = [loc EXCEPT ![t] = Local(loc[t].file, fd, loc[t].num, NULL)]
                /\ Go(t, "dev")
    /\ UNCHANGED <<fileVars, devVars, zombie, asked, lost>>

Opened(num)  == {d \in dev_tb : open_count[d] > 0 /\ minor[d] = num}
FreeDevs     == {d \in dev_tb : open_count[d] = 0}
Found(t, d)  == loc' = [loc EXCEPT ![t] = Local(loc[t].file, loc[t].fd, loc[t].num, d)]

\* Mutant: the device is opened again instead of counted.
dev_open_again(t) ==
    LET num == loc[t].num
    IN  /\ FreeDevs # {} /\ num \in Ttys
        /\ minor' = [minor EXCEPT ![Max(FreeDevs)] = num]
        /\ open_count' = [open_count EXCEPT ![Max(FreeDevs)] = 1]
        /\ Found(t, Max(FreeDevs))
        /\ Go(t, "set")

\* dev_open: the entry that is open, or else the last free one, which keeps its new
\* minor number if tty_open refuses it.
dev_open(t) ==
    LET num == loc[t].num
    IN  IF Opened(num) # {}
        THEN /\ open_count' = [open_count EXCEPT ![Min(Opened(num))] = @ + 1]
             /\ Found(t, Min(Opened(num)))
             /\ Go(t, "set")
             /\ UNCHANGED minor
        ELSE IF FreeDevs = {}
        THEN Go(t, "free") /\ UNCHANGED <<devVars, loc>>
        ELSE /\ minor' = [minor EXCEPT ![Max(FreeDevs)] = num]
             /\ IF num \in Ttys
                THEN /\ open_count' = [open_count EXCEPT ![Max(FreeDevs)] = 1]
                     /\ Found(t, Max(FreeDevs))
                     /\ Go(t, "set")
                ELSE Go(t, "free") /\ UNCHANGED <<open_count, loc>>

OpenDev(t) ==
    /\ At(t, "dev")
    /\ dev_open(t)
    /\ UNCHANGED <<fileVars, file_table, zombie, asked, lost>>

\* Mutant: the device is not stored in the file.
OpenDone_dev_not_set(t) ==
    LET f == loc[t].file
    IN  /\ At(t, "set")
        /\ ref' = [ref EXCEPT ![f] = 1]
        /\ asked' = [asked EXCEPT ![t][loc[t].fd] = loc[t].num]
        /\ Return(t)
        /\ UNCHANGED <<dev_id, devVars, file_table, zombie, lost>>

\* The fields of the file.
OpenDone(t) ==
    LET f == loc[t].file
    IN  /\ At(t, "set")
        /\ dev_id' = [dev_id EXCEPT ![f] = loc[t].dev]
        /\ ref' = [ref EXCEPT ![f] = 1]
        /\ asked' = [asked EXCEPT ![t][loc[t].fd] = loc[t].num]
        /\ Return(t)
        /\ UNCHANGED <<devVars, file_table, zombie, lost>>

file_free(f) == ref' = [ref EXCEPT ![f] = IF @ > 0 THEN @ - 1 ELSE 0]

\* sys_open_failed: file_free, and then the descriptor.
OpenFree(t) ==
    /\ At(t, "free")
    /\ file_free(loc[t].file)
    /\ IF loc[t].fd = NULL THEN Return(t) ELSE Go(t, "remove") /\ UNCHANGED loc
    /\ UNCHANGED <<dev_id, devVars, file_table, zombie, asked, lost>>

\* task_remove_fd
OpenRemove(t) ==
    /\ At(t, "remove")
    /\ file_table' = [file_table EXCEPT ![t][loc[t].fd] = NULL]
    /\ Return(t)
    /\ UNCHANGED <<fileVars, devVars, zombie, asked, lost>>

-----------------------------------------------------------------------------
task_file(t, fd) == file_table[t][fd]

\* The device that sys_write and sys_read of a descriptor use; without a file they
\* fail.  sys_read of TEMP_FILE_ID copies from the program file, which Load models, and
\* uses none; otherwise it sets its argument to 0.  Tty models the write and the read.
sys_write_dev(t, fd) == dev_id[task_file(t, fd)]
sys_read_dev(t, fd)  == IF fd = TEMP_FILE_ID THEN NULL ELSE dev_id[task_file(t, 0)]

\* sys_dup; without a free descriptor it changes nothing.
sys_dup(t, old) ==
    /\ At(t, "user") /\ task_file(t, old) # NULL /\ FreeFds(t) # {}
    /\ file_table' = [file_table EXCEPT ![t][Min(FreeFds(t))] = task_file(t, old)]
    /\ asked' = [asked EXCEPT ![t][Min(FreeFds(t))] = asked[t][old]]
    /\ loc' = [loc EXCEPT ![t] = Local(task_file(t, old), NULL, NULL, NULL)]
    /\ Go(t, "dup")
    /\ UNCHANGED <<fileVars, devVars, zombie, lost>>

\* Mutant: the new descriptor is not counted.
DupRef_not_counted(t) ==
    /\ At(t, "dup")
    /\ Return(t)
    /\ UNCHANGED <<fileVars, devVars, file_table, zombie, asked, lost>>

DupRef(t) ==
    /\ At(t, "dup")
    /\ ref' = [ref EXCEPT ![loc[t].file] = @ + 1]
    /\ Return(t)
    /\ UNCHANGED <<dev_id, devVars, file_table, zombie, asked, lost>>

Descriptors(t, f) == {fd \in fds : file_table[t][fd] = f}

\* sys_exit clears the table; its sys_close leaves file and device as they are.
sys_exit(t) ==
    /\ At(t, "user")
    /\ file_table' = [file_table EXCEPT ![t] = [fd \in fds |-> NULL]]
    /\ lost' = [f \in file_tb |-> lost[f] + Cardinality(Descriptors(t, f))]
    /\ zombie' = zombie \cup {t}
    /\ UNCHANGED <<fileVars, devVars, pc, loc, asked>>

Next ==
    \E t \in Tasks :
        \/ \E num \in Names : OpenFile(t, num)
        \/ OpenFd(t) \/ OpenDev(t) \/ OpenDone(t)
        \/ OpenFree(t) \/ OpenRemove(t)
        \/ \E fd \in fds : sys_dup(t, fd)
        \/ DupRef(t)
        \/ sys_exit(t)

Spec == Init /\ [][Next]_vars

-----------------------------------------------------------------------------
(* Properties.                                                             *)

TypeOK ==
    /\ ref \in [file_tb -> Nat] /\ lost \in [file_tb -> Nat]
    /\ dev_id \in [file_tb -> dev_tb]
    /\ minor \in [dev_tb -> Nat] /\ open_count \in [dev_tb -> Nat]
    /\ file_table \in [Tasks -> [fds -> file_tb \cup {NULL}]]
    /\ asked \in [Tasks -> [fds -> Names \cup {NULL}]]

\* Some call works on the file.
Busy(f) == \E t \in Tasks : loc[t].file = f

\* The count of a file is the number of its descriptors, whichever opens fail and
\* however opens of several tasks are interleaved; those of exited tasks stay counted.
\* A file belongs to one task: another task gets it only while the first one, whose
\* open failed, removes the last trace of it.
FilesAccounted ==
    /\ \A f \in file_tb :
          ~Busy(f) => ref[f] = lost[f]
              + Cardinality({p \in Tasks \X fds : file_table[p[1]][p[2]] = f})
    /\ \A t, u \in Tasks : \A fd, gd \in fds :
          /\ t # u /\ file_table[t][fd] # NULL /\ file_table[t][fd] = file_table[u][gd]
          => \E v \in {t, u} : pc[v] = "remove" /\ loc[v].file = file_table[t][fd]

Leads(d, num) == open_count[d] > 0 /\ minor[d] = num

\* What a task writes to a descriptor goes to the terminal the descriptor was opened
\* for, through a file and a device that other tasks have not changed, and that
\* device is open.  A task with any descriptor has descriptor 0, whichever of its opens
\* failed, and what it reads comes from the terminal of that one: through whichever
\* descriptor, but for TEMP_FILE_ID, which reads no terminal even when it was opened
\* for one.
LeadsToTerminal ==
    \A t \in Tasks : \A fd \in fds :
        /\ At(t, "user") /\ file_table[t][fd] # NULL
        => /\ Leads(sys_write_dev(t, fd), asked[t][fd])
           /\ fd # TEMP_FILE_ID => /\ file_table[t][0] # NULL
                                  /\ Leads(sys_read_dev(t, fd), asked[t][0])

\* A terminal has one device: tty_open, which empties its buffers and sets up its
\* semaphores, is not called again while the terminal is in use.  The count of a
\* device is the number of files on it, besides that of the log.
DevicesCounted ==
    /\ \A d, e \in dev_tb :
          open_count[d] > 0 /\ open_count[e] > 0 /\ minor[d] = minor[e] => d = e
    /\ \A d \in dev_tb :
          open_count[d] =
                (IF d = DEV_TABLE_SIZE - 1 THEN 1 ELSE 0)
              + Cardinality({t \in Tasks : pc[t] = "set" /\ loc[t].dev = d})
              + Cardinality({f \in file_tb : ref[f] > 0 /\ dev_id[f] = d
                    /\ ~ \E t \in Tasks : loc[t].file = f /\ pc[t] \notin {"remove", "dup"}})
=============================================================================
