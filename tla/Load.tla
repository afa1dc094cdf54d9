-------------------------------- MODULE Load --------------------------------
(***************************************************************************)
(* Loading a program: load_elf_file and load_phdr (kernel/task.c) over     *)
(* sys_open of a path, sys_read and sys_lseek of the file it gives         *)
(* (kernel/fs/fs.c).  All tasks share one buffer, TEMP_ADDR, into which    *)
(* sys_open reads the same sectors whatever the path, and one position,    *)
(* temp_pos.  Nothing but the reading of the disk is protected.            *)
(*                                                                         *)
(* A position counts units of the file: the ELF header, program headers    *)
(* and pages.  Memory is taken to suffice; Vm has the allocations.         *)
(***************************************************************************)
EXTENDS Integers, Sequences

CONSTANTS
    Tasks, NULL,
    FILE,       \* the units of the file, from position 0
    MaxLoads    \* bound on the number of loads

\* What a unit is when it is read as an ELF header or as a program header.  Only the
\* first unit has the magic number; its own first word is not PT_LOAD.  A page may
\* pass for a header of any kind.
Ehdrs == [kind : {"ehdr"}, phoff : Nat, phnum : Nat, entry : Nat \ {0}]
Phdrs == [kind : {"phdr"}, load : BOOLEAN, offset : Nat, pages : Nat \ {0}, vaddr : Nat]
Pages == [kind : {"page"}, text : Nat]

ASSUME FileAssumption ==
    /\ FILE \in Seq(Ehdrs \cup Phdrs \cup Pages) /\ FILE # <<>> /\ FILE[1] \in Ehdrs
    /\ \A i \in 2 .. Len(FILE) : FILE[i] \in Phdrs \cup Pages
    /\ FILE[1].phnum > 0
    /\ FILE[1].phoff \in 1 .. Len(FILE) - 1 /\ FILE[FILE[1].phoff + 1] \in Phdrs
ASSUME NullAssumption == NULL \notin Nat
ASSUME BoundAssumption == MaxLoads \in Nat

Junk         == [kind |-> "junk"]       \* the buffer behind the file
Unit(pos)    == IF pos < Len(FILE) THEN FILE[pos + 1] ELSE Junk
NotLoaded    == [kind |-> "phdr", load |-> FALSE, offset |-> 0, pages |-> 1, vaddr |-> 0]
Misread      == [kind |-> "phdr", load |-> TRUE, offset |-> Len(FILE), pages |-> 1, vaddr |-> 0]
AsPhdr(u)    == CASE u.kind = "phdr" -> {u}
                  [] u.kind = "ehdr" -> {NotLoaded}
                  [] OTHER           -> {NotLoaded, Misread}
AsEhdr(u)    == IF u.kind = "ehdr" THEN u
                ELSE [kind |-> u.kind, phoff |-> 0, phnum |-> 0, entry |-> FILE[1].entry + 1]

VARIABLES
    temp_pos,       \* the shared position
    pc, stage,      \* where a task is in load_elf_file, and in sys_read
    loc,            \* its local variables, see Local
    image,          \* what its new address space holds, per virtual page
    heap_end,       \* task->heap_end
    result,         \* what load_elf_file has returned: 0 if it failed, NULL before
    disturbed,      \* history: another task has moved temp_pos since the sys_open
    loads           \* history: the number of loads

vars == <<temp_pos, pc, stage, loc, image, heap_end, result, disturbed, loads>>

\* elf_hdr, elf_phdr, the loop counter i, the pages read of the segment; in sys_read
\* the unit copied and the temp_pos that len is added to.
Local(hdr, phdr, i, n) ==
    [hdr |-> hdr, phdr |-> phdr, i |-> i, n |-> n, unit |-> NULL, pos |-> NULL]
NoLoc == Local(NULL, NULL, 0, 0)

Init ==
    /\ temp_pos = 0
    /\ pc = [t \in Tasks |-> "user"]
    /\ stage = [t \in Tasks |-> "copy"]
    /\ loc = [t \in Tasks |-> NoLoc]
    /\ image = [t \in Tasks |-> <<>>]
    /\ heap_end = [t \in Tasks |-> 0]
    /\ result = [t \in Tasks |-> NULL]
    /\ disturbed = [t \in Tasks |-> FALSE]
    /\ loads = 0

At(t, l)     == pc[t] = l
Go(t, l)     == pc' = [pc EXCEPT ![t] = l]
Count        == loads < MaxLoads /\ loads' = loads + 1
Set(t, r)    == loc' = [loc EXCEPT ![t] = r]
Return(t, e) == /\ Go(t, "user") /\ Set(t, NoLoc)
                /\ result' = [result EXCEPT ![t] = e]

\* Task t moves the position: the loads of the others are disturbed.
MoveTo(t, p) ==
    /\ temp_pos' = p
    /\ disturbed' = [u \in Tasks |-> disturbed[u] \/ (u # t /\ pc[u] # "user")]

-----------------------------------------------------------------------------
(* fs.c                                                                    *)

\* sys_open of a path: the buffer holds the file again, from its start.
sys_open(t) ==
    /\ temp_pos' = 0
    /\ disturbed' = [u \in Tasks |-> u # t /\ (disturbed[u] \/ pc[u] # "user")]

sys_lseek(t, p) == MoveTo(t, p)

\* sys_read of one unit: it is copied, and temp_pos is loaded, increased and stored.
ReadCopy(t) ==
    /\ pc[t] \in {"hdr", "phdr", "page"} /\ stage[t] = "copy"
    /\ Set(t, [loc[t] EXCEPT !.unit = Unit(temp_pos)])
    /\ stage' = [stage EXCEPT ![t] = "load"]
    /\ UNCHANGED <<temp_pos, pc, image, heap_end, result, disturbed, loads>>

ReadLoad(t) ==
    /\ stage[t] = "load"
    /\ Set(t, [loc[t] EXCEPT !.pos = temp_pos])
    /\ stage' = [stage EXCEPT ![t] = "store"]
    /\ UNCHANGED <<temp_pos, pc, image, heap_end, result, disturbed, loads>>

\* Mutant: sys_read does not move on.
ReadStore_stays(t, l) ==
    /\ At(t, l) /\ stage[t] = "store"
    /\ MoveTo(t, loc[t].pos)
    /\ stage' = [stage EXCEPT ![t] = "copy"]

\* It returns to l, where the caller uses the unit.
ReadStore(t, l) ==
    /\ At(t, l) /\ stage[t] = "store"
    /\ MoveTo(t, loc[t].pos + 1)
    /\ stage' = [stage EXCEPT ![t] = "copy"]

-----------------------------------------------------------------------------
(* task.c                                                                  *)

\* load_elf_file, for a new address space.
LoadOpen(t) ==
    /\ At(t, "user") /\ Count
    /\ sys_open(t)
    /\ image' = [image EXCEPT ![t] = <<>>]
    /\ result' = [result EXCEPT ![t] = NULL]
    /\ Go(t, "hdr")
    /\ UNCHANGED <<stage, loc, heap_end>>

\* A path that is neither a terminal nor starts with '/'.
LoadNotFound(t) ==
    /\ At(t, "user") /\ Count
    /\ Return(t, 0)
    /\ image' = [image EXCEPT ![t] = <<>>]
    /\ UNCHANGED <<temp_pos, stage, heap_end, disturbed>>

\* Mutant: the magic number is not looked at.
LoadHdr_any_magic(t) ==
    /\ ReadStore(t, "hdr")
    /\ Set(t, Local(AsEhdr(loc[t].unit), NULL, 0, 0))
    /\ Go(t, "seek")
    /\ UNCHANGED <<image, heap_end, result, loads>>

\* The header is checked.
LoadHdr(t) ==
    LET hdr == AsEhdr(loc[t].unit)
    IN  /\ ReadStore(t, "hdr")
        /\ \/ hdr.kind # "ehdr" /\ Return(t, 0)
           \/ /\ hdr.kind = "ehdr"
              /\ Set(t, Local(hdr, NULL, 0, 0))
              /\ Go(t, "seek")
              /\ UNCHANGED result
        /\ UNCHANGED <<image, heap_end, loads>>

\* The loop over the program headers: e_phoff is not increased, so that every turn
\* reads the first one.
LoadSeek(t) ==
    /\ At(t, "seek") /\ loc[t].i < loc[t].hdr.phnum
    /\ sys_lseek(t, loc[t].hdr.phoff)
    /\ Go(t, "phdr")
    /\ UNCHANGED <<stage, loc, image, heap_end, result, loads>>

LoadEnd(t) ==
    /\ At(t, "seek") /\ loc[t].i = loc[t].hdr.phnum
    /\ Return(t, loc[t].hdr.entry)
    /\ UNCHANGED <<temp_pos, stage, image, heap_end, disturbed, loads>>

LoadPhdr(t) ==
    /\ ReadStore(t, "phdr")
    /\ \E phdr \in AsPhdr(loc[t].unit) :
          IF phdr.load
          THEN /\ Set(t, Local(loc[t].hdr, phdr, loc[t].i, 0))
               /\ Go(t, "segment")
          ELSE /\ Set(t, Local(loc[t].hdr, NULL, loc[t].i + 1, 0))
               /\ Go(t, "seek")
    /\ UNCHANGED <<image, heap_end, result, loads>>

\* load_phdr: to the segment, and page by page.
LoadSegment(t) ==
    /\ At(t, "segment")
    /\ sys_lseek(t, loc[t].phdr.offset)
    /\ Go(t, "page")
    /\ UNCHANGED <<stage, loc, image, heap_end, result, loads>>

LoadPage(t) ==
    LET phdr == loc[t].phdr
        v    == phdr.vaddr + loc[t].n
    IN  /\ ReadStore(t, "page")
        /\ image' = [image EXCEPT ![t] =
              [w \in DOMAIN @ \cup {v} |-> IF w = v THEN loc[t].unit ELSE @[w]]]
        /\ IF loc[t].n + 1 < phdr.pages
           THEN /\ Set(t, Local(loc[t].hdr, phdr, loc[t].i, loc[t].n + 1))
                /\ UNCHANGED <<pc, heap_end>>
           ELSE /\ heap_end' = [heap_end EXCEPT ![t] = v + 1]
                /\ Set(t, Local(loc[t].hdr, NULL, loc[t].i + 1, 0))
                /\ Go(t, "seek")
        /\ UNCHANGED <<result, loads>>

Next ==
    \E t \in Tasks :
        \/ LoadOpen(t) \/ LoadNotFound(t) \/ LoadHdr(t) \/ LoadSeek(t) \/ LoadEnd(t)
        \/ LoadPhdr(t) \/ LoadSegment(t) \/ LoadPage(t)
        \/ ReadCopy(t) \/ ReadLoad(t)

Spec == Init /\ [][Next]_vars

-----------------------------------------------------------------------------
(* Properties.                                                             *)

Loaded(t) == At(t, "user") /\ result[t] \notin {NULL, 0}

FirstPhdr == FILE[FILE[1].phoff + 1]

\* The headers of the program's table that are to be loaded, and what one of them says
\* is to be in memory.
Segments ==
    LET table == DOMAIN FILE \cap (FILE[1].phoff + 1 .. FILE[1].phoff + FILE[1].phnum)
    IN  {u \in {FILE[i] : i \in table} : u.kind = "phdr" /\ u.load}
SegmentOf(p) == [v \in p.vaddr .. p.vaddr + p.pages - 1 |-> Unit(p.offset + v - p.vaddr)]

\* What a successful load during which no other task has moved the position leaves,
\* whatever position earlier loads, finished or under way, have left: every page is
\* one that a header puts there, and if the first header is the only one to be loaded,
\* the program is complete, with its heap behind it.  (Of a program with more of them
\* the rest is missing: e_phoff stands still, task.c:510.)
LoadedAlone ==
    \A t \in Tasks :
        Loaded(t) /\ ~disturbed[t] /\ FirstPhdr \in Segments =>
            /\ \A v \in DOMAIN image[t] :
                  \E p \in Segments : v \in DOMAIN SegmentOf(p) /\ image[t][v] = SegmentOf(p)[v]
            /\ Segments = {FirstPhdr} =>
                  /\ image[t] = SegmentOf(FirstPhdr)
                  /\ heap_end[t] = FirstPhdr.vaddr + FirstPhdr.pages

\* However loads disturb each other, one that is taken for a success starts the
\* program at its real entry: the position moves between sys_open and sys_read of the
\* header, but then the magic number is missing.
EntryReal == \A t \in Tasks : Loaded(t) => result[t] = FILE[1].entry
=============================================================================
