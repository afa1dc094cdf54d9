----------------------------- MODULE LoadProofs -----------------------------
(* Loads of any number of tasks, however they disturb each other, for      *)
(* every file with a header and a program header.                          *)
EXTENDS Load, TLAPS

Header == FILE[1]

\* What sys_read can copy: of these the header alone has the magic number.
Units == {Header, Junk} \cup Phdrs \cup Pages

PCs    == {"user", "hdr", "seek", "phdr", "segment", "page"}
Stages == {"copy", "load", "store"}
Locs   == [hdr : {NULL, Header}, phdr : Phdrs \cup {NULL}, i : Nat, n : Nat,
           unit : Units \cup {NULL}, pos : Nat \cup {NULL}]

TypeOK ==
    /\ temp_pos \in Nat
    /\ pc \in [Tasks -> PCs]
    /\ stage \in [Tasks -> Stages]
    /\ loc \in [Tasks -> Locs]
    /\ heap_end \in [Tasks -> Nat]
    /\ result \in [Tasks -> {NULL, 0, Header.entry}]
    /\ disturbed \in [Tasks -> BOOLEAN]
    /\ DOMAIN image = Tasks

\* The local variables that load_elf_file has set where a task is.
Locals(t) ==
    /\ pc[t] \in {"seek", "phdr", "segment", "page"} => loc[t].hdr = Header
    /\ pc[t] \in {"segment", "page"} => loc[t].phdr \in Phdrs
    /\ stage[t] # "copy" => pc[t] \in {"hdr", "phdr", "page"} /\ loc[t].unit \in Units
    /\ stage[t] = "store" => loc[t].pos \in Nat
    /\ pc[t] \in {"user", "hdr"} => loc[t].i = 0
    /\ pc[t] # "page" => loc[t].n = 0

LocalsOK == \A t \in Tasks : Locals(t)

-----------------------------------------------------------------------------
(* The file.                                                               *)

LEMMA FileFacts ==
    /\ Len(FILE) \in Nat /\ Len(FILE) > 0
    /\ Header \in Ehdrs /\ Header.kind = "ehdr" /\ Header.entry \in Nat /\ Header.entry # 0
    /\ Header.phoff \in Nat /\ Header.phnum \in Nat /\ Header.phnum > 0
    /\ Header \in Units
    /\ Unit(0) = Header
    /\ FirstPhdr \in Phdrs /\ Unit(Header.phoff) = FirstPhdr
<1>1. Len(FILE) \in Nat /\ Len(FILE) > 0
  BY FileAssumption
<1>2. Header \in Ehdrs
  BY FileAssumption DEF Header
<1>3. /\ Header.kind = "ehdr" /\ Header.entry \in Nat /\ Header.entry # 0
      /\ Header.phoff \in Nat /\ Header.phnum \in Nat
  BY <1>2 DEF Ehdrs
<1>4. Unit(0) = Header
  BY <1>1 DEF Unit, Header
<1>5. FirstPhdr \in Phdrs
  BY FileAssumption DEF FirstPhdr
<1>6. Header.phoff < Len(FILE) /\ Header.phnum > 0
  BY <1>1, FileAssumption DEF Header
<1>7. Unit(Header.phoff) = FirstPhdr
  BY <1>6 DEF Unit, FirstPhdr, Header
<1> QED BY <1>1, <1>2, <1>3, <1>4, <1>5, <1>6, <1>7 DEF Units

\* What is read at a position; only the header passes for a header.
LEMMA UnitFacts ==
    /\ \A p \in Nat : Unit(p) \in Units
    /\ \A u \in Units : u.kind = "ehdr" => u = Header
<1>1. ASSUME NEW p \in Nat PROVE Unit(p) \in Units
  <2>1. CASE p < Len(FILE)
    <3>1. p + 1 \in 1 .. Len(FILE)
      BY <2>1, FileFacts
    <3>2. FILE[p + 1] \in {Header} \cup Phdrs \cup Pages
      <4>1. CASE p = 0
        BY <4>1 DEF Header
      <4>2. CASE p # 0
        <5>1. p + 1 \in 2 .. Len(FILE)
          BY <3>1, <4>2
        <5> QED BY <5>1, FileAssumption
      <4> QED BY <4>1, <4>2
    <3> QED BY <2>1, <3>2 DEF Unit, Units
  <2>2. CASE ~ (p < Len(FILE))
    BY <2>2 DEF Unit, Units
  <2> QED BY <2>1, <2>2
<1>2. ASSUME NEW u \in Units, u.kind = "ehdr" PROVE u = Header
  BY <1>2 DEF Units, Phdrs, Pages, Junk
<1> QED BY <1>1, <1>2

\* A unit read as a program header is one; read as an ELF header, it passes the
\* test of the magic number only if it is the header.
LEMMA ReadAs ==
    ASSUME NEW u \in Units
    PROVE  /\ AsPhdr(u) \subseteq Phdrs
           /\ AsEhdr(u).kind = "ehdr" => AsEhdr(u) = Header
           /\ u = Header => AsEhdr(u) = Header
           /\ u \in Phdrs => AsPhdr(u) = {u}
<1>1. NotLoaded \in Phdrs
  BY DEF NotLoaded, Phdrs
<1>2. Misread \in Phdrs
  BY FileFacts DEF Misread, Phdrs
<1>3. u.kind = "phdr" => u \in Phdrs
  BY FileFacts DEF Units, Pages, Junk
<1>4. AsPhdr(u) \subseteq Phdrs
  BY <1>1, <1>2, <1>3 DEF AsPhdr
<1>5. u \in Phdrs => AsPhdr(u) = {u}
  BY DEF AsPhdr, Phdrs
<1>6. AsEhdr(u).kind = "ehdr" => AsEhdr(u) = Header
  BY UnitFacts DEF AsEhdr
<1>7. u = Header => AsEhdr(u) = Header
  BY FileFacts DEF AsEhdr
<1> QED BY <1>4, <1>5, <1>6, <1>7

-----------------------------------------------------------------------------
(* Types, and the entry that load_elf_file returns.                        *)

\* A record of locals.
LEMMA LocalType ==
    ASSUME NEW h \in {NULL, Header}, NEW p \in Phdrs \cup {NULL}, NEW i \in Nat, NEW n \in Nat
    PROVE  /\ Local(h, p, i, n) \in Locs
           /\ Local(h, p, i, n).hdr = h /\ Local(h, p, i, n).phdr = p
           /\ Local(h, p, i, n).i = i /\ Local(h, p, i, n).n = n
BY DEF Local, Locs

\* What the steps of one task keep of the others.
LEMMA OthersKept ==
    ASSUME TypeOK, NEW t \in Tasks, NEW u \in Tasks, u # t,
           \/ LoadOpen(t) \/ LoadNotFound(t) \/ LoadHdr(t) \/ LoadSeek(t) \/ LoadEnd(t)
           \/ LoadPhdr(t) \/ LoadSegment(t) \/ LoadPage(t)
           \/ ReadCopy(t) \/ ReadLoad(t)
    PROVE  /\ pc'[u] = pc[u] /\ stage'[u] = stage[u] /\ loc'[u] = loc[u]
           /\ image'[u] = image[u] /\ heap_end'[u] = heap_end[u] /\ result'[u] = result[u]
           /\ ~disturbed'[u] => ~disturbed[u] /\ (pc[u] = "user" \/ temp_pos' = temp_pos)
<1> USE DEF TypeOK, Go, Set, Return, Count, sys_open, sys_lseek, MoveTo, ReadStore, At
<1>1. CASE LoadOpen(t)
  BY <1>1 DEF LoadOpen
<1>2. CASE LoadNotFound(t)
  BY <1>2 DEF LoadNotFound
<1>3. CASE LoadHdr(t)
  BY <1>3 DEF LoadHdr
<1>4. CASE LoadSeek(t)
  BY <1>4 DEF LoadSeek
<1>5. CASE LoadEnd(t)
  BY <1>5 DEF LoadEnd
<1>6. CASE LoadPhdr(t)
  BY <1>6 DEF LoadPhdr
<1>7. CASE LoadSegment(t)
  BY <1>7 DEF LoadSegment
<1>8. CASE LoadPage(t)
  BY <1>8 DEF LoadPage
<1>9. CASE ReadCopy(t)
  BY <1>9 DEF ReadCopy
<1>10. CASE ReadLoad(t)
  BY <1>10 DEF ReadLoad
<1> QED BY <1>1, <1>2, <1>3, <1>4, <1>5, <1>6, <1>7, <1>8, <1>9, <1>10

LEMMA InitTypes == Init => TypeOK /\ LocalsOK
<1> SUFFICES ASSUME Init PROVE TypeOK /\ LocalsOK
  OBVIOUS
<1>1. NoLoc \in Locs /\ NoLoc.i = 0 /\ NoLoc.n = 0
  BY LocalType DEF NoLoc
<1>2. TypeOK
  BY <1>1 DEF Init, TypeOK, PCs, Stages
<1>3. LocalsOK
  BY <1>1 DEF Init, LocalsOK, Locals
<1> QED BY <1>2, <1>3

\* The task's own part of a step.
LEMMA TypeStep ==
    ASSUME TypeOK, LocalsOK, NEW t \in Tasks,
           \/ LoadOpen(t) \/ LoadNotFound(t) \/ LoadHdr(t) \/ LoadSeek(t) \/ LoadEnd(t)
           \/ LoadPhdr(t) \/ LoadSegment(t) \/ LoadPage(t)
           \/ ReadCopy(t) \/ ReadLoad(t)
    PROVE  TypeOK' /\ Locals(t)'
<1>1. Locals(t) /\ loc[t] \in Locs /\ temp_pos \in Nat /\ pc[t] \in PCs /\ stage[t] \in Stages
  BY DEF LocalsOK, TypeOK
<1>2. /\ loc[t].i \in Nat /\ loc[t].n \in Nat /\ loc[t].hdr \in {NULL, Header}
      /\ loc[t].unit \in Units \cup {NULL} /\ loc[t].phdr \in Phdrs \cup {NULL}
  BY <1>1 DEF Locs
<1>3. NoLoc \in Locs /\ NoLoc.i = 0 /\ NoLoc.n = 0
  BY LocalType DEF NoLoc
<1>4. stage[t] = "store" => loc[t].unit \in Units /\ loc[t].pos + 1 \in Nat
  BY <1>1 DEF Locals
<1>5. \A p : MoveTo(t, p) => /\ disturbed' \in [Tasks -> BOOLEAN] /\ temp_pos' = p
  BY DEF MoveTo, TypeOK
<1> USE DEF Go, Set, Return, At
<1>6. CASE LoadOpen(t)
  BY <1>1, <1>6 DEF LoadOpen, sys_open, Count, TypeOK, Locals, PCs
<1>7. CASE LoadNotFound(t)
  BY <1>1, <1>3, <1>7 DEF LoadNotFound, Count, TypeOK, Locals, PCs
<1>8. CASE LoadHdr(t)
  <2>1. /\ stage[t] = "store" /\ temp_pos' \in Nat /\ disturbed' \in [Tasks -> BOOLEAN]
        /\ stage' = [stage EXCEPT ![t] = "copy"] /\ pc[t] = "hdr"
    BY <1>4, <1>5, <1>8 DEF LoadHdr, ReadStore
  <2>2. UNCHANGED <<image, heap_end, loads>>
    BY <1>8 DEF LoadHdr
  <2>3. CASE Return(t, 0)
    BY <1>3, <2>1, <2>2, <2>3 DEF TypeOK, Locals, PCs, Stages
  <2>4. CASE /\ AsEhdr(loc[t].unit).kind = "ehdr"
             /\ Set(t, Local(AsEhdr(loc[t].unit), NULL, 0, 0))
             /\ Go(t, "seek") /\ UNCHANGED result
    <3>1. AsEhdr(loc[t].unit) = Header
      BY <1>4, <2>1, <2>4, ReadAs
    <3>2. loc' = [loc EXCEPT ![t] = Local(Header, NULL, 0, 0)]
      BY <2>4, <3>1
    <3>3. /\ Local(Header, NULL, 0, 0) \in Locs /\ Local(Header, NULL, 0, 0).hdr = Header
          /\ Local(Header, NULL, 0, 0).n = 0
      BY LocalType
    <3> QED BY <2>1, <2>2, <2>4, <3>2, <3>3 DEF TypeOK, Locals, PCs, Stages
  <2> QED BY <1>8, <2>3, <2>4 DEF LoadHdr
<1>9. CASE LoadSeek(t)
  <2>1. loc[t].hdr = Header /\ Header.phoff \in Nat
    BY <1>1, <1>9, FileFacts DEF LoadSeek, Locals
  <2>2. temp_pos' \in Nat /\ disturbed' \in [Tasks -> BOOLEAN]
    BY <1>5, <1>9, <2>1 DEF LoadSeek, sys_lseek
  <2> QED BY <1>1, <1>9, <2>2 DEF LoadSeek, TypeOK, Locals, PCs
<1>10. CASE LoadEnd(t)
  <2>1. loc[t].hdr = Header
    BY <1>1, <1>10 DEF LoadEnd, Locals
  <2> QED BY <1>1, <1>3, <1>10, <2>1 DEF LoadEnd, TypeOK, Locals, PCs
<1>11. CASE LoadPhdr(t)
  <2>1. /\ stage[t] = "store" /\ temp_pos' \in Nat /\ disturbed' \in [Tasks -> BOOLEAN]
        /\ stage' = [stage EXCEPT ![t] = "copy"] /\ pc[t] = "phdr"
    BY <1>4, <1>5, <1>11 DEF LoadPhdr, ReadStore
  <2>2. UNCHANGED <<image, heap_end, result, loads>> /\ loc[t].hdr = Header
    BY <1>1, <1>11, <2>1 DEF LoadPhdr, Locals
  <2>3. PICK phdr \in AsPhdr(loc[t].unit) :
            IF phdr.load
            THEN Set(t, Local(Header, phdr, loc[t].i, 0)) /\ Go(t, "segment")
            ELSE Set(t, Local(Header, NULL, loc[t].i + 1, 0)) /\ Go(t, "seek")
    BY <1>11, <2>2 DEF LoadPhdr
  <2>4. phdr \in Phdrs
    BY <1>4, <2>1, <2>3, ReadAs
  <2>5. CASE phdr.load
    <3> DEFINE r == Local(Header, phdr, loc[t].i, 0)
    <3>1. r \in Locs /\ r.hdr = Header /\ r.phdr = phdr /\ r.n = 0
      BY <1>2, <2>4, LocalType
    <3>2. loc' = [loc EXCEPT ![t] = r] /\ Go(t, "segment")
      BY <2>3, <2>5
    <3> HIDE DEF r
    <3> QED BY <2>1, <2>2, <2>4, <3>1, <3>2 DEF TypeOK, Locals, PCs, Stages
  <2>6. CASE ~phdr.load
    <3> DEFINE r == Local(Header, NULL, loc[t].i + 1, 0)
    <3>1. r \in Locs /\ r.hdr = Header /\ r.n = 0
      BY <1>2, LocalType
    <3>2. loc' = [loc EXCEPT ![t] = r] /\ Go(t, "seek")
      BY <2>3, <2>6
    <3> HIDE DEF r
    <3> QED BY <2>1, <2>2, <3>1, <3>2 DEF TypeOK, Locals, PCs, Stages
  <2> QED BY <2>5, <2>6
<1>12. CASE LoadSegment(t)
  <2>1. loc[t].phdr \in Phdrs
    BY <1>1, <1>12 DEF LoadSegment, Locals
  <2>2. loc[t].phdr.offset \in Nat
    BY <2>1 DEF Phdrs
  <2>3. temp_pos' \in Nat /\ disturbed' \in [Tasks -> BOOLEAN]
    BY <1>5, <1>12, <2>2 DEF LoadSegment, sys_lseek
  <2> QED BY <1>1, <1>12, <2>3 DEF LoadSegment, TypeOK, Locals, PCs
<1>13. CASE LoadPage(t)
  <2>1. /\ stage[t] = "store" /\ temp_pos' \in Nat /\ disturbed' \in [Tasks -> BOOLEAN]
        /\ stage' = [stage EXCEPT ![t] = "copy"] /\ pc[t] = "page"
    BY <1>4, <1>5, <1>13 DEF LoadPage, ReadStore
  <2>2. /\ UNCHANGED <<result, loads>> /\ loc[t].hdr = Header /\ loc[t].phdr \in Phdrs
        /\ DOMAIN image' = Tasks
    BY <1>1, <1>13, <2>1 DEF LoadPage, Locals, TypeOK
  <2>3. loc[t].phdr.vaddr + loc[t].n + 1 \in Nat
    BY <1>2, <2>2 DEF Phdrs
  <2>4. CASE loc[t].n + 1 < loc[t].phdr.pages
    <3> DEFINE r == Local(Header, loc[t].phdr, loc[t].i, loc[t].n + 1)
    <3>1. r \in Locs /\ r.hdr = Header /\ r.phdr = loc[t].phdr
      BY <1>2, <2>2, LocalType
    <3>2. loc' = [loc EXCEPT ![t] = r] /\ UNCHANGED <<pc, heap_end>>
      BY <1>13, <2>2, <2>4 DEF LoadPage
    <3> HIDE DEF r
    <3> QED BY <2>1, <2>2, <3>1, <3>2 DEF TypeOK, Locals, PCs, Stages
  <2>5. CASE ~ (loc[t].n + 1 < loc[t].phdr.pages)
    <3> DEFINE r == Local(Header, NULL, loc[t].i + 1, 0)
    <3>1. r \in Locs /\ r.hdr = Header /\ r.n = 0
      BY <1>2, LocalType
    <3>2. /\ loc' = [loc EXCEPT ![t] = r] /\ Go(t, "seek")
          /\ heap_end' = [heap_end EXCEPT ![t] = loc[t].phdr.vaddr + loc[t].n + 1]
      BY <1>13, <2>2, <2>5 DEF LoadPage
    <3> HIDE DEF r
    <3> QED BY <2>1, <2>2, <2>3, <3>1, <3>2 DEF TypeOK, Locals, PCs, Stages
  <2> QED BY <2>4, <2>5
<1>14. CASE ReadCopy(t)
  <2>1. Unit(temp_pos) \in Units
    BY <1>1, UnitFacts
  <2>2. [loc[t] EXCEPT !.unit = Unit(temp_pos)] \in Locs
    BY <1>1, <2>1 DEF Locs
  <2>3. /\ loc' = [loc EXCEPT ![t] = [loc[t] EXCEPT !.unit = Unit(temp_pos)]]
        /\ pc' = pc /\ pc[t] \in {"hdr", "phdr", "page"}
        /\ stage' = [stage EXCEPT ![t] = "load"]
        /\ UNCHANGED <<temp_pos, image, heap_end, result, disturbed, loads>>
    BY <1>14 DEF ReadCopy
  <2>4. TypeOK'
    BY <2>2, <2>3 DEF TypeOK, Stages
  <2>5. /\ loc'[t].hdr = loc[t].hdr /\ loc'[t].phdr = loc[t].phdr
        /\ loc'[t].i = loc[t].i /\ loc'[t].n = loc[t].n /\ loc'[t].unit \in Units
        /\ stage'[t] = "load"
    BY <1>1, <2>1, <2>3 DEF TypeOK, Locs
  <2> QED BY <1>1, <2>3, <2>4, <2>5 DEF Locals
<1>15. CASE ReadLoad(t)
  <2>2. [loc[t] EXCEPT !.pos = temp_pos] \in Locs
    BY <1>1 DEF Locs
  <2>3. /\ loc' = [loc EXCEPT ![t] = [loc[t] EXCEPT !.pos = temp_pos]]
        /\ pc' = pc /\ stage[t] = "load"
        /\ stage' = [stage EXCEPT ![t] = "store"]
        /\ UNCHANGED <<temp_pos, image, heap_end, result, disturbed, loads>>
    BY <1>15 DEF ReadLoad
  <2>4. TypeOK'
    BY <2>2, <2>3 DEF TypeOK, Stages
  <2>5. /\ loc'[t].hdr = loc[t].hdr /\ loc'[t].phdr = loc[t].phdr
        /\ loc'[t].i = loc[t].i /\ loc'[t].n = loc[t].n /\ loc'[t].unit = loc[t].unit
        /\ loc'[t].pos \in Nat /\ stage'[t] = "store"
    BY <1>1, <2>3 DEF TypeOK, Locs
  <2> QED BY <1>1, <2>3, <2>4, <2>5 DEF Locals
<1> QED BY <1>6, <1>7, <1>8, <1>9, <1>10, <1>11, <1>12, <1>13, <1>14, <1>15

LEMMA StepTypes == TypeOK /\ LocalsOK /\ [Next]_vars => TypeOK' /\ LocalsOK'
<1> SUFFICES ASSUME TypeOK, LocalsOK, [Next]_vars PROVE TypeOK' /\ LocalsOK'
  OBVIOUS
<1>1. CASE UNCHANGED vars
  BY <1>1 DEF vars, TypeOK, LocalsOK, Locals
<1>2. CASE Next
  <2>1. PICK t \in Tasks :
            \/ LoadOpen(t) \/ LoadNotFound(t) \/ LoadHdr(t) \/ LoadSeek(t) \/ LoadEnd(t)
            \/ LoadPhdr(t) \/ LoadSegment(t) \/ LoadPage(t)
            \/ ReadCopy(t) \/ ReadLoad(t)
    BY <1>2 DEF Next
  <2>2. TypeOK' /\ Locals(t)'
    BY <2>1, TypeStep
  <2>3. ASSUME NEW u \in Tasks, u # t PROVE Locals(u)'
    <3>1. pc'[u] = pc[u] /\ stage'[u] = stage[u] /\ loc'[u] = loc[u]
      BY <2>1, <2>3, OthersKept
    <3> QED BY <3>1 DEF LocalsOK, Locals
  <2> QED BY <2>2, <2>3 DEF LocalsOK
<1> QED BY <1>1, <1>2

\* However the loads of several tasks disturb each other, a load that is taken for a
\* success returns the entry of the program: sys_read may give it another part of the
\* file as the header, but load_elf_file looks for the magic number.
THEOREM RealEntries == Spec => []EntryReal
<1>1. TypeOK => EntryReal
  BY DEF TypeOK, EntryReal, Loaded, Header
<1> QED BY <1>1, InitTypes, StepTypes, PTL DEF Spec

-----------------------------------------------------------------------------
(* A load that nobody disturbs.                                            *)

\* The first m pages of the segment of the first program header.
Part(m) == [v \in FirstPhdr.vaddr .. FirstPhdr.vaddr + m - 1 |->
               Unit(FirstPhdr.offset + v - FirstPhdr.vaddr)]

\* The pages that load t has stored: after the first turn of the loop it stores the
\* same ones again.
Stored(t) == IF loc[t].i > 0 THEN FirstPhdr.pages ELSE loc[t].n

HeapSet(t) == heap_end[t] = FirstPhdr.vaddr + FirstPhdr.pages

\* The position is where the task has put it, until it has loaded it to increase it,
\* and it copies what is there.
ReadsAt(t, p) ==
    /\ stage[t] # "store" => temp_pos = p
    /\ stage[t] # "copy" => loc[t].unit = Unit(p)
    /\ stage[t] = "store" => loc[t].pos = p

\* Where the load of t is, if it is alone.
Progress(t) ==
    /\ pc[t] # "user" => image[t] = Part(Stored(t)) /\ (loc[t].i > 0 => HeapSet(t))
    /\ pc[t] = "hdr" => ReadsAt(t, 0)
    /\ pc[t] = "phdr" => ReadsAt(t, Header.phoff)
    /\ pc[t] \in {"segment", "page"} => loc[t].phdr = FirstPhdr
    /\ pc[t] = "page" => /\ ReadsAt(t, FirstPhdr.offset + loc[t].n)
                         /\ loc[t].n < FirstPhdr.pages
    /\ Loaded(t) => image[t] = Part(FirstPhdr.pages) /\ HeapSet(t)

Alone(t) == ~disturbed[t] /\ FirstPhdr.load => Progress(t)

\* The invariant: LoadedAlone speaks of the end of a load; this says how far it is.
AloneOK == \A t \in Tasks : Alone(t)

\* The fields of the first program header.
LEMMA Segment ==
    /\ FirstPhdr.vaddr \in Nat /\ FirstPhdr.offset \in Nat
    /\ FirstPhdr.pages \in Nat /\ FirstPhdr.pages # 0
BY FileFacts DEF Phdrs

LEMMA PartEmpty == <<>> = Part(0)
<1>1. FirstPhdr.vaddr .. FirstPhdr.vaddr + 0 - 1 = {}
  BY Segment
<1> QED BY <1>1 DEF Part

\* img is Part(k) with page number m stored in it.
StoredIn(img, m, k) ==
    img = [w \in DOMAIN Part(k) \cup {FirstPhdr.vaddr + m} |->
              IF w = FirstPhdr.vaddr + m THEN Unit(FirstPhdr.offset + m) ELSE Part(k)[w]]

\* Page number m is stored: for the first time, or again.
LEMMA PartStore ==
    ASSUME NEW m \in Nat, m < FirstPhdr.pages, NEW k \in {m, FirstPhdr.pages},
           NEW img, StoredIn(img, m, k)
    PROVE  img = Part(IF k = m THEN m + 1 ELSE k)
<1> DEFINE a == FirstPhdr.vaddr
           v == a + m
           j == IF k = m THEN m + 1 ELSE k
           D == a .. a + k - 1
<1>1. a \in Nat /\ v \in Nat /\ k \in Nat /\ j \in Nat /\ FirstPhdr.offset \in Nat
  BY Segment
<1>2. D \cup {v} = a .. a + j - 1
  BY <1>1, Segment
<1>3. DOMAIN Part(k) = D /\ \A w \in D : Part(k)[w] = Unit(FirstPhdr.offset + w - a)
  BY DEF Part
<1>4. FirstPhdr.offset + v - a = FirstPhdr.offset + m
  BY <1>1
<1>5. Part(j) = [w \in D \cup {v} |-> Unit(FirstPhdr.offset + w - a)]
  BY <1>2 DEF Part
<1> HIDE DEF D, j, v
<1>6. img = [w \in D \cup {v} |-> IF w = v THEN Unit(FirstPhdr.offset + m) ELSE Part(k)[w]]
  BY <1>3 DEF StoredIn, v
<1>7. img = Part(j)
  BY <1>3, <1>4, <1>5, <1>6
<1> QED BY <1>7 DEF j

\* The task's own part of a step.
LEMMA AloneStep ==
    ASSUME TypeOK, LocalsOK, TypeOK', LocalsOK', FirstPhdr.load,
           NEW t \in Tasks, Alone(t), ~disturbed'[t],
           \/ LoadOpen(t) \/ LoadNotFound(t) \/ LoadHdr(t) \/ LoadSeek(t) \/ LoadEnd(t)
           \/ LoadPhdr(t) \/ LoadSegment(t) \/ LoadPage(t)
           \/ ReadCopy(t) \/ ReadLoad(t)
    PROVE  Progress(t)'
<1>1. Locals(t) /\ loc[t] \in Locs /\ pc[t] \in PCs /\ stage[t] \in Stages
  BY DEF LocalsOK, TypeOK
<1>2. loc[t].i \in Nat /\ loc[t].n \in Nat
  BY <1>1 DEF Locs
<1>3. Locals(t)' /\ loc'[t] \in Locs /\ pc'[t] \in PCs
  BY DEF LocalsOK, TypeOK
<1>4. NoLoc.i = 0 /\ NoLoc.n = 0
  BY LocalType DEF NoLoc
<1>5. \A p : MoveTo(t, p) => temp_pos' = p /\ (disturbed'[t] <=> disturbed[t])
  BY DEF MoveTo, TypeOK
<1> USE DEF Go, Set, Return, At
<1>6. CASE LoadOpen(t)
  <2>1. /\ pc'[t] = "hdr" /\ image'[t] = <<>> /\ temp_pos' = 0 /\ stage' = stage /\ loc' = loc
        /\ pc[t] = "user"
    BY <1>6 DEF LoadOpen, sys_open, TypeOK
  <2>2. loc[t].i = 0 /\ loc[t].n = 0 /\ stage[t] = "copy"
    BY <1>1, <2>1 DEF Locals, Stages
  <2> QED BY <2>1, <2>2, PartEmpty DEF Progress, ReadsAt, Stored, Loaded
<1>7. CASE LoadNotFound(t)
  BY <1>7 DEF LoadNotFound, Progress, Loaded, TypeOK
<1>8. CASE LoadHdr(t)
  <2>1. /\ ~disturbed[t] /\ pc[t] = "hdr" /\ stage[t] = "store"
        /\ image' = image /\ heap_end' = heap_end
    BY <1>5, <1>8 DEF LoadHdr, ReadStore
  <2>2. loc[t].unit = Header /\ image[t] = Part(0)
    BY <1>1, <2>1, FileFacts DEF Alone, Progress, ReadsAt, Stored, Locals
  <2>3. AsEhdr(loc[t].unit) = Header /\ Header.kind = "ehdr"
    BY <2>2, FileFacts, ReadAs
  <2>4. pc'[t] = "seek" /\ loc'[t] = Local(Header, NULL, 0, 0)
    <3>1. loc' = [loc EXCEPT ![t] = Local(Header, NULL, 0, 0)] /\ pc' = [pc EXCEPT ![t] = "seek"]
      BY <1>8, <2>3 DEF LoadHdr, Set, Go
    <3> QED BY <3>1 DEF TypeOK
  <2>5. loc'[t].i = 0 /\ loc'[t].n = 0
    BY ONLY <2>4 DEF Local
  <2> QED BY <2>1, <2>2, <2>4, <2>5 DEF Progress, Stored, Loaded
<1>9. CASE LoadSeek(t)
  <2>1. /\ ~disturbed[t] /\ pc[t] = "seek" /\ pc'[t] = "phdr" /\ loc' = loc /\ stage' = stage
        /\ image' = image /\ heap_end' = heap_end /\ temp_pos' = loc[t].hdr.phoff
    BY <1>5, <1>9 DEF LoadSeek, sys_lseek, TypeOK
  <2>2. loc[t].hdr = Header /\ stage[t] = "copy"
    BY <1>1, <2>1 DEF Locals, Stages
  <2>3. Progress(t)
    BY <2>1 DEF Alone
  <2> QED BY <2>1, <2>2, <2>3 DEF Progress, ReadsAt, Stored, HeapSet, Loaded
<1>10. CASE LoadEnd(t)
  <2>1. /\ ~disturbed[t] /\ pc[t] = "seek" /\ pc'[t] = "user" /\ loc[t].i = loc[t].hdr.phnum
        /\ image' = image /\ heap_end' = heap_end
    BY <1>10 DEF LoadEnd, TypeOK
  <2>2. loc[t].i > 0
    BY <1>1, <2>1, FileFacts DEF Locals
  <2>3. image[t] = Part(FirstPhdr.pages) /\ HeapSet(t)
    BY <2>1, <2>2 DEF Alone, Progress, Stored
  <2> QED BY <2>1, <2>3 DEF Progress, HeapSet
<1>11. CASE LoadPhdr(t)
  <2>1. /\ ~disturbed[t] /\ pc[t] = "phdr" /\ stage[t] = "store"
        /\ image' = image /\ heap_end' = heap_end
    BY <1>5, <1>11 DEF LoadPhdr, ReadStore
  <2>2. Progress(t) /\ loc[t].hdr = Header /\ loc[t].n = 0
    BY <1>1, <2>1 DEF Alone, Locals
  <2>3. loc[t].unit = FirstPhdr /\ FirstPhdr \in Phdrs /\ FirstPhdr \in Units
    BY <2>1, <2>2, FileFacts DEF Progress, ReadsAt, Units
  <2>4. AsPhdr(loc[t].unit) = {FirstPhdr}
    BY <2>3, ReadAs
  <2>5. pc'[t] = "segment" /\ loc'[t] = Local(Header, FirstPhdr, loc[t].i, 0)
    BY <1>11, <2>2, <2>4 DEF LoadPhdr, TypeOK
  <2>6. loc'[t].i = loc[t].i /\ loc'[t].n = 0 /\ loc'[t].phdr = FirstPhdr
    BY <1>2, <2>3, <2>5, LocalType
  <2> QED BY <2>1, <2>2, <2>5, <2>6 DEF Progress, Stored, HeapSet, Loaded
<1>12. CASE LoadSegment(t)
  <2>1. /\ ~disturbed[t] /\ pc[t] = "segment" /\ pc'[t] = "page" /\ loc' = loc /\ stage' = stage
        /\ image' = image /\ heap_end' = heap_end /\ temp_pos' = loc[t].phdr.offset
    BY <1>5, <1>12 DEF LoadSegment, sys_lseek, TypeOK
  <2>2. stage[t] = "copy" /\ loc[t].n = 0
    BY <1>1, <2>1 DEF Locals, Stages
  <2>3. Progress(t)
    BY <2>1 DEF Alone
  <2>4. loc[t].phdr = FirstPhdr
    BY <2>1, <2>3 DEF Progress
  <2>5. temp_pos' = FirstPhdr.offset + loc[t].n /\ loc[t].n < FirstPhdr.pages
    BY <2>1, <2>2, <2>4, Segment
  <2> QED BY <2>1, <2>2, <2>3, <2>5 DEF Progress, ReadsAt, Stored, HeapSet, Loaded
<1>13. CASE LoadPage(t)
  <2> DEFINE n == loc[t].n
             a == FirstPhdr.vaddr
             v == a + n
  <2>1. ~disturbed[t] /\ pc[t] = "page" /\ stage[t] = "store"
    BY <1>5, <1>13 DEF LoadPage, ReadStore
  <2>2. Progress(t) /\ loc[t].hdr = Header
    BY <1>1, <2>1 DEF Alone, Locals
  <2>3. /\ loc[t].phdr = FirstPhdr /\ loc[t].unit = Unit(FirstPhdr.offset + n)
        /\ loc[t].pos = FirstPhdr.offset + n /\ n < FirstPhdr.pages
        /\ image[t] = Part(Stored(t))
    BY <2>1, <2>2 DEF Progress, ReadsAt
  <2>4. /\ temp_pos' = FirstPhdr.offset + n + 1 /\ stage'[t] = "copy"
    BY <1>5, <1>13, <2>3 DEF LoadPage, ReadStore, TypeOK
  <2>5. image'[t] = [w \in DOMAIN image[t] \cup {v} |->
                        IF w = v THEN Unit(FirstPhdr.offset + n) ELSE image[t][w]]
    BY <1>13, <2>3 DEF LoadPage, TypeOK
  <2>6. image'[t] = Part(IF loc[t].i > 0 THEN FirstPhdr.pages ELSE n + 1)
    <3>1. Stored(t) \in {n, FirstPhdr.pages}
      BY DEF Stored
    <3>2. image'[t] = Part(IF Stored(t) = n THEN n + 1 ELSE Stored(t))
      <4>1. n \in Nat /\ n < FirstPhdr.pages
        BY <1>2, <2>3
      <4>2. StoredIn(image'[t], n, Stored(t))
        BY <2>3, <2>5 DEF StoredIn
      <4> QED BY ONLY <3>1, <4>1, <4>2, PartStore
    <3>3. (IF Stored(t) = n THEN n + 1 ELSE Stored(t))
             = (IF loc[t].i > 0 THEN FirstPhdr.pages ELSE n + 1)
      BY <1>2, <2>3, Segment DEF Stored
    <3> QED BY <3>2, <3>3
  <2>7. CASE n + 1 < FirstPhdr.pages
    <3>1. /\ loc'[t] = Local(Header, FirstPhdr, loc[t].i, n + 1) /\ pc'[t] = "page"
          /\ heap_end' = heap_end
      BY <1>13, <2>1, <2>2, <2>3, <2>7 DEF LoadPage, TypeOK
    <3>2. loc'[t].i = loc[t].i /\ loc'[t].n = n + 1 /\ loc'[t].phdr = FirstPhdr
      BY <1>2, <3>1, LocalType, FileFacts
    <3>3. temp_pos' = FirstPhdr.offset + loc'[t].n
      BY <1>2, <2>4, <3>2, Segment
    <3>4. image'[t] = Part(Stored(t))'
      BY <2>6, <3>2 DEF Stored, Part
    <3>5. ReadsAt(t, FirstPhdr.offset + loc[t].n)'
      BY <2>4, <3>3 DEF ReadsAt
    <3>6. loc[t].i > 0 => HeapSet(t)
      BY <2>1, <2>2 DEF Progress
    <3> QED BY <2>7, <3>1, <3>2, <3>4, <3>5, <3>6 DEF Progress, HeapSet, Loaded
  <2>8. CASE ~ (n + 1 < FirstPhdr.pages)
    <3>1. n + 1 = FirstPhdr.pages
      BY <1>2, <2>3, <2>8, Segment
    <3>2. /\ loc'[t] = Local(Header, NULL, loc[t].i + 1, 0) /\ pc'[t] = "seek"
          /\ heap_end'[t] = v + 1
      BY <1>13, <2>2, <2>3, <2>8 DEF LoadPage, TypeOK
    <3>3. loc'[t].i > 0
      <4>1. loc[t].i + 1 \in Nat /\ loc[t].i + 1 > 0
        BY <1>2
      <4>2. Local(Header, NULL, loc[t].i + 1, 0).i = loc[t].i + 1
        BY DEF Local
      <4> QED BY <3>2, <4>1, <4>2
    <3>4. HeapSet(t)'
      BY <1>2, <3>1, <3>2, Segment DEF HeapSet
    <3>5. image'[t] = Part(FirstPhdr.pages)
      BY <2>6, <3>1
    <3>6. image'[t] = Part(Stored(t))'
      BY <3>3, <3>5 DEF Stored, Part
    <3> QED BY <3>2, <3>4, <3>6 DEF Progress, Loaded
  <2> QED BY <2>7, <2>8
<1>14. CASE ReadCopy(t)
  <2>1. /\ ~disturbed[t] /\ pc' = pc /\ stage[t] = "copy" /\ stage'[t] = "load"
        /\ image' = image /\ heap_end' = heap_end /\ result' = result /\ temp_pos' = temp_pos
        /\ pc[t] # "user" /\ loc'[t] = [loc[t] EXCEPT !.unit = Unit(temp_pos)]
    BY <1>14 DEF ReadCopy, TypeOK
  <2>2. /\ loc'[t].phdr = loc[t].phdr /\ loc'[t].i = loc[t].i /\ loc'[t].n = loc[t].n
        /\ loc'[t].unit = Unit(temp_pos)
    BY <1>1, <2>1 DEF Locs
  <2>3. Progress(t)
    BY <2>1 DEF Alone
  <2>4. \A p : ReadsAt(t, p) => temp_pos' = p /\ loc'[t].unit = Unit(p)
    BY <2>1, <2>2 DEF ReadsAt
  <2>5. /\ pc[t] = "hdr" => ReadsAt(t, 0)'
        /\ pc[t] = "phdr" => ReadsAt(t, Header.phoff)'
        /\ pc[t] = "page" => ReadsAt(t, FirstPhdr.offset + loc[t].n)'
    <3>1. ASSUME NEW p, ReadsAt(t, p)
          PROVE  /\ stage'[t] # "store" => temp_pos' = p
                 /\ stage'[t] # "copy" => loc'[t].unit = Unit(p)
                 /\ stage'[t] = "store" => loc'[t].pos = p
      BY <2>1, <2>4, <3>1
    <3> QED BY <2>2, <2>3, <3>1 DEF Progress, ReadsAt, Unit, Header, FirstPhdr
  <2> QED BY <2>1, <2>2, <2>3, <2>5 DEF Progress, Stored, HeapSet, Loaded
<1>15. CASE ReadLoad(t)
  <2>1. /\ ~disturbed[t] /\ pc' = pc /\ stage[t] = "load" /\ stage'[t] = "store"
        /\ image' = image /\ heap_end' = heap_end /\ result' = result /\ temp_pos' = temp_pos
        /\ loc'[t] = [loc[t] EXCEPT !.pos = temp_pos]
    BY <1>15 DEF ReadLoad, TypeOK
  <2>2. /\ loc'[t].phdr = loc[t].phdr /\ loc'[t].i = loc[t].i /\ loc'[t].n = loc[t].n
        /\ loc'[t].unit = loc[t].unit /\ loc'[t].pos = temp_pos
    BY <1>1, <2>1 DEF Locs
  <2>3. Progress(t) /\ pc[t] # "user"
    BY <1>1, <2>1 DEF Alone, Locals
  <2>5. /\ pc[t] = "hdr" => ReadsAt(t, 0)'
        /\ pc[t] = "phdr" => ReadsAt(t, Header.phoff)'
        /\ pc[t] = "page" => ReadsAt(t, FirstPhdr.offset + loc[t].n)'
    <3>1. ASSUME NEW p, ReadsAt(t, p)
          PROVE  /\ stage'[t] # "store" => temp_pos' = p
                 /\ stage'[t] # "copy" => loc'[t].unit = Unit(p)
                 /\ stage'[t] = "store" => loc'[t].pos = p
      BY <2>1, <2>2, <3>1 DEF ReadsAt
    <3> QED BY <2>2, <2>3, <3>1 DEF Progress, ReadsAt, Unit, Header, FirstPhdr
  <2> QED BY <2>1, <2>2, <2>3, <2>5 DEF Progress, Stored, HeapSet, Loaded
<1> QED BY <1>6, <1>7, <1>8, <1>9, <1>10, <1>11, <1>12, <1>13, <1>14, <1>15

LEMMA StepAlone ==
    ASSUME TypeOK, LocalsOK, TypeOK', LocalsOK', AloneOK, [Next]_vars
    PROVE  AloneOK'
<1> SUFFICES ASSUME NEW u \in Tasks, ~disturbed'[u], FirstPhdr.load PROVE Progress(u)'
  BY DEF AloneOK, Alone
<1>1. Alone(u)
  BY DEF AloneOK
<1>2. CASE UNCHANGED vars
  BY <1>1, <1>2 DEF vars, Alone, Progress, ReadsAt, Stored, HeapSet, Loaded, At
<1>3. CASE Next
  <2>1. PICK t \in Tasks :
            \/ LoadOpen(t) \/ LoadNotFound(t) \/ LoadHdr(t) \/ LoadSeek(t) \/ LoadEnd(t)
            \/ LoadPhdr(t) \/ LoadSegment(t) \/ LoadPage(t)
            \/ ReadCopy(t) \/ ReadLoad(t)
    BY <1>3 DEF Next
  <2>2. CASE u = t
    BY <1>1, <2>1, <2>2, AloneStep
  <2>3. CASE u # t
    <3>1. /\ pc'[u] = pc[u] /\ stage'[u] = stage[u] /\ loc'[u] = loc[u]
          /\ image'[u] = image[u] /\ heap_end'[u] = heap_end[u] /\ result'[u] = result[u]
          /\ ~disturbed[u] /\ (pc[u] = "user" \/ temp_pos' = temp_pos)
      BY <2>1, <2>3, OthersKept
    <3>2. Progress(u)
      BY <1>1, <3>1 DEF Alone
    <3> QED BY <3>1, <3>2 DEF Progress, ReadsAt, Stored, HeapSet, Loaded, At
  <2> QED BY <2>2, <2>3
<1> QED BY <1>2, <1>3

\* At the end of such a load the image is the first header's segment.
LEMMA AloneLoaded ==
    ASSUME AloneOK PROVE LoadedAlone
<1> SUFFICES ASSUME NEW t \in Tasks, Loaded(t), ~disturbed[t], FirstPhdr \in Segments
             PROVE  /\ \A v \in DOMAIN image[t] :
                          \E p \in Segments :
                              v \in DOMAIN SegmentOf(p) /\ image[t][v] = SegmentOf(p)[v]
                    /\ image[t] = SegmentOf(FirstPhdr)
                    /\ heap_end[t] = FirstPhdr.vaddr + FirstPhdr.pages
  BY DEF LoadedAlone
<1>1. FirstPhdr.load
  BY DEF Segments
<1>2. image[t] = Part(FirstPhdr.pages) /\ HeapSet(t)
  BY <1>1 DEF AloneOK, Alone, Progress
<1>3. image[t] = SegmentOf(FirstPhdr)
  BY <1>2 DEF Part, SegmentOf
<1> QED BY <1>2, <1>3 DEF HeapSet

\* A successful load during which no other task moves the position, of a file whose
\* first program header is to be loaded, leaves nothing but pages that the program's
\* headers put there, and the complete program if no other header is to be loaded,
\* whatever the other tasks do before and after it.
THEOREM AloneLoads == Spec => []LoadedAlone
<1>1. Init => AloneOK
  BY DEF Init, AloneOK, Alone, Progress, Loaded
<1>2. AloneOK => LoadedAlone
  BY AloneLoaded
<1>3. TypeOK /\ LocalsOK /\ AloneOK /\ [Next]_vars => TypeOK' /\ LocalsOK' /\ AloneOK'
  BY StepTypes, StepAlone
<1> QED BY <1>1, <1>2, <1>3, InitTypes, PTL DEF Spec
=============================================================================
