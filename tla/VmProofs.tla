------------------------------ MODULE VmProofs -------------------------------
(* Physical pages and address spaces, for any number of tasks, pages and   *)
(* table sizes and for any program.                                        *)
EXTENDS Vm, FiniteSetTheorems, SequenceTheorems, TLAPS

-----------------------------------------------------------------------------
(* Positions.  A directory with its tables and pages has LastPos + 1 of    *)
(* them: for each entry i its pages, at K(i, j), and its table, at         *)
(* K(i, PTE_CNT); the directory is the last one.                           *)

PDEs == 0 .. PDE_CNT - 1
PTEs == 0 .. PTE_CNT - 1
W       == PTE_CNT + 1
K(i, j) == i * W + j

LEMMA Sizes ==
    /\ NPAGES \in Nat /\ NPAGES > 0 /\ PDE_CNT \in Nat /\ PDE_CNT > 0
    /\ PTE_CNT \in Nat /\ PTE_CNT > 0 /\ PAGE_SIZE \in Nat /\ PAGE_SIZE > 0
    /\ W \in Nat /\ W > 1 /\ LastPos \in Nat /\ LastPos = PDE_CNT * W
    /\ NULL \notin Pages /\ BAD \notin Pages /\ BAD # NULL
BY SizeAssumption DEF W, LastPos

LEMMA Products ==
    ASSUME NEW n \in Nat, NEW i \in Nat, NEW m \in Nat, i < m
    PROVE  i * n \in Nat /\ m * n \in Nat /\ i * n + n <= m * n
<1>1. i * n \in Nat /\ m * n \in Nat
  OBVIOUS
<1>2. PICK e \in Nat : m = i + 1 + e
  <2>1. m - i - 1 \in Nat /\ m = i + 1 + (m - i - 1)
    OBVIOUS
  <2> QED BY <2>1
<1>3. m * n = i * n + n + e * n /\ e * n \in Nat
  BY <1>2
<1> QED BY <1>1, <1>3

\* Division, from the quotient and the remainder.
LEMMA Divides ==
    ASSUME NEW n \in Nat, n > 0, NEW i \in Nat, NEW j \in 0 .. n - 1
    PROVE  (i * n + j) \div n = i /\ (i * n + j) % n = j
<1> DEFINE x == i * n + j
           q == x \div n
           r == x % n
<1>1. x \in Nat
  OBVIOUS
<1>2. q \in Nat /\ r \in 0 .. n - 1 /\ x = q * n + r
  BY <1>1
<1> HIDE DEF q, r
<1>3. ~ (q < i)
  <2> SUFFICES ASSUME q < i PROVE FALSE
    OBVIOUS
  <2>1. q * n + n <= i * n /\ q * n \in Nat /\ i * n \in Nat
    BY <1>2, Products
  <2> QED BY <1>2, <2>1
<1>4. ~ (i < q)
  <2> SUFFICES ASSUME i < q PROVE FALSE
    OBVIOUS
  <2>1. i * n + n <= q * n /\ q * n \in Nat /\ i * n \in Nat
    BY <1>2, Products
  <2> QED BY <1>2, <2>1
<1>5. q = i
  BY <1>2, <1>3, <1>4
<1>6. r = j
  BY <1>2, <1>5
<1> QED BY <1>5, <1>6 DEF q, r

LEMMA Quotient ==
    ASSUME NEW n \in Nat, n > 0, NEW x \in Nat
    PROVE  x \div n \in Nat /\ x % n \in 0 .. n - 1 /\ x = (x \div n) * n + (x % n)
OBVIOUS

\* The quotient is below m if the number is below m * n.
LEMMA QuotientBound ==
    ASSUME NEW n \in Nat, n > 0, NEW m \in Nat, NEW x \in 0 .. m * n - 1
    PROVE  x \div n \in 0 .. m - 1
<1> DEFINE q == x \div n
<1>1. x \in Nat /\ m * n \in Nat /\ x < m * n
  OBVIOUS
<1>2. q \in Nat /\ x % n \in 0 .. n - 1 /\ x = q * n + (x % n)
  BY <1>1, Quotient
<1> HIDE DEF q
<1>3. q * n <= x /\ q * n \in Nat
  BY <1>2
<1>4. q < m
  <2> SUFFICES ASSUME m <= q PROVE FALSE
    BY <1>2
  <2>1. CASE m = q
    BY <1>1, <1>3, <2>1
  <2>2. CASE m < q
    <3>1. m * n + n <= q * n
      BY <1>2, <2>2, Products
    <3> QED BY <1>1, <1>3, <3>1
  <2> QED BY <1>2, <2>1, <2>2
<1>5. q \in 0 .. m - 1
  BY <1>2, <1>4
<1> QED BY <1>5 DEF q

LEMMA Position ==
    ASSUME NEW i \in PDEs, NEW j \in 0 .. PTE_CNT
    PROVE  /\ K(i, j) \in 0 .. LastPos - 1 /\ K(i, j) # LastPos
           /\ K(i, j) \div W = i /\ K(i, j) % W = j
           /\ K(i, PTE_CNT) >= K(i, j)
<1>1. i \in Nat /\ i < PDE_CNT /\ j \in 0 .. W - 1 /\ W \in Nat /\ W > 0
  BY Sizes DEF PDEs, W
<1>2. K(i, j) \div W = i /\ K(i, j) % W = j
  BY <1>1, Divides DEF K
<1>3. i * W \in Nat /\ PDE_CNT * W \in Nat /\ i * W + W <= PDE_CNT * W
  BY <1>1, Sizes, Products
<1>4. K(i, j) \in 0 .. LastPos - 1 /\ K(i, j) # LastPos
  BY <1>1, <1>3, Sizes DEF K
<1>5. K(i, PTE_CNT) >= K(i, j)
  BY <1>1, <1>3, Sizes DEF K
<1> QED BY <1>2, <1>4, <1>5

LEMMA PositionOf ==
    ASSUME NEW k \in 0 .. LastPos - 1
    PROVE  /\ k \div W \in PDEs /\ k % W \in 0 .. PTE_CNT
           /\ k = K(k \div W, k % W)
<1>1. k \in Nat /\ W \in Nat /\ W > 0 /\ k \in 0 .. PDE_CNT * W - 1 /\ PDE_CNT \in Nat
  BY Sizes
<1>2. k \div W \in 0 .. PDE_CNT - 1
  BY <1>1, QuotientBound
<1>3. k % W \in 0 .. W - 1 /\ k = (k \div W) * W + (k % W)
  BY <1>1, Quotient
<1>4. k % W \in 0 .. PTE_CNT
  BY <1>3, Sizes DEF W
<1> QED BY <1>2, <1>3, <1>4 DEF PDEs, K

LEMMA Address ==
    ASSUME NEW v \in VPages
    PROVE  pde_index(v) \in PDEs /\ pte_index(v) \in PTEs
<1>1. v \in Nat /\ PTE_CNT \in Nat /\ PTE_CNT > 0 /\ PDE_CNT \in Nat
      /\ v \in 0 .. PDE_CNT * PTE_CNT - 1
  BY Sizes DEF VPages
<1>2. v \div PTE_CNT \in 0 .. PDE_CNT - 1
  BY <1>1, QuotientBound
<1>3. v % PTE_CNT \in 0 .. PTE_CNT - 1
  BY <1>1, Quotient
<1> QED BY <1>2, <1>3 DEF pde_index, pte_index, PDEs, PTEs

-----------------------------------------------------------------------------
(* Places.  A page is used in a place: the kernel stack of a task, the     *)
(* page it is about to map, and the positions of the directory that it     *)
(* runs on ("cr3") and of another one that it builds or takes apart        *)
(* ("dir").  An assignment c of pages to places is sound for a bitmap bm   *)
(* and lost pages lk if no page is in two places and the pages in places   *)
(* are those that are marked and not lost.                                 *)

Places == {"stack", "page", "cr3", "dir"} \X Tasks \X (0 .. LastPos)

Sound(c, bm, lk) ==
    /\ c \in [Places -> Pages \cup {NULL}]
    /\ bm \subseteq Pages /\ lk \subseteq bm
    /\ \A x, y \in Places : c[x] # NULL /\ c[x] = c[y] => x = y
    /\ \A x \in Places : c[x] # NULL => c[x] \in bm /\ c[x] \notin lk
    /\ \A p \in bm : p \notin lk => \E x \in Places : c[x] = p

\* A fresh page into an empty place.
LEMMA Taken ==
    ASSUME NEW c, NEW bm, NEW lk, Sound(c, bm, lk), NEW x \in Places, c[x] = NULL,
           NEW p \in Pages, p \notin bm,
           NEW c2, c2 = [c EXCEPT ![x] = p]
    PROVE  Sound(c2, bm \cup {p}, lk)
<1>1. c2 \in [Places -> Pages \cup {NULL}] /\ c2[x] = p /\ p # NULL
  BY Sizes DEF Sound
<1>2. \A y \in Places : y # x => c2[y] = c[y]
  BY DEF Sound
<1>3. \A y \in Places : c[y] # p
  BY <1>1 DEF Sound
<1>4. \A y, z \in Places : c2[y] # NULL /\ c2[y] = c2[z] => y = z
  BY <1>1, <1>2, <1>3 DEF Sound
<1>5. \A y \in Places : c2[y] # NULL => c2[y] \in bm \cup {p} /\ c2[y] \notin lk
  BY <1>1, <1>2 DEF Sound
<1>6. \A q \in bm \cup {p} : q \notin lk => \E y \in Places : c2[y] = q
  <2> TAKE q \in bm \cup {p}
  <2> HAVE q \notin lk
  <2>1. CASE q = p
    BY <1>1, <2>1
  <2>2. CASE q # p
    <3>1. PICK y \in Places : c[y] = q
      BY <2>2 DEF Sound
    <3>2. y # x
      BY <3>1, <2>2, Sizes DEF Sound
    <3> QED BY <1>2, <3>1, <3>2
  <2> QED BY <2>1, <2>2
<1> QED BY <1>1, <1>4, <1>5, <1>6 DEF Sound

\* The page of a place is freed.
LEMMA Freed ==
    ASSUME NEW c, NEW bm, NEW lk, Sound(c, bm, lk), NEW x \in Places, c[x] # NULL,
           NEW c2, c2 = [c EXCEPT ![x] = NULL]
    PROVE  Sound(c2, bm \ {c[x]}, lk)
<1>1. c2 \in [Places -> Pages \cup {NULL}] /\ c2[x] = NULL
  BY DEF Sound
<1>2. \A y \in Places : y # x => c2[y] = c[y]
  BY DEF Sound
<1>3. \A y, z \in Places : c2[y] # NULL /\ c2[y] = c2[z] => y = z
  BY <1>1, <1>2 DEF Sound
<1>4. \A y \in Places : c2[y] # NULL => c2[y] \in bm \ {c[x]} /\ c2[y] \notin lk
  BY <1>1, <1>2 DEF Sound
<1>5. \A q \in bm \ {c[x]} : q \notin lk => \E y \in Places : c2[y] = q
  <2> TAKE q \in bm \ {c[x]}
  <2> HAVE q \notin lk
  <2>1. PICK y \in Places : c[y] = q
    BY DEF Sound
  <2> QED BY <1>2, <2>1
<1>6. bm \ {c[x]} \subseteq Pages /\ lk \subseteq bm \ {c[x]}
  BY DEF Sound
<1> QED BY <1>1, <1>3, <1>4, <1>5, <1>6 DEF Sound

\* The page of a place is lost, if it has one.
LEMMA LostPage ==
    ASSUME NEW c, NEW bm, NEW lk, Sound(c, bm, lk), NEW x \in Places,
           NEW c2, c2 = [c EXCEPT ![x] = NULL]
    PROVE  Sound(c2, bm, lk \cup ({c[x]} \ {NULL}))
<1>1. c2 \in [Places -> Pages \cup {NULL}] /\ c2[x] = NULL
  BY DEF Sound
<1>2. \A y \in Places : y # x => c2[y] = c[y]
  BY DEF Sound
<1> DEFINE lk2 == lk \cup ({c[x]} \ {NULL})
<1>3. \A y, z \in Places : c2[y] # NULL /\ c2[y] = c2[z] => y = z
  BY <1>1, <1>2 DEF Sound
<1>4. \A y \in Places : c2[y] # NULL => c2[y] \in bm /\ c2[y] \notin lk2
  BY <1>1, <1>2 DEF Sound
<1>5. \A q \in bm : q \notin lk2 => \E y \in Places : c2[y] = q
  <2> TAKE q \in bm
  <2> HAVE q \notin lk2
  <2>1. PICK y \in Places : c[y] = q
    BY DEF Sound
  <2>2. q # NULL
    BY Sizes DEF Sound
  <2> QED BY <1>2, <2>1, <2>2
<1>6. bm \subseteq Pages /\ lk2 \subseteq bm
  BY DEF Sound
<1> HIDE DEF lk2
<1>7. Sound(c2, bm, lk2)
  BY <1>1, <1>3, <1>4, <1>5, <1>6 DEF Sound
<1> QED BY <1>7 DEF lk2

\* A page moves into an empty place.
LEMMA MovedPage ==
    ASSUME NEW c, NEW bm, NEW lk, Sound(c, bm, lk), NEW x \in Places, NEW y \in Places,
           x # y, c[x] # NULL, c[y] = NULL,
           NEW c2, c2 \in [Places -> Pages \cup {NULL}], c2[x] = NULL, c2[y] = c[x],
           \A z \in Places : z # x /\ z # y => c2[z] = c[z]
    PROVE  Sound(c2, bm, lk)
<1>1. \A v, w \in Places : c2[v] # NULL /\ c2[v] = c2[w] => v = w
  BY DEF Sound
<1>2. \A v \in Places : c2[v] # NULL => c2[v] \in bm /\ c2[v] \notin lk
  BY DEF Sound
<1>3. \A q \in bm : q \notin lk => \E v \in Places : c2[v] = q
  <2> TAKE q \in bm
  <2> HAVE q \notin lk
  <2>1. PICK v \in Places : c[v] = q
    BY DEF Sound
  <2>2. q # NULL
    BY Sizes DEF Sound
  <2> QED BY <2>1, <2>2
<1> QED BY <1>1, <1>2, <1>3 DEF Sound

\* Two sets of places change their pages.
LEMMA Swapped ==
    ASSUME NEW c, NEW bm, NEW lk, Sound(c, bm, lk),
           NEW m \in [Places -> Places], \A x \in Places : m[m[x]] = x,
           NEW c2, c2 \in [Places -> Pages \cup {NULL}], \A x \in Places : c2[x] = c[m[x]]
    PROVE  Sound(c2, bm, lk)
<1>1. \A v, w \in Places : c2[v] # NULL /\ c2[v] = c2[w] => v = w
  <2> TAKE v, w \in Places
  <2> HAVE c2[v] # NULL /\ c2[v] = c2[w]
  <2>1. m[v] \in Places /\ m[w] \in Places
    OBVIOUS
  <2>2. m[v] = m[w]
    BY <2>1 DEF Sound
  <2> QED BY <2>1, <2>2
<1>2. \A v \in Places : c2[v] # NULL => c2[v] \in bm /\ c2[v] \notin lk
  BY DEF Sound
<1>3. \A q \in bm : q \notin lk => \E v \in Places : c2[v] = q
  <2> TAKE q \in bm
  <2> HAVE q \notin lk
  <2>1. PICK v \in Places : c[v] = q
    BY DEF Sound
  <2>2. m[v] \in Places /\ c2[m[v]] = q
    BY <2>1
  <2> QED BY <2>2
<1> QED BY <1>1, <1>2, <1>3 DEF Sound

-----------------------------------------------------------------------------
(* The page in each place.                                                 *)

Cell(tag, t, k) ==
    IF tag = "stack" THEN (IF k = 0 THEN kstack[t] ELSE NULL)
    ELSE IF tag = "page" THEN (IF k = 0 THEN loc[t].page ELSE NULL)
    ELSE IF tag = "cr3" THEN (IF cr3[t] \in Pages THEN Victim(cr3[t], k) ELSE NULL)
    ELSE IF OtherDir(t) /\ k >= From(t) THEN Victim(loc[t].dir, k) ELSE NULL

cells == [x \in Places |-> Cell(x[1], x[2], x[3])]

\* Where a task is: in a fork, in one that has its child's directory, with a directory
\* of its own beside cr3, filling one.
Forks   == {"fork_dir", "undo_stack", "undo_user", "copy_dir", "copy", "copy_map", "undo_copy"}
Copies  == {"copy_dir", "copy", "copy_map", "undo_copy"}
Others  == {"copy", "copy_map", "undo_copy", "destroy"}
Fills   == {"alloc", "map"}
PCs     == Forks \cup Fills \cup {"user", "destroy"}

\* The local variables of a task at l whose directory is d.
LocIs(l, r, d) ==
    /\ l \in PCs
    /\ l \in Fills => /\ r = Fill(r.dir, r.page, r.todo, r.end, r.lack)
                      /\ r.todo \in Seq(Seq(VPages)) /\ r.end \in Nat
    /\ l = "map" => r.todo # <<>> /\ Head(r.todo) # <<>>
    /\ l \notin Fills => r = Space(r.dir, r.page, r.pos, r.child)
    /\ r.page \in (IF l \in {"copy_map", "map"} THEN Pages ELSE {NULL})
    /\ r.dir \in (IF l \in Others THEN Pages \ {d} ELSE IF l \in Fills THEN Pages ELSE {NULL})
    /\ r.child \in (IF l \in Forks THEN Tasks ELSE {NULL})
    /\ r.pos \in Nat
    /\ l \notin Others => r.pos = 0
    /\ l = "copy_map" => r.pos \in VPages
    /\ l \in {"undo_copy", "destroy"} => r.pos <= LastPos

\* The slot of a task.
SlotIs(l, s, k, d) ==
    /\ s \in {"free", "init", "run", "zombie"}
    /\ k \in Pages \cup {NULL} /\ d \in Pages \cup {NULL, BAD}
    /\ s = "free" => k = NULL /\ d = NULL
    /\ s = "init" => d # BAD
    /\ s \in {"run", "zombie"} => d # NULL
    /\ l # "user" => s = "run" /\ d \in Pages

\* The slot of a child of a fork at l.
ChildIs(l, s, k, d) ==
    /\ s = "init"
    /\ l = "undo_user" => k = NULL
    /\ l \in {"fork_dir", "undo_stack"} => k \in Pages
    /\ d \in (IF l \in Copies THEN Pages ELSE {NULL})

MemOK ==
    /\ pde \in [Pages -> [PDEs -> Pages \cup {NULL}]]
    /\ pte \in [Pages -> [PTEs -> Pages \cup {NULL}]]

TasksOK ==
    /\ pc = [t \in Tasks |-> pc[t]] /\ loc = [t \in Tasks |-> loc[t]]
    /\ slot = [t \in Tasks |-> slot[t]] /\ kstack = [t \in Tasks |-> kstack[t]]
    /\ cr3 = [t \in Tasks |-> cr3[t]] /\ heap_end \in [Tasks -> Nat]
    /\ \A t \in Tasks : LocIs(pc[t], loc[t], cr3[t]) /\ SlotIs(pc[t], slot[t], kstack[t], cr3[t])

ChildOK ==
    /\ \A t \in Tasks : \A c \in Tasks :
           loc[t].child = c => ChildIs(pc[t], slot[c], kstack[c], cr3[c])
    /\ \A t, u \in Tasks : \A c \in Tasks : loc[t].child = c /\ loc[u].child = c => t = u

\* The directory of a slot that is not started has no tables.
EmptyOK ==
    \A c \in Tasks : slot[c] = "init" /\ cr3[c] \in Pages => pde[cr3[c]] = NoTable

PlacesOK == Sound(cells, bitmap, leaked)

\* The program that a task runs, the one it loads, and the start of its heap.
ProgOK ==
    /\ heap_start \in [Tasks -> Nat]
    /\ runs \in [Tasks -> Programs \cup {"first_task"}]
    /\ loads \in [Tasks -> Programs \cup {"first_task"}]

CoreOK == MemOK /\ TasksOK /\ ChildOK /\ EmptyOK /\ PlacesOK
VmOK   == CoreOK /\ ProgOK

LEMMA HeapStartIs == \A p : HeapStart(p) \in Nat
BY ProgramAssumption DEF HeapStart

LEMMA Smallest ==
    ASSUME NEW S \in SUBSET Nat, S # {}
    PROVE  LET m == CHOOSE x \in S : \A y \in S : x <= y
           IN  m \in S /\ \A y \in S : m <= y
<1> DEFINE R == OpToRel(<, Nat)
<1>1. IsWellFoundedOn(R, Nat)
  BY NatLessThanWellFounded
<1>2. \A x, y \in Nat : <<x, y>> \in R <=> x < y
  BY DEF OpToRel
<1> HIDE DEF R
<1>3. PICK x \in S : \A y \in S : ~ (<<y, x>> \in R)
  BY <1>1, WFMin
<1>4. ASSUME NEW y \in S PROVE x <= y
  <2>1. ~ (y < x)
    BY <1>2, <1>3
  <2> QED BY <2>1
<1> QED BY <1>4

\* The allocator gives out a page that is not marked.
LEMMA FreshPage ==
    ASSUME bitmap \subseteq Pages, addr_alloc_page # NULL
    PROVE  addr_alloc_page \in Pages /\ addr_alloc_page \notin bitmap
<1>1. bitmap # Pages /\ addr_alloc_page = bitmap_alloc_nbits
  BY DEF addr_alloc_page, bitmap_alloc_nbits
<1>0. Pages \subseteq Nat
  BY Sizes DEF Pages
<1>2. Pages \ bitmap \in SUBSET Nat /\ Pages \ bitmap # {}
  BY <1>0, <1>1
<1>3. bitmap_alloc_nbits = CHOOSE p \in Pages \ bitmap : \A q \in Pages \ bitmap : p <= q
  BY <1>1 DEF bitmap_alloc_nbits
<1>4. bitmap_alloc_nbits \in Pages \ bitmap
  BY <1>2, <1>3, Smallest
<1> QED BY <1>1, <1>4

-----------------------------------------------------------------------------
(* What is at a position, for any contents pd and pt of the pages.         *)

Vic(pd, pt, d, k) ==
    LET i == k \div W
        j == k % W
    IN  IF k = LastPos THEN d
        ELSE IF pd[d][i] = NULL \/ j = PTE_CNT THEN pd[d][i]
        ELSE pt[pd[d][i]][j]

LEMMA VictimIs ==
    ASSUME NEW d, NEW k
    PROVE  Victim(d, k) = Vic(pde, pte, d, k) /\ Victim(d, k)' = Vic(pde', pte', d, k)
BY DEF Victim, Vic, W

LEMMA VicTop ==
    ASSUME NEW pd, NEW pt, NEW d
    PROVE  Vic(pd, pt, d, LastPos) = d
BY DEF Vic

LEMMA VicTable ==
    ASSUME NEW pd, NEW pt, NEW d, NEW i \in PDEs
    PROVE  Vic(pd, pt, d, K(i, PTE_CNT)) = pd[d][i]
<1>1. PTE_CNT \in 0 .. PTE_CNT
  BY Sizes
<1>2. K(i, PTE_CNT) # LastPos /\ K(i, PTE_CNT) \div W = i /\ K(i, PTE_CNT) % W = PTE_CNT
  BY <1>1, Position
<1> QED BY <1>2 DEF Vic

LEMMA VicPage ==
    ASSUME NEW pd, NEW pt, NEW d, NEW i \in PDEs, NEW j \in PTEs
    PROVE  /\ pd[d][i] = NULL => Vic(pd, pt, d, K(i, j)) = NULL
           /\ pd[d][i] # NULL => Vic(pd, pt, d, K(i, j)) = pt[pd[d][i]][j]
<1>1. j \in 0 .. PTE_CNT /\ j # PTE_CNT
  BY Sizes DEF PTEs
<1>2. K(i, j) # LastPos /\ K(i, j) \div W = i /\ K(i, j) % W = j
  BY <1>1, Position
<1> QED BY <1>1, <1>2 DEF Vic

\* Every position is one of these.
LEMMA Somewhere ==
    ASSUME NEW k \in 0 .. LastPos
    PROVE  \/ k = LastPos
           \/ \E i \in PDEs : k = K(i, PTE_CNT)
           \/ \E i \in PDEs : \E j \in PTEs : k = K(i, j)
<1>1. CASE k # LastPos
  <2>1. k \in 0 .. LastPos - 1
    BY <1>1, Sizes
  <2>2. /\ k \div W \in PDEs /\ k % W \in 0 .. PTE_CNT
        /\ k = K(k \div W, k % W)
    BY <2>1, PositionOf
  <2>3. k % W = PTE_CNT \/ k % W \in PTEs
    BY <2>2, Sizes DEF PTEs
  <2> QED BY <2>2, <2>3
<1> QED BY <1>1

\* The positions of a directory from a position on need the directory and the tables
\* whose own positions are still ahead.
RowsSame(pd, pt, pd2, pt2, d, from) ==
    /\ pd2[d] = pd[d]
    /\ \A i \in PDEs : pd[d][i] # NULL /\ K(i, PTE_CNT) >= from => pt2[pd[d][i]] = pt[pd[d][i]]

LEMMA VicFrame ==
    ASSUME NEW pd, NEW pt, NEW pd2, NEW pt2, NEW d, NEW from \in Nat,
           RowsSame(pd, pt, pd2, pt2, d, from),
           NEW k \in 0 .. LastPos, k >= from
    PROVE  Vic(pd2, pt2, d, k) = Vic(pd, pt, d, k)
<1>0. pd2[d] = pd[d]
  BY DEF RowsSame
<1>1. CASE k = LastPos
  BY <1>1, VicTop
<1>2. ASSUME NEW i \in PDEs, k = K(i, PTE_CNT) PROVE Vic(pd2, pt2, d, k) = Vic(pd, pt, d, k)
  <2>1. Vic(pd2, pt2, d, K(i, PTE_CNT)) = pd2[d][i] /\ Vic(pd, pt, d, K(i, PTE_CNT)) = pd[d][i]
    BY VicTable
  <2> QED BY <1>0, <1>2, <2>1
<1>3. ASSUME NEW i \in PDEs, NEW j \in PTEs, k = K(i, j)
      PROVE Vic(pd2, pt2, d, k) = Vic(pd, pt, d, k)
  <2>1. j \in 0 .. PTE_CNT
    BY Sizes DEF PTEs
  <2>2. K(i, PTE_CNT) >= K(i, j) /\ K(i, PTE_CNT) \in Nat
    BY <2>1, Position, Sizes DEF K, PDEs
  <2>3. K(i, PTE_CNT) >= from
    BY <1>3, <2>2
  <2>4. pd[d][i] # NULL => pt2[pd[d][i]] = pt[pd[d][i]]
    BY <2>3 DEF RowsSame
  <2>7. K(i, j) # LastPos /\ K(i, j) \div W = i /\ K(i, j) % W = j
    BY <2>1, Position
  <2>8. j # PTE_CNT
    BY Sizes DEF PTEs
  <2>5. /\ pd2[d][i] = NULL => Vic(pd2, pt2, d, K(i, j)) = NULL
        /\ pd2[d][i] # NULL => Vic(pd2, pt2, d, K(i, j)) = pt2[pd2[d][i]][j]
    BY <2>7, <2>8 DEF Vic
  <2>6. /\ pd[d][i] = NULL => Vic(pd, pt, d, K(i, j)) = NULL
        /\ pd[d][i] # NULL => Vic(pd, pt, d, K(i, j)) = pt[pd[d][i]][j]
    BY <2>7, <2>8 DEF Vic
  <2> QED BY <1>0, <1>3, <2>4, <2>5, <2>6
<1> QED BY <1>1, <1>2, <1>3, Somewhere

-----------------------------------------------------------------------------
(* The cells of a task, in terms of its variables.                         *)

One(p, k) == IF k = 0 THEN p ELSE NULL
Tree(pd, pt, d, from, k) == IF d # NULL /\ k >= from THEN Vic(pd, pt, d, k) ELSE NULL
Own(c)      == IF c \in Pages THEN c ELSE NULL
Other(r, c) == IF r.dir # c THEN r.dir ELSE NULL
Start(l, r) == IF l \in {"undo_copy", "destroy"} THEN r.pos ELSE 0

LEMMA CellsAre ==
    ASSUME NEW t \in Tasks, NEW k \in 0 .. LastPos
    PROVE  /\ cells[<<"stack", t, k>>] = One(kstack[t], k)
           /\ cells[<<"page", t, k>>] = One(loc[t].page, k)
           /\ cells[<<"cr3", t, k>>] = Tree(pde, pte, Own(cr3[t]), 0, k)
           /\ cells[<<"dir", t, k>>]
                = Tree(pde, pte, Other(loc[t], cr3[t]), Start(pc[t], loc[t]), k)
<1>1. /\ <<"stack", t, k>> \in Places /\ <<"page", t, k>> \in Places
      /\ <<"cr3", t, k>> \in Places /\ <<"dir", t, k>> \in Places
  BY DEF Places
<1>2. /\ cells[<<"stack", t, k>>] = Cell("stack", t, k)
      /\ cells[<<"page", t, k>>] = Cell("page", t, k)
      /\ cells[<<"cr3", t, k>>] = Cell("cr3", t, k)
      /\ cells[<<"dir", t, k>>] = Cell("dir", t, k)
  BY <1>1 DEF cells
<1>3. k >= 0
  BY Sizes
<1>4. \A d : Victim(d, k) = Vic(pde, pte, d, k)
  BY DEF Victim, Vic, W
<1>5. Cell("stack", t, k) = One(kstack[t], k) /\ Cell("page", t, k) = One(loc[t].page, k)
  BY DEF Cell, One
<1>6. Cell("cr3", t, k) = Tree(pde, pte, Own(cr3[t]), 0, k)
  BY <1>3, <1>4, Sizes DEF Cell, Tree, Own
<1>7. Cell("dir", t, k)
        = Tree(pde, pte, Other(loc[t], cr3[t]), Start(pc[t], loc[t]), k)
  BY <1>4 DEF Cell, Tree, Other, Start, OtherDir, From
<1> QED BY <1>2, <1>5, <1>6, <1>7

LEMMA CellsWillBe ==
    ASSUME NEW t \in Tasks, NEW k \in 0 .. LastPos
    PROVE  /\ cells'[<<"stack", t, k>>] = One(kstack'[t], k)
           /\ cells'[<<"page", t, k>>] = One(loc'[t].page, k)
           /\ cells'[<<"cr3", t, k>>] = Tree(pde', pte', Own(cr3'[t]), 0, k)
           /\ cells'[<<"dir", t, k>>]
                = Tree(pde', pte', Other(loc'[t], cr3'[t]), Start(pc'[t], loc'[t]), k)
<1>1. /\ <<"stack", t, k>> \in Places /\ <<"page", t, k>> \in Places
      /\ <<"cr3", t, k>> \in Places /\ <<"dir", t, k>> \in Places
  BY DEF Places
<1>2. /\ cells'[<<"stack", t, k>>] = Cell("stack", t, k)'
      /\ cells'[<<"page", t, k>>] = Cell("page", t, k)'
      /\ cells'[<<"cr3", t, k>>] = Cell("cr3", t, k)'
      /\ cells'[<<"dir", t, k>>] = Cell("dir", t, k)'
  BY <1>1 DEF cells
<1>3. k >= 0
  BY Sizes
<1>5. Cell("stack", t, k)' = One(kstack'[t], k) /\ Cell("page", t, k)' = One(loc'[t].page, k)
  BY DEF Cell, One
<1>6. Cell("cr3", t, k)' = Tree(pde', pte', Own(cr3'[t]), 0, k)
  BY <1>3, Sizes DEF Cell, Tree, Own, Victim, Vic, W
<1>7. Cell("dir", t, k)'
        = Tree(pde', pte', Other(loc'[t], cr3'[t]), Start(pc'[t], loc'[t]), k)
  BY DEF Cell, Tree, Other, Start, OtherDir, From, Victim, Vic, W
<1> QED BY <1>2, <1>5, <1>6, <1>7

LEMMA TreeKept ==
    ASSUME NEW pd, NEW pt, NEW pd2, NEW pt2, NEW d, NEW from \in Nat,
           d # NULL => RowsSame(pd, pt, pd2, pt2, d, from),
           NEW k \in 0 .. LastPos
    PROVE  Tree(pd2, pt2, d, from, k) = Tree(pd, pt, d, from, k)
<1>1. CASE d # NULL /\ k >= from
  <2>1. Vic(pd2, pt2, d, k) = Vic(pd, pt, d, k)
    BY <1>1, VicFrame
  <2> QED BY <2>1 DEF Tree
<1>2. CASE ~ (d # NULL /\ k >= from)
  BY <1>2 DEF Tree
<1> QED BY <1>1, <1>2

\* The directory and the tables of a tree are pages of it.
LEMMA TreeTop ==
    ASSUME NEW pd, NEW pt, NEW d, d # NULL, NEW from \in 0 .. LastPos
    PROVE  LastPos \in 0 .. LastPos /\ Tree(pd, pt, d, from, LastPos) = d
<1>1. LastPos \in 0 .. LastPos /\ LastPos >= from
  BY Sizes
<1>2. Vic(pd, pt, d, LastPos) = d
  BY VicTop
<1> QED BY <1>1, <1>2 DEF Tree

LEMMA TreeTable ==
    ASSUME NEW pd, NEW pt, NEW d, d # NULL, NEW from \in 0 .. LastPos,
           NEW i \in PDEs, K(i, PTE_CNT) >= from
    PROVE  /\ K(i, PTE_CNT) \in 0 .. LastPos
           /\ Tree(pd, pt, d, from, K(i, PTE_CNT)) = pd[d][i]
<1>1. PTE_CNT \in 0 .. PTE_CNT
  BY Sizes
<1>2. K(i, PTE_CNT) \in 0 .. LastPos - 1
  BY <1>1, Position
<1>3. Vic(pd, pt, d, K(i, PTE_CNT)) = pd[d][i]
  BY VicTable
<1> QED BY <1>2, <1>3, Sizes DEF Tree

-----------------------------------------------------------------------------
(* What a step leaves alone.  RowsKept(C): the contents of every allocated *)
(* page outside C.                                                         *)

RowsKept(C) == \A p \in bitmap : p \notin C => pde'[p] = pde[p] /\ pte'[p] = pte[p]

LEMMA StartOK ==
    ASSUME TasksOK, NEW t \in Tasks
    PROVE  Start(pc[t], loc[t]) \in 0 .. LastPos
<1>1. LocIs(pc[t], loc[t], cr3[t])
  BY DEF TasksOK
<1> QED BY <1>1, Sizes DEF LocIs, Start

\* A tree whose pages are marked and not in C.
LEMMA TreeUntouched ==
    ASSUME NEW C, RowsKept(C), NEW d, NEW from \in 0 .. LastPos,
           \A n \in 0 .. LastPos : Tree(pde, pte, d, from, n) \notin C,
           \A n \in 0 .. LastPos : Tree(pde, pte, d, from, n) # NULL
                                      => Tree(pde, pte, d, from, n) \in bitmap
    PROVE  \A k \in 0 .. LastPos : Tree(pde', pte', d, from, k) = Tree(pde, pte, d, from, k)
<1>1. ASSUME d # NULL PROVE RowsSame(pde, pte, pde', pte', d, from)
  <2>1. LastPos \in 0 .. LastPos /\ Tree(pde, pte, d, from, LastPos) = d
    BY <1>1, TreeTop
  <2>2. d \in bitmap /\ d \notin C
    BY <1>1, <2>1
  <2>3. pde'[d] = pde[d]
    BY <2>2 DEF RowsKept
  <2>4. ASSUME NEW i \in PDEs, pde[d][i] # NULL, K(i, PTE_CNT) >= from
        PROVE  pte'[pde[d][i]] = pte[pde[d][i]]
    <3>1. PICK tab : tab = pde[d][i]
      OBVIOUS
    <3>2. K(i, PTE_CNT) \in 0 .. LastPos /\ Tree(pde, pte, d, from, K(i, PTE_CNT)) = pde[d][i]
      BY <1>1, <2>4, TreeTable
    <3>3. tab \in bitmap /\ tab \notin C
      BY <2>4, <3>1, <3>2
    <3> QED BY <3>1, <3>3 DEF RowsKept
  <2> QED BY <2>3, <2>4 DEF RowsSame
<1>2. from \in Nat
  BY Sizes
<1>3. d # NULL => RowsSame(pde, pte, pde', pte', d, from)
  BY <1>1
<1>4. ASSUME NEW k \in 0 .. LastPos
      PROVE  Tree(pde', pte', d, from, k) = Tree(pde, pte, d, from, k)
  <2>1. CASE d # NULL /\ k >= from
    <3>1. RowsSame(pde, pte, pde', pte', d, from)
      BY <2>1, <1>3
    <3>2. PICK pd, pt, pd2, pt2 : pd = pde /\ pt = pte /\ pd2 = pde' /\ pt2 = pte'
      OBVIOUS
    <3>3. RowsSame(pd, pt, pd2, pt2, d, from)
      BY <3>1, <3>2
    <3>4. Tree(pd2, pt2, d, from, k) = Tree(pd, pt, d, from, k)
      BY ONLY <3>3, <1>2, k \in 0 .. LastPos, TreeKept
    <3> QED BY <3>2, <3>4
  <2>2. CASE ~ (d # NULL /\ k >= from)
    BY <2>2 DEF Tree
  <2> QED BY <2>1, <2>2
<1> QED BY <1>4

LEMMA Cr3Kept ==
    ASSUME PlacesOK, NEW u \in Tasks, NEW C, RowsKept(C), cr3'[u] = cr3[u],
           \A k \in 0 .. LastPos : cells[<<"cr3", u, k>>] \notin C
    PROVE  \A k \in 0 .. LastPos : cells'[<<"cr3", u, k>>] = cells[<<"cr3", u, k>>]
<1>1. PICK d : d = Own(cr3[u])
  OBVIOUS
<1>3. ASSUME NEW n \in 0 .. LastPos
      PROVE  /\ cells[<<"cr3", u, n>>] = Tree(pde, pte, d, 0, n)
             /\ cells'[<<"cr3", u, n>>] = Tree(pde', pte', d, 0, n)
  BY <1>1, CellsAre, CellsWillBe
<1>4. ASSUME NEW n \in 0 .. LastPos, Tree(pde, pte, d, 0, n) # NULL
      PROVE  Tree(pde, pte, d, 0, n) \in bitmap
  <2>1. <<"cr3", u, n>> \in Places
    BY DEF Places
  <2> QED BY <1>3, <1>4, <2>1 DEF PlacesOK, Sound
<1>5. ASSUME NEW n \in 0 .. LastPos PROVE Tree(pde, pte, d, 0, n) \notin C
  BY <1>3
<1>6. 0 \in 0 .. LastPos
  BY Sizes
<1>7. \A k \in 0 .. LastPos : Tree(pde', pte', d, 0, k) = Tree(pde, pte, d, 0, k)
  BY <1>4, <1>5, <1>6, TreeUntouched
<1> QED BY <1>3, <1>7

LEMMA DirKept ==
    ASSUME PlacesOK, TasksOK, NEW u \in Tasks, NEW C, RowsKept(C),
           Other(loc'[u], cr3'[u]) = Other(loc[u], cr3[u]),
           Start(pc'[u], loc'[u]) = Start(pc[u], loc[u]),
           \A k \in 0 .. LastPos : cells[<<"dir", u, k>>] \notin C
    PROVE  \A k \in 0 .. LastPos : cells'[<<"dir", u, k>>] = cells[<<"dir", u, k>>]
<1>1. PICK d : d = Other(loc[u], cr3[u])
  OBVIOUS
<1>a. PICK from : from = Start(pc[u], loc[u])
  OBVIOUS
<1>3. ASSUME NEW n \in 0 .. LastPos
      PROVE  /\ cells[<<"dir", u, n>>] = Tree(pde, pte, d, from, n)
             /\ cells'[<<"dir", u, n>>] = Tree(pde', pte', d, from, n)
  BY <1>1, <1>a, CellsAre, CellsWillBe
<1>4. ASSUME NEW n \in 0 .. LastPos, Tree(pde, pte, d, from, n) # NULL
      PROVE  Tree(pde, pte, d, from, n) \in bitmap
  <2>1. <<"dir", u, n>> \in Places
    BY DEF Places
  <2> QED BY <1>3, <1>4, <2>1 DEF PlacesOK, Sound
<1>5. ASSUME NEW n \in 0 .. LastPos PROVE Tree(pde, pte, d, from, n) \notin C
  BY <1>3
<1>6. from \in 0 .. LastPos
  BY <1>a, StartOK
<1>7. \A k \in 0 .. LastPos : Tree(pde', pte', d, from, k) = Tree(pde, pte, d, from, k)
  BY <1>4, <1>5, <1>6, TreeUntouched
<1> QED BY <1>3, <1>7

Tags == {"stack", "page", "cr3", "dir"}
Same(tag, u) == \A k \in 0 .. LastPos : cells'[<<tag, u, k>>] = cells[<<tag, u, k>>]

LEMMA PlaceIs ==
    /\ \A x \in Places : /\ x[1] \in Tags /\ x[2] \in Tasks /\ x[3] \in 0 .. LastPos
                         /\ x = <<x[1], x[2], x[3]>>
    /\ \A tag \in Tags : \A u \in Tasks : \A k \in 0 .. LastPos : <<tag, u, k>> \in Places
BY DEF Places, Tags

LEMMA SameStack ==
    ASSUME NEW u \in Tasks, kstack'[u] = kstack[u]
    PROVE  Same("stack", u)
<1> SUFFICES ASSUME NEW k \in 0 .. LastPos
             PROVE  cells'[<<"stack", u, k>>] = cells[<<"stack", u, k>>]
  BY DEF Same
<1>1. cells[<<"stack", u, k>>] = One(kstack[u], k)
  BY CellsAre
<1>2. cells'[<<"stack", u, k>>] = One(kstack'[u], k)
  BY CellsWillBe
<1> QED BY <1>1, <1>2

LEMMA SamePage ==
    ASSUME NEW u \in Tasks, loc'[u].page = loc[u].page
    PROVE  Same("page", u)
<1> SUFFICES ASSUME NEW k \in 0 .. LastPos
             PROVE  cells'[<<"page", u, k>>] = cells[<<"page", u, k>>]
  BY DEF Same
<1>1. cells[<<"page", u, k>>] = One(loc[u].page, k)
  BY CellsAre
<1>2. cells'[<<"page", u, k>>] = One(loc'[u].page, k)
  BY CellsWillBe
<1> QED BY <1>1, <1>2

LEMMA TaskKept ==
    ASSUME PlacesOK, TasksOK, NEW u \in Tasks, NEW C, RowsKept(C),
           kstack'[u] = kstack[u], loc'[u] = loc[u], cr3'[u] = cr3[u], pc'[u] = pc[u],
           \A k \in 0 .. LastPos :
               cells[<<"cr3", u, k>>] \notin C /\ cells[<<"dir", u, k>>] \notin C
    PROVE  \A tag \in Tags : Same(tag, u)
<1>1. Same("stack", u) /\ Same("page", u)
  BY SameStack, SamePage
<1>2. Same("cr3", u)
  BY Cr3Kept DEF Same
<1>3. Other(loc'[u], cr3'[u]) = Other(loc[u], cr3[u])
  OBVIOUS
<1>4. Start(pc'[u], loc'[u]) = Start(pc[u], loc[u])
  OBVIOUS
<1>5. Same("dir", u)
  BY <1>3, <1>4, DirKept DEF Same
<1> QED BY <1>1, <1>2, <1>5 DEF Tags

\* Only one cell is changed.
LEMMA OneChanges ==
    ASSUME NEW tag0 \in Tags, NEW t \in Tasks, NEW k0 \in 0 .. LastPos, NEW v,
           \A tag \in Tags : \A u \in Tasks : tag # tag0 \/ u # t => Same(tag, u),
           \A k \in 0 .. LastPos : k # k0 => cells'[<<tag0, t, k>>] = cells[<<tag0, t, k>>],
           cells'[<<tag0, t, k0>>] = v
    PROVE  <<tag0, t, k0>> \in Places /\ cells' = [cells EXCEPT ![<<tag0, t, k0>>] = v]
<1>1. PICK x : x = <<tag0, t, k0>>
  OBVIOUS
<1>2. x \in Places
  BY <1>1, PlaceIs
<1>3. cells'[x] = v
  BY <1>1
<1>4. ASSUME NEW y \in Places, y # x PROVE cells'[y] = cells[y]
  <2>1. PICK tag \in Tags, u \in Tasks, k \in 0 .. LastPos : y = <<tag, u, k>>
    BY PlaceIs
  <2>2. CASE tag # tag0 \/ u # t
    BY <2>1, <2>2 DEF Same
  <2>3. CASE tag = tag0 /\ u = t
    <3>1. k # k0
      BY <1>1, <1>4, <2>1, <2>3
    <3> QED BY <2>1, <2>3, <3>1
  <2> QED BY <2>2, <2>3
<1>5. /\ cells = [y \in Places |-> cells[y]] /\ cells' = [y \in Places |-> cells'[y]]
  BY DEF cells
<1>6. cells' = [cells EXCEPT ![x] = v]
  BY <1>2, <1>3, <1>4, <1>5
<1> QED BY <1>1, <1>2, <1>6

\* No cell is changed.
LEMMA NoneChanges ==
    ASSUME \A tag \in Tags : \A u \in Tasks : Same(tag, u)
    PROVE  cells' = cells
<1>1. ASSUME NEW y \in Places PROVE cells'[y] = cells[y]
  BY PlaceIs DEF Same
<1>2. /\ cells = [y \in Places |-> cells[y]] /\ cells' = [y \in Places |-> cells'[y]]
  BY DEF cells
<1> QED BY <1>1, <1>2
-----------------------------------------------------------------------------
(* The tasks.                                                              *)

LEMMA RunIs ==
    ASSUME TasksOK, NEW t \in Tasks, NEW l, At(t, l)
    PROVE  /\ slot[t] = "run" /\ pc[t] = l /\ cr3[t] \in Pages
           /\ LocIs(l, loc[t], cr3[t]) /\ SlotIs(l, slot[t], kstack[t], cr3[t])
<1>1. slot[t] = "run" /\ pc[t] = l /\ cr3[t] # BAD
  BY DEF At
<1>2. LocIs(pc[t], loc[t], cr3[t]) /\ SlotIs(pc[t], slot[t], kstack[t], cr3[t])
  BY DEF TasksOK
<1>3. cr3[t] \in Pages
  BY <1>1, <1>2 DEF SlotIs
<1> QED BY <1>1, <1>2, <1>3

\* A step of t that leaves the task table alone.
Steps(t, l, r) ==
    /\ slot[t] = "run" /\ cr3[t] \in Pages
    /\ pc' = [pc EXCEPT ![t] = l] /\ loc' = [loc EXCEPT ![t] = r]
    /\ LocIs(l, r, cr3[t])

LEMMA OwnStep ==
    ASSUME TasksOK, ChildOK, NEW t \in Tasks, NEW l, NEW r, Steps(t, l, r),
           slot' = slot, kstack' = kstack, cr3' = cr3, heap_end' \in [Tasks -> Nat],
           r.child \in Tasks => /\ r.child = loc[t].child
                                /\ ChildIs(l, slot[r.child], kstack[r.child], cr3[r.child])
    PROVE  TasksOK' /\ ChildOK'
<1> USE DEF Steps
<1>1. pc'[t] = l /\ loc'[t] = r /\ \A u \in Tasks : u # t => pc'[u] = pc[u] /\ loc'[u] = loc[u]
  BY DEF TasksOK
<1>2. /\ pc' = [u \in Tasks |-> pc'[u]] /\ loc' = [u \in Tasks |-> loc'[u]]
      /\ slot' = [u \in Tasks |-> slot'[u]] /\ kstack' = [u \in Tasks |-> kstack'[u]]
      /\ cr3' = [u \in Tasks |-> cr3'[u]]
  BY DEF TasksOK
<1>3. SlotIs(l, slot[t], kstack[t], cr3[t])
  <2>1. SlotIs(pc[t], slot[t], kstack[t], cr3[t])
    BY DEF TasksOK
  <2> QED BY <2>1, Sizes DEF SlotIs
<1>4. ASSUME NEW u \in Tasks
      PROVE  LocIs(pc'[u], loc'[u], cr3'[u]) /\ SlotIs(pc'[u], slot'[u], kstack'[u], cr3'[u])
  <2>1. CASE u = t
    BY <1>1, <1>3, <2>1
  <2>2. CASE u # t
    BY <1>1, <2>2 DEF TasksOK
  <2> QED BY <2>1, <2>2
<1>5. TasksOK'
  BY <1>2, <1>4 DEF TasksOK
<1>6. ASSUME NEW u \in Tasks, NEW c \in Tasks, loc'[u].child = c
      PROVE  ChildIs(pc'[u], slot'[c], kstack'[c], cr3'[c]) /\ loc[u].child = c
  <2>1. CASE u = t
    BY <1>1, <1>6, <2>1
  <2>2. CASE u # t
    BY <1>1, <1>6, <2>2 DEF ChildOK
  <2> QED BY <2>1, <2>2
<1>7. ChildOK'
  <2>1. ASSUME NEW u \in Tasks, NEW w \in Tasks, NEW c \in Tasks,
               loc'[u].child = c, loc'[w].child = c
        PROVE  u = w
    BY <1>6, <2>1 DEF ChildOK
  <2> QED BY <1>6, <2>1 DEF ChildOK
<1> QED BY <1>5, <1>7

LEMMA EmptyStep ==
    ASSUME EmptyOK, TasksOK, PlacesOK, slot' = slot, cr3' = cr3, NEW C, RowsKept(C),
           \A c \in Tasks : slot[c] = "init" => cr3[c] \notin C
    PROVE  EmptyOK'
<1>1. ASSUME NEW c \in Tasks, slot'[c] = "init", cr3'[c] \in Pages
      PROVE  pde'[cr3'[c]] = NoTable
  <2>1. PICK d : d = cr3[c]
    OBVIOUS
  <2>2. d \in Pages /\ slot[c] = "init" /\ pde[d] = NoTable /\ d \notin C
    BY <1>1, <2>1 DEF EmptyOK
  <2>3. d \in bitmap
    <3>1. Own(cr3[c]) = d /\ d # NULL
      BY <2>1, <2>2, Sizes DEF Own
    <3>2. LastPos \in 0 .. LastPos /\ 0 \in 0 .. LastPos
      BY Sizes
    <3>3. Tree(pde, pte, d, 0, LastPos) = d
      BY <3>1, <3>2, TreeTop
    <3>4. cells[<<"cr3", c, LastPos>>] = d
      BY <3>1, <3>2, <3>3, CellsAre
    <3>5. <<"cr3", c, LastPos>> \in Places
      BY <3>2 DEF Places
    <3> QED BY <3>1, <3>4, <3>5 DEF PlacesOK, Sound
  <2>4. pde'[d] = pde[d]
    BY <2>2, <2>3 DEF RowsKept
  <2> QED BY <2>1, <2>2, <2>4
<1> QED BY <1>1 DEF EmptyOK, NoTable
\* A step of t that changes the task it forks.
Changes(c, s, ks, d) ==
    /\ slot' = [slot EXCEPT ![c] = s] /\ kstack' = [kstack EXCEPT ![c] = ks]
    /\ cr3' = [cr3 EXCEPT ![c] = d] /\ heap_end' = heap_end
    /\ SlotIs("user", s, ks, d)

LEMMA ForkStep ==
    ASSUME TasksOK, ChildOK, NEW t \in Tasks, NEW c \in Tasks, slot[c] # "run",
           NEW l, NEW r, Steps(t, l, r),
           NEW s, NEW ks, NEW d, Changes(c, s, ks, d),
           \A u \in Tasks : u # t => loc[u].child # c,
           r.child \in Tasks => r.child = c /\ ChildIs(l, s, ks, d)
    PROVE  TasksOK' /\ ChildOK'
<1> USE DEF Steps, Changes
<1>0. t # c
  OBVIOUS
<1>1. pc'[t] = l /\ loc'[t] = r /\ \A u \in Tasks : u # t => pc'[u] = pc[u] /\ loc'[u] = loc[u]
  BY DEF TasksOK
<1>2. /\ slot'[c] = s /\ kstack'[c] = ks /\ cr3'[c] = d
      /\ \A u \in Tasks : u # c => slot'[u] = slot[u] /\ kstack'[u] = kstack[u] /\ cr3'[u] = cr3[u]
  BY DEF TasksOK
<1>3. /\ pc' = [u \in Tasks |-> pc'[u]] /\ loc' = [u \in Tasks |-> loc'[u]]
      /\ slot' = [u \in Tasks |-> slot'[u]] /\ kstack' = [u \in Tasks |-> kstack'[u]]
      /\ cr3' = [u \in Tasks |-> cr3'[u]]
  BY DEF TasksOK
<1>4. ASSUME NEW u \in Tasks
      PROVE  LocIs(pc'[u], loc'[u], cr3'[u]) /\ SlotIs(pc'[u], slot'[u], kstack'[u], cr3'[u])
  <2>0. LocIs(pc[u], loc[u], cr3[u]) /\ SlotIs(pc[u], slot[u], kstack[u], cr3[u])
    BY DEF TasksOK
  <2>1. CASE u = t
    <3>1. SlotIs(l, slot[t], kstack[t], cr3[t])
      BY <2>0, <2>1, Sizes DEF SlotIs
    <3> QED BY <1>0, <1>1, <1>2, <2>1, <3>1
  <2>2. CASE u = c
    <3>1. pc[c] = "user"
      BY <2>0, <2>2 DEF SlotIs
    <3>2. LocIs("user", loc[c], d)
      BY <2>0, <2>2, <3>1 DEF LocIs, Others
    <3> QED BY <1>0, <1>1, <1>2, <2>2, <3>1, <3>2
  <2>3. CASE u # t /\ u # c
    BY <1>1, <1>2, <2>0, <2>3
  <2> QED BY <2>1, <2>2, <2>3
<1>5. TasksOK'
  BY <1>3, <1>4 DEF TasksOK
<1>6. ASSUME NEW u \in Tasks, NEW w \in Tasks, loc'[u].child = w
      PROVE  ChildIs(pc'[u], slot'[w], kstack'[w], cr3'[w]) /\ (u = t <=> w = c)
  <2>1. CASE u = t
    BY <1>1, <1>2, <1>6, <2>1
  <2>2. CASE u # t
    BY <1>1, <1>2, <1>6, <2>2 DEF ChildOK
  <2> QED BY <2>1, <2>2
<1>7. ASSUME NEW u \in Tasks, NEW v \in Tasks, NEW w \in Tasks,
             loc'[u].child = w, loc'[v].child = w
      PROVE  u = v
  <2>1. CASE w = c
    BY <1>6, <1>7, <2>1
  <2>2. CASE w # c
    <3>1. u # t /\ v # t
      BY <1>6, <1>7, <2>2
    <3> QED BY <1>1, <1>7, <3>1 DEF ChildOK
  <2> QED BY <2>1, <2>2
<1> QED BY <1>5, <1>6, <1>7 DEF ChildOK

LEMMA SameCr3 ==
    ASSUME PlacesOK, RowsKept({}), NEW u \in Tasks, cr3'[u] = cr3[u]
    PROVE  Same("cr3", u)
<1>1. \A k \in 0 .. LastPos : cells[<<"cr3", u, k>>] \notin {}
  OBVIOUS
<1> QED BY <1>1, Cr3Kept DEF Same

LEMMA SameDir ==
    ASSUME PlacesOK, TasksOK, RowsKept({}), NEW u \in Tasks,
           Other(loc'[u], cr3'[u]) = Other(loc[u], cr3[u]),
           Start(pc'[u], loc'[u]) = Start(pc[u], loc[u])
    PROVE  Same("dir", u)
<1>1. \A k \in 0 .. LastPos : cells[<<"dir", u, k>>] \notin {}
  OBVIOUS
<1> QED BY <1>1, DirKept DEF Same

LEMMA NoRows ==
    ASSUME MemOK, pde' = pde, pte' = pte
    PROVE  RowsKept({}) /\ MemOK'
BY DEF RowsKept, MemOK

LEMMA NewUvm ==
    ASSUME MemOK, bitmap \subseteq Pages, NEW p \in Pages, p \notin bitmap, memory_create_uvm(p)
    PROVE  RowsKept({}) /\ MemOK' /\ pde'[p] = NoTable
<1>1. NoTable \in [PDEs -> Pages \cup {NULL}]
  BY DEF NoTable, PDEs
<1>2. pte' = pte /\ pde' = [pde EXCEPT ![p] = NoTable]
  BY DEF memory_create_uvm
<1> QED BY <1>1, <1>2 DEF MemOK, RowsKept
-----------------------------------------------------------------------------
(* sys_fork                                                                *)

LEMMA Marked ==
    ASSUME PlacesOK
    PROVE  bitmap \subseteq Pages
BY DEF PlacesOK, Sound

LEMMA Zero == 0 \in 0 .. LastPos /\ LastPos \in 0 .. LastPos /\ LastPos # 0
<1>1. LastPos \in Nat /\ LastPos = PDE_CNT * W /\ PDE_CNT \in Nat /\ PDE_CNT > 0 /\ W \in Nat /\ W > 1
  BY Sizes
<1>2. 0 * W + W <= PDE_CNT * W
  BY <1>1, Products
<1> QED BY <1>1, <1>2

LEMMA ForkStackOK ==
    ASSUME VmOK, NEW t \in Tasks, NEW c \in Tasks, ForkStack(t, c)
    PROVE  CoreOK'
<1> USE DEF VmOK, CoreOK
<1>1. PICK p : p = addr_alloc_page
  OBVIOUS
<1>2. p \in Pages /\ p \notin bitmap
  BY <1>1, Marked, FreshPage DEF ForkStack
<1>3. /\ At(t, "user") /\ slot[c] = "free"
      /\ bitmap' = bitmap \cup {p} /\ kstack' = [kstack EXCEPT ![c] = p]
      /\ slot' = [slot EXCEPT ![c] = "init"] /\ pc' = [pc EXCEPT ![t] = "fork_dir"]
      /\ loc' = [loc EXCEPT ![t] = Space(NULL, NULL, 0, c)]
      /\ pde' = pde /\ pte' = pte /\ cr3' = cr3 /\ heap_end' = heap_end /\ leaked' = leaked
  BY <1>1 DEF ForkStack, Go, Set
<1>4. /\ slot[t] = "run" /\ pc[t] = "user" /\ cr3[t] \in Pages
      /\ LocIs("user", loc[t], cr3[t])
  BY <1>3, RunIs
<1>5. RowsKept({}) /\ MemOK'
  BY <1>3, NoRows
<1>6. kstack[c] = NULL /\ cr3[c] = NULL
  <2>1. SlotIs(pc[c], slot[c], kstack[c], cr3[c])
    BY DEF TasksOK
  <2> QED BY <1>3, <2>1 DEF SlotIs
<1>7. loc[t].dir = NULL /\ loc[t].page = NULL
  BY <1>4 DEF LocIs, Others, Fills
<1>8. TasksOK' /\ ChildOK'
  <2>1. LocIs("fork_dir", Space(NULL, NULL, 0, c), cr3[t])
    BY DEF LocIs, Space, PCs, Forks, Fills, Others
  <2>2. SlotIs("user", "init", p, NULL) /\ ChildIs("fork_dir", "init", p, NULL)
    BY <1>2, Sizes DEF SlotIs, ChildIs, Copies
  <2>3. \A u \in Tasks : loc[u].child # c
    BY <1>3 DEF ChildOK, ChildIs
  <2>4. cr3' = [cr3 EXCEPT ![c] = NULL]
    BY <1>3, <1>6 DEF TasksOK
  <2>5. PICK r : r = Space(NULL, NULL, 0, c)
    OBVIOUS
  <2>6. r.child = c /\ slot[c] # "run"
    BY <1>3, <2>5 DEF Space
  <2>7. \A u \in Tasks : u # t => loc[u].child # c
    BY <2>3
  <2>8. Steps(t, "fork_dir", r)
    BY <1>3, <1>4, <2>1, <2>5 DEF Steps
  <2>9. Changes(c, "init", p, NULL)
    BY <1>3, <2>2, <2>4 DEF Changes
  <2> QED BY <2>2, <2>6, <2>7, <2>8, <2>9, ForkStep
<1>9. EmptyOK'
  <2>1. ASSUME NEW u \in Tasks, slot'[u] = "init", cr3'[u] \in Pages
        PROVE  pde'[cr3'[u]] = NoTable
    <3>1. u # c
      BY <1>3, <1>6, <2>1, Sizes
    <3>2. slot[u] = "init"
      BY <1>3, <2>1, <3>1 DEF TasksOK
    <3> QED BY <1>3, <2>1, <3>2 DEF EmptyOK
  <2> QED BY <2>1 DEF EmptyOK, NoTable
<1>10. PlacesOK'
  <2>1. ASSUME NEW u \in Tasks
        PROVE  Same("page", u) /\ Same("cr3", u) /\ Same("dir", u) /\ (u # c => Same("stack", u))
    <3>1. loc'[u].page = loc[u].page
      BY <1>3, <1>7 DEF TasksOK, Space
    <3>2. Other(loc'[u], cr3'[u]) = Other(loc[u], cr3[u])
      BY <1>3, <1>7 DEF TasksOK, Space, Other
    <3>3. Start(pc'[u], loc'[u]) = Start(pc[u], loc[u])
      BY <1>3, <1>4 DEF TasksOK, Start
    <3>4. u # c => kstack'[u] = kstack[u]
      BY <1>3 DEF TasksOK
    <3>5. cr3'[u] = cr3[u]
      BY <1>3
    <3> QED BY <1>5, <3>1, <3>2, <3>3, <3>4, <3>5, SamePage, SameDir, SameStack, SameCr3
  <2>2. ASSUME NEW k \in 0 .. LastPos
        PROVE  /\ cells[<<"stack", c, k>>] = NULL
               /\ cells'[<<"stack", c, k>>] = IF k = 0 THEN p ELSE NULL
    <3>1. kstack'[c] = p
      BY <1>3 DEF TasksOK
    <3>2. cells[<<"stack", c, k>>] = One(NULL, k) /\ cells'[<<"stack", c, k>>] = One(p, k)
      BY <1>6, <3>1, CellsAre, CellsWillBe
    <3> QED BY <3>2 DEF One
  <2>3. \A tag \in Tags : \A u \in Tasks : tag # "stack" \/ u # c => Same(tag, u)
    BY <2>1 DEF Tags
  <2>4. \A k \in 0 .. LastPos : k # 0 => cells'[<<"stack", c, k>>] = cells[<<"stack", c, k>>]
    BY <2>2
  <2>5. cells'[<<"stack", c, 0>>] = p /\ cells[<<"stack", c, 0>>] = NULL /\ "stack" \in Tags
    BY <2>2, Zero DEF Tags
  <2>6. /\ <<"stack", c, 0>> \in Places
        /\ cells' = [cells EXCEPT ![<<"stack", c, 0>>] = p]
    BY <2>3, <2>4, <2>5, Zero, OneChanges
  <2>7. Sound(cells', bitmap \cup {p}, leaked)
    BY <1>2, <2>5, <2>6, Taken DEF PlacesOK
  <2> QED BY <1>3, <2>7 DEF PlacesOK
<1> QED BY <1>5, <1>8, <1>9, <1>10
LEMMA ChildFacts ==
    ASSUME VmOK, NEW t \in Tasks, NEW l \in Forks, At(t, l), NEW c, c = loc[t].child
    PROVE  /\ c \in Tasks /\ c # t /\ slot[c] = "init" /\ pc[c] = "user"
           /\ loc[c].dir = NULL /\ loc[c].page = NULL
           /\ \A u \in Tasks : u # t => loc[u].child # c
           /\ ChildIs(l, slot[c], kstack[c], cr3[c]) /\ SlotIs("user", slot[c], kstack[c], cr3[c])
<1> USE DEF VmOK, CoreOK
<1>1. slot[t] = "run" /\ pc[t] = l /\ LocIs(l, loc[t], cr3[t])
  BY RunIs
<1>2. c \in Tasks
  BY <1>1 DEF LocIs
<1>3. ChildIs(l, slot[c], kstack[c], cr3[c]) /\ \A u \in Tasks : u # t => loc[u].child # c
  BY <1>1, <1>2 DEF ChildOK
<1>4. slot[c] = "init" /\ c # t
  BY <1>1, <1>3 DEF ChildIs
<1>5. LocIs(pc[c], loc[c], cr3[c]) /\ SlotIs(pc[c], slot[c], kstack[c], cr3[c])
  BY <1>2 DEF TasksOK
<1>6. pc[c] = "user"
  BY <1>4, <1>5 DEF SlotIs
<1>7. loc[c].dir = NULL /\ loc[c].page = NULL
  BY <1>5, <1>6 DEF LocIs, Others, Fills
<1> QED BY <1>2, <1>3, <1>4, <1>5, <1>6, <1>7

\* A directory without tables.
LEMMA EmptyTree ==
    ASSUME NEW pd, NEW pt, NEW d, pd[d] = NoTable, d # NULL, NEW from \in 0 .. LastPos,
           NEW k \in 0 .. LastPos
    PROVE  Tree(pd, pt, d, from, k) = IF k = LastPos THEN d ELSE NULL
<1>0. \A i \in PDEs : pd[d][i] = NULL
  BY DEF NoTable, PDEs
<1>1. CASE k = LastPos
  BY <1>1, TreeTop
<1>2. ASSUME NEW i \in PDEs, k = K(i, PTE_CNT) PROVE Vic(pd, pt, d, k) = NULL /\ k # LastPos
  <2>1. Vic(pd, pt, d, K(i, PTE_CNT)) = pd[d][i]
    BY VicTable
  <2>2. PTE_CNT \in 0 .. PTE_CNT
    BY Sizes
  <2>3. K(i, PTE_CNT) # LastPos
    BY <2>2, Position
  <2> QED BY <1>0, <1>2, <2>1, <2>3
<1>3. ASSUME NEW i \in PDEs, NEW j \in PTEs, k = K(i, j)
      PROVE  Vic(pd, pt, d, k) = NULL /\ k # LastPos
  <2>1. j \in 0 .. PTE_CNT
    BY Sizes DEF PTEs
  <2>2. K(i, j) # LastPos /\ K(i, j) \div W = i
    BY <2>1, Position
  <2> QED BY <1>0, <1>3, <2>2 DEF Vic
<1>4. k = LastPos \/ (Vic(pd, pt, d, k) = NULL /\ k # LastPos)
  BY <1>2, <1>3, Somewhere
<1>5. CASE k # LastPos
  BY <1>4, <1>5 DEF Tree
<1> QED BY <1>1, <1>5

LEMMA ForkDirOK ==
    ASSUME VmOK, NEW t \in Tasks, ForkDir(t)
    PROVE  CoreOK'
<1> USE DEF VmOK, CoreOK
<1>1. PICK c : c = loc[t].child
  OBVIOUS
<1>2. PICK p : p = addr_alloc_page
  OBVIOUS
<1>3. /\ At(t, "fork_dir") /\ slot' = slot /\ kstack' = kstack /\ heap_end' = heap_end
      /\ loc' = loc /\ leaked' = leaked
  BY DEF ForkDir
<1>4. /\ slot[t] = "run" /\ pc[t] = "fork_dir" /\ cr3[t] \in Pages
      /\ LocIs("fork_dir", loc[t], cr3[t])
  BY <1>3, RunIs
<1>5. /\ c \in Tasks /\ c # t /\ slot[c] = "init" /\ pc[c] = "user"
      /\ loc[c].dir = NULL /\ loc[c].page = NULL
      /\ \A u \in Tasks : u # t => loc[u].child # c
      /\ ChildIs("fork_dir", slot[c], kstack[c], cr3[c])
      /\ SlotIs("user", slot[c], kstack[c], cr3[c])
  BY <1>1, <1>3, ChildFacts DEF Forks
<1>6. cr3[c] = NULL /\ kstack[c] \in Pages
  BY <1>5 DEF ChildIs, Copies
<1>7. loc[t].dir = NULL /\ loc[t].page = NULL
  BY <1>4 DEF LocIs, Others, Fills
<1>8. CASE p = NULL
  <2>1. pc' = [pc EXCEPT ![t] = "undo_stack"] /\ UNCHANGED <<bitmap, pde, pte>> /\ cr3' = cr3
    BY <1>2, <1>8 DEF ForkDir, Go, memVars
  <2>2. RowsKept({}) /\ MemOK'
    BY <2>1, NoRows
  <2>3. LocIs("undo_stack", loc[t], cr3[t])
    BY <1>4 DEF LocIs, PCs, Forks, Fills, Others
  <2>4. Steps(t, "undo_stack", loc[t])
    BY <1>3, <1>4, <2>1, <2>3 DEF Steps, TasksOK
  <2>5. ChildIs("undo_stack", slot[c], kstack[c], cr3[c])
    BY <1>5 DEF ChildIs, Copies
  <2>6. heap_end' \in [Tasks -> Nat]
    BY <1>3 DEF TasksOK
  <2>7. TasksOK' /\ ChildOK'
    BY <1>1, <1>3, <2>1, <2>4, <2>5, <2>6, OwnStep
  <2>8. EmptyOK'
    BY <1>3, <2>1, <2>2, EmptyStep
  <2>9. ASSUME NEW u \in Tasks
        PROVE  Same("page", u) /\ Same("cr3", u) /\ Same("dir", u) /\ Same("stack", u)
    <3>1. Start(pc'[u], loc'[u]) = Start(pc[u], loc[u])
      BY <1>3, <1>4, <2>1 DEF TasksOK, Start
    <3> QED BY <1>3, <2>1, <2>2, <3>1, SamePage, SameDir, SameStack, SameCr3
  <2>10. cells' = cells
    BY <2>9, NoneChanges DEF Tags
  <2> QED BY <1>3, <2>1, <2>2, <2>7, <2>8, <2>10 DEF PlacesOK
<1>9. CASE p # NULL
  <2>1. /\ memory_create_uvm(p) /\ cr3' = [cr3 EXCEPT ![c] = p]
        /\ pc' = [pc EXCEPT ![t] = "copy_dir"]
    BY <1>1, <1>2, <1>9 DEF ForkDir, Go
  <2>2. p \in Pages /\ p \notin bitmap
    BY <1>2, <1>9, Marked, FreshPage
  <2>3. RowsKept({}) /\ MemOK' /\ pde'[p] = NoTable
    BY <2>1, <2>2, Marked, NewUvm
  <2>4. LocIs("copy_dir", loc[t], cr3[t])
    BY <1>4 DEF LocIs, PCs, Forks, Fills, Others
  <2>5. Steps(t, "copy_dir", loc[t])
    BY <1>3, <1>4, <2>1, <2>4 DEF Steps, TasksOK
  <2>6. SlotIs("user", "init", kstack[c], p) /\ ChildIs("copy_dir", "init", kstack[c], p)
    BY <1>6, <2>2, Sizes DEF ChildIs, Copies, SlotIs
  <2>7. Changes(c, "init", kstack[c], p)
    BY <1>3, <1>5, <2>1, <2>6 DEF Changes, TasksOK
  <2>8. TasksOK' /\ ChildOK'
    BY <1>1, <1>5, <2>5, <2>6, <2>7, ForkStep
  <2>9. EmptyOK'
    <3>1. ASSUME NEW u \in Tasks, u # c, slot'[u] = "init", cr3'[u] \in Pages
          PROVE  pde'[cr3'[u]] = NoTable
      <4>1. cr3'[u] = cr3[u] /\ slot[u] = "init"
        BY <1>3, <2>1, <3>1 DEF TasksOK
      <4>2. cr3[u] # p
        <5>1. Own(cr3[u]) = cr3[u] /\ cr3[u] # NULL
          BY <3>1, <4>1, Sizes DEF Own
        <5>2. Tree(pde, pte, cr3[u], 0, LastPos) = cr3[u]
          BY <5>1, Zero, TreeTop
        <5>3. cells[<<"cr3", u, LastPos>>] = cr3[u]
          BY <5>1, <5>2, Zero, CellsAre
        <5>4. <<"cr3", u, LastPos>> \in Places
          BY Zero DEF Places
        <5> QED BY <2>2, <5>1, <5>3, <5>4 DEF PlacesOK, Sound
      <4>3. pde'[cr3[u]] = pde[cr3[u]]
        BY <2>1, <2>2, <4>2 DEF memory_create_uvm, MemOK
      <4> QED BY <3>1, <4>1, <4>3 DEF EmptyOK
    <3>2. cr3'[c] = p
      BY <1>5, <2>1 DEF TasksOK
    <3> QED BY <2>3, <3>1, <3>2 DEF EmptyOK, NoTable
  <2>10. PlacesOK'
    <3>1. ASSUME NEW u \in Tasks
          PROVE  Same("page", u) /\ Same("dir", u) /\ Same("stack", u) /\ (u # c => Same("cr3", u))
      <4>1. u # c => cr3'[u] = cr3[u]
        BY <2>1 DEF TasksOK
      <4>2. Other(loc'[u], cr3'[u]) = Other(loc[u], cr3[u])
        BY <1>3, <1>5, <4>1 DEF Other
      <4>3. Start(pc'[u], loc'[u]) = Start(pc[u], loc[u])
        BY <1>3, <1>4, <2>1 DEF TasksOK, Start
      <4> QED BY <1>3, <2>3, <4>1, <4>2, <4>3, SamePage, SameDir, SameStack, SameCr3
    <3>2. ASSUME NEW k \in 0 .. LastPos
          PROVE  /\ cells[<<"cr3", c, k>>] = NULL
                 /\ cells'[<<"cr3", c, k>>] = IF k = LastPos THEN p ELSE NULL
      <4>1. cr3'[c] = p
        BY <1>5, <2>1 DEF TasksOK
      <4>2. Own(p) = p /\ p # NULL /\ Own(NULL) = NULL
        BY <2>2, Sizes DEF Own
      <4>3. /\ cells[<<"cr3", c, k>>] = Tree(pde, pte, NULL, 0, k)
            /\ cells'[<<"cr3", c, k>>] = Tree(pde', pte', p, 0, k)
        <5>1. cells[<<"cr3", c, k>>] = Tree(pde, pte, Own(cr3[c]), 0, k)
          BY <1>5, CellsAre
        <5>2. cells'[<<"cr3", c, k>>] = Tree(pde', pte', Own(cr3'[c]), 0, k)
          BY <1>5, CellsWillBe
        <5> QED BY <1>6, <4>1, <4>2, <5>1, <5>2
      <4>4. Tree(pde', pte', p, 0, k) = IF k = LastPos THEN p ELSE NULL
        BY <2>3, <4>2, Zero, EmptyTree
      <4> QED BY <4>3, <4>4 DEF Tree
    <3>3. \A tag \in Tags : \A u \in Tasks : tag # "cr3" \/ u # c => Same(tag, u)
      BY <3>1 DEF Tags
    <3>4. \A k \in 0 .. LastPos : k # LastPos => cells'[<<"cr3", c, k>>] = cells[<<"cr3", c, k>>]
      BY <3>2
    <3>5. cells'[<<"cr3", c, LastPos>>] = p /\ cells[<<"cr3", c, LastPos>>] = NULL /\ "cr3" \in Tags
      BY <3>2, Zero DEF Tags
    <3>6. /\ <<"cr3", c, LastPos>> \in Places
          /\ cells' = [cells EXCEPT ![<<"cr3", c, LastPos>>] = p]
      BY <1>5, <3>3, <3>4, <3>5, Zero, OneChanges
    <3>7. Sound(cells', bitmap \cup {p}, leaked)
      BY <2>2, <3>5, <3>6, Taken DEF PlacesOK
    <3> QED BY <1>3, <2>1, <3>7 DEF PlacesOK, memory_create_uvm
  <2> QED BY <2>3, <2>8, <2>9, <2>10
<1> QED BY <1>8, <1>9
LEMMA UndoStackOK ==
    ASSUME VmOK, NEW t \in Tasks, UndoStack(t)
    PROVE  CoreOK'
<1> USE DEF VmOK, CoreOK
<1>1. PICK c : c = loc[t].child
  OBVIOUS
<1>3. /\ At(t, "undo_stack") /\ slot' = slot /\ cr3' = cr3 /\ heap_end' = heap_end
      /\ loc' = loc /\ leaked' = leaked /\ pde' = pde /\ pte' = pte
      /\ bitmap' = bitmap \ {kstack[c]} /\ kstack' = [kstack EXCEPT ![c] = NULL]
      /\ pc' = [pc EXCEPT ![t] = "undo_user"]
  BY <1>1 DEF UndoStack, addr_free_page, Go
<1>4. /\ slot[t] = "run" /\ pc[t] = "undo_stack" /\ cr3[t] \in Pages
      /\ LocIs("undo_stack", loc[t], cr3[t])
  BY <1>3, RunIs
<1>5. /\ c \in Tasks /\ c # t /\ slot[c] = "init"
      /\ \A u \in Tasks : u # t => loc[u].child # c
      /\ ChildIs("undo_stack", slot[c], kstack[c], cr3[c])
  BY <1>1, <1>3, ChildFacts DEF Forks
<1>6. cr3[c] = NULL /\ kstack[c] \in Pages
  BY <1>5 DEF ChildIs, Copies
<1>7. RowsKept({}) /\ MemOK'
  BY <1>3, NoRows
<1>8. TasksOK' /\ ChildOK'
  <2>1. LocIs("undo_user", loc[t], cr3[t])
    BY <1>4 DEF LocIs, PCs, Forks, Fills, Others
  <2>2. Steps(t, "undo_user", loc[t])
    BY <1>3, <1>4, <2>1 DEF Steps, TasksOK
  <2>3. SlotIs("user", "init", NULL, NULL) /\ ChildIs("undo_user", "init", NULL, NULL)
    BY Sizes DEF ChildIs, Copies, SlotIs
  <2>4. Changes(c, "init", NULL, NULL)
    BY <1>3, <1>5, <1>6, <2>3 DEF Changes, TasksOK
  <2> QED BY <1>1, <1>5, <2>2, <2>3, <2>4, ForkStep
<1>9. EmptyOK'
  BY <1>3, <1>7, EmptyStep
<1>10. PlacesOK'
  <2>1. ASSUME NEW u \in Tasks
        PROVE  Same("page", u) /\ Same("dir", u) /\ Same("cr3", u) /\ (u # c => Same("stack", u))
    <3>1. u # c => kstack'[u] = kstack[u]
      BY <1>3 DEF TasksOK
    <3>2. Start(pc'[u], loc'[u]) = Start(pc[u], loc[u])
      BY <1>3, <1>4 DEF TasksOK, Start
    <3> QED BY <1>3, <1>7, <3>1, <3>2, SamePage, SameDir, SameStack, SameCr3
  <2>2. ASSUME NEW k \in 0 .. LastPos
        PROVE  /\ cells[<<"stack", c, k>>] = One(kstack[c], k)
               /\ cells'[<<"stack", c, k>>] = NULL
    <3>1. kstack'[c] = NULL
      BY <1>3, <1>5 DEF TasksOK
    <3> QED BY <1>5, <3>1, CellsAre, CellsWillBe DEF One
  <2>3. \A tag \in Tags : \A u \in Tasks : tag # "stack" \/ u # c => Same(tag, u)
    BY <2>1 DEF Tags
  <2>4. \A k \in 0 .. LastPos : k # 0 => cells'[<<"stack", c, k>>] = cells[<<"stack", c, k>>]
    BY <2>2 DEF One
  <2>5. /\ cells'[<<"stack", c, 0>>] = NULL /\ cells[<<"stack", c, 0>>] = kstack[c]
        /\ kstack[c] # NULL /\ "stack" \in Tags
    BY <1>6, <2>2, Zero, Sizes DEF Tags, One
  <2>6. /\ <<"stack", c, 0>> \in Places
        /\ cells' = [cells EXCEPT ![<<"stack", c, 0>>] = NULL]
    BY <1>5, <2>3, <2>4, <2>5, Zero, OneChanges
  <2>7. Sound(cells', bitmap \ {kstack[c]}, leaked)
    BY <2>5, <2>6, Freed DEF PlacesOK
  <2> QED BY <1>3, <2>7 DEF PlacesOK
<1> QED BY <1>7, <1>8, <1>9, <1>10

-----------------------------------------------------------------------------
(* The entries of a directory and of its tables change.                    *)

MemIs(pd, pt) ==
    /\ pd \in [Pages -> [PDEs -> Pages \cup {NULL}]]
    /\ pt \in [Pages -> [PTEs -> Pages \cup {NULL}]]

\* The page at entry j of the table at entry i.
LEMMA VicPageIs ==
    ASSUME NEW pd, NEW pt, NEW d, NEW i \in PDEs, NEW j \in PTEs
    PROVE  /\ K(i, j) \in 0 .. LastPos /\ K(i, j) # LastPos /\ K(i, j) # K(i, PTE_CNT)
           /\ pd[d][i] = NULL => Vic(pd, pt, d, K(i, j)) = NULL
           /\ pd[d][i] # NULL => Vic(pd, pt, d, K(i, j)) = pt[pd[d][i]][j]
<1>1. j \in 0 .. PTE_CNT /\ j # PTE_CNT /\ PTE_CNT \in 0 .. PTE_CNT
  BY Sizes DEF PTEs
<1>2. /\ K(i, j) # LastPos /\ K(i, j) \div W = i /\ K(i, j) % W = j
      /\ K(i, j) \in 0 .. LastPos - 1
  BY <1>1, Position
<1>3. K(i, PTE_CNT) % W = PTE_CNT
  BY <1>1, Position
<1>4. K(i, j) \in 0 .. LastPos
  BY <1>2, Sizes
<1>5. /\ pd[d][i] = NULL => Vic(pd, pt, d, K(i, j)) = NULL
      /\ pd[d][i] # NULL => Vic(pd, pt, d, K(i, j)) = pt[pd[d][i]][j]
  BY <1>1, <1>2 DEF Vic
<1> QED BY <1>1, <1>2, <1>3, <1>4, <1>5

\* Positions are different for different entries.
LEMMA PositionsApart ==
    ASSUME NEW i \in PDEs, NEW j \in 0 .. PTE_CNT, NEW n \in PDEs, NEW m \in 0 .. PTE_CNT,
           K(i, j) = K(n, m)
    PROVE  i = n /\ j = m
<1>1. K(i, j) \div W = i /\ K(i, j) % W = j
  BY Position
<1>2. K(n, m) \div W = n /\ K(n, m) % W = m
  BY Position
<1> QED BY <1>1, <1>2
TableIs(pd, d, i, a)    == pd[d][i] = a
PageIs(pt, a, j, q)     == pt[a][j] = q
PageSet(pt, pt2, a, j, q) == pt2 = [pt EXCEPT ![a][j] = q]
TableSet(pd, pt, pd2, pt2, d, i, a, j, q) ==
    /\ pd2 = [pd EXCEPT ![d][i] = a]
    /\ pt2 = [pt EXCEPT ![a] = [NoPage EXCEPT ![j] = q]]

\* A directory whose tables are different pages.
Apart(pd, d, i, tab) == \A n \in PDEs : n # i => pd[d][n] # tab

\* Entry j of the table tab, at entry i, becomes q.
LEMMA EntrySet ==
    ASSUME NEW pd, NEW pt, MemIs(pd, pt), NEW d \in Pages, NEW i \in PDEs, NEW j \in PTEs,
           NEW tab \in Pages, TableIs(pd, d, i, tab), Apart(pd, d, i, tab), NEW q,
           NEW pt2, PageSet(pt, pt2, tab, j, q), NEW k \in 0 .. LastPos
    PROVE  /\ k = K(i, j) => Vic(pd, pt2, d, k) = q
           /\ k # K(i, j) => Vic(pd, pt2, d, k) = Vic(pd, pt, d, k)
<1> USE DEF TableIs, PageSet
<1>0. tab # NULL
  BY Sizes
<1>1. pt2[tab][j] = q /\ \A m \in PTEs : m # j => pt2[tab][m] = pt[tab][m]
  BY DEF MemIs
<1>2. \A a \in Pages : a # tab => pt2[a] = pt[a]
  BY DEF MemIs
<1>3. CASE k = LastPos
  <2>1. k # K(i, j)
    BY <1>3, VicPageIs
  <2> QED BY <1>3, <2>1, VicTop
<1>4. ASSUME NEW n \in PDEs, k = K(n, PTE_CNT)
      PROVE  Vic(pd, pt2, d, k) = IF k = K(i, j) THEN q ELSE Vic(pd, pt, d, k)
  <2>1. j \in 0 .. PTE_CNT /\ PTE_CNT \in 0 .. PTE_CNT /\ j # PTE_CNT
    BY Sizes DEF PTEs
  <2>2. k # K(i, j)
    BY <1>4, <2>1, PositionsApart
  <2>3. Vic(pd, pt, d, K(n, PTE_CNT)) = pd[d][n]
    BY VicTable
  <2>4. Vic(pd, pt2, d, K(n, PTE_CNT)) = pd[d][n]
    BY VicTable
  <2> QED BY <1>4, <2>2, <2>3, <2>4
<1>5. ASSUME NEW n \in PDEs, NEW m \in PTEs, k = K(n, m)
      PROVE  Vic(pd, pt2, d, k) = IF k = K(i, j) THEN q ELSE Vic(pd, pt, d, k)
  <2>1. /\ pd[d][n] = NULL => Vic(pd, pt, d, K(n, m)) = NULL
        /\ pd[d][n] # NULL => Vic(pd, pt, d, K(n, m)) = pt[pd[d][n]][m]
    <3>1. m \in 0 .. PTE_CNT /\ m # PTE_CNT
      BY Sizes DEF PTEs
    <3>2. K(n, m) # LastPos /\ K(n, m) \div W = n /\ K(n, m) % W = m
      BY <3>1, Position
    <3> QED BY <3>1, <3>2 DEF Vic
  <2>2. /\ pd[d][n] = NULL => Vic(pd, pt2, d, K(n, m)) = NULL
        /\ pd[d][n] # NULL => Vic(pd, pt2, d, K(n, m)) = pt2[pd[d][n]][m]
    <3>1. m \in 0 .. PTE_CNT /\ m # PTE_CNT
      BY Sizes DEF PTEs
    <3>2. K(n, m) # LastPos /\ K(n, m) \div W = n /\ K(n, m) % W = m
      BY <3>1, Position
    <3> QED BY <3>1, <3>2 DEF Vic
  <2>3. CASE n = i
    <3>1. Vic(pd, pt, d, k) = pt[tab][m] /\ Vic(pd, pt2, d, k) = pt2[tab][m]
      BY <1>0, <1>5, <2>1, <2>2, <2>3
    <3>2. CASE m = j
      BY <1>1, <1>5, <2>3, <3>1, <3>2
    <3>3. CASE m # j
      <4>1. k # K(i, j)
        <5>1. j \in 0 .. PTE_CNT /\ m \in 0 .. PTE_CNT
          BY Sizes DEF PTEs
        <5> QED BY <1>5, <5>1, <3>3, PositionsApart
      <4> QED BY <1>1, <3>1, <3>3, <4>1
    <3> QED BY <3>2, <3>3
  <2>4. CASE n # i
    <3>1. k # K(i, j)
      <4>1. j \in 0 .. PTE_CNT /\ m \in 0 .. PTE_CNT
        BY Sizes DEF PTEs
      <4> QED BY <1>5, <4>1, <2>4, PositionsApart
    <3>2. PICK a : a = pd[d][n]
      OBVIOUS
    <3>3. a # tab /\ a \in Pages \cup {NULL}
      BY <2>4, <3>2 DEF Apart, MemIs
    <3>4. CASE a = NULL
      BY <1>5, <2>1, <2>2, <3>1, <3>2, <3>4
    <3>5. CASE a # NULL
      <4>1. pt2[a] = pt[a]
        BY <1>2, <3>3, <3>5
      <4>2. Vic(pd, pt, d, k) = pt[a][m] /\ Vic(pd, pt2, d, k) = pt2[a][m]
        BY <1>5, <2>1, <2>2, <3>2, <3>5
      <4> QED BY <3>1, <4>1, <4>2
    <3> QED BY <3>4, <3>5
  <2> QED BY <2>3, <2>4
<1> QED BY <1>3, <1>4, <1>5, Somewhere
LEMMA VicPageIn ==
    ASSUME NEW pd, NEW pt, NEW d, NEW n \in PDEs, NEW m \in PTEs, NEW a, TableIs(pd, d, n, a),
           NEW q, PageIs(pt, a, m, q)
    PROVE  /\ a = NULL => Vic(pd, pt, d, K(n, m)) = NULL
           /\ a # NULL => Vic(pd, pt, d, K(n, m)) = q
<1> USE DEF TableIs, PageIs
<1>1. m \in 0 .. PTE_CNT /\ m # PTE_CNT
  BY Sizes DEF PTEs
<1>2. K(n, m) # LastPos /\ K(n, m) \div W = n /\ K(n, m) % W = m
  BY <1>1, Position
<1> QED BY <1>1, <1>2 DEF Vic

\* A table tab is added at entry i, with q at its entry j.
LEMMA TableAdded ==
    ASSUME NEW pd, NEW pt, MemIs(pd, pt), NEW d \in Pages, NEW i \in PDEs, NEW j \in PTEs,
           NEW tab \in Pages, TableIs(pd, d, i, NULL), Apart(pd, d, i, tab), NEW q,
           NEW pd2, NEW pt2, TableSet(pd, pt, pd2, pt2, d, i, tab, j, q), NEW k \in 0 .. LastPos
    PROVE  /\ k = K(i, PTE_CNT) => Vic(pd2, pt2, d, k) = tab
           /\ k = K(i, j) => Vic(pd2, pt2, d, k) = q
           /\ k # K(i, PTE_CNT) /\ k # K(i, j) => Vic(pd2, pt2, d, k) = Vic(pd, pt, d, k)
<1> USE DEF TableIs, TableSet
<1> DEFINE new == IF k = K(i, PTE_CNT) THEN tab
                  ELSE IF k = K(i, j) THEN q ELSE Vic(pd, pt, d, k)
<1>0. tab # NULL
  BY Sizes
<1>a. j \in 0 .. PTE_CNT /\ PTE_CNT \in 0 .. PTE_CNT /\ j # PTE_CNT
  BY Sizes DEF PTEs
<1>1. pt2[tab][j] = q /\ \A m \in PTEs : m # j => pt2[tab][m] = NULL
  BY DEF MemIs, NoPage, PTEs
<1>2. \A a \in Pages : a # tab => pt2[a] = pt[a]
  BY DEF MemIs
<1>b. pd2[d][i] = tab /\ \A n \in PDEs : n # i => pd2[d][n] = pd[d][n]
  BY DEF MemIs
<1>3. CASE k = LastPos
  <2>1. k # K(i, j) /\ k # K(i, PTE_CNT)
    BY <1>3, <1>a, Position
  <2>2. Vic(pd2, pt2, d, LastPos) = d /\ Vic(pd, pt, d, LastPos) = d
    BY VicTop
  <2> QED BY <1>3, <2>1, <2>2
<1>4. ASSUME NEW n \in PDEs, k = K(n, PTE_CNT) PROVE Vic(pd2, pt2, d, k) = new
  <2>2. k # K(i, j)
    BY <1>4, <1>a, PositionsApart
  <2>3. Vic(pd, pt, d, k) = pd[d][n]
    BY <1>4, VicTable
  <2>4. Vic(pd2, pt2, d, k) = pd2[d][n]
    <3>1. Vic(pd2, pt2, d, K(n, PTE_CNT)) = pd2[d][n]
      BY ONLY VicTable, n \in PDEs
    <3> QED BY <1>4, <3>1
  <2>5. CASE n = i
    BY <1>4, <1>b, <2>2, <2>4, <2>5
  <2>6. CASE n # i
    <3>1. k # K(i, PTE_CNT)
      BY <1>4, <1>a, <2>6, PositionsApart
    <3>2. pd2[d][n] = pd[d][n]
      BY <1>b, <2>6
    <3> QED BY <2>2, <2>3, <2>4, <3>1, <3>2
  <2> QED BY <2>5, <2>6
<1>5. ASSUME NEW n \in PDEs, NEW m \in PTEs, k = K(n, m) PROVE Vic(pd2, pt2, d, k) = new
  <2>0. m \in 0 .. PTE_CNT /\ m # PTE_CNT
    BY Sizes DEF PTEs
  <2>1. k # K(i, PTE_CNT)
    BY <1>5, <1>a, <2>0, PositionsApart
  <2>2. PICK a : a = pd[d][n]
    OBVIOUS
  <2>3. PICK a2 : a2 = pd2[d][n]
    OBVIOUS
  <2>4. /\ a = NULL => Vic(pd, pt, d, k) = NULL
        /\ a # NULL => Vic(pd, pt, d, k) = pt[a][m]
    <3>0. PICK q1 : q1 = pt[a][m]
      OBVIOUS
    <3>1. TableIs(pd, d, n, a) /\ PageIs(pt, a, m, q1)
      BY <2>2, <3>0 DEF TableIs, PageIs
    <3> HIDE DEF TableIs
    <3>2. (a = NULL => Vic(pd, pt, d, k) = NULL) /\ (a # NULL => Vic(pd, pt, d, k) = q1)
      BY <1>5, <3>1, VicPageIn
    <3> QED BY <3>0, <3>2
  <2>5. /\ a2 = NULL => Vic(pd2, pt2, d, k) = NULL
        /\ a2 # NULL => Vic(pd2, pt2, d, k) = pt2[a2][m]
    <3>0. PICK q2 : q2 = pt2[a2][m]
      OBVIOUS
    <3>1. TableIs(pd2, d, n, a2) /\ PageIs(pt2, a2, m, q2)
      BY <2>3, <3>0 DEF TableIs, PageIs
    <3> HIDE DEF TableIs, TableSet
    <3>2. (a2 = NULL => Vic(pd2, pt2, d, k) = NULL) /\ (a2 # NULL => Vic(pd2, pt2, d, k) = q2)
      BY <1>5, <3>1, VicPageIn
    <3> QED BY <3>0, <3>2
  <2>6. CASE n = i
    <3>1. a = NULL /\ a2 = tab
      BY <1>b, <2>2, <2>3, <2>6
    <3>2. Vic(pd, pt, d, k) = NULL /\ Vic(pd2, pt2, d, k) = pt2[tab][m]
      BY <1>0, <2>4, <2>5, <3>1
    <3>3. CASE m = j
      BY <1>1, <1>5, <2>1, <2>6, <3>2, <3>3
    <3>4. CASE m # j
      <4>1. k # K(i, j)
        BY <1>5, <1>a, <2>0, <3>4, PositionsApart
      <4> QED BY <1>1, <2>1, <3>2, <3>4, <4>1
    <3> QED BY <3>3, <3>4
  <2>7. CASE n # i
    <3>1. k # K(i, j)
      BY <1>5, <1>a, <2>0, <2>7, PositionsApart
    <3>2. a2 = a /\ a # tab /\ a \in Pages \cup {NULL}
      BY <1>b, <2>2, <2>3, <2>7 DEF Apart, MemIs
    <3>3. a # NULL => pt2[a] = pt[a]
      BY <1>2, <3>2
    <3>4. Vic(pd2, pt2, d, k) = Vic(pd, pt, d, k)
      BY <2>4, <2>5, <3>2, <3>3
    <3> QED BY <2>1, <3>1, <3>4
  <2> QED BY <2>6, <2>7
<1>6. K(i, j) # K(i, PTE_CNT)
  BY <1>a, PositionsApart
<1>7. Vic(pd2, pt2, d, k) = new
  BY <1>3, <1>4, <1>5, Somewhere
<1> QED BY <1>6, <1>7
\* Task t has the directory d, all of it, at tag.
Rooted(tag, t, d) ==
    \/ tag = "cr3" /\ cr3[t] = d
    \/ tag = "dir" /\ Other(loc[t], cr3[t]) = d /\ Start(pc[t], loc[t]) = 0

LEMMA RootedIs ==
    ASSUME NEW t \in Tasks, NEW tag, NEW d \in Pages, Rooted(tag, t, d), NEW k \in 0 .. LastPos
    PROVE  tag \in Tags /\ cells[<<tag, t, k>>] = Vic(pde, pte, d, k)
<1>0. d # NULL /\ k >= 0
  BY Sizes
<1>1. CASE tag = "cr3" /\ cr3[t] = d
  <2>1. cells[<<"cr3", t, k>>] = Tree(pde, pte, Own(cr3[t]), 0, k)
    BY CellsAre
  <2>2. Own(cr3[t]) = d
    BY <1>1 DEF Own
  <2> QED BY <1>0, <1>1, <2>1, <2>2 DEF Tree, Tags
<1>2. CASE tag = "dir" /\ Other(loc[t], cr3[t]) = d /\ Start(pc[t], loc[t]) = 0
  <2>1. cells[<<"dir", t, k>>]
          = Tree(pde, pte, Other(loc[t], cr3[t]), Start(pc[t], loc[t]), k)
    BY CellsAre
  <2>2. cells[<<"dir", t, k>>] = Tree(pde, pte, d, 0, k)
    BY <1>2, <2>1
  <2> QED BY <1>0, <1>2, <2>2 DEF Tree, Tags
<1> QED BY <1>1, <1>2 DEF Rooted

LEMMA RootedWillBe ==
    ASSUME NEW t \in Tasks, NEW tag, NEW d \in Pages, Rooted(tag, t, d)', NEW k \in 0 .. LastPos
    PROVE  cells'[<<tag, t, k>>] = Vic(pde', pte', d, k)
<1>0. d # NULL /\ k >= 0
  BY Sizes
<1>1. CASE tag = "cr3" /\ cr3'[t] = d
  <2>1. cells'[<<"cr3", t, k>>] = Tree(pde', pte', Own(cr3'[t]), 0, k)
    BY CellsWillBe
  <2>2. Own(cr3'[t]) = d
    BY <1>1 DEF Own
  <2> QED BY <1>0, <1>1, <2>1, <2>2 DEF Tree
<1>2. CASE tag = "dir" /\ Other(loc'[t], cr3'[t]) = d /\ Start(pc'[t], loc'[t]) = 0
  <2>1. cells'[<<"dir", t, k>>]
          = Tree(pde', pte', Other(loc'[t], cr3'[t]), Start(pc'[t], loc'[t]), k)
    BY CellsWillBe
  <2>2. cells'[<<"dir", t, k>>] = Tree(pde', pte', d, 0, k)
    BY <1>2, <2>1
  <2> QED BY <1>0, <1>2, <2>2 DEF Tree
<1> QED BY <1>1, <1>2 DEF Rooted, Other, Start

\* The directory and its tables are different pages, and in no other tree.
LEMMA RootApart ==
    ASSUME MemOK, PlacesOK, NEW t \in Tasks, NEW tag, NEW d \in Pages, Rooted(tag, t, d)
    PROVE  /\ d \in bitmap
           /\ \A x \in Places : cells[x] = d => x = <<tag, t, LastPos>>
           /\ \A i \in PDEs : pde[d][i] # NULL =>
                  /\ pde[d][i] \in bitmap /\ pde[d][i] \in Pages /\ pde[d][i] # d
                  /\ Apart(pde, d, i, pde[d][i])
                  /\ \A x \in Places : cells[x] = pde[d][i] => x = <<tag, t, K(i, PTE_CNT)>>
<1>0. d # NULL
  BY Sizes
<1>1. tag \in Tags /\ cells[<<tag, t, LastPos>>] = d
  <2>1. tag \in Tags /\ cells[<<tag, t, LastPos>>] = Vic(pde, pte, d, LastPos)
    BY Zero, RootedIs
  <2> QED BY <2>1, VicTop
<1>2. <<tag, t, LastPos>> \in Places
  BY <1>1, Zero, PlaceIs
<1>3. d \in bitmap /\ \A x \in Places : cells[x] = d => x = <<tag, t, LastPos>>
  BY <1>0, <1>1, <1>2 DEF PlacesOK, Sound
<1>4. ASSUME NEW i \in PDEs
      PROVE  /\ <<tag, t, K(i, PTE_CNT)>> \in Places
             /\ cells[<<tag, t, K(i, PTE_CNT)>>] = pde[d][i]
             /\ K(i, PTE_CNT) # LastPos
  <2>1. PTE_CNT \in 0 .. PTE_CNT
    BY Sizes
  <2>2. K(i, PTE_CNT) \in 0 .. LastPos - 1 /\ K(i, PTE_CNT) # LastPos
    BY <2>1, Position
  <2>3. K(i, PTE_CNT) \in 0 .. LastPos
    BY <2>2, Sizes
  <2>4. cells[<<tag, t, K(i, PTE_CNT)>>] = Vic(pde, pte, d, K(i, PTE_CNT))
    BY <2>3, RootedIs
  <2>5. Vic(pde, pte, d, K(i, PTE_CNT)) = pde[d][i]
    BY VicTable
  <2> QED BY <1>1, <2>2, <2>3, <2>4, <2>5, PlaceIs
<1>5. ASSUME NEW i \in PDEs, pde[d][i] # NULL
      PROVE  /\ pde[d][i] \in bitmap /\ pde[d][i] \in Pages /\ pde[d][i] # d
             /\ Apart(pde, d, i, pde[d][i])
             /\ \A x \in Places : cells[x] = pde[d][i] => x = <<tag, t, K(i, PTE_CNT)>>
  <2>0. PICK tab : tab = pde[d][i]
    OBVIOUS
  <2>1. /\ <<tag, t, K(i, PTE_CNT)>> \in Places /\ cells[<<tag, t, K(i, PTE_CNT)>>] = tab
        /\ K(i, PTE_CNT) # LastPos /\ tab # NULL
    BY <1>4, <1>5, <2>0
  <2>2. tab \in bitmap /\ tab \in Pages
    BY <2>1 DEF PlacesOK, Sound
  <2>3. \A x \in Places : cells[x] = tab => x = <<tag, t, K(i, PTE_CNT)>>
    BY <2>1 DEF PlacesOK, Sound
  <2>4. tab # d
    BY <1>1, <1>2, <2>1, <2>3
  <2>5. Apart(pde, d, i, tab)
    <3>1. ASSUME NEW n \in PDEs, n # i, pde[d][n] = tab PROVE FALSE
      <4>1. <<tag, t, K(n, PTE_CNT)>> \in Places /\ cells[<<tag, t, K(n, PTE_CNT)>>] = tab
        BY <1>4, <3>1
      <4>2. K(n, PTE_CNT) = K(i, PTE_CNT)
        BY <2>3, <4>1
      <4>3. PTE_CNT \in 0 .. PTE_CNT
        BY Sizes
      <4> QED BY <3>1, <4>2, <4>3, PositionsApart
    <3> QED BY <3>1 DEF Apart
  <2> QED BY <2>0, <2>2, <2>3, <2>4, <2>5
<1> QED BY <1>3, <1>5
\* No page but those at tag of t is in C.
Alone(tag, t, C) ==
    \A u \in Tasks : \A tag2 \in {"cr3", "dir"} : tag2 # tag \/ u # t =>
        \A k \in 0 .. LastPos : cells[<<tag2, u, k>>] \notin C

\* Every task keeps its directories.
Stays(t) ==
    /\ kstack' = kstack /\ cr3' = cr3
    /\ \A u \in Tasks : u # t => loc'[u] = loc[u] /\ pc'[u] = pc[u]
    /\ Other(loc'[t], cr3'[t]) = Other(loc[t], cr3[t])
    /\ Start(pc'[t], loc'[t]) = Start(pc[t], loc[t])

\* A step of t on the tree at tag leaves the other trees and the stacks alone.
LEMMA OthersSame ==
    ASSUME PlacesOK, TasksOK, NEW t \in Tasks, NEW tag, NEW C, RowsKept(C), Alone(tag, t, C),
           Stays(t)
    PROVE  \A u \in Tasks : /\ Same("stack", u) /\ (u # t => Same("page", u))
                            /\ (tag # "cr3" \/ u # t => Same("cr3", u))
                            /\ (tag # "dir" \/ u # t => Same("dir", u))
<1> USE DEF Stays, Alone
<1> SUFFICES ASSUME NEW u \in Tasks
             PROVE  /\ Same("stack", u) /\ (u # t => Same("page", u))
                    /\ (tag # "cr3" \/ u # t => Same("cr3", u))
                    /\ (tag # "dir" \/ u # t => Same("dir", u))
  OBVIOUS
<1>1. Same("stack", u)
  BY SameStack
<1>2. u # t => Same("page", u)
  BY SamePage
<1>3. ASSUME tag # "cr3" \/ u # t PROVE Same("cr3", u)
  <2>1. \A k \in 0 .. LastPos : cells[<<"cr3", u, k>>] \notin C
    BY <1>3
  <2>2. cr3'[u] = cr3[u]
    OBVIOUS
  <2> QED BY <2>1, <2>2, Cr3Kept DEF Same
<1>4. ASSUME tag # "dir" \/ u # t PROVE Same("dir", u)
  <2>1. \A k \in 0 .. LastPos : cells[<<"dir", u, k>>] \notin C
    BY <1>4
  <2>2. Other(loc'[u], cr3'[u]) = Other(loc[u], cr3[u])
    OBVIOUS
  <2>3. Start(pc'[u], loc'[u]) = Start(pc[u], loc[u])
    OBVIOUS
  <2> QED BY <2>1, <2>2, <2>3, DirKept DEF Same
<1> QED BY <1>1, <1>2, <1>3, <1>4

LEMMA NotNull ==
    ASSUME NEW p, p \in Pages
    PROVE  p # NULL /\ p # BAD
BY Sizes

LEMMA InNoOther ==
    ASSUME NEW t \in Tasks, NEW tag, NEW C,
           \A x \in Places : cells[x] \in C => x[1] = tag /\ x[2] = t
    PROVE  Alone(tag, t, C)
<1> USE DEF Alone
<1> SUFFICES ASSUME NEW u \in Tasks, NEW tag2 \in {"cr3", "dir"}, tag2 # tag \/ u # t,
                    NEW k \in 0 .. LastPos, cells[<<tag2, u, k>>] \in C
             PROVE  FALSE
  OBVIOUS
<1>1. <<tag2, u, k>> \in Places
  BY PlaceIs DEF Tags
<1>2. <<tag2, u, k>>[1] = tag2 /\ <<tag2, u, k>>[2] = u
  OBVIOUS
<1> QED BY <1>1, <1>2

LEMMA UndoUserOK ==
    ASSUME VmOK, NEW t \in Tasks, UndoUser(t)
    PROVE  CoreOK'
<1> USE DEF VmOK, CoreOK
<1>1. PICK c : c = loc[t].child
  OBVIOUS
<1>s. PICK v : v = ESP[runs[t]]
  OBVIOUS
<1>v. v \in VPages
  BY <1>s, ProgramAssumption DEF ProgOK
<1>2. PICK p : p = find_pte(cr3[t], v)
  OBVIOUS
<1>a. PICK d : d = cr3[t]
  OBVIOUS
<1>b. PICK i : i = pde_index(v)
  OBVIOUS
<1>c. PICK j : j = pte_index(v)
  OBVIOUS
<1>d. PICK tab : tab = pde[d][i]
  OBVIOUS
<1>3. /\ At(t, "undo_user") /\ cr3' = cr3 /\ heap_end' = heap_end /\ kstack' = kstack
      /\ leaked' = leaked /\ pde' = pde /\ slot' = [slot EXCEPT ![c] = "free"]
      /\ pc' = [pc EXCEPT ![t] = "user"] /\ loc' = [loc EXCEPT ![t] = NoLoc]
      /\ bitmap' = bitmap \ {p}
      /\ pte' = IF p = NULL THEN pte ELSE [pte EXCEPT ![tab][j] = NULL]
  BY <1>1, <1>2, <1>a, <1>b, <1>c, <1>d, <1>s
     DEF UndoUser, Return, Go, Set, memory_free_page, addr_free_page
<1>4. /\ slot[t] = "run" /\ pc[t] = "undo_user" /\ d \in Pages
      /\ LocIs("undo_user", loc[t], cr3[t])
  BY <1>3, <1>a, RunIs
<1>5. /\ c \in Tasks /\ c # t /\ slot[c] = "init"
      /\ \A u \in Tasks : u # t => loc[u].child # c
      /\ ChildIs("undo_user", slot[c], kstack[c], cr3[c])
  BY <1>1, <1>3, ChildFacts DEF Forks
<1>6. cr3[c] = NULL /\ kstack[c] = NULL
  BY <1>5 DEF ChildIs, Copies
<1>7. i \in PDEs /\ j \in PTEs
  BY <1>b, <1>c, <1>v, Address
<1>e. tab \in Pages \cup {NULL} /\ (tab = NULL => p = NULL) /\ (tab # NULL => p = pte[tab][j])
  BY <1>2, <1>4, <1>7, <1>a, <1>b, <1>c, <1>d DEF find_pte, MemOK
<1>f. loc[t].dir = NULL /\ loc[t].page = NULL /\ NoLoc.dir = NULL /\ NoLoc.page = NULL
      /\ NoLoc.child = NULL
  BY <1>4 DEF LocIs, Others, Fills, NoLoc, Space
<1>g. p \in Pages \cup {NULL}
  BY <1>7, <1>e DEF MemOK
<1>8. TasksOK' /\ ChildOK'
  <2>1. LocIs("user", NoLoc, cr3[t])
    BY DEF LocIs, PCs, Forks, Fills, Others, NoLoc, Space
  <2>2. PICK r : r = NoLoc
    OBVIOUS
  <2>3. Steps(t, "user", r)
    BY <1>3, <1>4, <1>a, <2>1, <2>2 DEF Steps
  <2>4. SlotIs("user", "free", NULL, NULL)
    BY DEF SlotIs
  <2>5. Changes(c, "free", NULL, NULL)
    BY <1>3, <1>5, <1>6, <2>4 DEF Changes, TasksOK
  <2>6. r.child \notin Tasks /\ slot[c] # "run"
    BY <1>f, <1>5, <2>2, TaskAssumption
  <2> QED BY <1>5, <2>3, <2>5, <2>6, ForkStep
<1>9. EmptyOK'
  <2>1. ASSUME NEW u \in Tasks, slot'[u] = "init", cr3'[u] \in Pages
        PROVE  pde'[cr3'[u]] = NoTable
    <3>1. slot[u] = "init"
      BY <1>3, <1>5, <2>1 DEF TasksOK
    <3> QED BY <1>3, <2>1, <3>1 DEF EmptyOK
  <2> QED BY <2>1 DEF EmptyOK, NoTable
<1>h. Stays(t) /\ loc'[t].page = loc[t].page
  <2>1. loc'[t] = NoLoc /\ pc'[t] = "user"
    BY <1>3 DEF TasksOK
  <2>2. \A u \in Tasks : u # t => loc'[u] = loc[u] /\ pc'[u] = pc[u]
    BY <1>3 DEF TasksOK
  <2>3. Other(loc'[t], cr3'[t]) = Other(loc[t], cr3[t])
    BY <1>f, <2>1 DEF Other
  <2>4. Start(pc'[t], loc'[t]) = Start(pc[t], loc[t])
    BY <1>4, <2>1 DEF Start
  <2> QED BY <1>3, <1>f, <2>1, <2>2, <2>3, <2>4 DEF Stays
<1>i. Same("page", t)
  BY <1>h, SamePage
<1>10. CASE p = NULL
  <2>1. RowsKept({}) /\ MemOK' /\ bitmap' = bitmap
    <3>1. bitmap' = bitmap
      BY <1>3, <1>10, Marked, Sizes
    <3> QED BY <1>3, <1>10, <3>1, NoRows
  <2>2. \A u \in Tasks : Same("stack", u) /\ Same("page", u) /\ Same("cr3", u) /\ Same("dir", u)
    <3>1. Alone("page", t, {})
      BY DEF Alone
    <3> QED BY <1>h, <1>i, <2>1, <3>1, OthersSame
  <2>3. cells' = cells
    BY <2>2, NoneChanges DEF Tags
  <2> QED BY <1>3, <1>8, <1>9, <2>1, <2>3 DEF PlacesOK
<1>11. CASE p # NULL
  <2>0. tab \in Pages /\ tab # NULL /\ p = pte[tab][j] /\ pte' = [pte EXCEPT ![tab][j] = NULL]
    BY <1>3, <1>e, <1>11
  <2>1. MemOK'
    BY <1>3, <1>7, <2>0 DEF MemOK
  <2>2. RowsKept({tab})
    BY <1>3, <2>0, Marked DEF RowsKept, MemOK
  <2>3. Rooted("cr3", t, d) /\ Rooted("cr3", t, d)'
    BY <1>3, <1>a DEF Rooted
  <2>4. /\ Apart(pde, d, i, tab)
        /\ \A x \in Places : cells[x] = tab => x = <<"cr3", t, K(i, PTE_CNT)>>
    BY <1>4, <1>7, <1>d, <2>0, <2>3, RootApart
  <2>5. \A x \in Places : cells[x] \in {tab} => x[1] = "cr3" /\ x[2] = t
    BY <2>4
  <2>6. \A u \in Tasks : /\ Same("stack", u) /\ (u # t => Same("page", u))
                         /\ (u # t => Same("cr3", u)) /\ Same("dir", u)
    <3>1. Alone("cr3", t, {tab})
      BY <2>5, InNoOther
    <3> QED BY <1>h, <2>2, <3>1, OthersSame
  <2>7. MemIs(pde, pte)
    BY DEF MemOK, MemIs
  <2>8. ASSUME NEW k \in 0 .. LastPos
        PROVE  cells'[<<"cr3", t, k>>] = IF k = K(i, j) THEN NULL ELSE cells[<<"cr3", t, k>>]
    <3>1. cells'[<<"cr3", t, k>>] = Vic(pde', pte', d, k)
      BY <1>4, <2>3, RootedWillBe
    <3>2. cells[<<"cr3", t, k>>] = Vic(pde, pte, d, k)
      BY <1>4, <2>3, RootedIs
    <3>3. Vic(pde, pte', d, k) = IF k = K(i, j) THEN NULL ELSE Vic(pde, pte, d, k)
      <4>1. PICK pd, pt, pt2 : pd = pde /\ pt = pte /\ pt2 = pte'
        OBVIOUS
      <4>2. /\ MemIs(pd, pt) /\ TableIs(pd, d, i, tab) /\ Apart(pd, d, i, tab)
            /\ PageSet(pt, pt2, tab, j, NULL) /\ tab \in Pages /\ d \in Pages
        BY <1>4, <1>d, <2>0, <2>4, <2>7, <4>1 DEF TableIs, PageSet
      <4>3. Vic(pd, pt2, d, k) = IF k = K(i, j) THEN NULL ELSE Vic(pd, pt, d, k)
        BY ONLY <1>7, <4>2, k \in 0 .. LastPos, EntrySet
      <4> QED BY <4>1, <4>3
    <3> QED BY <1>3, <3>1, <3>2, <3>3
  <2>9. K(i, j) \in 0 .. LastPos /\ cells[<<"cr3", t, K(i, j)>>] = p
    <3>1. K(i, j) \in 0 .. LastPos
      BY <1>7, VicPageIs
    <3>2. cells[<<"cr3", t, K(i, j)>>] = Vic(pde, pte, d, K(i, j))
      BY <1>4, <2>3, <3>1, RootedIs
    <3>3. Vic(pde, pte, d, K(i, j)) = pte[tab][j]
      <4>1. PICK pd, pt : pd = pde /\ pt = pte
        OBVIOUS
      <4>2. TableIs(pd, d, i, tab) /\ PageIs(pt, tab, j, p)
        BY <1>d, <2>0, <4>1 DEF TableIs, PageIs
      <4>3. Vic(pd, pt, d, K(i, j)) = p
        BY <1>7, <2>0, <4>2, VicPageIn
      <4> QED BY <2>0, <4>1, <4>3
    <3> QED BY <2>0, <3>1, <3>2, <3>3
  <2>10. \A tag \in Tags : \A u \in Tasks : tag # "cr3" \/ u # t => Same(tag, u)
    BY <1>i, <2>6 DEF Tags
  <2>11. /\ <<"cr3", t, K(i, j)>> \in Places
         /\ cells' = [cells EXCEPT ![<<"cr3", t, K(i, j)>>] = NULL]
    <3>1. "cr3" \in Tags
      BY DEF Tags
    <3>2. \A k \in 0 .. LastPos : k # K(i, j) => cells'[<<"cr3", t, k>>] = cells[<<"cr3", t, k>>]
      BY <2>8
    <3>3. cells'[<<"cr3", t, K(i, j)>>] = NULL
      BY <2>8, <2>9
    <3> QED BY <2>9, <2>10, <3>1, <3>2, <3>3, OneChanges
  <2>12. Sound(cells', bitmap \ {p}, leaked)
    BY <1>11, <2>9, <2>11, Freed DEF PlacesOK
  <2> QED BY <1>3, <1>8, <1>9, <2>1, <2>12 DEF PlacesOK
<1> QED BY <1>10, <1>11
-----------------------------------------------------------------------------
(* memory_create_map                                                       *)

\* The directory of a task that is not started is in no other tree.
LEMMA EmptyKept ==
    ASSUME EmptyOK, TasksOK, PlacesOK, slot' = slot, cr3' = cr3, NEW C, RowsKept(C),
           NEW t \in Tasks, slot[t] # "init", NEW tag, Alone(tag, t, C)
    PROVE  EmptyOK'
<1>1. ASSUME NEW c \in Tasks, slot[c] = "init", cr3[c] \in C PROVE cr3[c] \notin Pages
  <2> SUFFICES ASSUME cr3[c] \in Pages PROVE FALSE
    OBVIOUS
  <2>1. Own(cr3[c]) = cr3[c] /\ cr3[c] # NULL
    BY Sizes DEF Own
  <2>2. Tree(pde, pte, cr3[c], 0, LastPos) = cr3[c]
    BY <2>1, Zero, TreeTop
  <2>3. cells[<<"cr3", c, LastPos>>] = cr3[c]
    BY <2>1, <2>2, Zero, CellsAre
  <2> QED BY <1>1, <2>3, Zero DEF Alone
<1>2. PICK D : D = C \cap Pages
  OBVIOUS
<1>3. RowsKept(D)
  BY <1>2, Marked DEF RowsKept
<1>4. \A c \in Tasks : slot[c] = "init" => cr3[c] \notin D
  BY <1>1, <1>2
<1> QED BY <1>3, <1>4, EmptyStep

\* A page moves from page to the place x of a tree; c are the pages in the places
\* after the rest of the step.
LEMMA PageMoves ==
    ASSUME NEW c, NEW bm, NEW lk, Sound(c, bm, lk), NEW t \in Tasks,
           NEW x \in Places, x # <<"page", t, 0>>,
           NEW p \in Pages, c[<<"page", t, 0>>] = p, c[x] = NULL,
           cells'[<<"page", t, 0>>] = NULL, cells'[x] = p,
           \A z \in Places : z # x /\ z # <<"page", t, 0>> => cells'[z] = c[z]
    PROVE  Sound(cells', bm, lk)
<1>1. PICK y : y = <<"page", t, 0>>
  OBVIOUS
<1>2. y \in Places /\ y # x /\ p # NULL
  BY <1>1, Zero, Sizes DEF Places
<1>3. PICK c2 : c2 = cells'
  OBVIOUS
<1>4. c2 = [z \in Places |-> c2[z]]
  BY <1>3 DEF cells
<1>5. c2[y] = NULL /\ c2[x] = p /\ c[y] = p /\ c[x] = NULL
  BY <1>1, <1>3
<1>6. \A z \in Places : z # x /\ z # y => c2[z] = c[z]
  BY <1>1, <1>3
<1>7. c \in [Places -> Pages \cup {NULL}]
  BY DEF Sound
<1>8. \A z \in Places : c2[z] \in Pages \cup {NULL}
  BY <1>5, <1>6, <1>7
<1>9. c2 \in [Places -> Pages \cup {NULL}]
  BY <1>4, <1>8
<1>10. Sound(c2, bm, lk)
  BY <1>2, <1>5, <1>6, <1>9, MovedPage
<1> QED BY <1>3, <1>10
LEMMA MapOK ==
    ASSUME VmOK, NEW t \in Tasks, slot[t] = "run", NEW tag, NEW d \in Pages,
           Rooted(tag, t, d), Rooted(tag, t, d)', Stays(t), slot' = slot,
           NEW v \in VPages, NEW p \in Pages, loc[t].page = p, loc'[t].page = NULL,
           CanMap(d, v), memory_create_map(d, v, p)
    PROVE  MemOK' /\ EmptyOK' /\ PlacesOK'
<1> USE DEF VmOK, CoreOK
<1>1. PICK i : i = pde_index(v)
  OBVIOUS
<1>2. PICK j : j = pte_index(v)
  OBVIOUS
<1>3. i \in PDEs /\ j \in PTEs
  BY <1>1, <1>2, Address
<1>4. PICK x : x = <<tag, t, K(i, j)>>
  OBVIOUS
<1>5. PICK y : y = <<"page", t, 0>>
  OBVIOUS
<1>6. K(i, j) \in 0 .. LastPos /\ tag \in Tags /\ tag # "page"
  <2>1. K(i, j) \in 0 .. LastPos
    BY <1>3, VicPageIs
  <2> QED BY <2>1 DEF Rooted, Tags
<1>7. x \in Places /\ y \in Places /\ x # y
  BY <1>4, <1>5, <1>6, Zero, PlaceIs DEF Tags
<1>8. cells[y] = p /\ cells'[y] = NULL
  <2>1. cells[y] = One(loc[t].page, 0) /\ cells'[y] = One(loc'[t].page, 0)
    BY <1>5, Zero, CellsAre, CellsWillBe
  <2> QED BY <2>1 DEF One
<1>9. MemIs(pde, pte) /\ p # NULL /\ d # NULL
  BY Sizes DEF MemOK, MemIs
<1>10. /\ d \in bitmap
       /\ \A z \in Places : cells[z] = d => z = <<tag, t, LastPos>>
       /\ pde[d][i] # NULL =>
              /\ pde[d][i] \in bitmap /\ pde[d][i] \in Pages
              /\ Apart(pde, d, i, pde[d][i])
              /\ \A z \in Places : cells[z] = pde[d][i] => z = <<tag, t, K(i, PTE_CNT)>>
  BY <1>3, RootApart
<1>11. cr3' = cr3
  BY DEF Stays
<1>12. ASSUME NEW C, RowsKept(C),
              \A z \in Places : cells[z] \in C => z[1] = tag /\ z[2] = t
       PROVE  /\ EmptyOK'
              /\ \A z \in Places : z[1] # tag \/ z[2] # t => z = y \/ cells'[z] = cells[z]
  <2>1. Alone(tag, t, C)
    BY <1>12, InNoOther
  <2>2. EmptyOK'
    BY <1>11, <1>12, <2>1, EmptyKept
  <2>3. \A u \in Tasks : /\ Same("stack", u) /\ (u # t => Same("page", u))
                         /\ (tag # "cr3" \/ u # t => Same("cr3", u))
                         /\ (tag # "dir" \/ u # t => Same("dir", u))
    BY <1>12, <2>1, OthersSame
  <2>4. ASSUME NEW k \in 0 .. LastPos, k # 0
        PROVE  cells'[<<"page", t, k>>] = cells[<<"page", t, k>>]
    <3>1. cells[<<"page", t, k>>] = One(loc[t].page, k) /\ cells'[<<"page", t, k>>] = One(loc'[t].page, k)
      BY CellsAre, CellsWillBe
    <3> QED BY <2>4, <3>1 DEF One
  <2>5. ASSUME NEW z \in Places, z[1] # tag \/ z[2] # t, z # y
        PROVE  cells'[z] = cells[z]
    <3>1. PICK g \in Tags, u \in Tasks, k \in 0 .. LastPos : z = <<g, u, k>>
      BY PlaceIs
    <3>2. g # tag \/ u # t
      BY <2>5, <3>1
    <3>3. CASE g = "page" /\ u = t
      BY <1>5, <2>4, <2>5, <3>1, <3>3
    <3>4. CASE ~ (g = "page" /\ u = t)
      <4>1. Same(g, u)
        BY <2>3, <3>2, <3>4 DEF Tags
      <4> QED BY <3>1, <4>1 DEF Same
    <3> QED BY <3>3, <3>4
  <2> QED BY <2>2, <2>5
<1>13. CASE pde[d][i] # NULL
  <2>1. PICK tab : tab = pde[d][i]
    OBVIOUS
  <2>2. PICK old : old = pte[tab][j]
    OBVIOUS
  <2>3. /\ bitmap' = bitmap /\ pde' = pde /\ pte' = [pte EXCEPT ![tab][j] = p]
        /\ leaked' = leaked \cup ({old} \ {NULL})
    BY <1>1, <1>2, <1>13, <2>1, <2>2 DEF memory_create_map, find_pte
  <2>4. /\ tab \in bitmap /\ tab \in Pages /\ Apart(pde, d, i, tab) /\ tab # NULL
        /\ \A z \in Places : cells[z] = tab => z = <<tag, t, K(i, PTE_CNT)>>
    BY <1>10, <1>13, <2>1
  <2>5. MemOK'
    BY <1>3, <2>3, <2>4 DEF MemOK
  <2>6. RowsKept({tab})
    BY <2>3, <2>4, Marked DEF RowsKept, MemOK
  <2>7. \A z \in Places : cells[z] \in {tab} => z[1] = tag /\ z[2] = t
    BY <2>4
  <2>8. EmptyOK' /\ \A z \in Places : z[1] # tag \/ z[2] # t => z = y \/ cells'[z] = cells[z]
    BY <1>12, <2>6, <2>7
  <2>9. ASSUME NEW k \in 0 .. LastPos
        PROVE  /\ k = K(i, j) => cells'[<<tag, t, k>>] = p
               /\ k # K(i, j) => cells'[<<tag, t, k>>] = cells[<<tag, t, k>>]
    <3>1. PICK pd, pt, pt2 : pd = pde /\ pt = pte /\ pt2 = pte'
      OBVIOUS
    <3>2. /\ MemIs(pd, pt) /\ TableIs(pd, d, i, tab) /\ Apart(pd, d, i, tab)
          /\ PageSet(pt, pt2, tab, j, p) /\ tab \in Pages /\ d \in Pages
      BY <1>9, <2>1, <2>3, <2>4, <3>1 DEF TableIs, PageSet
    <3>3. /\ k = K(i, j) => Vic(pd, pt2, d, k) = p
          /\ k # K(i, j) => Vic(pd, pt2, d, k) = Vic(pd, pt, d, k)
      BY ONLY <1>3, <3>2, k \in 0 .. LastPos, EntrySet
    <3>4. cells[<<tag, t, k>>] = Vic(pde, pte, d, k)
      BY RootedIs
    <3>5. cells'[<<tag, t, k>>] = Vic(pde', pte', d, k)
      BY RootedWillBe
    <3> QED BY <2>3, <3>1, <3>3, <3>4, <3>5
  <2>10. cells[x] = old
    <3>1. PICK pd, pt : pd = pde /\ pt = pte
      OBVIOUS
    <3>2. TableIs(pd, d, i, tab) /\ PageIs(pt, tab, j, old)
      BY <2>1, <2>2, <3>1 DEF TableIs, PageIs
    <3>3. Vic(pd, pt, d, K(i, j)) = old
      BY <1>3, <2>4, <3>2, VicPageIn
    <3>4. cells[<<tag, t, K(i, j)>>] = Vic(pde, pte, d, K(i, j))
      BY <1>6, RootedIs
    <3> QED BY <1>4, <3>1, <3>3, <3>4
  <2>11. PICK c : c = [cells EXCEPT ![x] = NULL]
    OBVIOUS
  <2>12. Sound(c, bitmap, leaked')
    BY <1>7, <2>3, <2>10, <2>11, LostPage DEF PlacesOK
  <2>13. c[y] = p /\ c[x] = NULL /\ \A z \in Places : z # x => c[z] = cells[z]
    BY <1>7, <1>8, <2>11 DEF cells
  <2>14. cells'[x] = p
    BY <1>4, <1>6, <2>9
  <2>15. ASSUME NEW z \in Places, z # x, z # y PROVE cells'[z] = c[z]
    <3>1. CASE z[1] # tag \/ z[2] # t
      BY <2>8, <2>13, <2>15, <3>1
    <3>2. CASE z[1] = tag /\ z[2] = t
      <4>1. z = <<tag, t, z[3]>> /\ z[3] \in 0 .. LastPos
        BY <3>2, PlaceIs
      <4>2. z[3] # K(i, j)
        BY <1>4, <2>15, <4>1
      <4>3. cells'[<<tag, t, z[3]>>] = cells[<<tag, t, z[3]>>]
        BY <2>9, <4>1, <4>2
      <4> QED BY <2>13, <2>15, <4>1, <4>3
    <3> QED BY <3>1, <3>2
  <2>16. Sound(cells', bitmap, leaked')
    BY <1>5, <1>7, <1>8, <2>12, <2>13, <2>14, <2>15, PageMoves
  <2> QED BY <2>3, <2>5, <2>8, <2>16 DEF PlacesOK
<1>14. CASE pde[d][i] = NULL
  <2>1. PICK tab : tab = addr_alloc_page
    OBVIOUS
  <2>2. tab \in Pages /\ tab \notin bitmap
    BY <1>1, <1>14, <2>1, Marked, FreshPage DEF CanMap
  <2>3. /\ bitmap' = bitmap \cup {tab} /\ pde' = [pde EXCEPT ![d][i] = tab]
        /\ pte' = [pte EXCEPT ![tab] = [NoPage EXCEPT ![j] = p]] /\ leaked' = leaked
    BY <1>1, <1>2, <1>14, <2>1 DEF memory_create_map
  <2>4. \A z \in Places : cells[z] # tab
    BY <2>2, Sizes DEF PlacesOK, Sound
  <2>a. PICK k1 : k1 = K(i, PTE_CNT)
    OBVIOUS
  <2>b. ASSUME NEW n \in PDEs
        PROVE  <<tag, t, K(n, PTE_CNT)>> \in Places /\ cells[<<tag, t, K(n, PTE_CNT)>>] = pde[d][n]
    <3>1. PTE_CNT \in 0 .. PTE_CNT
      BY Sizes
    <3>2. K(n, PTE_CNT) \in 0 .. LastPos - 1
      BY <3>1, Position
    <3>3. K(n, PTE_CNT) \in 0 .. LastPos
      BY <3>2, Sizes
    <3>4. cells[<<tag, t, K(n, PTE_CNT)>>] = Vic(pde, pte, d, K(n, PTE_CNT))
      BY <3>3, RootedIs
    <3>5. Vic(pde, pte, d, K(n, PTE_CNT)) = pde[d][n]
      BY VicTable
    <3> QED BY <1>6, <3>3, <3>4, <3>5, PlaceIs
  <2>c. Apart(pde, d, i, tab)
    BY <2>4, <2>b DEF Apart
  <2>d. PICK w : w = <<tag, t, k1>>
    OBVIOUS
  <2>e. w \in Places /\ cells[w] = NULL /\ w # y /\ w # x /\ k1 \in 0 .. LastPos /\ k1 # K(i, j)
    <3>1. w \in Places /\ cells[w] = NULL
      BY <1>3, <1>14, <2>a, <2>b, <2>d
    <3>2. k1 \in 0 .. LastPos
      BY <3>1, <2>d DEF Places
    <3>3. K(i, j) # k1
      BY <1>3, <2>a, VicPageIs
    <3> QED BY <1>4, <1>5, <1>6, <2>d, <3>1, <3>2, <3>3
  <2>5. MemOK'
    <3>1. [NoPage EXCEPT ![j] = p] \in [PTEs -> Pages \cup {NULL}]
      BY <1>3 DEF NoPage, PTEs
    <3> QED BY <1>3, <2>2, <2>3, <3>1 DEF MemOK
  <2>6. RowsKept({d})
    BY <2>2, <2>3, Marked DEF RowsKept, MemOK
  <2>7. \A z \in Places : cells[z] \in {d} => z[1] = tag /\ z[2] = t
    BY <1>10
  <2>8. EmptyOK' /\ \A z \in Places : z[1] # tag \/ z[2] # t => z = y \/ cells'[z] = cells[z]
    BY <1>12, <2>6, <2>7
  <2>9. ASSUME NEW k \in 0 .. LastPos
        PROVE  /\ k = k1 => cells'[<<tag, t, k>>] = tab
               /\ k = K(i, j) => cells'[<<tag, t, k>>] = p
               /\ k # k1 /\ k # K(i, j) => cells'[<<tag, t, k>>] = cells[<<tag, t, k>>]
    <3>1. PICK pd, pt, pd2, pt2 : pd = pde /\ pt = pte /\ pd2 = pde' /\ pt2 = pte'
      OBVIOUS
    <3>2. /\ MemIs(pd, pt) /\ TableIs(pd, d, i, NULL) /\ Apart(pd, d, i, tab)
          /\ TableSet(pd, pt, pd2, pt2, d, i, tab, j, p) /\ tab \in Pages /\ d \in Pages
      BY <1>9, <1>14, <2>2, <2>3, <2>c, <3>1 DEF TableIs, TableSet
    <3>3. /\ k = K(i, PTE_CNT) => Vic(pd2, pt2, d, k) = tab
          /\ k = K(i, j) => Vic(pd2, pt2, d, k) = p
          /\ k # K(i, PTE_CNT) /\ k # K(i, j) => Vic(pd2, pt2, d, k) = Vic(pd, pt, d, k)
      BY ONLY <1>3, <3>2, k \in 0 .. LastPos, TableAdded
    <3>4. cells[<<tag, t, k>>] = Vic(pde, pte, d, k)
      BY RootedIs
    <3>5. cells'[<<tag, t, k>>] = Vic(pde', pte', d, k)
      BY RootedWillBe
    <3> QED BY <2>a, <3>1, <3>3, <3>4, <3>5
  <2>10. PICK c : c = [cells EXCEPT ![w] = tab]
    OBVIOUS
  <2>11. Sound(c, bitmap', leaked)
    BY <2>2, <2>3, <2>e, <2>10, Taken DEF PlacesOK
  <2>12. cells[x] = NULL
    <3>1. PICK pd, pt, q : pd = pde /\ pt = pte /\ q = pte[NULL][j]
      OBVIOUS
    <3>2. TableIs(pd, d, i, NULL) /\ PageIs(pt, NULL, j, q)
      BY <1>14, <3>1 DEF TableIs, PageIs
    <3>3. Vic(pd, pt, d, K(i, j)) = NULL
      BY <1>3, <3>2, VicPageIn
    <3>4. cells[<<tag, t, K(i, j)>>] = Vic(pde, pte, d, K(i, j))
      BY <1>6, RootedIs
    <3> QED BY <1>4, <3>1, <3>3, <3>4
  <2>13. c[y] = p /\ c[x] = NULL /\ c[w] = tab /\ \A z \in Places : z # w => c[z] = cells[z]
    BY <1>7, <1>8, <2>e, <2>10, <2>12 DEF cells
  <2>14. cells'[x] = p /\ cells'[w] = tab
    BY <1>4, <1>6, <2>9, <2>d, <2>e
  <2>15. ASSUME NEW z \in Places, z # x, z # y PROVE cells'[z] = c[z]
    <3>1. CASE z[1] # tag \/ z[2] # t
      <4>1. z # w
        BY <2>d, <3>1
      <4> QED BY <2>8, <2>13, <2>15, <3>1, <4>1
    <3>2. CASE z[1] = tag /\ z[2] = t
      <4>1. z = <<tag, t, z[3]>> /\ z[3] \in 0 .. LastPos
        BY <3>2, PlaceIs
      <4>2. z[3] # K(i, j)
        BY <1>4, <2>15, <4>1
      <4>3. CASE z = w
        BY <2>13, <2>14, <4>3
      <4>4. CASE z # w
        <5>1. z[3] # k1
          BY <2>d, <4>1, <4>4
        <5>2. cells'[<<tag, t, z[3]>>] = cells[<<tag, t, z[3]>>]
          BY <2>9, <4>1, <4>2, <5>1
        <5> QED BY <2>13, <4>1, <4>4, <5>2
      <4> QED BY <4>3, <4>4
    <3> QED BY <3>1, <3>2
  <2>16. Sound(cells', bitmap', leaked)
    BY <1>5, <1>7, <1>8, <2>11, <2>13, <2>14, <2>15, PageMoves
  <2> QED BY <2>3, <2>5, <2>8, <2>16 DEF PlacesOK
<1> QED BY <1>13, <1>14
-----------------------------------------------------------------------------
(* Steps that keep every directory.                                        *)

LEMMA PageStep ==
    ASSUME PlacesOK, TasksOK, NEW t \in Tasks, Stays(t), RowsKept({})
    PROVE  /\ <<"page", t, 0>> \in Places /\ cells[<<"page", t, 0>>] = loc[t].page
           /\ cells' = [cells EXCEPT ![<<"page", t, 0>>] = loc'[t].page]
<1>1. Alone("page", t, {})
  BY DEF Alone
<1>2. \A u \in Tasks : /\ Same("stack", u) /\ (u # t => Same("page", u))
                       /\ Same("cr3", u) /\ Same("dir", u)
  BY <1>1, OthersSame
<1>3. \A tag \in Tags : \A u \in Tasks : tag # "page" \/ u # t => Same(tag, u)
  BY <1>2 DEF Tags
<1>4. ASSUME NEW k \in 0 .. LastPos
      PROVE  /\ cells[<<"page", t, k>>] = One(loc[t].page, k)
             /\ cells'[<<"page", t, k>>] = One(loc'[t].page, k)
  BY CellsAre, CellsWillBe
<1>5. \A k \in 0 .. LastPos : k # 0 => cells'[<<"page", t, k>>] = cells[<<"page", t, k>>]
  BY <1>4 DEF One
<1>6. cells[<<"page", t, 0>>] = loc[t].page /\ cells'[<<"page", t, 0>>] = loc'[t].page
  BY <1>4, Zero DEF One
<1>7. "page" \in Tags
  BY DEF Tags
<1> QED BY <1>3, <1>5, <1>6, <1>7, Zero, OneChanges

LEMMA QuietPlaces ==
    ASSUME PlacesOK, TasksOK, NEW t \in Tasks, Stays(t), RowsKept({}),
           bitmap' = bitmap, leaked' = leaked, loc'[t].page = loc[t].page
    PROVE  PlacesOK'
<1>1. PICK x : x = <<"page", t, 0>>
  OBVIOUS
<1>2. x \in Places /\ cells[x] = loc[t].page /\ cells' = [cells EXCEPT ![x] = loc'[t].page]
  BY <1>1, PageStep
<1>3. cells' = cells
  BY <1>2 DEF cells
<1> QED BY <1>3 DEF PlacesOK

LEMMA TakesPage ==
    ASSUME PlacesOK, TasksOK, NEW t \in Tasks, Stays(t), RowsKept({}),
           NEW p \in Pages, p \notin bitmap, loc[t].page = NULL, loc'[t].page = p,
           bitmap' = bitmap \cup {p}, leaked' = leaked
    PROVE  PlacesOK'
<1>1. PICK x : x = <<"page", t, 0>>
  OBVIOUS
<1>2. x \in Places /\ cells[x] = NULL /\ cells' = [cells EXCEPT ![x] = p]
  BY <1>1, PageStep
<1>3. Sound(cells', bitmap \cup {p}, leaked)
  BY <1>2, Taken DEF PlacesOK
<1> QED BY <1>3 DEF PlacesOK

LEMMA LosesPage ==
    ASSUME PlacesOK, TasksOK, NEW t \in Tasks, Stays(t), RowsKept({}),
           NEW p \in Pages, loc[t].page = p, loc'[t].page = NULL,
           bitmap' = bitmap, leaked' = leaked \cup {p}
    PROVE  PlacesOK'
<1>1. PICK x : x = <<"page", t, 0>>
  OBVIOUS
<1>2. x \in Places /\ cells[x] = p /\ cells' = [cells EXCEPT ![x] = NULL]
  BY <1>1, PageStep
<1>3. Sound(cells', bitmap, leaked \cup ({p} \ {NULL}))
  BY <1>2, LostPage DEF PlacesOK
<1>4. {p} \ {NULL} = {p}
  BY Sizes
<1> QED BY <1>3, <1>4 DEF PlacesOK

\* A new directory beside the one that t runs on.
LEMMA TakesDir ==
    ASSUME MemOK, PlacesOK, TasksOK, NEW t \in Tasks, NEW p \in Pages, p \notin bitmap,
           memory_create_uvm(p), kstack' = kstack, cr3' = cr3, leaked' = leaked,
           \A u \in Tasks : u # t => loc'[u] = loc[u] /\ pc'[u] = pc[u],
           Other(loc[t], cr3[t]) = NULL, Other(loc'[t], cr3'[t]) = p, Start(pc'[t], loc'[t]) = 0,
           loc'[t].page = loc[t].page
    PROVE  PlacesOK'
<1>1. RowsKept({}) /\ pde'[p] = NoTable /\ bitmap' = bitmap \cup {p}
  BY Marked, NewUvm DEF memory_create_uvm
<1>2. ASSUME NEW u \in Tasks
      PROVE  Same("stack", u) /\ Same("page", u) /\ Same("cr3", u) /\ (u # t => Same("dir", u))
  <2>1. kstack'[u] = kstack[u] /\ cr3'[u] = cr3[u] /\ loc'[u].page = loc[u].page
    OBVIOUS
  <2>2. u # t => /\ Other(loc'[u], cr3'[u]) = Other(loc[u], cr3[u])
                 /\ Start(pc'[u], loc'[u]) = Start(pc[u], loc[u])
    OBVIOUS
  <2> QED BY <1>1, <2>1, <2>2, SameStack, SamePage, SameCr3, SameDir
<1>3. ASSUME NEW k \in 0 .. LastPos
      PROVE  /\ cells[<<"dir", t, k>>] = NULL
             /\ cells'[<<"dir", t, k>>] = IF k = LastPos THEN p ELSE NULL
  <2>1. /\ cells[<<"dir", t, k>>] = Tree(pde, pte, NULL, Start(pc[t], loc[t]), k)
        /\ cells'[<<"dir", t, k>>] = Tree(pde', pte', p, 0, k)
    BY CellsAre, CellsWillBe
  <2>2. p # NULL
    BY Sizes
  <2>3. Tree(pde', pte', p, 0, k) = IF k = LastPos THEN p ELSE NULL
    BY <1>1, <2>2, Zero, EmptyTree
  <2> QED BY <2>1, <2>3 DEF Tree
<1>4. \A tag \in Tags : \A u \in Tasks : tag # "dir" \/ u # t => Same(tag, u)
  BY <1>2 DEF Tags
<1>5. \A k \in 0 .. LastPos : k # LastPos => cells'[<<"dir", t, k>>] = cells[<<"dir", t, k>>]
  BY <1>3
<1>6. cells'[<<"dir", t, LastPos>>] = p /\ cells[<<"dir", t, LastPos>>] = NULL /\ "dir" \in Tags
  BY <1>3, Zero DEF Tags
<1>7. /\ <<"dir", t, LastPos>> \in Places
      /\ cells' = [cells EXCEPT ![<<"dir", t, LastPos>>] = p]
  BY <1>4, <1>5, <1>6, Zero, OneChanges
<1>8. Sound(cells', bitmap \cup {p}, leaked)
  BY <1>6, <1>7, Taken DEF PlacesOK
<1> QED BY <1>1, <1>8 DEF PlacesOK
-----------------------------------------------------------------------------
(* memory_copy_uvm                                                         *)

LEMMA CopyChild ==
    ASSUME NEW l \in Copies, NEW m \in Copies, NEW s, NEW k, NEW d, ChildIs(l, s, k, d)
    PROVE  ChildIs(m, s, k, d)
BY DEF ChildIs, Copies

\* A step of t on the way through memory_copy_uvm.
LEMMA CopyStep ==
    ASSUME VmOK, NEW t \in Tasks, NEW l \in Copies, At(t, l), NEW m \in Copies,
           NEW dir, NEW page, NEW pos, LocIs(m, Space(dir, page, pos, loc[t].child), cr3[t]),
           pc' = [pc EXCEPT ![t] = m],
           loc' = [loc EXCEPT ![t] = Space(dir, page, pos, loc[t].child)],
           UNCHANGED taskVars
    PROVE  /\ TasksOK' /\ ChildOK'
           /\ pc'[t] = m /\ loc'[t].dir = dir /\ loc'[t].page = page /\ loc'[t].pos = pos
           /\ kstack' = kstack /\ cr3' = cr3 /\ slot' = slot
           /\ \A u \in Tasks : u # t => loc'[u] = loc[u] /\ pc'[u] = pc[u]
<1> USE DEF VmOK, CoreOK
<1>1. kstack' = kstack /\ cr3' = cr3 /\ slot' = slot /\ heap_end' = heap_end
  BY DEF taskVars
<1>2. PICK r : r = Space(dir, page, pos, loc[t].child)
  OBVIOUS
<1>3. PICK c : c = loc[t].child
  OBVIOUS
<1>4. r.dir = dir /\ r.page = page /\ r.pos = pos /\ r.child = c
  BY <1>2, <1>3 DEF Space
<1>5. l \in Forks /\ slot[t] = "run" /\ cr3[t] \in Pages
  BY RunIs DEF Copies, Forks
<1>6. c \in Tasks /\ ChildIs(l, slot[c], kstack[c], cr3[c])
  BY <1>3, <1>5, ChildFacts
<1>7. ChildIs(m, slot[c], kstack[c], cr3[c])
  BY <1>6, CopyChild
<1>8. Steps(t, m, r)
  BY <1>2, <1>5 DEF Steps
<1>9. heap_end' \in [Tasks -> Nat]
  BY <1>1 DEF TasksOK
<1>10. TasksOK' /\ ChildOK'
  BY <1>1, <1>3, <1>4, <1>7, <1>8, <1>9, OwnStep
<1>11. loc'[t] = r /\ pc'[t] = m
  BY <1>2 DEF TasksOK
<1>12. \A u \in Tasks : u # t => loc'[u] = loc[u] /\ pc'[u] = pc[u]
  BY DEF TasksOK
<1> QED BY <1>1, <1>4, <1>10, <1>11, <1>12

LEMMA CopyPageOK ==
    ASSUME VmOK, NEW t \in Tasks, CopyPage(t)
    PROVE  CoreOK'
<1> USE DEF VmOK, CoreOK
<1>1. PICK p : p = addr_alloc_page
  OBVIOUS
<1>2. PICK v : v = CHOOSE x \in ToCopy(t) : \A y \in ToCopy(t) : x <= y
  OBVIOUS
<1>3. /\ At(t, "copy") /\ ToCopy(t) # {} /\ UNCHANGED taskVars /\ pde' = pde /\ pte' = pte
      /\ leaked' = leaked
  BY DEF CopyPage
<1>4. pc[t] = "copy" /\ cr3[t] \in Pages /\ LocIs("copy", loc[t], cr3[t]) /\ slot[t] = "run"
  BY <1>3, RunIs
<1>5. /\ loc[t].dir \in Pages /\ loc[t].dir # cr3[t] /\ loc[t].page = NULL
      /\ loc[t].child \in Tasks
  BY <1>4 DEF LocIs, Others, Forks
<1>6. RowsKept({}) /\ MemOK'
  BY <1>3, NoRows
<1>7. "copy" \in Copies /\ "copy_map" \in Copies /\ "undo_copy" \in Copies
  BY DEF Copies
<1>8. CASE p = NULL
  <2>1. /\ pc' = [pc EXCEPT ![t] = "undo_copy"] /\ bitmap' = bitmap
        /\ loc' = [loc EXCEPT ![t] = Space(loc[t].dir, NULL, 0, loc[t].child)]
    BY <1>1, <1>8 DEF CopyPage, Destroy, Go, Set
  <2>2. LocIs("undo_copy", Space(loc[t].dir, NULL, 0, loc[t].child), cr3[t])
    BY <1>5, Zero, Sizes DEF LocIs, PCs, Forks, Fills, Others, Space
  <2>3. /\ TasksOK' /\ ChildOK'
        /\ pc'[t] = "undo_copy" /\ loc'[t].dir = loc[t].dir /\ loc'[t].page = NULL /\ loc'[t].pos = 0
        /\ kstack' = kstack /\ cr3' = cr3 /\ slot' = slot
        /\ \A u \in Tasks : u # t => loc'[u] = loc[u] /\ pc'[u] = pc[u]
    BY <1>3, <1>7, <2>1, <2>2, CopyStep
  <2>4. Stays(t)
    BY <1>4, <2>3 DEF Stays, Other, Start
  <2>5. PlacesOK'
    BY <1>3, <1>5, <1>6, <2>1, <2>3, <2>4, QuietPlaces
  <2>6. EmptyOK'
    BY <1>6, <2>3, EmptyStep
  <2> QED BY <1>6, <2>3, <2>5, <2>6
<1>9. CASE p # NULL
  <2>0. p \in Pages /\ p \notin bitmap
    BY <1>1, <1>9, Marked, FreshPage
  <2>1. /\ pc' = [pc EXCEPT ![t] = "copy_map"] /\ bitmap' = bitmap \cup {p}
        /\ loc' = [loc EXCEPT ![t] = Space(loc[t].dir, p, v, loc[t].child)]
    BY <1>1, <1>2, <1>9 DEF CopyPage, Go, Set
  <2>a. v \in VPages /\ v \in Nat
    <3>0. VPages \subseteq Nat
      BY Sizes DEF VPages
    <3>1. ToCopy(t) \in SUBSET Nat /\ ToCopy(t) \subseteq VPages
      BY <3>0 DEF ToCopy, Mapped
    <3>2. v \in ToCopy(t)
      BY <1>2, <1>3, <3>1, Smallest
    <3> QED BY <3>0, <3>1, <3>2
  <2>2. LocIs("copy_map", Space(loc[t].dir, p, v, loc[t].child), cr3[t])
    BY <1>5, <2>0, <2>a DEF LocIs, PCs, Forks, Fills, Others, Space
  <2>3. /\ TasksOK' /\ ChildOK'
        /\ pc'[t] = "copy_map" /\ loc'[t].dir = loc[t].dir /\ loc'[t].page = p /\ loc'[t].pos = v
        /\ kstack' = kstack /\ cr3' = cr3 /\ slot' = slot
        /\ \A u \in Tasks : u # t => loc'[u] = loc[u] /\ pc'[u] = pc[u]
    BY <1>3, <1>7, <2>1, <2>2, CopyStep
  <2>4. Stays(t)
    BY <1>4, <2>3 DEF Stays, Other, Start
  <2>5. PlacesOK'
    BY <1>3, <1>5, <1>6, <2>0, <2>1, <2>3, <2>4, TakesPage
  <2>6. EmptyOK'
    BY <1>6, <2>3, EmptyStep
  <2> QED BY <1>6, <2>3, <2>5, <2>6
<1> QED BY <1>8, <1>9

LEMMA CopyMapOK ==
    ASSUME VmOK, NEW t \in Tasks, CopyMap(t)
    PROVE  CoreOK'
<1> USE DEF VmOK, CoreOK
<1>1. PICK d : d = loc[t].dir
  OBVIOUS
<1>2. PICK p : p = loc[t].page
  OBVIOUS
<1>a. PICK v : v = loc[t].pos
  OBVIOUS
<1>3. At(t, "copy_map") /\ UNCHANGED taskVars
  BY DEF CopyMap
<1>4. /\ pc[t] = "copy_map" /\ cr3[t] \in Pages /\ LocIs("copy_map", loc[t], cr3[t])
      /\ slot[t] = "run"
  BY <1>3, RunIs
<1>5. /\ d \in Pages /\ d # cr3[t] /\ p \in Pages /\ v \in VPages /\ v \in Nat
      /\ loc[t].child \in Tasks
  BY <1>1, <1>2, <1>4, <1>a DEF LocIs, Others, Forks
<1>7. "copy" \in Copies /\ "copy_map" \in Copies /\ "undo_copy" \in Copies
  BY DEF Copies
<1>8. CASE CanMap(d, v)
  <2>1. /\ pc' = [pc EXCEPT ![t] = "copy"] /\ memory_create_map(d, v, p)
        /\ loc' = [loc EXCEPT ![t] = Space(d, NULL, v + 1, loc[t].child)]
    BY <1>1, <1>2, <1>8, <1>a DEF CopyMap, Go, Set
  <2>2. LocIs("copy", Space(d, NULL, v + 1, loc[t].child), cr3[t])
    BY <1>5 DEF LocIs, PCs, Forks, Fills, Others, Space
  <2>3. /\ TasksOK' /\ ChildOK'
        /\ pc'[t] = "copy" /\ loc'[t].dir = d /\ loc'[t].page = NULL /\ loc'[t].pos = v + 1
        /\ kstack' = kstack /\ cr3' = cr3 /\ slot' = slot
        /\ \A u \in Tasks : u # t => loc'[u] = loc[u] /\ pc'[u] = pc[u]
    BY <1>3, <1>7, <2>1, <2>2, CopyStep
  <2>4. Stays(t)
    BY <1>1, <1>4, <2>3 DEF Stays, Other, Start
  <2>5. Rooted("dir", t, d)
    BY <1>1, <1>4, <1>5 DEF Rooted, Other, Start
  <2>6. Rooted("dir", t, d)'
    BY <1>5, <2>3 DEF Rooted, Other, Start
  <2>7. MemOK' /\ EmptyOK' /\ PlacesOK'
    BY <1>2, <1>4, <1>5, <1>8, <2>1, <2>3, <2>4, <2>5, <2>6, MapOK
  <2> QED BY <2>3, <2>7
<1>9. CASE ~ CanMap(d, v)
  <2>1. /\ pc' = [pc EXCEPT ![t] = "undo_copy"] /\ leaked' = leaked \cup {p}
        /\ loc' = [loc EXCEPT ![t] = Space(d, NULL, 0, loc[t].child)]
        /\ bitmap' = bitmap /\ pde' = pde /\ pte' = pte
    BY <1>1, <1>2, <1>9, <1>a DEF CopyMap, Destroy, Go, Set, memVars
  <2>2. LocIs("undo_copy", Space(d, NULL, 0, loc[t].child), cr3[t])
    BY <1>5, Zero, Sizes DEF LocIs, PCs, Forks, Fills, Others, Space
  <2>3. /\ TasksOK' /\ ChildOK'
        /\ pc'[t] = "undo_copy" /\ loc'[t].dir = d /\ loc'[t].page = NULL /\ loc'[t].pos = 0
        /\ kstack' = kstack /\ cr3' = cr3 /\ slot' = slot
        /\ \A u \in Tasks : u # t => loc'[u] = loc[u] /\ pc'[u] = pc[u]
    BY <1>3, <1>7, <2>1, <2>2, CopyStep
  <2>4. Stays(t)
    BY <1>1, <1>4, <2>3 DEF Stays, Other, Start
  <2>5. RowsKept({}) /\ MemOK'
    BY <2>1, NoRows
  <2>6. PlacesOK'
    BY <1>2, <1>5, <2>1, <2>3, <2>4, <2>5, LosesPage
  <2>7. EmptyOK'
    BY <2>3, <2>5, EmptyStep
  <2> QED BY <2>3, <2>5, <2>6, <2>7
<1> QED BY <1>8, <1>9
LEMMA Cr3Marked ==
    ASSUME PlacesOK, NEW t \in Tasks, cr3[t] \in Pages
    PROVE  cr3[t] \in bitmap /\ cells[<<"cr3", t, LastPos>>] = cr3[t]
<1>1. Own(cr3[t]) = cr3[t] /\ cr3[t] # NULL
  BY Sizes DEF Own
<1>2. Tree(pde, pte, cr3[t], 0, LastPos) = cr3[t]
  BY <1>1, Zero, TreeTop
<1>3. cells[<<"cr3", t, LastPos>>] = cr3[t]
  BY <1>1, <1>2, Zero, CellsAre
<1>4. <<"cr3", t, LastPos>> \in Places
  BY Zero DEF Places
<1> QED BY <1>1, <1>3, <1>4 DEF PlacesOK, Sound

\* The end of a fork: what it does to the places of the two tasks.
LEMMA ForkEnds ==
    ASSUME VmOK, NEW t \in Tasks, NEW l \in Copies \ {"copy_map"}, At(t, l),
           NEW c, c = loc[t].child, NEW d \in Pages \cup {BAD}, ForkEnd(t, d),
           pde' = pde, pte' = pte
    PROVE  /\ c \in Tasks /\ MemOK' /\ TasksOK' /\ ChildOK' /\ EmptyOK'
           /\ leaked' = leaked \cup ({cr3[c]} \ {NULL}) /\ cr3'[c] = d
           /\ \A u \in Tasks : /\ Same("stack", u) /\ Same("page", u)
                               /\ (u # c => Same("cr3", u)) /\ (u # t => Same("dir", u))
           /\ \A k \in 0 .. LastPos :
                 /\ cells[<<"cr3", c, k>>] = IF k = LastPos THEN cr3[c] ELSE NULL
                 /\ cells'[<<"cr3", c, k>>] = Tree(pde, pte, Own(d), 0, k)
                 /\ cells'[<<"dir", t, k>>] = NULL
<1> USE DEF VmOK, CoreOK
<1>1. /\ leaked' = leaked \cup {cr3[c]} /\ cr3' = [cr3 EXCEPT ![c] = d]
      /\ slot' = [slot EXCEPT ![c] = "run"] /\ pc' = [pc EXCEPT ![t] = "user"]
      /\ loc' = [loc EXCEPT ![t] = NoLoc] /\ kstack' = kstack /\ heap_end' = heap_end
  BY DEF ForkEnd, Return, Go, Set
<1>2. l \in Forks /\ l \in Copies
  BY DEF Forks, Copies
<1>3. slot[t] = "run" /\ cr3[t] \in Pages /\ pc[t] = l /\ LocIs(l, loc[t], cr3[t])
  BY RunIs
<1>4. /\ c \in Tasks /\ c # t /\ slot[c] = "init" /\ pc[c] = "user"
      /\ loc[c].dir = NULL /\ loc[c].page = NULL
      /\ \A u \in Tasks : u # t => loc[u].child # c
      /\ ChildIs(l, slot[c], kstack[c], cr3[c]) /\ SlotIs("user", slot[c], kstack[c], cr3[c])
  BY <1>2, ChildFacts
<1>5. cr3[c] \in Pages /\ cr3[c] # NULL
  BY <1>2, <1>4, Sizes DEF ChildIs
<1>6. RowsKept({}) /\ MemOK'
  BY NoRows
<1>7. TasksOK' /\ ChildOK'
  <2>1. LocIs("user", NoLoc, cr3[t])
    BY DEF LocIs, PCs, Forks, Fills, Others, NoLoc, Space
  <2>2. PICK r : r = NoLoc
    OBVIOUS
  <2>3. Steps(t, "user", r)
    BY <1>1, <1>3, <2>1, <2>2 DEF Steps
  <2>4. SlotIs("user", "run", kstack[c], d)
    BY <1>4, Sizes DEF SlotIs
  <2>5. Changes(c, "run", kstack[c], d)
    BY <1>1, <1>4, <2>4 DEF Changes, TasksOK
  <2>6. r.child \notin Tasks /\ slot[c] # "run"
    BY <1>4, <2>2, TaskAssumption DEF NoLoc, Space
  <2> QED BY <1>4, <2>3, <2>5, <2>6, ForkStep
<1>8. EmptyOK'
  <2>1. ASSUME NEW u \in Tasks, slot'[u] = "init", cr3'[u] \in Pages
        PROVE  pde'[cr3'[u]] = NoTable
    <3>1. u # c
      BY <1>1, <1>4, <2>1 DEF TasksOK
    <3>2. slot[u] = "init" /\ cr3'[u] = cr3[u]
      BY <1>1, <2>1, <3>1 DEF TasksOK
    <3> QED BY <2>1, <3>2 DEF EmptyOK
  <2> QED BY <2>1 DEF EmptyOK, NoTable
<1>9. leaked' = leaked \cup ({cr3[c]} \ {NULL})
  BY <1>1, <1>5
<1>10. loc'[t] = NoLoc /\ NoLoc.page = NULL /\ NoLoc.dir = NULL /\ loc[t].page = NULL
       /\ cr3'[c] = d
  BY <1>1, <1>3, <1>4 DEF TasksOK, NoLoc, Space, LocIs, Copies
<1>11. ASSUME NEW u \in Tasks
       PROVE  /\ Same("stack", u) /\ Same("page", u)
              /\ (u # c => Same("cr3", u)) /\ (u # t => Same("dir", u))
  <2>1. kstack'[u] = kstack[u]
    BY <1>1
  <2>2. loc'[u].page = loc[u].page
    BY <1>1, <1>10 DEF TasksOK
  <2>3. u # c => cr3'[u] = cr3[u]
    BY <1>1 DEF TasksOK
  <2>4. u # t => Other(loc'[u], cr3'[u]) = Other(loc[u], cr3[u])
    <3>1. u # t => loc'[u] = loc[u]
      BY <1>1 DEF TasksOK
    <3> QED BY <1>4, <2>3, <3>1 DEF Other
  <2>5. u # t => Start(pc'[u], loc'[u]) = Start(pc[u], loc[u])
    BY <1>1 DEF TasksOK
  <2> QED BY <1>6, <2>1, <2>2, <2>3, <2>4, <2>5, SameStack, SamePage, SameCr3, SameDir
<1>12. ASSUME NEW k \in 0 .. LastPos
       PROVE  /\ cells[<<"cr3", c, k>>] = IF k = LastPos THEN cr3[c] ELSE NULL
              /\ cells'[<<"cr3", c, k>>] = Tree(pde, pte, Own(d), 0, k)
              /\ cells'[<<"dir", t, k>>] = NULL
  <2>1. cells[<<"cr3", c, k>>] = IF k = LastPos THEN cr3[c] ELSE NULL
    <3>1. PICK e : e = cr3[c]
      OBVIOUS
    <3>2. pde[e] = NoTable /\ e # NULL /\ Own(e) = e
      BY <1>4, <1>5, <3>1 DEF EmptyOK, Own
    <3>3. Tree(pde, pte, e, 0, k) = IF k = LastPos THEN e ELSE NULL
      BY <3>2, Zero, EmptyTree
    <3>4. cells[<<"cr3", c, k>>] = Tree(pde, pte, Own(cr3[c]), 0, k)
      BY <1>4, CellsAre
    <3> QED BY <3>1, <3>2, <3>3, <3>4
  <2>2. cells'[<<"cr3", c, k>>] = Tree(pde, pte, Own(d), 0, k)
    <3>1. cells'[<<"cr3", c, k>>] = Tree(pde', pte', Own(cr3'[c]), 0, k)
      BY <1>4, CellsWillBe
    <3> QED BY <1>10, <3>1
  <2>3. cells'[<<"dir", t, k>>] = NULL
    <3>1. Other(loc'[t], cr3'[t]) = NULL
      BY <1>10 DEF Other
    <3>2. cells'[<<"dir", t, k>>]
            = Tree(pde', pte', Other(loc'[t], cr3'[t]), Start(pc'[t], loc'[t]), k)
      BY CellsWillBe
    <3> QED BY <3>1, <3>2 DEF Tree
  <2> QED BY <2>1, <2>2, <2>3
<1> QED BY <1>4, <1>6, <1>7, <1>8, <1>9, <1>10, <1>11, <1>12
\* Two trees change their places.
LEMMA SwapTrees ==
    ASSUME NEW c, NEW bm, NEW lk, Sound(c, bm, lk),
           NEW g \in Tags, NEW t \in Tasks, NEW h \in Tags, NEW u \in Tasks, g # h,
           \A k \in 0 .. LastPos : /\ cells'[<<g, t, k>>] = c[<<h, u, k>>]
                                   /\ cells'[<<h, u, k>>] = c[<<g, t, k>>],
           \A z \in Places : ~ (z[1] = g /\ z[2] = t) /\ ~ (z[1] = h /\ z[2] = u)
                                => cells'[z] = c[z]
    PROVE  Sound(cells', bm, lk)
<1> DEFINE M(x) == IF x[1] = g /\ x[2] = t THEN <<h, u, x[3]>>
                   ELSE IF x[1] = h /\ x[2] = u THEN <<g, t, x[3]>> ELSE x
<1>1. PICK m : m = [x \in Places |-> M(x)]
  OBVIOUS
<1>2. ASSUME NEW x \in Places
      PROVE  m[x] \in Places /\ m[m[x]] = x /\ cells'[x] = c[m[x]]
  <2>1. /\ x = <<x[1], x[2], x[3]>> /\ x[3] \in 0 .. LastPos
    BY PlaceIs
  <2>2. CASE x[1] = g /\ x[2] = t
    <3>1. PICK y : y = <<h, u, x[3]>>
      OBVIOUS
    <3>2. m[x] = y /\ y \in Places /\ y[1] = h /\ y[2] = u /\ y[3] = x[3]
      BY <1>1, <2>1, <2>2, <3>1, PlaceIs
    <3>3. m[y] = <<g, t, x[3]>>
      BY <1>1, <3>2
    <3>4. x = <<g, t, x[3]>>
      BY <2>1, <2>2
    <3>5. cells'[<<g, t, x[3]>>] = c[<<h, u, x[3]>>]
      BY <2>1
    <3> QED BY <3>1, <3>2, <3>3, <3>4, <3>5
  <2>3. CASE x[1] = h /\ x[2] = u
    <3>1. PICK y : y = <<g, t, x[3]>>
      OBVIOUS
    <3>2. m[x] = y /\ y \in Places /\ y[1] = g /\ y[2] = t /\ y[3] = x[3]
      BY <1>1, <2>1, <2>3, <3>1, PlaceIs
    <3>3. m[y] = <<h, u, x[3]>>
      BY <1>1, <3>2
    <3>4. x = <<h, u, x[3]>>
      BY <2>1, <2>3
    <3>5. cells'[<<h, u, x[3]>>] = c[<<g, t, x[3]>>]
      BY <2>1
    <3> QED BY <3>1, <3>2, <3>3, <3>4, <3>5
  <2>4. CASE ~ (x[1] = g /\ x[2] = t) /\ ~ (x[1] = h /\ x[2] = u)
    <3>1. m[x] = x
      BY <1>1, <2>4
    <3> QED BY <2>4, <3>1
  <2> QED BY <2>2, <2>3, <2>4
<1>3. m \in [Places -> Places] /\ \A x \in Places : m[m[x]] = x
  <2>1. m = [x \in Places |-> m[x]]
    BY <1>1
  <2> QED BY <1>2, <2>1
<1>4. PICK c2 : c2 = cells'
  OBVIOUS
<1>5. c2 = [z \in Places |-> c2[z]] /\ \A x \in Places : c2[x] = c[m[x]]
  BY <1>2, <1>4 DEF cells
<1>6. c2 \in [Places -> Pages \cup {NULL}]
  BY <1>2, <1>5 DEF Sound
<1>7. Sound(c2, bm, lk)
  BY <1>3, <1>5, <1>6, Swapped
<1> QED BY <1>4, <1>7

LEMMA CopyDirOK ==
    ASSUME VmOK, NEW t \in Tasks, CopyDir(t)
    PROVE  CoreOK'
<1> USE DEF VmOK, CoreOK
<1>1. PICK p : p = addr_alloc_page
  OBVIOUS
<1>2. PICK c : c = loc[t].child
  OBVIOUS
<1>3. At(t, "copy_dir") /\ "copy_dir" \in Copies /\ "copy" \in Copies
  BY DEF CopyDir, Copies
<1>4. slot[t] = "run" /\ cr3[t] \in Pages /\ pc[t] = "copy_dir" /\ LocIs("copy_dir", loc[t], cr3[t])
  BY <1>3, RunIs
<1>5. loc[t].dir = NULL /\ loc[t].page = NULL /\ loc[t].child \in Tasks
  BY <1>4 DEF LocIs, Others, Fills, Forks
<1>6. Other(loc[t], cr3[t]) = NULL
  BY <1>5 DEF Other
<1>7. CASE p = NULL
  <2>1. ForkEnd(t, BAD) /\ bitmap' = bitmap /\ pde' = pde /\ pte' = pte
    BY <1>1, <1>7 DEF CopyDir, memVars
  <2>2. "copy_dir" \in Copies \ {"copy_map"}
    BY <1>3
  <2>3. /\ c \in Tasks /\ MemOK' /\ TasksOK' /\ ChildOK' /\ EmptyOK'
        /\ leaked' = leaked \cup ({cr3[c]} \ {NULL})
        /\ \A u \in Tasks : /\ Same("stack", u) /\ Same("page", u)
                            /\ (u # c => Same("cr3", u)) /\ (u # t => Same("dir", u))
        /\ \A k \in 0 .. LastPos :
              /\ cells[<<"cr3", c, k>>] = IF k = LastPos THEN cr3[c] ELSE NULL
              /\ cells'[<<"cr3", c, k>>] = Tree(pde, pte, Own(BAD), 0, k)
              /\ cells'[<<"dir", t, k>>] = NULL
    BY <1>2, <1>3, <2>1, <2>2, ForkEnds
  <2>4. Same("dir", t)
    <3>1. ASSUME NEW k \in 0 .. LastPos PROVE cells[<<"dir", t, k>>] = NULL
      <4>1. cells[<<"dir", t, k>>]
              = Tree(pde, pte, Other(loc[t], cr3[t]), Start(pc[t], loc[t]), k)
        BY CellsAre
      <4> QED BY <1>6, <4>1 DEF Tree
    <3> QED BY <2>3, <3>1 DEF Same
  <2>5. \A k \in 0 .. LastPos : cells'[<<"cr3", c, k>>] = NULL
    <3>1. Own(BAD) = NULL
      BY Sizes DEF Own
    <3> QED BY <2>3, <3>1 DEF Tree
  <2>6. \A tag \in Tags : \A u \in Tasks : tag # "cr3" \/ u # c => Same(tag, u)
    BY <2>3, <2>4 DEF Tags
  <2>7. \A k \in 0 .. LastPos : k # LastPos => cells'[<<"cr3", c, k>>] = cells[<<"cr3", c, k>>]
    BY <2>3, <2>5
  <2>8. cells'[<<"cr3", c, LastPos>>] = NULL /\ cells[<<"cr3", c, LastPos>>] = cr3[c] /\ "cr3" \in Tags
    BY <2>3, <2>5, Zero DEF Tags
  <2>9. /\ <<"cr3", c, LastPos>> \in Places
        /\ cells' = [cells EXCEPT ![<<"cr3", c, LastPos>>] = NULL]
    BY <2>3, <2>6, <2>7, <2>8, Zero, OneChanges
  <2>10. Sound(cells', bitmap, leaked \cup ({cr3[c]} \ {NULL}))
    <3>1. PICK x : x = <<"cr3", c, LastPos>>
      OBVIOUS
    <3>2. x \in Places /\ cells[x] = cr3[c] /\ cells' = [cells EXCEPT ![x] = NULL]
      BY <2>8, <2>9, <3>1
    <3> QED BY <3>2, LostPage DEF PlacesOK
  <2> QED BY <2>1, <2>3, <2>10 DEF PlacesOK
<1>8. CASE p # NULL
  <2>0. p \in Pages /\ p \notin bitmap
    BY <1>1, <1>8, Marked, FreshPage
  <2>1. /\ memory_create_uvm(p) /\ pc' = [pc EXCEPT ![t] = "copy"]
        /\ loc' = [loc EXCEPT ![t] = Space(p, NULL, 0, loc[t].child)]
        /\ UNCHANGED taskVars /\ leaked' = leaked
    BY <1>1, <1>8 DEF CopyDir, Go, Set
  <2>2. cr3[t] # p
    BY <1>4, <2>0, Cr3Marked
  <2>3. LocIs("copy", Space(p, NULL, 0, loc[t].child), cr3[t])
    BY <1>5, <2>0, <2>2 DEF LocIs, PCs, Forks, Fills, Others, Space
  <2>4. /\ TasksOK' /\ ChildOK'
        /\ pc'[t] = "copy" /\ loc'[t].dir = p /\ loc'[t].page = NULL /\ loc'[t].pos = 0
        /\ kstack' = kstack /\ cr3' = cr3 /\ slot' = slot
        /\ \A u \in Tasks : u # t => loc'[u] = loc[u] /\ pc'[u] = pc[u]
    BY <1>3, <2>1, <2>3, CopyStep
  <2>5. RowsKept({}) /\ MemOK'
    BY <2>0, <2>1, Marked, NewUvm
  <2>6. Other(loc'[t], cr3'[t]) = p /\ Start(pc'[t], loc'[t]) = 0
    BY <2>2, <2>4 DEF Other, Start
  <2>7. PlacesOK'
    BY <1>5, <1>6, <2>0, <2>1, <2>4, <2>6, TakesDir
  <2>8. EmptyOK'
    BY <2>4, <2>5, EmptyStep
  <2> QED BY <2>4, <2>5, <2>7, <2>8
<1> QED BY <1>7, <1>8

LEMMA CopyDoneOK ==
    ASSUME VmOK, NEW t \in Tasks, CopyDone(t)
    PROVE  CoreOK'
<1> USE DEF VmOK, CoreOK
<1>1. PICK d : d = loc[t].dir
  OBVIOUS
<1>2. PICK c : c = loc[t].child
  OBVIOUS
<1>3. /\ At(t, "copy") /\ "copy" \in Copies \ {"copy_map"} /\ ForkEnd(t, d)
      /\ bitmap' = bitmap /\ pde' = pde /\ pte' = pte
  BY <1>1 DEF CopyDone, Copies, memVars
<1>4. slot[t] = "run" /\ cr3[t] \in Pages /\ pc[t] = "copy" /\ LocIs("copy", loc[t], cr3[t])
  BY <1>3, RunIs
<1>5. d \in Pages /\ d # cr3[t]
  BY <1>1, <1>4 DEF LocIs, Others
<1>6. /\ c \in Tasks /\ MemOK' /\ TasksOK' /\ ChildOK' /\ EmptyOK'
      /\ leaked' = leaked \cup ({cr3[c]} \ {NULL})
      /\ \A u \in Tasks : /\ Same("stack", u) /\ Same("page", u)
                          /\ (u # c => Same("cr3", u)) /\ (u # t => Same("dir", u))
      /\ \A k \in 0 .. LastPos :
            /\ cells[<<"cr3", c, k>>] = IF k = LastPos THEN cr3[c] ELSE NULL
            /\ cells'[<<"cr3", c, k>>] = Tree(pde, pte, Own(d), 0, k)
            /\ cells'[<<"dir", t, k>>] = NULL
  BY <1>2, <1>3, <1>5, ForkEnds
<1>7. PICK x : x = <<"cr3", c, LastPos>>
  OBVIOUS
<1>8. x \in Places /\ cells[x] = cr3[c]
  BY <1>6, <1>7, Zero DEF Places
<1>9. PICK c2 : c2 = [cells EXCEPT ![x] = NULL]
  OBVIOUS
<1>10. Sound(c2, bitmap, leaked')
  <2>1. PICK c1, lk : c1 = cells /\ lk = leaked
    OBVIOUS
  <2>2. Sound(c1, bitmap, lk)
    BY <2>1 DEF PlacesOK
  <2>3. c2 = [c1 EXCEPT ![x] = NULL]
    BY <1>9, <2>1
  <2>4. Sound(c2, bitmap, lk \cup ({c1[x]} \ {NULL}))
    BY ONLY <1>8, <2>2, <2>3, LostPage
  <2>5. leaked' = lk \cup ({c1[x]} \ {NULL})
    BY <1>6, <1>8, <2>1
  <2> QED BY <2>4, <2>5
<1>11. c2[x] = NULL /\ \A z \in Places : z # x => c2[z] = cells[z]
  BY <1>8, <1>9 DEF cells
<1>12. ASSUME NEW k \in 0 .. LastPos
       PROVE  /\ cells'[<<"dir", t, k>>] = c2[<<"cr3", c, k>>]
              /\ cells'[<<"cr3", c, k>>] = c2[<<"dir", t, k>>]
  <2>1. <<"cr3", c, k>> \in Places /\ <<"dir", t, k>> \in Places
    BY <1>6 DEF Places
  <2>2. c2[<<"cr3", c, k>>] = NULL
    <3>1. CASE k = LastPos
      BY <1>7, <1>11, <3>1
    <3>2. CASE k # LastPos
      <4>1. <<"cr3", c, k>> # x
        BY <1>7, <3>2
      <4> QED BY <1>6, <1>11, <2>1, <3>2, <4>1
    <3> QED BY <3>1, <3>2
  <2>3. c2[<<"dir", t, k>>] = Tree(pde, pte, d, 0, k)
    <3>1. c2[<<"dir", t, k>>] = cells[<<"dir", t, k>>]
      BY <1>7, <1>11, <2>1
    <3>2. Other(loc[t], cr3[t]) = d /\ Start(pc[t], loc[t]) = 0
      BY <1>1, <1>4, <1>5 DEF Other, Start
    <3>3. cells[<<"dir", t, k>>]
            = Tree(pde, pte, Other(loc[t], cr3[t]), Start(pc[t], loc[t]), k)
      BY CellsAre
    <3> QED BY <3>1, <3>2, <3>3
  <2>4. Own(d) = d
    BY <1>5 DEF Own
  <2> QED BY <1>6, <2>2, <2>3, <2>4
<1>13. ASSUME NEW z \in Places, ~ (z[1] = "dir" /\ z[2] = t), ~ (z[1] = "cr3" /\ z[2] = c)
       PROVE  cells'[z] = c2[z]
  <2>1. PICK g \in Tags, u \in Tasks, k \in 0 .. LastPos : z = <<g, u, k>>
    BY PlaceIs
  <2>2. Same(g, u)
    BY <1>6, <1>13, <2>1 DEF Tags
  <2>3. z # x
    BY <1>7, <1>13
  <2> QED BY <1>11, <2>1, <2>2, <2>3 DEF Same
<1>14. "dir" \in Tags /\ "cr3" \in Tags
  BY DEF Tags
<1>15. Sound(cells', bitmap, leaked')
  BY <1>6, <1>10, <1>12, <1>13, <1>14, SwapTrees
<1> QED BY <1>3, <1>6, <1>15 DEF PlacesOK
-----------------------------------------------------------------------------
(* memory_destory_uvm                                                      *)

Ready(t, k) ==
    /\ k \in 0 .. LastPos /\ k >= loc[t].pos /\ cells[<<"dir", t, k>>] # NULL
    /\ \A n \in 0 .. LastPos : n < k => cells[<<"dir", t, n>>] = NULL
    /\ \A n \in 0 .. LastPos : n > k => cells[<<"dir", t, n>>] = Vic(pde, pte, loc[t].dir, n)

LEMMA DestroyIs ==
    ASSUME VmOK, NEW t \in Tasks, DestroyStep(t)
    PROVE  \E k \in 0 .. LastPos :
              /\ Ready(t, k)
              /\ pc[t] \in {"undo_copy", "destroy"} /\ At(t, pc[t])
              /\ bitmap' = bitmap \ {cells[<<"dir", t, k>>]}
              /\ pde' = pde /\ pte' = pte
              /\ k # LastPos => /\ loc' = [loc EXCEPT ![t] = Space(loc[t].dir, NULL, k + 1, loc[t].child)]
                                /\ UNCHANGED <<taskVars, pc, leaked, short>>
              /\ k = LastPos /\ pc[t] = "undo_copy" => ForkEnd(t, BAD)
              /\ k = LastPos /\ pc[t] = "destroy" =>
                    Return(t) /\ UNCHANGED <<taskVars, leaked, short>>
<1> USE DEF VmOK, CoreOK
<1>1. PICK d : d = loc[t].dir
  OBVIOUS
<1>2. PICK l : l = pc[t]
  OBVIOUS
<1>3. PICK from : from = loc[t].pos
  OBVIOUS
<1>4. l \in {"undo_copy", "destroy"} /\ At(t, l)
  BY <1>2 DEF DestroyStep
<1>5. LocIs(l, loc[t], cr3[t])
  BY <1>4, RunIs
<1>6. d \in Pages /\ d # cr3[t] /\ from \in Nat /\ from <= LastPos /\ d # NULL
  BY <1>1, <1>3, <1>4, <1>5, Sizes DEF LocIs, Others
<1>7. ASSUME NEW n \in 0 .. LastPos
      PROVE  cells[<<"dir", t, n>>] = IF n >= from THEN Vic(pde, pte, d, n) ELSE NULL
  <2>1. Other(loc[t], cr3[t]) = d /\ Start(pc[t], loc[t]) = from
    BY <1>1, <1>2, <1>3, <1>4, <1>6 DEF Other, Start
  <2>2. cells[<<"dir", t, n>>]
          = Tree(pde, pte, Other(loc[t], cr3[t]), Start(pc[t], loc[t]), n)
    BY CellsAre
  <2>3. cells[<<"dir", t, n>>] = Tree(pde, pte, d, from, n)
    BY <2>1, <2>2
  <2> QED BY <1>6, <2>3 DEF Tree
<1>8. PICK ready : ready = {k \in from .. LastPos : Victim(d, k) # NULL}
  OBVIOUS
<1>9. ready \in SUBSET Nat /\ LastPos \in ready
  <2>1. Victim(d, LastPos) = d
    BY DEF Victim
  <2>2. LastPos \in from .. LastPos /\ \A k \in from .. LastPos : k \in Nat
    BY <1>6, Sizes
  <2> QED BY <1>6, <1>8, <2>1, <2>2
<1>10. PICK k : k = CHOOSE x \in ready : \A y \in ready : x <= y
  OBVIOUS
<1>11. k \in ready /\ \A y \in ready : k <= y
  BY <1>9, <1>10, Smallest
<1>12. k \in 0 .. LastPos /\ k >= from /\ Victim(d, k) # NULL
  BY <1>6, <1>8, <1>11, Sizes
<1>13. Victim(d, k) = cells[<<"dir", t, k>>]
  <2>1. Victim(d, k) = Vic(pde, pte, d, k)
    BY DEF Victim, Vic, W
  <2> QED BY <1>7, <1>12, <2>1
<1>14. ASSUME NEW n \in 0 .. LastPos, n < k PROVE cells[<<"dir", t, n>>] = NULL
  <2>1. Victim(d, n) = Vic(pde, pte, d, n)
    BY DEF Victim, Vic, W
  <2>2. CASE n >= from
    <3>1. n \in from .. LastPos /\ n \notin ready
      BY <1>6, <1>11, <1>12, <1>14, <2>2, Sizes
    <3>2. Victim(d, n) = NULL
      BY <1>8, <3>1
    <3> QED BY <1>7, <2>1, <2>2, <3>2
  <2>3. CASE ~ (n >= from)
    BY <1>7, <2>3
  <2> QED BY <2>2, <2>3
<1>15. ASSUME NEW n \in 0 .. LastPos, n > k PROVE cells[<<"dir", t, n>>] = Vic(pde, pte, d, n)
  <2>1. n >= from
    BY <1>6, <1>12, <1>15, Sizes
  <2> QED BY <1>7, <2>1
<1>16. Ready(t, k)
  BY <1>1, <1>3, <1>12, <1>13, <1>14, <1>15 DEF Ready
<1>17. /\ bitmap' = bitmap \ {Victim(d, k)} /\ pde' = pde /\ pte' = pte
       /\ k # LastPos => /\ loc' = [loc EXCEPT ![t] = Space(d, NULL, k + 1, loc[t].child)]
                         /\ UNCHANGED <<taskVars, pc, leaked, short>>
       /\ k = LastPos /\ pc[t] = "undo_copy" => ForkEnd(t, BAD)
       /\ k = LastPos /\ pc[t] # "undo_copy" =>
             Return(t) /\ UNCHANGED <<taskVars, leaked, short>>
  BY <1>1, <1>3, <1>8, <1>10 DEF DestroyStep, addr_free_page, Set
<1>18. pc[t] = "destroy" => pc[t] # "undo_copy"
  OBVIOUS
<1> QED BY <1>1, <1>2, <1>4, <1>12, <1>13, <1>16, <1>17, <1>18
\* A page is freed, and it is not the last one.
LEMMA DestroyGoesOn ==
    ASSUME VmOK, NEW t \in Tasks, NEW k \in 0 .. LastPos, Ready(t, k), k # LastPos,
           NEW l \in {"undo_copy", "destroy"}, pc[t] = l, At(t, l),
           bitmap' = bitmap \ {cells[<<"dir", t, k>>]}, pde' = pde, pte' = pte,
           loc' = [loc EXCEPT ![t] = Space(loc[t].dir, NULL, k + 1, loc[t].child)],
           UNCHANGED <<taskVars, pc, leaked, short>>
    PROVE  CoreOK'
<1> USE DEF VmOK, CoreOK
<1>1. /\ kstack' = kstack /\ cr3' = cr3 /\ slot' = slot /\ heap_end' = heap_end
      /\ pc' = pc /\ leaked' = leaked
  BY DEF taskVars
<1>2. slot[t] = "run" /\ cr3[t] \in Pages /\ LocIs(l, loc[t], cr3[t])
  BY RunIs
<1>3. PICK d : d = loc[t].dir
  OBVIOUS
<1>4. /\ d \in Pages /\ d # cr3[t] /\ d # NULL /\ loc[t].page = NULL
      /\ loc[t].child \in (IF l \in Forks THEN Tasks ELSE {NULL})
  BY <1>2, <1>3, Sizes DEF LocIs, Others
<1>5. PICK r : r = Space(d, NULL, k + 1, loc[t].child)
  OBVIOUS
<1>6. r.dir = d /\ r.page = NULL /\ r.pos = k + 1 /\ r.child = loc[t].child
  BY <1>5 DEF Space
<1>7. k + 1 \in Nat /\ k + 1 <= LastPos
  BY Sizes
<1>8. LocIs(l, r, cr3[t])
  BY <1>4, <1>5, <1>7 DEF LocIs, PCs, Forks, Fills, Others, Space
<1>9. loc'[t] = r /\ pc' = [pc EXCEPT ![t] = l] /\ \A u \in Tasks : u # t => loc'[u] = loc[u]
  BY <1>1, <1>3, <1>5 DEF TasksOK
<1>10. TasksOK' /\ ChildOK'
  <2>1. Steps(t, l, r)
    BY <1>2, <1>3, <1>5, <1>8, <1>9 DEF Steps
  <2>2. heap_end' \in [Tasks -> Nat]
    BY <1>1 DEF TasksOK
  <2>3. r.child \in Tasks => /\ r.child = loc[t].child
                             /\ ChildIs(l, slot[r.child], kstack[r.child], cr3[r.child])
    BY <1>6 DEF ChildOK
  <2> QED BY <1>1, <2>1, <2>2, <2>3, OwnStep
<1>11. RowsKept({}) /\ MemOK'
  BY NoRows
<1>12. EmptyOK'
  BY <1>1, <1>11, EmptyStep
<1>13. ASSUME NEW u \in Tasks
       PROVE  Same("stack", u) /\ Same("page", u) /\ Same("cr3", u) /\ (u # t => Same("dir", u))
  <2>1. kstack'[u] = kstack[u] /\ cr3'[u] = cr3[u] /\ loc'[u].page = loc[u].page
    BY <1>1, <1>4, <1>6, <1>9
  <2>2. u # t => /\ Other(loc'[u], cr3'[u]) = Other(loc[u], cr3[u])
                 /\ Start(pc'[u], loc'[u]) = Start(pc[u], loc[u])
    BY <1>1, <1>9
  <2> QED BY <1>11, <2>1, <2>2, SameStack, SamePage, SameCr3, SameDir
<1>14. ASSUME NEW n \in 0 .. LastPos
       PROVE  cells'[<<"dir", t, n>>] = IF n = k THEN NULL ELSE cells[<<"dir", t, n>>]
  <2>1. Other(loc'[t], cr3'[t]) = d /\ Start(pc'[t], loc'[t]) = k + 1
    BY <1>1, <1>4, <1>6, <1>9 DEF Other, Start
  <2>2. cells'[<<"dir", t, n>>]
          = Tree(pde', pte', Other(loc'[t], cr3'[t]), Start(pc'[t], loc'[t]), n)
    BY CellsWillBe
  <2>3. cells'[<<"dir", t, n>>] = Tree(pde, pte, d, k + 1, n)
    BY <2>1, <2>2
  <2>4. CASE n > k
    <3>1. n >= k + 1 /\ n # k
      BY <2>4, Sizes
    <3>2. cells[<<"dir", t, n>>] = Vic(pde, pte, d, n)
      BY <1>3, <2>4 DEF Ready
    <3> QED BY <1>4, <2>3, <3>1, <3>2 DEF Tree
  <2>5. CASE ~ (n > k)
    <3>1. ~ (n >= k + 1) /\ (n # k => n < k)
      BY <2>5, Sizes
    <3>2. cells'[<<"dir", t, n>>] = NULL
      BY <2>3, <3>1 DEF Tree
    <3>3. n # k => cells[<<"dir", t, n>>] = NULL
      BY <3>1 DEF Ready
    <3> QED BY <3>2, <3>3
  <2> QED BY <2>4, <2>5
<1>15. \A tag \in Tags : \A u \in Tasks : tag # "dir" \/ u # t => Same(tag, u)
  BY <1>13 DEF Tags
<1>16. PICK x : x = <<"dir", t, k>>
  OBVIOUS
<1>17. "dir" \in Tags /\ cells[x] # NULL /\ bitmap' = bitmap \ {cells[x]}
  BY <1>16 DEF Tags, Ready
<1>18. x \in Places /\ cells' = [cells EXCEPT ![x] = NULL]
  <2>1. \A n \in 0 .. LastPos : n # k => cells'[<<"dir", t, n>>] = cells[<<"dir", t, n>>]
    BY <1>14
  <2>2. cells'[<<"dir", t, k>>] = NULL
    BY <1>14
  <2> QED BY <1>15, <1>16, <1>17, <2>1, <2>2, OneChanges
<1>19. Sound(cells', bitmap \ {cells[x]}, leaked)
  BY <1>17, <1>18, Freed DEF PlacesOK
<1> QED BY <1>1, <1>10, <1>11, <1>12, <1>17, <1>19 DEF PlacesOK

LEMMA DestroyStepOK ==
    ASSUME VmOK, NEW t \in Tasks, DestroyStep(t)
    PROVE  CoreOK'
<1> USE DEF VmOK, CoreOK
<1>1. PICK k \in 0 .. LastPos :
              /\ Ready(t, k)
              /\ pc[t] \in {"undo_copy", "destroy"} /\ At(t, pc[t])
              /\ bitmap' = bitmap \ {cells[<<"dir", t, k>>]}
              /\ pde' = pde /\ pte' = pte
              /\ k # LastPos => /\ loc' = [loc EXCEPT ![t] = Space(loc[t].dir, NULL, k + 1, loc[t].child)]
                                /\ UNCHANGED <<taskVars, pc, leaked, short>>
              /\ k = LastPos /\ pc[t] = "undo_copy" => ForkEnd(t, BAD)
              /\ k = LastPos /\ pc[t] = "destroy" =>
                    Return(t) /\ UNCHANGED <<taskVars, leaked, short>>
  BY DestroyIs
<1>2. CASE k # LastPos
  BY <1>1, <1>2, DestroyGoesOn
<1>3. PICK x : x = <<"dir", t, LastPos>>
  OBVIOUS
<1>4. CASE k = LastPos
  <2>1. x \in Places /\ cells[x] # NULL /\ bitmap' = bitmap \ {cells[x]}
    BY <1>1, <1>3, <1>4, Zero DEF Places, Ready
  <2>2. \A n \in 0 .. LastPos : n # LastPos => cells[<<"dir", t, n>>] = NULL
    <3>1. \A n \in 0 .. LastPos : n # LastPos => n < LastPos
      BY Sizes
    <3> QED BY <1>1, <1>4, <3>1 DEF Ready
  <2>3. PICK c2 : c2 = [cells EXCEPT ![x] = NULL]
    OBVIOUS
  <2>4. Sound(c2, bitmap', leaked)
    BY <2>1, <2>3, Freed DEF PlacesOK
  <2>5. c2[x] = NULL /\ \A z \in Places : z # x => c2[z] = cells[z]
    BY <2>1, <2>3 DEF cells
  <2>6. c2 = [z \in Places |-> c2[z]] /\ cells' = [z \in Places |-> cells'[z]]
    BY <2>3 DEF cells
  <2>7. ASSUME NEW n \in 0 .. LastPos PROVE <<"dir", t, n>> \in Places /\ c2[<<"dir", t, n>>] = NULL
    <3>1. <<"dir", t, n>> \in Places
      BY DEF Places
    <3>2. n # LastPos => <<"dir", t, n>> # x
      BY <1>3
    <3> QED BY <1>3, <2>2, <2>5, <3>1, <3>2
  <2>8. CASE pc[t] = "undo_copy"
    <3>1. PICK c : c = loc[t].child
      OBVIOUS
    <3>2. "undo_copy" \in Copies \ {"copy_map"} /\ At(t, "undo_copy") /\ ForkEnd(t, BAD)
      BY <1>1, <1>4, <2>8 DEF Copies
    <3>3. /\ c \in Tasks /\ MemOK' /\ TasksOK' /\ ChildOK' /\ EmptyOK'
          /\ leaked' = leaked \cup ({cr3[c]} \ {NULL})
          /\ \A u \in Tasks : /\ Same("stack", u) /\ Same("page", u)
                              /\ (u # c => Same("cr3", u)) /\ (u # t => Same("dir", u))
          /\ \A n \in 0 .. LastPos :
                /\ cells[<<"cr3", c, n>>] = IF n = LastPos THEN cr3[c] ELSE NULL
                /\ cells'[<<"cr3", c, n>>] = Tree(pde, pte, Own(BAD), 0, n)
                /\ cells'[<<"dir", t, n>>] = NULL
      BY <1>1, <3>1, <3>2, ForkEnds
    <3>4. PICK y : y = <<"cr3", c, LastPos>>
      OBVIOUS
    <3>5. y \in Places /\ y # x /\ c2[y] = cr3[c]
      <4>1. y \in Places /\ y # x /\ cells[y] = cr3[c]
        BY <1>3, <3>3, <3>4, Zero DEF Places
      <4> QED BY <2>5, <4>1
    <3>6. ASSUME NEW n \in 0 .. LastPos PROVE cells'[<<"cr3", c, n>>] = NULL
      <4>1. Own(BAD) = NULL
        BY Sizes DEF Own
      <4> QED BY <3>3, <4>1 DEF Tree
    <3>7. ASSUME NEW z \in Places, z # y PROVE cells'[z] = c2[z]
      <4>1. PICK g \in Tags, u \in Tasks, n \in 0 .. LastPos : z = <<g, u, n>>
        BY PlaceIs
      <4>2. CASE g = "dir" /\ u = t
        BY <2>7, <3>3, <4>1, <4>2
      <4>3. CASE g = "cr3" /\ u = c
        <5>1. n # LastPos /\ z # x
          BY <1>3, <3>4, <3>7, <4>1, <4>3
        <5>2. cells[z] = NULL
          BY <3>3, <4>1, <4>3, <5>1
        <5> QED BY <2>5, <3>6, <4>1, <4>3, <5>1, <5>2
      <4>4. CASE ~ (g = "dir" /\ u = t) /\ ~ (g = "cr3" /\ u = c)
        <5>1. Same(g, u)
          BY <3>3, <4>4 DEF Tags
        <5>2. z # x
          BY <1>3, <4>1, <4>4
        <5> QED BY <2>5, <4>1, <5>1, <5>2 DEF Same
      <4> QED BY <4>2, <4>3, <4>4
    <3>8. cells'[y] = NULL
      BY <3>4, <3>6, Zero
    <3>9. cells' = [c2 EXCEPT ![y] = NULL]
      BY <2>6, <3>5, <3>7, <3>8
    <3>10. Sound(cells', bitmap', leaked')
      <4>1. PICK c3, bm, lk : c3 = cells' /\ bm = bitmap' /\ lk = leaked
        OBVIOUS
      <4>2. Sound(c2, bm, lk) /\ y \in Places /\ c3 = [c2 EXCEPT ![y] = NULL]
        BY <2>4, <3>5, <3>9, <4>1
      <4>3. Sound(c3, bm, lk \cup ({c2[y]} \ {NULL}))
        BY ONLY <4>2, LostPage
      <4>4. leaked' = lk \cup ({c2[y]} \ {NULL})
        BY <3>3, <3>5, <4>1
      <4> QED BY <4>1, <4>3, <4>4
    <3> QED BY <3>3, <3>10 DEF PlacesOK
  <2>9. CASE pc[t] = "destroy"
    <3>1. /\ pc' = [pc EXCEPT ![t] = "user"] /\ loc' = [loc EXCEPT ![t] = NoLoc]
          /\ slot' = slot /\ kstack' = kstack /\ cr3' = cr3 /\ heap_end' = heap_end
          /\ leaked' = leaked /\ pde' = pde /\ pte' = pte
      BY <1>1, <1>4, <2>9 DEF Return, Go, Set, taskVars
    <3>2. At(t, "destroy") /\ slot[t] = "run" /\ cr3[t] \in Pages /\ LocIs("destroy", loc[t], cr3[t])
      BY <1>1, <2>9, RunIs
    <3>3. loc[t].page = NULL /\ NoLoc.page = NULL /\ NoLoc.dir = NULL /\ NoLoc.child = NULL
      BY <3>2 DEF LocIs, NoLoc, Space
    <3>4. loc'[t] = NoLoc /\ \A u \in Tasks : u # t => loc'[u] = loc[u] /\ pc'[u] = pc[u]
      BY <3>1 DEF TasksOK
    <3>5. TasksOK' /\ ChildOK'
      <4>1. PICK r : r = NoLoc
        OBVIOUS
      <4>2. LocIs("user", r, cr3[t])
        BY <4>1 DEF LocIs, PCs, Forks, Fills, Others, NoLoc, Space
      <4>3. Steps(t, "user", r)
        BY <3>1, <3>2, <4>1, <4>2 DEF Steps
      <4>4. heap_end' \in [Tasks -> Nat] /\ r.child \notin Tasks
        BY <3>1, <3>3, <4>1, TaskAssumption DEF TasksOK
      <4> QED BY <3>1, <4>3, <4>4, OwnStep
    <3>6. RowsKept({}) /\ MemOK'
      BY <3>1, NoRows
    <3>7. EmptyOK'
      BY <3>1, <3>6, EmptyStep
    <3>8. ASSUME NEW u \in Tasks
          PROVE  Same("stack", u) /\ Same("page", u) /\ Same("cr3", u) /\ (u # t => Same("dir", u))
      <4>1. kstack'[u] = kstack[u] /\ cr3'[u] = cr3[u] /\ loc'[u].page = loc[u].page
        BY <3>1, <3>3, <3>4
      <4>2. u # t => /\ Other(loc'[u], cr3'[u]) = Other(loc[u], cr3[u])
                     /\ Start(pc'[u], loc'[u]) = Start(pc[u], loc[u])
        BY <3>1, <3>4
      <4> QED BY <3>6, <4>1, <4>2, SameStack, SamePage, SameCr3, SameDir
    <3>9. ASSUME NEW n \in 0 .. LastPos PROVE cells'[<<"dir", t, n>>] = NULL
      <4>1. Other(loc'[t], cr3'[t]) = NULL
        BY <3>3, <3>4 DEF Other
      <4>2. cells'[<<"dir", t, n>>]
              = Tree(pde', pte', Other(loc'[t], cr3'[t]), Start(pc'[t], loc'[t]), n)
        BY CellsWillBe
      <4> QED BY <4>1, <4>2 DEF Tree
    <3>10. ASSUME NEW z \in Places PROVE cells'[z] = c2[z]
      <4>1. PICK g \in Tags, u \in Tasks, n \in 0 .. LastPos : z = <<g, u, n>>
        BY PlaceIs
      <4>2. CASE g = "dir" /\ u = t
        BY <2>7, <3>9, <4>1, <4>2
      <4>3. CASE ~ (g = "dir" /\ u = t)
        <5>1. Same(g, u)
          BY <3>8, <4>3 DEF Tags
        <5>2. z # x
          BY <1>3, <4>1, <4>3
        <5> QED BY <2>5, <4>1, <5>1, <5>2 DEF Same
      <4> QED BY <4>2, <4>3
    <3>11. cells' = c2
      BY <2>6, <3>10
    <3> QED BY <2>4, <3>1, <3>5, <3>6, <3>7, <3>11 DEF PlacesOK
  <2> QED BY <1>1, <2>8, <2>9
<1> QED BY <1>2, <1>4
-----------------------------------------------------------------------------
(* sys_execve, sys_sbrk and sys_exit                                       *)

\* A step of t, which forks no task.
LEMMA LoneStep ==
    ASSUME VmOK, NEW t \in Tasks, NEW l, At(t, l), NEW m, NEW r, LocIs(m, r, cr3[t]),
           r.child = NULL, pc' = [pc EXCEPT ![t] = m], loc' = [loc EXCEPT ![t] = r],
           slot' = slot, kstack' = kstack, cr3' = cr3, heap_end' \in [Tasks -> Nat]
    PROVE  /\ TasksOK' /\ ChildOK' /\ pc'[t] = m /\ loc'[t] = r
           /\ \A u \in Tasks : u # t => loc'[u] = loc[u] /\ pc'[u] = pc[u]
<1> USE DEF VmOK, CoreOK
<1>1. slot[t] = "run" /\ cr3[t] \in Pages
  BY RunIs
<1>2. Steps(t, m, r)
  BY <1>1 DEF Steps
<1>3. r.child \notin Tasks
  BY TaskAssumption
<1>4. TasksOK' /\ ChildOK'
  BY <1>2, <1>3, OwnStep
<1>5. pc'[t] = m /\ loc'[t] = r /\ \A u \in Tasks : u # t => loc'[u] = loc[u] /\ pc'[u] = pc[u]
  BY DEF TasksOK
<1> QED BY <1>4, <1>5

\* The local variables of an execve or sys_sbrk.
LEMMA FillIs ==
    ASSUME NEW l \in Fills, NEW r, NEW c, LocIs(l, r, c)
    PROVE  /\ r.dir \in Pages /\ r.child = NULL /\ r.pos = 0 /\ r.end \in Nat
           /\ r.todo \in Seq(Seq(VPages))
           /\ r.page \in (IF l = "map" THEN Pages ELSE {NULL})
           /\ l = "map" => r.todo # <<>> /\ Head(r.todo) # <<>>
BY DEF LocIs, Fills, Forks, Others

LEMMA FillLoc ==
    ASSUME NEW l \in Fills, NEW dir \in Pages, NEW todo \in Seq(Seq(VPages)), NEW end \in Nat,
           NEW lack, NEW c,
           NEW page, l = "map" => page \in Pages /\ todo # <<>> /\ Head(todo) # <<>>,
           l = "alloc" => page = NULL,
           NEW r, r = Fill(dir, page, todo, end, lack)
    PROVE  LocIs(l, r, c) /\ r.dir = dir /\ r.page = page /\ r.child = NULL
<1>1. /\ r.dir = dir /\ r.page = page /\ r.pos = 0 /\ r.child = NULL /\ r.todo = todo
      /\ r.end = end /\ r.lack = lack
  BY DEF Fill
<1>2. r = Fill(r.dir, r.page, r.todo, r.end, r.lack)
  BY <1>1
<1>3. l \notin Forks /\ l \notin Others /\ l \in PCs /\ l # "copy_map"
  BY DEF Fills, Forks, Others, PCs
<1>4. l \in {"alloc", "map"} /\ l \notin {"undo_copy", "destroy"}
  BY DEF Fills
<1>5. r.page \in (IF l \in {"copy_map", "map"} THEN Pages ELSE {NULL})
  BY <1>1, <1>4
<1>6. r.dir \in (IF l \in Others THEN Pages \ {c} ELSE IF l \in Fills THEN Pages ELSE {NULL})
  BY <1>1, <1>3
<1>7. r.child \in (IF l \in Forks THEN Tasks ELSE {NULL}) /\ r.pos \in Nat /\ r.pos = 0
  BY <1>1, <1>3
<1>8. /\ r.todo \in Seq(Seq(VPages)) /\ r.end \in Nat
      /\ (l = "map" => r.todo # <<>> /\ Head(r.todo) # <<>>)
  BY <1>1
<1>9. LocIs(l, r, c)
  BY <1>2, <1>3, <1>4, <1>5, <1>6, <1>7, <1>8 DEF LocIs
<1> QED BY <1>1, <1>9

LEMMA MapLoc ==
    ASSUME NEW dir \in Pages, NEW page \in Pages, NEW todo \in Seq(Seq(VPages)), NEW end \in Nat,
           NEW lack, NEW c, todo # <<>>, Head(todo) # <<>>,
           NEW r, r = Fill(dir, page, todo, end, lack)
    PROVE  LocIs("map", r, c) /\ r.dir = dir /\ r.page = page /\ r.child = NULL
<1>1. PICK l : l = "map"
  OBVIOUS
<1>2. l \in Fills /\ l # "alloc"
  BY <1>1 DEF Fills
<1>3. LocIs(l, r, c) /\ r.dir = dir /\ r.page = page /\ r.child = NULL
  BY <1>2, FillLoc
<1> QED BY <1>1, <1>3

LEMMA AllocLoc ==
    ASSUME NEW r, NEW c, r = Fill(r.dir, r.page, r.todo, r.end, r.lack), r.pos = 0,
           r.child = NULL, r.page = NULL, r.dir \in Pages, r.end \in Nat,
           r.todo \in Seq(Seq(VPages))
    PROVE  LocIs("alloc", r, c)
BY DEF LocIs, PCs, Forks, Fills, Others

LEMMA SpaceLoc ==
    ASSUME NEW c, NEW dir \in Pages, dir # c, NEW r, r = Space(dir, NULL, 0, NULL)
    PROVE  LocIs("destroy", r, c) /\ r.dir = dir /\ r.page = NULL /\ r.pos = 0 /\ r.child = NULL
<1>1. LastPos >= 0
  BY Sizes
<1> QED BY <1>1 DEF LocIs, PCs, Forks, Fills, Others, Space

LEMMA NoLocIs ==
    ASSUME NEW c, NEW r, r = NoLoc
    PROVE  LocIs("user", r, c) /\ r.dir = NULL /\ r.page = NULL /\ r.child = NULL
BY DEF LocIs, PCs, Forks, Fills, Others, NoLoc, Space

LEMMA ExecDirOK ==
    ASSUME VmOK, NEW t \in Tasks, NEW q \in Programs, ExecDir(t, q)
    PROVE  CoreOK'
<1> USE DEF VmOK, CoreOK
<1>1. PICK p : p = addr_alloc_page
  OBVIOUS
<1>2. PICK r : r = Fill(p, NULL, Segments(q), 0, FALSE)
  OBVIOUS
<1>3. /\ At(t, "user") /\ memory_create_uvm(p) /\ pc' = [pc EXCEPT ![t] = "alloc"]
      /\ loc' = [loc EXCEPT ![t] = r] /\ leaked' = leaked
      /\ slot' = slot /\ kstack' = kstack /\ cr3' = cr3 /\ heap_end' = heap_end
  BY <1>1, <1>2 DEF ExecDir, Go, Set, taskVars
<1>4. p \in Pages /\ p \notin bitmap
  BY <1>1, Marked, FreshPage DEF ExecDir
<1>5. cr3[t] \in Pages /\ LocIs("user", loc[t], cr3[t])
  BY <1>3, RunIs
<1>6. loc[t].dir = NULL /\ loc[t].page = NULL
  BY <1>5 DEF LocIs, Others, Fills
<1>7. cr3[t] # p
  BY <1>4, <1>5, Cr3Marked
<1>8. LocIs("alloc", r, cr3[t]) /\ r.dir = p /\ r.page = NULL /\ r.child = NULL
  <2>1. "alloc" \in Fills /\ Segments(q) \in Seq(Seq(VPages)) /\ 0 \in Nat
    BY SpaceAssumption DEF Fills
  <2>2. /\ r.dir = p /\ r.page = NULL /\ r.pos = 0 /\ r.child = NULL /\ r.todo = Segments(q)
        /\ r.end = 0 /\ r.lack = FALSE
    BY <1>2 DEF Fill
  <2>3. /\ r = Fill(r.dir, r.page, r.todo, r.end, r.lack)
        /\ r.dir \in Pages /\ r.end \in Nat /\ r.todo \in Seq(Seq(VPages))
    BY <1>2, <1>4, <2>1, <2>2
  <2>4. LocIs("alloc", r, cr3[t])
    BY <2>2, <2>3, AllocLoc
  <2> QED BY <2>2, <2>4
<1>9. heap_end' \in [Tasks -> Nat]
  BY <1>3 DEF TasksOK
<1>10. /\ TasksOK' /\ ChildOK' /\ pc'[t] = "alloc" /\ loc'[t] = r
       /\ \A u \in Tasks : u # t => loc'[u] = loc[u] /\ pc'[u] = pc[u]
  BY <1>3, <1>8, <1>9, LoneStep
<1>11. RowsKept({}) /\ MemOK'
  BY <1>3, <1>4, Marked, NewUvm
<1>12. EmptyOK'
  BY <1>3, <1>11, EmptyStep
<1>13. Other(loc[t], cr3[t]) = NULL /\ Other(loc'[t], cr3'[t]) = p /\ Start(pc'[t], loc'[t]) = 0
  BY <1>3, <1>6, <1>7, <1>8, <1>10 DEF Other, Start
<1>14. PlacesOK'
  BY <1>3, <1>4, <1>6, <1>8, <1>10, <1>13, TakesDir
<1> QED BY <1>10, <1>11, <1>12, <1>14

\* An execve that gives up: its directory is taken apart.
LEMMA ExecFails ==
    ASSUME VmOK, NEW t \in Tasks, At(t, "alloc"), loc[t].dir # cr3[t],
           Destroy(t, "destroy", loc[t].dir), UNCHANGED <<memVars, taskVars, leaked>>
    PROVE  CoreOK'
<1> USE DEF VmOK, CoreOK
<1>1. /\ slot' = slot /\ kstack' = kstack /\ cr3' = cr3 /\ heap_end' = heap_end
      /\ bitmap' = bitmap /\ pde' = pde /\ pte' = pte /\ leaked' = leaked
  BY DEF memVars, taskVars
<1>2. pc[t] = "alloc" /\ cr3[t] \in Pages /\ LocIs("alloc", loc[t], cr3[t])
  BY RunIs
<1>3. loc[t].dir \in Pages /\ loc[t].child = NULL /\ loc[t].page = NULL
  <2>1. "alloc" \in Fills
    BY DEF Fills
  <2> QED BY <1>2, <2>1, FillIs
<1>4. PICK r : r = Space(loc[t].dir, NULL, 0, NULL)
  OBVIOUS
<1>5. /\ LocIs("destroy", r, cr3[t]) /\ r.dir = loc[t].dir /\ r.page = NULL /\ r.pos = 0
      /\ r.child = NULL
  BY <1>3, <1>4, SpaceLoc
<1>6. pc' = [pc EXCEPT ![t] = "destroy"] /\ loc' = [loc EXCEPT ![t] = r]
  BY <1>3, <1>4 DEF Destroy, Go, Set
<1>7. heap_end' \in [Tasks -> Nat]
  BY <1>1 DEF TasksOK
<1>8. /\ TasksOK' /\ ChildOK' /\ pc'[t] = "destroy" /\ loc'[t] = r
      /\ \A u \in Tasks : u # t => loc'[u] = loc[u] /\ pc'[u] = pc[u]
  BY <1>1, <1>5, <1>6, <1>7, LoneStep
<1>9. RowsKept({}) /\ MemOK'
  BY <1>1, NoRows
<1>10. EmptyOK'
  BY <1>1, <1>9, EmptyStep
<1>11. Stays(t)
  BY <1>1, <1>2, <1>5, <1>8 DEF Stays, Other, Start
<1>12. PlacesOK'
  BY <1>1, <1>3, <1>5, <1>8, <1>9, <1>11, QuietPlaces
<1> QED BY <1>8, <1>9, <1>10, <1>12

LEMMA ExecNoFileOK ==
    ASSUME VmOK, NEW t \in Tasks, ExecNoFile(t)
    PROVE  CoreOK'
<1>1. /\ At(t, "alloc") /\ loc[t].dir # cr3[t] /\ Destroy(t, "destroy", loc[t].dir)
      /\ UNCHANGED <<memVars, taskVars, leaked>>
  BY DEF ExecNoFile
<1> QED BY <1>1, ExecFails

LEMMA ExecArgsOK ==
    ASSUME VmOK, NEW t \in Tasks, ExecArgs(t)
    PROVE  CoreOK'
<1> USE DEF VmOK, CoreOK
<1>1. /\ At(t, "alloc") /\ loc[t].dir # cr3[t] /\ slot' = slot /\ kstack' = kstack
      /\ heap_end' = heap_end /\ leaked' = leaked
      /\ bitmap' = bitmap /\ pde' = pde /\ pte' = pte
  BY DEF ExecArgs, memVars
<1>2. CASE find_pte(loc[t].dir, ARGS) = NULL
  <2>1. Destroy(t, "destroy", loc[t].dir) /\ UNCHANGED <<memVars, taskVars, leaked>>
    BY <1>1, <1>2 DEF ExecArgs, memVars, taskVars, progVars
  <2> QED BY <1>1, <2>1, ExecFails
<1>3. CASE find_pte(loc[t].dir, ARGS) # NULL
  <2>1. PICK d : d = loc[t].dir
    OBVIOUS
  <2>2. PICK e : e = cr3[t]
    OBVIOUS
  <2>3. slot[t] = "run" /\ pc[t] = "alloc" /\ e \in Pages /\ LocIs("alloc", loc[t], e)
        /\ SlotIs("alloc", slot[t], kstack[t], e)
    BY <1>1, <2>2, RunIs
  <2>4. d \in Pages /\ loc[t].child = NULL /\ loc[t].page = NULL /\ d # e
    <3>1. "alloc" \in Fills
      BY DEF Fills
    <3> QED BY <1>1, <2>1, <2>2, <2>3, <3>1, FillIs
  <2>5. PICK r : r = Space(e, NULL, 0, NULL)
    OBVIOUS
  <2>6. LocIs("destroy", r, d) /\ r.dir = e /\ r.page = NULL /\ r.pos = 0 /\ r.child = NULL
    BY <2>3, <2>4, <2>5, SpaceLoc
  <2>7. /\ cr3' = [cr3 EXCEPT ![t] = d] /\ pc' = [pc EXCEPT ![t] = "destroy"]
        /\ loc' = [loc EXCEPT ![t] = r]
    BY <1>3, <2>1, <2>2, <2>4, <2>5 DEF ExecArgs, Destroy, Go, Set
  <2>8. /\ cr3'[t] = d /\ pc'[t] = "destroy" /\ loc'[t] = r
        /\ \A u \in Tasks : u # t => cr3'[u] = cr3[u] /\ pc'[u] = pc[u] /\ loc'[u] = loc[u]
    BY <2>7 DEF TasksOK
  <2>9. TasksOK'
    <3>1. /\ pc' = [u \in Tasks |-> pc'[u]] /\ loc' = [u \in Tasks |-> loc'[u]]
          /\ slot' = [u \in Tasks |-> slot'[u]] /\ kstack' = [u \in Tasks |-> kstack'[u]]
          /\ cr3' = [u \in Tasks |-> cr3'[u]] /\ heap_end' \in [Tasks -> Nat]
      BY <1>1, <2>7 DEF TasksOK
    <3>2. SlotIs("destroy", slot[t], kstack[t], d)
      BY <2>3, <2>4, Sizes DEF SlotIs
    <3>3. ASSUME NEW u \in Tasks
          PROVE  /\ LocIs(pc'[u], loc'[u], cr3'[u])
                 /\ SlotIs(pc'[u], slot'[u], kstack'[u], cr3'[u])
      <4>1. CASE u = t
        BY <1>1, <2>6, <2>8, <3>2, <4>1
      <4>2. CASE u # t
        BY <1>1, <2>8, <4>2 DEF TasksOK
      <4> QED BY <4>1, <4>2
    <3> QED BY <3>1, <3>3 DEF TasksOK
  <2>10. ChildOK'
    <3>1. ASSUME NEW u \in Tasks, NEW c \in Tasks, loc'[u].child = c
          PROVE  /\ loc[u].child = c /\ ChildIs(pc'[u], slot'[c], kstack'[c], cr3'[c])
      <4>1. u # t
        BY <2>6, <2>8, <3>1, TaskAssumption
      <4>2. loc[u].child = c /\ ChildIs(pc[u], slot[c], kstack[c], cr3[c])
        BY <2>8, <3>1, <4>1 DEF ChildOK
      <4>3. c # t
        BY <2>3, <4>2 DEF ChildIs
      <4> QED BY <1>1, <2>8, <4>1, <4>2, <4>3
    <3>2. ASSUME NEW u \in Tasks, NEW w \in Tasks, NEW c \in Tasks,
                 loc'[u].child = c, loc'[w].child = c
          PROVE  u = w
      BY <3>1, <3>2 DEF ChildOK
    <3> QED BY <3>1, <3>2 DEF ChildOK
  <2>11. RowsKept({}) /\ MemOK'
    BY <1>1, NoRows
  <2>12. EmptyOK'
    <3>1. ASSUME NEW u \in Tasks, slot'[u] = "init", cr3'[u] \in Pages
          PROVE  pde'[cr3'[u]] = NoTable
      <4>1. u # t
        BY <1>1, <2>3, <3>1
      <4> QED BY <1>1, <2>8, <3>1, <4>1 DEF EmptyOK
    <3> QED BY <3>1 DEF EmptyOK, NoTable
  <2>13. ASSUME NEW u \in Tasks
         PROVE  /\ Same("stack", u) /\ Same("page", u)
                /\ (u # t => Same("cr3", u) /\ Same("dir", u))
    <3>1. kstack'[u] = kstack[u] /\ loc'[u].page = loc[u].page
      BY <1>1, <2>4, <2>6, <2>8
    <3>2. u # t => /\ cr3'[u] = cr3[u] /\ Other(loc'[u], cr3'[u]) = Other(loc[u], cr3[u])
                   /\ Start(pc'[u], loc'[u]) = Start(pc[u], loc[u])
      BY <2>8
    <3> QED BY <2>11, <3>1, <3>2, SameStack, SamePage, SameCr3, SameDir
  <2>14. ASSUME NEW k \in 0 .. LastPos
         PROVE  /\ cells'[<<"dir", t, k>>] = cells[<<"cr3", t, k>>]
                /\ cells'[<<"cr3", t, k>>] = cells[<<"dir", t, k>>]
    <3>1. /\ Own(cr3[t]) = e /\ Own(cr3'[t]) = d
          /\ Other(loc[t], cr3[t]) = d /\ Other(loc'[t], cr3'[t]) = e
          /\ Start(pc[t], loc[t]) = 0 /\ Start(pc'[t], loc'[t]) = 0
      BY <2>1, <2>2, <2>3, <2>4, <2>6, <2>8 DEF Own, Other, Start
    <3>2. /\ cells[<<"cr3", t, k>>] = Tree(pde, pte, Own(cr3[t]), 0, k)
          /\ cells[<<"dir", t, k>>]
               = Tree(pde, pte, Other(loc[t], cr3[t]), Start(pc[t], loc[t]), k)
      BY CellsAre
    <3>3. /\ cells'[<<"cr3", t, k>>] = Tree(pde', pte', Own(cr3'[t]), 0, k)
          /\ cells'[<<"dir", t, k>>]
               = Tree(pde', pte', Other(loc'[t], cr3'[t]), Start(pc'[t], loc'[t]), k)
      BY CellsWillBe
    <3> QED BY <1>1, <3>1, <3>2, <3>3
  <2>15. ASSUME NEW z \in Places, ~ (z[1] = "dir" /\ z[2] = t), ~ (z[1] = "cr3" /\ z[2] = t)
         PROVE  cells'[z] = cells[z]
    <3>1. PICK g \in Tags, u \in Tasks, k \in 0 .. LastPos : z = <<g, u, k>>
      BY PlaceIs
    <3>2. Same(g, u)
      BY <2>13, <2>15, <3>1 DEF Tags
    <3> QED BY <3>1, <3>2 DEF Same
  <2>16. "dir" \in Tags /\ "cr3" \in Tags
    BY DEF Tags
  <2>17. Sound(cells', bitmap, leaked)
    <3>1. Sound(cells, bitmap, leaked)
      BY DEF PlacesOK
    <3> QED BY <3>1, <2>14, <2>15, <2>16, SwapTrees
  <2> QED BY <1>1, <2>9, <2>10, <2>11, <2>12, <2>17 DEF PlacesOK
<1> QED BY <1>2, <1>3
LEMMA SeqFacts ==
    ASSUME NEW S, NEW s \in Seq(S), s # <<>>
    PROVE  Head(s) \in S /\ Tail(s) \in Seq(S) /\ \A x \in S : <<x>> \o Tail(s) \in Seq(S)
OBVIOUS

LEMMA AllocPageOK ==
    ASSUME VmOK, NEW t \in Tasks, AllocPage(t)
    PROVE  CoreOK'
<1> USE DEF VmOK, CoreOK
<1>1. PICK p : p = addr_alloc_page
  OBVIOUS
<1>2. PICK segs : segs = loc[t].todo
  OBVIOUS
<1>3. /\ At(t, "alloc") /\ segs # <<>> /\ pde' = pde /\ pte' = pte /\ slot' = slot
      /\ kstack' = kstack /\ cr3' = cr3 /\ leaked' = leaked
  BY <1>2 DEF AllocPage
<1>4. pc[t] = "alloc" /\ cr3[t] \in Pages /\ LocIs("alloc", loc[t], cr3[t])
  BY <1>3, RunIs
<1>5. "alloc" \in Fills /\ "map" \in Fills
  BY DEF Fills
<1>6. /\ loc[t].dir \in Pages /\ loc[t].child = NULL /\ loc[t].page = NULL /\ loc[t].end \in Nat
      /\ segs \in Seq(Seq(VPages))
  BY <1>2, <1>4, <1>5, FillIs
<1>7. RowsKept({}) /\ MemOK'
  BY <1>3, NoRows
<1>8. EmptyOK'
  BY <1>3, <1>7, EmptyStep
<1>9. PICK dir, end, c : dir = loc[t].dir /\ end = loc[t].end /\ c = cr3[t]
  OBVIOUS
<1>a. dir \in Pages /\ end \in Nat
  BY <1>6, <1>9
<1>b. segs \in Seq(Seq(VPages)) /\ segs # <<>>
  BY <1>3, <1>6
<1>10. CASE Head(segs) # <<>> /\ p # NULL
  <2>0. p \in Pages /\ p \notin bitmap
    BY <1>1, <1>10, Marked, FreshPage
  <2>1. PICK lack : lack = loc[t].lack
    OBVIOUS
  <2>2. PICK r : r = Fill(dir, p, segs, end, lack)
    OBVIOUS
  <2>3. /\ bitmap' = bitmap \cup {p} /\ loc' = [loc EXCEPT ![t] = r]
        /\ pc' = [pc EXCEPT ![t] = "map"] /\ heap_end' = heap_end
    BY <1>1, <1>2, <1>9, <1>10, <2>1, <2>2 DEF AllocPage, Set, Go
  <2>4. LocIs("map", r, cr3[t]) /\ r.dir = dir /\ r.page = p /\ r.child = NULL
    <3>0. r = Fill(dir, p, segs, end, lack)
      BY <2>2
    <3>1. p \in Pages /\ Head(segs) # <<>>
      BY <1>10, <2>0
    <3>2. LocIs("map", r, c) /\ r.dir = dir /\ r.page = p /\ r.child = NULL
      BY <1>a, <1>b, <3>0, <3>1, MapLoc
    <3> QED BY <1>9, <3>2
  <2>5. heap_end' \in [Tasks -> Nat]
    BY <2>3 DEF TasksOK
  <2>6. /\ TasksOK' /\ ChildOK' /\ pc'[t] = "map" /\ loc'[t] = r
        /\ \A u \in Tasks : u # t => loc'[u] = loc[u] /\ pc'[u] = pc[u]
    BY <1>3, <2>3, <2>4, <2>5, LoneStep
  <2>7. Stays(t)
    BY <1>3, <1>4, <1>9, <2>4, <2>6 DEF Stays, Other, Start
  <2>8. PlacesOK'
    BY <1>3, <1>6, <1>7, <2>0, <2>3, <2>4, <2>6, <2>7, TakesPage
  <2> QED BY <1>7, <1>8, <2>6, <2>8
<1>11. CASE ~ (Head(segs) # <<>> /\ p # NULL)
  <2>1. PICK lack : lack = (loc[t].lack \/ Head(segs) # <<>>)
    OBVIOUS
  <2>2. PICK r, none, rest : none = NULL /\ rest = Tail(segs) /\ r = Fill(dir, none, rest, end, lack)
    OBVIOUS
  <2>3. /\ bitmap' = bitmap /\ loc' = [loc EXCEPT ![t] = r] /\ pc' = pc
        /\ heap_end' \in {heap_end, [heap_end EXCEPT ![t] = HeapStart(loads[t])]}
    BY <1>1, <1>2, <1>9, <1>11, <2>1, <2>2 DEF AllocPage, Set
  <2>a. rest \in Seq(Seq(VPages))
    BY <1>b, <2>2, SeqFacts
  <2>4. LocIs("alloc", r, cr3[t]) /\ r.dir = dir /\ r.page = none /\ r.child = NULL
    <3>1. r = Fill(dir, none, rest, end, lack) /\ none = NULL
      BY <2>2
    <3>2. LocIs("alloc", r, c) /\ r.dir = dir /\ r.page = none /\ r.child = NULL
      BY ONLY <1>5, <1>a, <2>a, <3>1, FillLoc
    <3> QED BY <1>9, <3>2
  <2>5. heap_end' \in [Tasks -> Nat]
    BY <2>3, HeapStartIs DEF TasksOK
  <2>b. pc' = [pc EXCEPT ![t] = "alloc"]
    BY <1>4, <2>3 DEF TasksOK
  <2>6. /\ TasksOK' /\ ChildOK' /\ pc'[t] = "alloc" /\ loc'[t] = r
        /\ \A u \in Tasks : u # t => loc'[u] = loc[u] /\ pc'[u] = pc[u]
    BY <1>3, <2>3, <2>4, <2>5, <2>b, LoneStep
  <2>7. Stays(t)
    BY <1>3, <1>4, <1>9, <2>4, <2>6 DEF Stays, Other, Start
  <2>8. PlacesOK'
    BY <1>3, <1>6, <1>7, <2>2, <2>3, <2>4, <2>6, <2>7, QuietPlaces
  <2> QED BY <1>7, <1>8, <2>6, <2>8
<1> QED BY <1>10, <1>11

LEMMA MapPageOK ==
    ASSUME VmOK, NEW t \in Tasks, MapPage(t)
    PROVE  CoreOK'
<1> USE DEF VmOK, CoreOK
<1>1. PICK d, p, segs, end, lack : /\ d = loc[t].dir /\ p = loc[t].page /\ segs = loc[t].todo
                                   /\ end = loc[t].end /\ lack = loc[t].lack
  OBVIOUS
<1>a. PICK c : c = cr3[t]
  OBVIOUS
<1>2. PICK v : v = Head(Head(segs))
  OBVIOUS
<1>3. /\ At(t, "map") /\ slot' = slot /\ kstack' = kstack /\ cr3' = cr3 /\ heap_end' = heap_end
  BY DEF MapPage, taskVars
<1>4. slot[t] = "run" /\ pc[t] = "map" /\ cr3[t] \in Pages /\ LocIs("map", loc[t], cr3[t])
  BY <1>3, RunIs
<1>5. "alloc" \in Fills /\ "map" \in Fills
  BY DEF Fills
<1>6. /\ d \in Pages /\ loc[t].child = NULL /\ p \in Pages /\ end \in Nat
      /\ segs \in Seq(Seq(VPages)) /\ segs # <<>> /\ Head(segs) # <<>>
  BY <1>1, <1>4, <1>5, FillIs
<1>7. PICK first : first = Head(segs)
  OBVIOUS
<1>8. /\ first \in Seq(VPages) /\ Tail(segs) \in Seq(Seq(VPages))
      /\ \A x \in Seq(VPages) : <<x>> \o Tail(segs) \in Seq(Seq(VPages))
  BY <1>6, <1>7, SeqFacts
<1>9. v \in VPages /\ Tail(first) \in Seq(VPages)
  BY <1>2, <1>6, <1>7, <1>8, SeqFacts
<1>10. PICK todo : todo = <<Tail(first)>> \o Tail(segs)
  OBVIOUS
<1>11. todo \in Seq(Seq(VPages))
  BY <1>8, <1>9, <1>10
<1>12. heap_end' \in [Tasks -> Nat]
  BY <1>3 DEF TasksOK
<1>13. CASE CanMap(d, v)
  <2>1. PICK r, none : none = NULL /\ r = Fill(d, none, todo, end, lack)
    OBVIOUS
  <2>2. /\ memory_create_map(d, v, p) /\ loc' = [loc EXCEPT ![t] = r]
        /\ pc' = [pc EXCEPT ![t] = "alloc"]
    BY <1>1, <1>2, <1>7, <1>10, <1>13, <2>1 DEF MapPage, Set, Go
  <2>3. LocIs("alloc", r, cr3[t]) /\ r.dir = d /\ r.page = none /\ r.child = NULL
    <3>0. r = Fill(d, none, todo, end, lack) /\ none = NULL
      BY <2>1
    <3>1. d \in Pages /\ end \in Nat
      BY <1>6
    <3>2. LocIs("alloc", r, c) /\ r.dir = d /\ r.page = none /\ r.child = NULL
      <4>1. /\ r.dir = d /\ r.page = none /\ r.pos = 0 /\ r.child = NULL /\ r.todo = todo
            /\ r.end = end /\ r.lack = lack
        BY <3>0 DEF Fill
      <4>2. /\ r = Fill(r.dir, r.page, r.todo, r.end, r.lack) /\ r.page = NULL
            /\ r.dir \in Pages /\ r.end \in Nat /\ r.todo \in Seq(Seq(VPages))
        BY <1>11, <3>0, <3>1, <4>1
      <4> QED BY <4>1, <4>2, AllocLoc
    <3> QED BY <1>a, <3>2
  <2>4. /\ TasksOK' /\ ChildOK' /\ pc'[t] = "alloc" /\ loc'[t] = r
        /\ \A u \in Tasks : u # t => loc'[u] = loc[u] /\ pc'[u] = pc[u]
    BY <1>3, <1>12, <2>2, <2>3, LoneStep
  <2>5. Stays(t)
    BY <1>1, <1>3, <1>4, <2>3, <2>4 DEF Stays, Other, Start
  <2>6. loc'[t].page = NULL
    BY <2>1, <2>3, <2>4
  <2>7. PICK tag : tag = IF d = cr3[t] THEN "cr3" ELSE "dir"
    OBVIOUS
  <2>8. Rooted(tag, t, d)
    BY <1>1, <1>4, <2>7 DEF Rooted, Other, Start
  <2>9. Rooted(tag, t, d)'
    BY <1>3, <2>3, <2>4, <2>7 DEF Rooted, Other, Start
  <2>10. MemOK' /\ EmptyOK' /\ PlacesOK'
    BY <1>1, <1>3, <1>4, <1>6, <1>9, <1>13, <2>2, <2>5, <2>6, <2>8, <2>9, MapOK
  <2> QED BY <2>4, <2>10
<1>14. CASE ~ CanMap(d, v)
  <2>1. leaked' = leaked \cup {p} /\ bitmap' = bitmap /\ pde' = pde /\ pte' = pte
    BY <1>1, <1>2, <1>14 DEF MapPage, memVars
  <2>2. RowsKept({}) /\ MemOK'
    BY <2>1, NoRows
  <2>3. EmptyOK'
    BY <1>3, <2>2, EmptyStep
  <2>4. CASE d = cr3[t]
    <3>1. PICK r : r = NoLoc
      OBVIOUS
    <3>2. pc' = [pc EXCEPT ![t] = "user"] /\ loc' = [loc EXCEPT ![t] = r]
      BY <1>1, <1>2, <1>14, <2>4, <3>1 DEF MapPage, Return, Go, Set
    <3>3. LocIs("user", r, cr3[t]) /\ r.dir = NULL /\ r.page = NULL /\ r.child = NULL
      BY <3>1, NoLocIs
    <3>4. /\ TasksOK' /\ ChildOK' /\ pc'[t] = "user" /\ loc'[t] = r
          /\ \A u \in Tasks : u # t => loc'[u] = loc[u] /\ pc'[u] = pc[u]
      BY <1>3, <1>12, <3>2, <3>3, LoneStep
    <3>5. Stays(t)
      BY <1>1, <1>3, <1>4, <2>4, <3>3, <3>4 DEF Stays, Other, Start
    <3>6. PlacesOK'
      BY <1>1, <1>6, <2>1, <2>2, <3>3, <3>4, <3>5, LosesPage
    <3> QED BY <2>2, <2>3, <3>4, <3>6
  <2>5. CASE d # cr3[t]
    <3>1. PICK r : r = Space(d, NULL, 0, NULL)
      OBVIOUS
    <3>2. pc' = [pc EXCEPT ![t] = "destroy"] /\ loc' = [loc EXCEPT ![t] = r]
      BY <1>1, <1>2, <1>6, <1>14, <2>5, <3>1 DEF MapPage, Destroy, Go, Set
    <3>3. /\ LocIs("destroy", r, cr3[t]) /\ r.dir = d /\ r.page = NULL /\ r.pos = 0
          /\ r.child = NULL
      <4>1. d \in Pages /\ d # c
        BY <1>6, <1>a, <2>5
      <4>2. /\ LocIs("destroy", r, c) /\ r.dir = d /\ r.page = NULL /\ r.pos = 0
            /\ r.child = NULL
        BY ONLY <3>1, <4>1, SpaceLoc
      <4> QED BY <1>a, <4>2
    <3>4. /\ TasksOK' /\ ChildOK' /\ pc'[t] = "destroy" /\ loc'[t] = r
          /\ \A u \in Tasks : u # t => loc'[u] = loc[u] /\ pc'[u] = pc[u]
      BY <1>3, <1>12, <3>2, <3>3, LoneStep
    <3>5. Stays(t)
      BY <1>1, <1>3, <1>4, <3>3, <3>4 DEF Stays, Other, Start
    <3>6. PlacesOK'
      BY <1>1, <1>6, <2>1, <2>2, <3>3, <3>4, <3>5, LosesPage
    <3> QED BY <2>2, <2>3, <3>4, <3>6
  <2> QED BY <2>4, <2>5
<1> QED BY <1>13, <1>14

LEMMA SbrkDoneOK ==
    ASSUME VmOK, NEW t \in Tasks, SbrkDone(t)
    PROVE  CoreOK'
<1> USE DEF VmOK, CoreOK
<1>1. PICK r : r = NoLoc
  OBVIOUS
<1>2. /\ At(t, "alloc") /\ loc[t].dir = cr3[t] /\ slot' = slot /\ kstack' = kstack /\ cr3' = cr3
      /\ heap_end' = [heap_end EXCEPT ![t] = loc[t].end]
      /\ bitmap' = bitmap /\ pde' = pde /\ pte' = pte /\ leaked' = leaked
      /\ pc' = [pc EXCEPT ![t] = "user"] /\ loc' = [loc EXCEPT ![t] = r]
  BY <1>1 DEF SbrkDone, Return, Go, Set, memVars
<1>3. pc[t] = "alloc" /\ LocIs("alloc", loc[t], cr3[t]) /\ "alloc" \in Fills
  BY <1>2, RunIs DEF Fills
<1>4. loc[t].page = NULL /\ loc[t].end \in Nat
  BY <1>3, FillIs
<1>5. heap_end' \in [Tasks -> Nat]
  BY <1>2, <1>4 DEF TasksOK
<1>6. LocIs("user", r, cr3[t]) /\ r.dir = NULL /\ r.page = NULL /\ r.child = NULL
  BY <1>1, NoLocIs
<1>7. /\ TasksOK' /\ ChildOK' /\ pc'[t] = "user" /\ loc'[t] = r
      /\ \A u \in Tasks : u # t => loc'[u] = loc[u] /\ pc'[u] = pc[u]
  BY <1>2, <1>5, <1>6, LoneStep
<1>8. Stays(t)
  BY <1>2, <1>3, <1>6, <1>7 DEF Stays, Other, Start
<1>9. RowsKept({}) /\ MemOK'
  BY <1>2, NoRows
<1>10. EmptyOK'
  BY <1>2, <1>9, EmptyStep
<1>11. PlacesOK'
  BY <1>2, <1>4, <1>6, <1>7, <1>8, <1>9, QuietPlaces
<1> QED BY <1>7, <1>9, <1>10, <1>11

LEMMA ExitOK ==
    ASSUME VmOK, NEW t \in Tasks, sys_exit(t)
    PROVE  CoreOK'
<1> USE DEF VmOK, CoreOK
<1>1. /\ At(t, "user") /\ slot' = [slot EXCEPT ![t] = "zombie"] /\ kstack' = kstack /\ cr3' = cr3
      /\ heap_end' = heap_end /\ pc' = pc /\ loc' = loc /\ leaked' = leaked
      /\ bitmap' = bitmap /\ pde' = pde /\ pte' = pte
  BY DEF sys_exit, memVars
<1>2. slot[t] = "run" /\ pc[t] = "user" /\ cr3[t] \in Pages /\ SlotIs("user", slot[t], kstack[t], cr3[t])
  BY <1>1, RunIs
<1>3. slot'[t] = "zombie" /\ \A u \in Tasks : u # t => slot'[u] = slot[u]
  BY <1>1 DEF TasksOK
<1>4. TasksOK'
  <2>1. SlotIs("user", "zombie", kstack[t], cr3[t])
    BY <1>2, Sizes DEF SlotIs
  <2>2. ASSUME NEW u \in Tasks
        PROVE  /\ LocIs(pc'[u], loc'[u], cr3'[u])
               /\ SlotIs(pc'[u], slot'[u], kstack'[u], cr3'[u])
    BY <1>1, <1>2, <1>3, <2>1 DEF TasksOK
  <2>3. /\ pc' = [u \in Tasks |-> pc'[u]] /\ loc' = [u \in Tasks |-> loc'[u]]
        /\ slot' = [u \in Tasks |-> slot'[u]] /\ kstack' = [u \in Tasks |-> kstack'[u]]
        /\ cr3' = [u \in Tasks |-> cr3'[u]] /\ heap_end' \in [Tasks -> Nat]
    BY <1>1 DEF TasksOK
  <2> QED BY <2>2, <2>3 DEF TasksOK
<1>5. ChildOK'
  <2>1. ASSUME NEW u \in Tasks, NEW c \in Tasks, loc'[u].child = c
        PROVE  ChildIs(pc'[u], slot'[c], kstack'[c], cr3'[c])
    <3>1. ChildIs(pc[u], slot[c], kstack[c], cr3[c])
      BY <1>1, <2>1 DEF ChildOK
    <3>2. c # t
      BY <1>2, <3>1 DEF ChildIs
    <3> QED BY <1>1, <1>3, <3>1, <3>2
  <2> QED BY <1>1, <2>1 DEF ChildOK
<1>6. EmptyOK'
  <2>1. ASSUME NEW u \in Tasks, slot'[u] = "init", cr3'[u] \in Pages
        PROVE  pde'[cr3'[u]] = NoTable
    BY <1>1, <1>3, <2>1 DEF EmptyOK
  <2> QED BY <2>1 DEF EmptyOK, NoTable
<1>7. RowsKept({}) /\ MemOK'
  BY <1>1, NoRows
<1>8. Stays(t) /\ loc'[t].page = loc[t].page
  BY <1>1 DEF Stays
<1>9. PlacesOK'
  BY <1>1, <1>7, <1>8, QuietPlaces
<1> QED BY <1>4, <1>5, <1>6, <1>7, <1>9
-----------------------------------------------------------------------------
(* The heap                                                                *)

LEMMA PlusMultiple ==
    ASSUME NEW n \in Nat, n > 0, NEW x \in Nat, NEW q \in Nat
    PROVE  (x + q * n) \div n = x \div n + q
<1> DEFINE d == x \div n
           r == x % n
<1>1. d \in Nat /\ r \in 0 .. n - 1 /\ x = d * n + r
  BY Quotient
<1> HIDE DEF d, r
<1>2. x + q * n = (d + q) * n + r /\ d + q \in Nat
  BY <1>1
<1>3. ((d + q) * n + r) \div n = d + q
  BY <1>1, <1>2, Divides
<1> QED BY <1>2, <1>3 DEF d

\* From is the first border of a page at or after h.
LEMMA FromBorder ==
    ASSUME NEW h \in Nat
    PROVE  /\ SbrkFrom(h) \in Nat /\ SbrkFrom(h) >= h
           /\ \E q \in Nat : SbrkFrom(h) = q * PAGE_SIZE
<1> DEFINE d == h \div PAGE_SIZE
           r == h % PAGE_SIZE
<1>1. d \in Nat /\ r \in 0 .. PAGE_SIZE - 1 /\ h = d * PAGE_SIZE + r
  BY Sizes, Quotient
<1>2. SbrkFrom(h) = IF r = 0 THEN h ELSE h + PAGE_SIZE - r
  BY DEF SbrkFrom
<1> HIDE DEF d, r
<1>3. CASE r = 0
  BY <1>1, <1>2, <1>3, Sizes
<1>4. CASE r # 0
  <2>1. SbrkFrom(h) = (d + 1) * PAGE_SIZE /\ d + 1 \in Nat
    BY <1>1, <1>2, <1>4, Sizes
  <2>2. SbrkFrom(h) \in Nat /\ SbrkFrom(h) >= h
    BY <1>1, <1>2, <1>4, Sizes
  <2> QED BY <2>1, <2>2
<1> QED BY <1>3, <1>4

\* The pages of a sys_sbrk whose last page is one of user space are all in user space.
LEMMA SbrkFits ==
    ASSUME NEW h \in Nat, NEW n \in Int,
           h + n + PAGE_SIZE - 1 >= SbrkFrom(h),
           (h + n + PAGE_SIZE - 1) \div PAGE_SIZE - 1 \in VPages
    PROVE  SbrkPages(h, n) \in Seq(VPages)
<1> DEFINE P == PAGE_SIZE
           m == h + n - SbrkFrom(h) + P - 1
           count == m \div P
           last == (h + n + P - 1) \div P - 1
<1>1. P \in Nat /\ P > 0
  BY Sizes
<1>2. PICK q \in Nat : SbrkFrom(h) = q * P
  BY FromBorder
<1>3. m \in Nat
  BY <1>1, FromBorder
<1>4. q * P \in Nat /\ h + n + P - 1 = m + q * P
  BY <1>1, <1>2
<1>5. (m + q * P) \div P = count + q
  BY <1>1, <1>3, PlusMultiple
<1>6. last = q + count - 1 /\ count \in Nat
  BY <1>1, <1>3, <1>4, <1>5, Quotient
<1>7. SbrkFrom(h) \div P = q
  <2>1. (q * P + 0) \div P = q
    BY <1>1, Divides
  <2> QED BY <1>2, <1>4, <2>1
<1>8. SbrkPages(h, n) = [i \in 1 .. count |-> q + i - 1]
  BY <1>1, <1>7 DEF SbrkPages, AllocPages
<1>9. last \in VPages
  OBVIOUS
<1> HIDE DEF P, m, count, last
<1>10. ASSUME NEW i \in 1 .. count
       PROVE  q + i - 1 \in VPages
  <2>1. last \in 0 .. PDE_CNT * PTE_CNT - 1 /\ PDE_CNT * PTE_CNT \in Nat
    BY <1>9, Sizes DEF VPages
  <2>2. q + i - 1 \in 0 .. last
    BY <1>6
  <2> QED BY <2>1, <2>2 DEF VPages
<1>11. [i \in 1 .. count |-> q + i - 1] \in [1 .. count -> VPages]
  BY <1>10
<1>12. ASSUME NEW f \in [1 .. count -> VPages]
       PROVE  f \in Seq(VPages)
  BY <1>6
<1> QED BY <1>8, <1>11, <1>12

LEMMA SbrkOK ==
    ASSUME VmOK, NEW t \in Tasks, NEW n \in INCR, sys_sbrk(t, n)
    PROVE  CoreOK'
<1> USE DEF VmOK, CoreOK
<1>1. PICK h, d : h = heap_end[t] /\ d = cr3[t]
  OBVIOUS
<1>2. /\ At(t, "user") /\ slot' = slot /\ kstack' = kstack /\ cr3' = cr3 /\ leaked' = leaked
      /\ bitmap' = bitmap /\ pde' = pde /\ pte' = pte /\ h > 0
      /\ n < 0 => (h % PAGE_SIZE # 0 \/ -n < PAGE_SIZE) /\ h + n >= heap_start[t]
      /\ (h + n + PAGE_SIZE - 1) \div PAGE_SIZE - 1 \in VPages
  BY <1>1 DEF sys_sbrk, memVars
<1>3. /\ slot[t] = "run" /\ pc[t] = "user" /\ d \in Pages /\ LocIs("user", loc[t], d)
  BY <1>1, <1>2, RunIs
<1>4. h \in Nat /\ n \in Int /\ n # 0 /\ heap_start[t] \in Nat /\ h + n \in Int
  BY <1>1, IncrAssumption DEF TasksOK, ProgOK
<1>5. h + n \in Nat
  BY <1>2, <1>4
<1>6. loc[t].dir = NULL /\ loc[t].page = NULL /\ loc[t].child = NULL
  BY <1>3 DEF LocIs, Others, Fills, Forks
<1>7. RowsKept({}) /\ MemOK'
  BY <1>2, NoRows
<1>8. EmptyOK'
  BY <1>2, <1>7, EmptyStep
<1>9. CASE h % PAGE_SIZE # 0 /\ (h % PAGE_SIZE) + n <= PAGE_SIZE
  <2>1. heap_end' = [heap_end EXCEPT ![t] = h + n] /\ pc' = pc /\ loc' = loc
    BY <1>1, <1>9 DEF sys_sbrk
  <2>2. heap_end' \in [Tasks -> Nat]
    BY <1>5, <2>1 DEF TasksOK
  <2>3. PICK r : r = loc[t]
    OBVIOUS
  <2>4. LocIs("user", r, cr3[t]) /\ r.child = NULL
    BY <1>1, <1>3, <1>6, <2>3
  <2>5. pc' = [pc EXCEPT ![t] = "user"] /\ loc' = [loc EXCEPT ![t] = r]
    BY <1>3, <2>1, <2>3 DEF TasksOK
  <2>6. TasksOK' /\ ChildOK'
    BY <1>2, <2>2, <2>4, <2>5, LoneStep
  <2>7. Stays(t) /\ loc'[t].page = loc[t].page
    BY <1>2, <2>1 DEF Stays
  <2>8. PlacesOK'
    BY <1>2, <1>7, <2>7, QuietPlaces
  <2> QED BY <1>7, <1>8, <2>6, <2>8
<1>10. CASE ~ (h % PAGE_SIZE # 0 /\ (h % PAGE_SIZE) + n <= PAGE_SIZE)
  <2>1. PICK todo, end, no, none : /\ todo = <<SbrkPages(h, n)>> /\ end = h + n /\ no = FALSE
                                   /\ none = NULL
    OBVIOUS
  <2>2. PICK r : r = Fill(d, none, todo, end, no)
    OBVIOUS
  <2>3. /\ pc' = [pc EXCEPT ![t] = "alloc"] /\ loc' = [loc EXCEPT ![t] = r]
        /\ heap_end' = heap_end
    BY <1>1, <1>10, <2>1, <2>2 DEF sys_sbrk, Go, Set
  <2>4. h + n + PAGE_SIZE - 1 >= SbrkFrom(h)
    <3>1. h % PAGE_SIZE \in 0 .. PAGE_SIZE - 1 /\ PAGE_SIZE \in Nat
      BY <1>4, Sizes, Quotient
    <3> QED BY <1>2, <1>4, <1>10, <3>1 DEF SbrkFrom
  <2>5. SbrkPages(h, n) \in Seq(VPages)
    BY <1>2, <1>4, <2>4, SbrkFits
  <2>6. todo \in Seq(Seq(VPages))
    BY <2>1, <2>5
  <2>7. /\ r.dir = d /\ r.page = none /\ r.pos = 0 /\ r.child = NULL /\ r.todo = todo
        /\ r.end = end /\ r.lack = no
    BY <2>2 DEF Fill
  <2>8. /\ r = Fill(r.dir, r.page, r.todo, r.end, r.lack) /\ r.page = NULL /\ r.dir \in Pages
        /\ r.end \in Nat /\ r.todo \in Seq(Seq(VPages))
    BY <1>3, <1>5, <2>1, <2>2, <2>6, <2>7
  <2>9. LocIs("alloc", r, cr3[t])
    BY <2>7, <2>8, AllocLoc
  <2>10. heap_end' \in [Tasks -> Nat]
    BY <2>3 DEF TasksOK
  <2>11. /\ TasksOK' /\ ChildOK' /\ pc'[t] = "alloc" /\ loc'[t] = r
         /\ \A u \in Tasks : u # t => loc'[u] = loc[u] /\ pc'[u] = pc[u]
    BY <1>2, <2>3, <2>7, <2>9, <2>10, LoneStep
  <2>12. Stays(t)
    BY <1>1, <1>2, <1>3, <1>6, <2>7, <2>11 DEF Stays, Other, Start
  <2>13. loc'[t].page = loc[t].page
    BY <1>6, <2>8, <2>11
  <2>14. PlacesOK'
    BY <1>2, <1>7, <2>12, <2>13, QuietPlaces
  <2> QED BY <1>7, <1>8, <2>11, <2>14
<1> QED BY <1>9, <1>10

-----------------------------------------------------------------------------
(* Every step                                                              *)

LEMMA StutterOK ==
    ASSUME VmOK, UNCHANGED vars
    PROVE  CoreOK'
<1>1. /\ slot' = slot /\ kstack' = kstack /\ cr3' = cr3 /\ leaked' = leaked /\ heap_end' = heap_end
      /\ bitmap' = bitmap /\ pde' = pde /\ pte' = pte /\ pc' = pc /\ loc' = loc
  BY DEF vars
<1>2. MemOK' /\ TasksOK' /\ ChildOK' /\ EmptyOK'
  BY <1>1 DEF VmOK, CoreOK, MemOK, TasksOK, ChildOK, EmptyOK, NoTable
<1>3. cells' = cells
  BY <1>1 DEF cells, Cell, Victim, OtherDir, From
<1> QED BY <1>1, <1>2, <1>3 DEF VmOK, CoreOK, PlacesOK

LEMMA ProgStep ==
    ASSUME ProgOK, NEW t \in Tasks, Call(t) \/ Step(t)
    PROVE  ProgOK'
<1>1. CASE UNCHANGED progVars
  BY <1>1 DEF ProgOK, progVars
<1>2. ASSUME NEW d, ForkEnd(t, d) PROVE ProgOK'
  <2>1. /\ heap_start' = heap_start /\ loads' = loads
        /\ \E c : runs' = [runs EXCEPT ![c] = runs[t]]
    BY <1>2 DEF ForkEnd
  <2> QED BY <2>1 DEF ProgOK
<1>3. ASSUME NEW p \in Programs, ExecDir(t, p) PROVE ProgOK'
  <2>1. heap_start' = heap_start /\ runs' = runs /\ loads' = [loads EXCEPT ![t] = p]
    BY <1>3 DEF ExecDir
  <2> QED BY <2>1 DEF ProgOK
<1>4. ASSUME ExecArgs(t) PROVE ProgOK'
  <2>1. /\ heap_start' = heap_start /\ loads' = loads
        /\ runs' = runs \/ runs' = [runs EXCEPT ![t] = loads[t]]
    BY <1>4 DEF ExecArgs
  <2> QED BY <2>1 DEF ProgOK
<1>5. ASSUME AllocPage(t) PROVE ProgOK'
  <2>1. PICK b \in Nat : b = HeapStart(loads[t])
    BY HeapStartIs
  <2>2. /\ runs' = runs /\ loads' = loads
        /\ heap_start' = heap_start \/ heap_start' = [heap_start EXCEPT ![t] = b]
    BY <1>5, <2>1 DEF AllocPage
  <2> QED BY <2>1, <2>2 DEF ProgOK
<1>6. ASSUME CopyDir(t) PROVE ForkEnd(t, BAD) \/ UNCHANGED progVars
  BY <1>6 DEF CopyDir, taskVars
<1>7. ASSUME DestroyStep(t) PROVE ForkEnd(t, BAD) \/ UNCHANGED progVars
  BY <1>7 DEF DestroyStep, taskVars
<1>8. ASSUME CopyDone(t) PROVE ForkEnd(t, loc[t].dir)
  BY <1>8 DEF CopyDone
<1>9. ASSUME ForkDir(t) \/ UndoStack(t) \/ UndoUser(t) PROVE UNCHANGED progVars
  BY <1>9 DEF ForkDir, UndoStack, UndoUser
<1>10. ASSUME CopyPage(t) \/ CopyMap(t) \/ ExecNoFile(t) \/ MapPage(t) \/ SbrkDone(t)
       PROVE  UNCHANGED progVars
  BY <1>10 DEF CopyPage, CopyMap, ExecNoFile, MapPage, SbrkDone, taskVars
<1>11. CASE Call(t)
  <2>1. ASSUME NEW c \in Tasks, ForkStack(t, c) PROVE UNCHANGED progVars
    BY <2>1 DEF ForkStack
  <2>2. ASSUME NEW n \in INCR, sys_sbrk(t, n) PROVE UNCHANGED progVars
    BY <2>2 DEF sys_sbrk
  <2>3. ASSUME sys_exit(t) PROVE UNCHANGED progVars
    BY <2>3 DEF sys_exit
  <2> QED BY <1>1, <1>3, <1>11, <2>1, <2>2, <2>3 DEF Call
<1>12. CASE Step(t)
  BY <1>1, <1>2, <1>4, <1>5, <1>6, <1>7, <1>8, <1>9, <1>10, <1>12 DEF Step
<1> QED BY <1>11, <1>12

LEMMA NextOK ==
    ASSUME VmOK, [Next]_vars
    PROVE  VmOK'
<1>1. ASSUME NEW t \in Tasks, Call(t)
      PROVE  CoreOK'
  <2>1. ASSUME NEW c \in Tasks, ForkStack(t, c)
        PROVE  CoreOK'
    BY <2>1, ForkStackOK
  <2>2. ASSUME NEW n \in INCR, sys_sbrk(t, n)
        PROVE  CoreOK'
    BY <2>2, SbrkOK
  <2>3. ASSUME NEW p \in Programs, ExecDir(t, p)
        PROVE  CoreOK'
    BY <2>3, ExecDirOK
  <2> QED BY <1>1, <2>1, <2>2, <2>3, ExitOK DEF Call
<1>2. ASSUME NEW t \in Tasks, Step(t)
      PROVE  CoreOK'
  BY <1>2, ForkDirOK, UndoStackOK, UndoUserOK, CopyDirOK, CopyPageOK, CopyMapOK, CopyDoneOK,
     ExecNoFileOK, ExecArgsOK, AllocPageOK, MapPageOK, SbrkDoneOK, DestroyStepOK DEF Step
<1>3. CoreOK'
  BY <1>1, <1>2, StutterOK DEF Next
<1>4. ProgOK'
  <2>1. CASE UNCHANGED vars
    BY <2>1 DEF vars, progVars, VmOK, ProgOK
  <2>2. CASE Next
    BY <2>2, ProgStep DEF Next, VmOK
  <2> QED BY <2>1, <2>2
<1> QED BY <1>3, <1>4 DEF VmOK

-----------------------------------------------------------------------------
(* The first state.  Tables and pages are numbered by their rank: the      *)
(* elements of a finite set S of numbers have the ranks from 0 to          *)
(* Cardinality(S) - 1, each of them once.                                  *)

Rank(S, i) == Cardinality({k \in S : k < i})

LEMMA RankRange ==
    ASSUME NEW S \in SUBSET Nat, IsFiniteSet(S), NEW i \in S
    PROVE  /\ Cardinality(S) \in Nat /\ Rank(S, i) \in 0 .. Cardinality(S) - 1
           /\ IsFiniteSet({k \in S : k < i})
<1> DEFINE B == {k \in S : k < i}
<1>1. Cardinality(S) \in Nat
  BY FS_CardinalityType
<1>2. IsFiniteSet(S \ {i}) /\ Cardinality(S \ {i}) = Cardinality(S) - 1
  BY FS_RemoveElement
<1>3. B \in SUBSET (S \ {i})
  OBVIOUS
<1>4. IsFiniteSet(B) /\ Cardinality(B) <= Cardinality(S \ {i})
  BY <1>2, <1>3, FS_Subset
<1>5. Cardinality(B) \in Nat
  BY <1>4, FS_CardinalityType
<1> QED BY <1>1, <1>2, <1>4, <1>5 DEF Rank

LEMMA RankOrder ==
    ASSUME NEW S \in SUBSET Nat, IsFiniteSet(S), NEW i \in S, NEW j \in S, i < j
    PROVE  Rank(S, i) < Rank(S, j)
<1> DEFINE A == {k \in S : k < i}
           B == {k \in S : k < j}
<1>1. IsFiniteSet(A) /\ IsFiniteSet(B)
  BY RankRange
<1>2. IsFiniteSet(A \cup {i}) /\ Cardinality(A \cup {i}) = Cardinality(A) + 1
  <2>1. i \notin A
    OBVIOUS
  <2> QED BY <1>1, <2>1, FS_AddElement
<1>3. A \cup {i} \in SUBSET B
  <2>1. ASSUME NEW k \in S, k < i PROVE k < j
    <3>1. k \in Nat /\ i \in Nat /\ j \in Nat
      OBVIOUS
    <3> QED BY <2>1, <3>1
  <2> QED BY <2>1
<1>4. Cardinality(A \cup {i}) <= Cardinality(B)
  BY <1>1, <1>3, FS_Subset
<1>5. Cardinality(A) \in Nat /\ Cardinality(B) \in Nat
  BY <1>1, FS_CardinalityType
<1> QED BY <1>2, <1>4, <1>5 DEF Rank

LEMMA RankOnce ==
    ASSUME NEW S \in SUBSET Nat, IsFiniteSet(S), NEW i \in S, NEW j \in S,
           Rank(S, i) = Rank(S, j)
    PROVE  i = j
<1>1. Rank(S, i) \in Int /\ Rank(S, j) \in Int
  <2>1. Cardinality(S) \in Nat
    BY FS_CardinalityType
  <2>2. Rank(S, i) \in 0 .. Cardinality(S) - 1 /\ Rank(S, j) \in 0 .. Cardinality(S) - 1
    BY RankRange
  <2> QED BY <2>1, <2>2
<1>2. ~ (i < j) /\ ~ (j < i)
  BY <1>1, RankOrder
<1> QED BY <1>2

LEMMA RankOnto ==
    ASSUME NEW S \in SUBSET Nat, IsFiniteSet(S), NEW m \in 0 .. Cardinality(S) - 1
    PROVE  \E i \in S : Rank(S, i) = m
<1> DEFINE T == 0 .. Cardinality(S) - 1
           f == [i \in S |-> Rank(S, i)]
<1>1. Cardinality(S) \in Nat
  BY FS_CardinalityType
<1>2. IsFiniteSet(T) /\ Cardinality(T) = Cardinality(S)
  <2>1. 0 \in Int /\ Cardinality(S) - 1 \in Int
    BY <1>1
  <2> QED BY <1>1, <2>1, FS_Interval
<1>3. f \in [S -> T]
  BY RankRange
<1>4. f \in Injection(S, T)
  <2>1. \A i, j \in S : f[i] = f[j] => i = j
    BY RankOnce
  <2> QED BY <1>3, <2>1 DEF Injection, IsInjective
<1>5. f \in Surjection(S, T)
  BY <1>2, <1>4, FS_Injection
<1>6. \E i \in S : f[i] = m
  BY <1>5 DEF Surjection
<1> QED BY <1>6
NDirs == Cardinality(Dirs)
NProg == Cardinality(FirstPages)

LEMMA ProgramIs ==
    /\ FirstPages \in SUBSET VPages /\ FirstPages \in SUBSET Nat /\ IsFiniteSet(FirstPages)
    /\ Dirs \in SUBSET PDEs /\ Dirs \in SUBSET Nat /\ IsFiniteSet(Dirs)
    /\ NDirs \in Nat /\ NProg \in Nat
<1>1. FirstPages \in SUBSET VPages
  BY SpaceAssumption
<1>2. VPages \in SUBSET Nat /\ IsFiniteSet(VPages)
  <2>1. 0 \in Int /\ PDE_CNT * PTE_CNT - 1 \in Int
    BY Sizes
  <2> QED BY <2>1, FS_Interval DEF VPages
<1>3. FirstPages \in SUBSET Nat /\ IsFiniteSet(FirstPages)
  BY <1>1, <1>2, FS_Subset
<1>4. Dirs \in SUBSET PDEs
  BY <1>1, Address DEF Dirs
<1>5. PDEs \in SUBSET Nat /\ IsFiniteSet(PDEs)
  <2>1. 0 \in Int /\ PDE_CNT - 1 \in Int
    BY Sizes
  <2> QED BY <2>1, FS_Interval DEF PDEs
<1>6. Dirs \in SUBSET Nat /\ IsFiniteSet(Dirs)
  BY <1>4, <1>5, FS_Subset
<1>7. NDirs \in Nat /\ NProg \in Nat
  BY <1>3, <1>6, FS_CardinalityType DEF NDirs, NProg
<1> QED BY <1>1, <1>3, <1>4, <1>6, <1>7

Marks == 0 .. 1 + NDirs + NProg

LEMMA MarksFit == Marks \subseteq Pages
<1>1. 2 + NDirs + NProg <= NPAGES
  BY FitAssumption DEF NDirs, NProg
<1> QED BY <1>1, Sizes, ProgramIs DEF Marks, Pages

LEMMA TableRange ==
    ASSUME NEW i \in Dirs
    PROVE  Table(i) \in 2 .. 1 + NDirs /\ Table(i) \in Marks
<1>1. Rank(Dirs, i) \in 0 .. NDirs - 1
  BY ProgramIs, RankRange DEF NDirs
<1>2. Table(i) = 2 + Rank(Dirs, i)
  BY DEF Table, Rank
<1> QED BY <1>1, <1>2, ProgramIs DEF Marks

LEMMA TableOnce ==
    ASSUME NEW i \in Dirs, NEW j \in Dirs, Table(i) = Table(j)
    PROVE  i = j
<1>1. Rank(Dirs, i) \in 0 .. NDirs - 1 /\ Rank(Dirs, j) \in 0 .. NDirs - 1
  BY ProgramIs, RankRange DEF NDirs
<1>2. Table(i) = 2 + Rank(Dirs, i) /\ Table(j) = 2 + Rank(Dirs, j)
  BY DEF Table, Rank
<1>3. Rank(Dirs, i) = Rank(Dirs, j)
  <2>1. Rank(Dirs, i) \in Int /\ Rank(Dirs, j) \in Int
    BY <1>1, ProgramIs
  <2>2. 2 + Rank(Dirs, i) = 2 + Rank(Dirs, j)
    BY <1>2
  <2> QED BY <2>1, <2>2
<1> QED BY <1>3, ProgramIs, RankOnce

LEMMA TableOnto ==
    ASSUME NEW p \in 2 .. 1 + NDirs
    PROVE  \E i \in Dirs : Table(i) = p
<1>1. p - 2 \in 0 .. NDirs - 1
  BY ProgramIs
<1>2. PICK i \in Dirs : Rank(Dirs, i) = p - 2
  BY <1>1, ProgramIs, RankOnto DEF NDirs
<1>3. Table(i) = p
  BY <1>1, <1>2, ProgramIs DEF Table, Rank
<1> QED BY <1>3

LEMMA PageRange ==
    ASSUME NEW v \in FirstPages
    PROVE  Page(v) \in 2 + NDirs .. 1 + NDirs + NProg /\ Page(v) \in Marks
<1>1. Rank(FirstPages, v) \in 0 .. NProg - 1
  BY ProgramIs, RankRange DEF NProg
<1>2. Page(v) = 2 + NDirs + Rank(FirstPages, v)
  BY DEF Page, Rank, NDirs
<1> QED BY <1>1, <1>2, ProgramIs DEF Marks

LEMMA PageOnce ==
    ASSUME NEW v \in FirstPages, NEW w \in FirstPages, Page(v) = Page(w)
    PROVE  v = w
<1>1. Rank(FirstPages, v) \in 0 .. NProg - 1 /\ Rank(FirstPages, w) \in 0 .. NProg - 1
  BY ProgramIs, RankRange DEF NProg
<1>2. Page(v) = 2 + NDirs + Rank(FirstPages, v) /\ Page(w) = 2 + NDirs + Rank(FirstPages, w)
  BY DEF Page, Rank, NDirs
<1>3. Rank(FirstPages, v) = Rank(FirstPages, w)
  <2>1. PICK m, a, b : m = NDirs /\ a = Rank(FirstPages, v) /\ b = Rank(FirstPages, w)
    OBVIOUS
  <2>2. m \in Int /\ a \in Int /\ b \in Int
    BY <1>1, <2>1, ProgramIs
  <2>3. 2 + m + a = 2 + m + b
    BY <1>2, <2>1
  <2>4. a = b
    BY <2>2, <2>3
  <2> QED BY <2>1, <2>4
<1> QED BY <1>3, ProgramIs, RankOnce

LEMMA PageOnto ==
    ASSUME NEW p \in 2 + NDirs .. 1 + NDirs + NProg
    PROVE  \E v \in FirstPages : Page(v) = p
<1>1. p - 2 - NDirs \in 0 .. NProg - 1
  BY ProgramIs
<1>2. PICK v \in FirstPages : Rank(FirstPages, v) = p - 2 - NDirs
  BY <1>1, ProgramIs, RankOnto DEF NProg
<1>3. Page(v) = p
  BY <1>1, <1>2, ProgramIs DEF Page, Rank, NDirs
<1> QED BY <1>3

\* The entry of an address in its table holds its page and that of no other one.
LEMMA EntryOf ==
    ASSUME NEW v \in FirstPages
    PROVE  /\ pde_index(v) \in Dirs /\ pte_index(v) \in PTEs
           /\ Entry(Table(pde_index(v)), pte_index(v)) = {v}
<1>1. pde_index(v) \in Dirs /\ v \in VPages
  BY ProgramIs DEF Dirs
<1>2. pte_index(v) \in PTEs
  BY <1>1, Address
<1>3. ASSUME NEW w \in FirstPages, Table(pde_index(w)) = Table(pde_index(v)),
             pte_index(w) = pte_index(v)
      PROVE  w = v
  <2>1. pde_index(w) \in Dirs
    BY DEF Dirs
  <2>2. pde_index(w) = pde_index(v)
    BY <1>1, <1>3, <2>1, TableOnce
  <2>3. w \in Nat /\ v \in Nat /\ PTE_CNT \in Nat /\ PTE_CNT > 0
    BY ProgramIs, Sizes
  <2>4. /\ w = (w \div PTE_CNT) * PTE_CNT + (w % PTE_CNT)
        /\ v = (v \div PTE_CNT) * PTE_CNT + (v % PTE_CNT)
    BY <2>3, Quotient
  <2> QED BY <1>3, <2>2, <2>4 DEF pde_index, pte_index
<1> QED BY <1>1, <1>2, <1>3 DEF Entry
-----------------------------------------------------------------------------
(* The places of the first state.                                          *)

\* Position k of the directory of the first program holds p.
FirstAt(k, p) ==
    \/ k = LastPos /\ p = 0
    \/ \E i \in Dirs : k = K(i, PTE_CNT) /\ p = Table(i)
    \/ \E v \in FirstPages : k = K(pde_index(v), pte_index(v)) /\ p = Page(v)

LEMMA InitMem ==
    ASSUME Init
    PROVE  /\ MemOK
           /\ \A i \in PDEs : pde[0][i] = IF i \in Dirs THEN Table(i) ELSE NULL
           /\ \A p \in Pages : \A j \in PTEs :
                 pte[p][j] = IF Entry(p, j) = {} THEN NULL ELSE Page(CHOOSE v \in Entry(p, j) : TRUE)
<1>1. DOMAIN NoTable = PDEs /\ DOMAIN NoPage = PTEs
  BY DEF NoTable, NoPage, PDEs, PTEs
<1>2. /\ pde = [p \in Pages |-> [i \in PDEs |->
                   IF p = 0 /\ i \in Dirs THEN Table(i) ELSE NULL]]
      /\ pte = [p \in Pages |-> [j \in PTEs |->
                   IF Entry(p, j) = {} THEN NULL ELSE Page(CHOOSE v \in Entry(p, j) : TRUE)]]
  BY <1>1 DEF Init
<1>3. ASSUME NEW i \in Dirs PROVE Table(i) \in Pages
  BY TableRange, MarksFit
<1>4. ASSUME NEW p \in Pages, NEW j \in PTEs, Entry(p, j) # {}
      PROVE  Page(CHOOSE v \in Entry(p, j) : TRUE) \in Pages
  <2>1. (CHOOSE v \in Entry(p, j) : TRUE) \in Entry(p, j)
    BY <1>4
  <2>2. (CHOOSE v \in Entry(p, j) : TRUE) \in FirstPages
    BY <2>1 DEF Entry
  <2> QED BY <2>2, PageRange, MarksFit
<1>5. pde \in [Pages -> [PDEs -> Pages \cup {NULL}]]
  BY <1>2, <1>3
<1>6. pte \in [Pages -> [PTEs -> Pages \cup {NULL}]]
  BY <1>2, <1>4
<1>7. 0 \in Pages
  BY Sizes DEF Pages
<1> QED BY <1>2, <1>5, <1>6, <1>7 DEF MemOK

LEMMA InitVictim ==
    ASSUME Init, NEW k \in 0 .. LastPos, Vic(pde, pte, 0, k) # NULL
    PROVE  FirstAt(k, Vic(pde, pte, 0, k))
<1>1. CASE k = LastPos
  BY <1>1, VicTop DEF FirstAt
<1>2. ASSUME NEW i \in PDEs, k = K(i, PTE_CNT)
      PROVE  FirstAt(k, Vic(pde, pte, 0, k))
  <2>1. Vic(pde, pte, 0, K(i, PTE_CNT)) = pde[0][i]
    BY VicTable
  <2>2. i \in Dirs /\ pde[0][i] = Table(i)
    BY <1>2, <2>1, InitMem
  <2> QED BY <1>2, <2>1, <2>2 DEF FirstAt
<1>3. ASSUME NEW i \in PDEs, NEW j \in PTEs, k = K(i, j)
      PROVE  FirstAt(k, Vic(pde, pte, 0, k))
  <2>1. /\ pde[0][i] = NULL => Vic(pde, pte, 0, K(i, j)) = NULL
        /\ pde[0][i] # NULL => Vic(pde, pte, 0, K(i, j)) = pte[pde[0][i]][j]
    <3>1. PICK pd, pt, d : pd = pde /\ pt = pte /\ d = 0
      OBVIOUS
    <3>2. i \in PDEs /\ j \in PTEs
      OBVIOUS
    <3>3. /\ pd[d][i] = NULL => Vic(pd, pt, d, K(i, j)) = NULL
          /\ pd[d][i] # NULL => Vic(pd, pt, d, K(i, j)) = pt[pd[d][i]][j]
      BY ONLY <3>2, VicPage
    <3> QED BY <3>1, <3>3
  <2>2. i \in Dirs /\ pde[0][i] = Table(i) /\ Vic(pde, pte, 0, k) = pte[Table(i)][j]
    BY <1>3, <2>1, InitMem
  <2>3. Table(i) \in Pages
    BY <2>2, TableRange, MarksFit
  <2>4. PICK p : p = Table(i)
    OBVIOUS
  <2>5. Entry(p, j) # {} /\ pte[p][j] = Page(CHOOSE v \in Entry(p, j) : TRUE)
    <3>1. pte[p][j] = IF Entry(p, j) = {} THEN NULL ELSE Page(CHOOSE v \in Entry(p, j) : TRUE)
      BY <2>3, <2>4, InitMem
    <3> QED BY <2>2, <2>4, <3>1
  <2>6. PICK v : v = CHOOSE x \in Entry(p, j) : TRUE
    OBVIOUS
  <2>7. v \in Entry(p, j)
    BY <2>5, <2>6
  <2>8. v \in FirstPages /\ Table(pde_index(v)) = Table(i) /\ pte_index(v) = j
    BY <2>4, <2>7 DEF Entry
  <2>9. pde_index(v) = i
    BY <2>2, <2>8, EntryOf, TableOnce
  <2>10. Vic(pde, pte, 0, k) = Page(v)
    BY <2>2, <2>4, <2>5, <2>6
  <2> QED BY <1>3, <2>8, <2>9, <2>10 DEF FirstAt
<1> QED BY <1>1, <1>2, <1>3, Somewhere

\* Every page but that of the stack is somewhere in the directory.
LEMMA InitReached ==
    ASSUME Init, NEW p \in Marks, p # 1
    PROVE  \E k \in 0 .. LastPos : Vic(pde, pte, 0, k) = p
<1>0. p \in Nat /\ NDirs \in Nat /\ NProg \in Nat /\ p <= 1 + NDirs + NProg
  BY ProgramIs DEF Marks
<1>1. CASE p = 0
  BY <1>1, VicTop, Sizes
<1>2. CASE p \in 2 .. 1 + NDirs
  <2>1. PICK i \in Dirs : Table(i) = p
    BY <1>2, TableOnto
  <2>2. i \in PDEs /\ PTE_CNT \in 0 .. PTE_CNT
    BY ProgramIs, Sizes
  <2>3. Vic(pde, pte, 0, K(i, PTE_CNT)) = pde[0][i] /\ pde[0][i] = p
    BY <2>1, <2>2, VicTable, InitMem
  <2>4. K(i, PTE_CNT) \in 0 .. LastPos - 1
    BY <2>2, Position
  <2>5. K(i, PTE_CNT) \in 0 .. LastPos
    BY <2>4, Sizes
  <2> QED BY <2>3, <2>5
<1>3. CASE p \in 2 + NDirs .. 1 + NDirs + NProg
  <2>1. PICK v \in FirstPages : Page(v) = p
    BY <1>3, PageOnto
  <2>2. PICK i, j : i = pde_index(v) /\ j = pte_index(v)
    OBVIOUS
  <2>3. i \in Dirs /\ j \in PTEs /\ Entry(Table(i), j) = {v}
    BY <2>2, EntryOf
  <2>4. i \in PDEs /\ Table(i) \in Pages
    BY <2>3, ProgramIs, TableRange, MarksFit
  <2>5. PICK q : q = Table(i)
    OBVIOUS
  <2>6. pte[q][j] = IF Entry(q, j) = {} THEN NULL ELSE Page(CHOOSE x \in Entry(q, j) : TRUE)
    BY <2>3, <2>4, <2>5, InitMem
  <2>7. (CHOOSE x \in Entry(q, j) : TRUE) = v /\ Entry(q, j) # {}
    BY <2>3, <2>5
  <2>8. pte[q][j] = p
    BY <2>1, <2>6, <2>7
  <2>9. pde[0][i] = q /\ q # NULL
    BY <2>3, <2>4, <2>5, InitMem, Sizes
  <2>10. Vic(pde, pte, 0, K(i, j)) = pte[pde[0][i]][j]
    <3>1. PICK d : d = 0
      OBVIOUS
    <3>2. pde[d][i] # NULL => Vic(pde, pte, d, K(i, j)) = pte[pde[d][i]][j]
      BY <2>3, <2>4, VicPage, SMTT(60)
    <3> QED BY <2>9, <3>1, <3>2
  <2>11. K(i, j) \in 0 .. LastPos
    <3>1. j \in 0 .. PTE_CNT
      BY <2>3, Sizes DEF PTEs
    <3>2. K(i, j) \in 0 .. LastPos - 1
      BY <2>4, <3>1, Position
    <3> QED BY <3>2, Sizes
  <2> QED BY <2>8, <2>9, <2>10, <2>11
<1> QED BY <1>0, <1>1, <1>2, <1>3
\* The place x holds p in the first state.
StartsAt(x, p) ==
    \/ x = <<"stack", First, 0>> /\ p = 1
    \/ \E k \in 0 .. LastPos : x = <<"cr3", First, k>> /\ FirstAt(k, p)

LEMMA FirstOnce ==
    ASSUME NEW x \in Places, NEW y \in Places, NEW p, StartsAt(x, p), StartsAt(y, p)
    PROVE  x = y /\ p \in Marks
<1>0. NDirs \in Nat /\ NProg \in Nat
  BY ProgramIs
<1>1. ASSUME NEW k \in 0 .. LastPos, FirstAt(k, p)
      PROVE  p \in Marks /\ p # 1
  <2>1. ASSUME k = LastPos, p = 0 PROVE p \in Marks /\ p # 1
    BY <1>0, <2>1 DEF Marks
  <2>2. ASSUME NEW i \in Dirs, p = Table(i) PROVE p \in Marks /\ p # 1
    <3>1. p \in 2 .. 1 + NDirs /\ p \in Marks
      BY <2>2, TableRange
    <3> QED BY <3>1
  <2>3. ASSUME NEW v \in FirstPages, p = Page(v) PROVE p \in Marks /\ p # 1
    <3>1. p \in 2 + NDirs .. 1 + NDirs + NProg /\ p \in Marks
      BY <2>3, PageRange
    <3> QED BY <1>0, <3>1
  <2> QED BY <1>1, <2>1, <2>2, <2>3 DEF FirstAt
<1>2. ASSUME NEW k \in 0 .. LastPos, NEW n \in 0 .. LastPos, FirstAt(k, p), FirstAt(n, p)
      PROVE  k = n
  <2>1. ASSUME NEW i \in Dirs, p = Table(i)
        PROVE  p # 0 /\ ~ (\E v \in FirstPages : p = Page(v))
    <3>1. p \in 2 .. 1 + NDirs
      BY <2>1, TableRange
    <3>2. ASSUME NEW v \in FirstPages, p = Page(v) PROVE FALSE
      <4>1. p \in 2 + NDirs .. 1 + NDirs + NProg
        BY <3>2, PageRange
      <4> QED BY <1>0, <3>1, <4>1
    <3> QED BY <3>1, <3>2
  <2>2. ASSUME NEW v \in FirstPages, p = Page(v)
        PROVE  p # 0
    <3>1. p \in 2 + NDirs .. 1 + NDirs + NProg
      BY <2>2, PageRange
    <3> QED BY <1>0, <3>1
  <2>3. CASE p = 0
    BY <1>2, <2>1, <2>2, <2>3 DEF FirstAt
  <2>4. CASE \E i \in Dirs : p = Table(i)
    <3>1. PICK i \in Dirs : p = Table(i)
      BY <2>4
    <3>2. PICK j \in Dirs : k = K(j, PTE_CNT) /\ p = Table(j)
      BY <1>2, <2>1, <3>1 DEF FirstAt
    <3>3. PICK h \in Dirs : n = K(h, PTE_CNT) /\ p = Table(h)
      BY <1>2, <2>1, <3>1 DEF FirstAt
    <3>4. j = h
      BY <3>2, <3>3, TableOnce
    <3> QED BY <3>2, <3>3, <3>4
  <2>5. CASE \E v \in FirstPages : p = Page(v)
    <3>1. ~ (\E i \in Dirs : p = Table(i)) /\ p # 0
      BY <2>1, <2>2, <2>5
    <3>2. PICK v \in FirstPages : k = K(pde_index(v), pte_index(v)) /\ p = Page(v)
      BY <1>2, <3>1 DEF FirstAt
    <3>3. PICK w \in FirstPages : n = K(pde_index(w), pte_index(w)) /\ p = Page(w)
      BY <1>2, <3>1 DEF FirstAt
    <3>4. v = w
      BY <3>2, <3>3, PageOnce
    <3> QED BY <3>2, <3>3, <3>4
  <2> QED BY <1>2, <2>3, <2>4, <2>5 DEF FirstAt
<1>3. CASE p = 1
  <2>1. x = <<"stack", First, 0>> /\ y = <<"stack", First, 0>>
    BY <1>1, <1>3 DEF StartsAt
  <2>2. p \in Marks
    BY <1>0, <1>3 DEF Marks
  <2> QED BY <2>1, <2>2
<1>4. CASE p # 1
  <2>1. PICK k \in 0 .. LastPos : x = <<"cr3", First, k>> /\ FirstAt(k, p)
    BY <1>4 DEF StartsAt
  <2>2. PICK n \in 0 .. LastPos : y = <<"cr3", First, n>> /\ FirstAt(n, p)
    BY <1>4 DEF StartsAt
  <2>3. k = n
    BY <1>2, <2>1, <2>2
  <2> QED BY <1>1, <2>1, <2>2, <2>3
<1> QED BY <1>3, <1>4

LEMMA InitCells ==
    ASSUME Init, NEW t \in Tasks, NEW k \in 0 .. LastPos
    PROVE  /\ cells[<<"page", t, k>>] = NULL /\ cells[<<"dir", t, k>>] = NULL
           /\ cells[<<"stack", t, k>>] = IF t = First /\ k = 0 THEN 1 ELSE NULL
           /\ cells[<<"cr3", t, k>>] = IF t = First THEN Vic(pde, pte, 0, k) ELSE NULL
<1>1. /\ loc[t].page = NULL /\ loc[t].dir = NULL
      /\ kstack[t] = IF t = First THEN 1 ELSE NULL
      /\ cr3[t] = IF t = First THEN 0 ELSE NULL
  BY DEF Init, NoLoc, Space
<1>2. 0 \in Pages /\ 0 # NULL /\ NULL \notin Pages /\ k >= 0
  BY Sizes DEF Pages
<1>3. Own(cr3[t]) = IF t = First THEN 0 ELSE NULL
  BY <1>1, <1>2 DEF Own
<1>4. Other(loc[t], cr3[t]) = NULL
  BY <1>1 DEF Other
<1>5. /\ cells[<<"page", t, k>>] = One(loc[t].page, k)
      /\ cells[<<"stack", t, k>>] = One(kstack[t], k)
      /\ cells[<<"cr3", t, k>>] = Tree(pde, pte, Own(cr3[t]), 0, k)
      /\ cells[<<"dir", t, k>>]
           = Tree(pde, pte, Other(loc[t], cr3[t]), Start(pc[t], loc[t]), k)
  BY CellsAre
<1>6. cells[<<"page", t, k>>] = NULL
  BY <1>1, <1>5 DEF One
<1>7. cells[<<"stack", t, k>>] = IF t = First /\ k = 0 THEN 1 ELSE NULL
  BY <1>1, <1>5 DEF One
<1>8. cells[<<"dir", t, k>>] = NULL
  BY <1>4, <1>5 DEF Tree
<1>9. cells[<<"cr3", t, k>>] = IF t = First THEN Vic(pde, pte, 0, k) ELSE NULL
  BY <1>2, <1>3, <1>5 DEF Tree
<1> QED BY <1>6, <1>7, <1>8, <1>9

LEMMA InitPlaces ==
    ASSUME Init
    PROVE  PlacesOK
<1>1. bitmap = Marks /\ leaked = {}
  BY DEF Init, Marks, NDirs, NProg
<1>2. Marks \subseteq Pages /\ First \in Tasks
  BY MarksFit, TaskAssumption
<1>3. ASSUME NEW x \in Places, cells[x] # NULL
      PROVE  StartsAt(x, cells[x]) /\ cells[x] \in Marks
  <2>1. PICK g \in Tags, t \in Tasks, k \in 0 .. LastPos : x = <<g, t, k>>
    BY PlaceIs
  <2>2. StartsAt(x, cells[x])
    <3>1. CASE g = "stack"
      <4>1. cells[x] = 1 /\ t = First /\ k = 0
        BY <1>3, <2>1, <3>1, InitCells
      <4> QED BY <2>1, <3>1, <4>1 DEF StartsAt
    <3>2. CASE g = "cr3"
      <4>1. t = First /\ cells[x] = Vic(pde, pte, 0, k)
        BY <1>3, <2>1, <3>2, InitCells
      <4>2. FirstAt(k, Vic(pde, pte, 0, k))
        BY <1>3, <4>1, InitVictim
      <4> QED BY <2>1, <3>2, <4>1, <4>2 DEF StartsAt
    <3>3. g = "stack" \/ g = "cr3"
      BY <1>3, <2>1, InitCells DEF Tags
    <3> QED BY <3>1, <3>2, <3>3
  <2> QED BY <2>2, FirstOnce
<1>4. ASSUME NEW x \in Places, NEW y \in Places, cells[x] # NULL, cells[x] = cells[y]
      PROVE  x = y
  <2>1. PICK p : p = cells[x]
    OBVIOUS
  <2>2. StartsAt(x, p) /\ StartsAt(y, p)
    BY <1>3, <1>4, <2>1
  <2> QED BY <2>2, FirstOnce
<1>5. ASSUME NEW p \in Marks
      PROVE  \E x \in Places : cells[x] = p
  <2>0. 0 \in 0 .. LastPos
    BY Sizes
  <2>1. CASE p = 1
    <3>1. cells[<<"stack", First, 0>>] = 1
      BY <1>2, <2>0, InitCells
    <3>2. <<"stack", First, 0>> \in Places
      BY <1>2, <2>0 DEF Places
    <3> QED BY <2>1, <3>1, <3>2
  <2>2. CASE p # 1
    <3>1. PICK k \in 0 .. LastPos : Vic(pde, pte, 0, k) = p
      BY <2>2, InitReached
    <3>2. cells[<<"cr3", First, k>>] = p
      BY <1>2, <3>1, InitCells
    <3>3. <<"cr3", First, k>> \in Places
      BY <1>2 DEF Places
    <3> QED BY <3>2, <3>3
  <2> QED BY <2>1, <2>2
<1>6. cells \in [Places -> Pages \cup {NULL}]
  <2>1. \A x \in Places : cells[x] \in Pages \cup {NULL}
    BY <1>2, <1>3
  <2>2. cells = [x \in Places |-> cells[x]]
    BY DEF cells
  <2> QED BY <2>1, <2>2
<1> QED BY <1>1, <1>2, <1>3, <1>4, <1>5, <1>6 DEF PlacesOK, Sound

LEMMA InitOK ==
    ASSUME Init
    PROVE  VmOK
<1>1. MemOK
  BY InitMem
<1>2. PICK none : none = NoLoc
  OBVIOUS
<1>3. /\ pc = [t \in Tasks |-> "user"] /\ loc = [t \in Tasks |-> none]
      /\ slot = [t \in Tasks |-> IF t = First THEN "run" ELSE "free"]
      /\ kstack = [t \in Tasks |-> IF t = First THEN 1 ELSE NULL]
      /\ cr3 = [t \in Tasks |-> IF t = First THEN 0 ELSE NULL]
      /\ heap_end = [t \in Tasks |-> 0]
  BY <1>2 DEF Init
<1>4. 0 \in Pages /\ 1 \in Pages /\ NULL \notin Pages /\ BAD \notin Pages
  <2>1. 1 \in Marks
    BY ProgramIs DEF Marks
  <2> QED BY <2>1, MarksFit, Sizes, ProgramAssumption DEF Pages
<1>5. TasksOK
  <2>1. ASSUME NEW t \in Tasks
        PROVE  LocIs(pc[t], loc[t], cr3[t]) /\ SlotIs(pc[t], slot[t], kstack[t], cr3[t])
    <3>1. LocIs("user", none, cr3[t])
      BY <1>2, NoLocIs
    <3>2. CASE t = First
      <4>1. SlotIs("user", "run", 1, 0)
        BY <1>4, Sizes DEF SlotIs
      <4> QED BY <1>3, <3>1, <3>2, <4>1
    <3>3. CASE t # First
      <4>1. SlotIs("user", "free", NULL, NULL)
        BY Sizes DEF SlotIs
      <4> QED BY <1>3, <3>1, <3>3, <4>1
    <3> QED BY <3>2, <3>3
  <2>2. heap_end \in [Tasks -> Nat]
    BY <1>3, <1>4
  <2>3. /\ pc = [t \in Tasks |-> pc[t]] /\ loc = [t \in Tasks |-> loc[t]]
        /\ slot = [t \in Tasks |-> slot[t]] /\ kstack = [t \in Tasks |-> kstack[t]]
        /\ cr3 = [t \in Tasks |-> cr3[t]]
    BY <1>3
  <2> QED BY <2>1, <2>2, <2>3 DEF TasksOK
<1>6. ChildOK
  <2>1. none.child = NULL
    BY <1>2, NoLocIs
  <2>2. \A t \in Tasks : loc[t].child \notin Tasks
    BY <1>3, <2>1, TaskAssumption
  <2> QED BY <2>2 DEF ChildOK
<1>7. EmptyOK
  BY <1>3 DEF EmptyOK
<1>8. ProgOK
  BY DEF Init, ProgOK
<1> QED BY <1>1, <1>5, <1>6, <1>7, <1>8, InitPlaces DEF VmOK, CoreOK

\* Every state.
THEOREM VmSafe == Spec => []VmOK
<1>1. Init => VmOK
  BY InitOK
<1>2. VmOK /\ [Next]_vars => VmOK'
  BY NextOK
<1> QED BY <1>1, <1>2, PTL DEF Spec
-----------------------------------------------------------------------------
(* What the runs check.                                                    *)

\* A use, as one of the four kinds.
LEMMA UseCases ==
    ASSUME NEW y
    PROVE  y \in Uses <=>
             \/ \E t \in Tasks : kstack[t] # NULL /\ y = <<"stack", t, 0, kstack[t]>>
             \/ \E t \in Tasks : loc[t].page # NULL /\ y = <<"page", t, 0, loc[t].page>>
             \/ \E t \in Tasks : /\ cr3[t] \in Pages
                               /\ y \in DirUses("cr3", t, cr3[t], 0)
             \/ \E t \in Tasks : OtherDir(t) /\ y \in DirUses("dir", t, loc[t].dir, From(t))
<1> DEFINE S1 == {<<"stack", t, 0, kstack[t]>> : t \in {u \in Tasks : kstack[u] # NULL}}
           S2 == {<<"page", t, 0, loc[t].page>> : t \in {u \in Tasks : loc[u].page # NULL}}
           S3 == UNION {DirUses("cr3", t, cr3[t], 0) : t \in {u \in Tasks : cr3[u] \in Pages}}
           S4 == UNION {DirUses("dir", t, loc[t].dir, From(t)) : t \in {u \in Tasks : OtherDir(u)}}
<1>1. y \in S1 <=> \E t \in Tasks : kstack[t] # NULL /\ y = <<"stack", t, 0, kstack[t]>>
  OBVIOUS
<1>2. y \in S2 <=> \E t \in Tasks : loc[t].page # NULL /\ y = <<"page", t, 0, loc[t].page>>
  OBVIOUS
<1>3. y \in S3 <=> \E t \in Tasks : cr3[t] \in Pages /\ y \in DirUses("cr3", t, cr3[t], 0)
  OBVIOUS
<1>4. y \in S4 <=> \E t \in Tasks : OtherDir(t) /\ y \in DirUses("dir", t, loc[t].dir, From(t))
  OBVIOUS
<1>5. Uses = S1 \cup S2 \cup S3 \cup S4
  BY DEF Uses
<1> HIDE DEF S1, S2, S3, S4
<1> QED BY <1>1, <1>2, <1>3, <1>4, <1>5

LEMMA DirUse ==
    ASSUME NEW tag, NEW t, NEW d, NEW from, NEW u
    PROVE  u \in DirUses(tag, t, d, from) <=>
             \E k \in from .. LastPos : Victim(d, k) # NULL /\ u = <<tag, t, k, Victim(d, k)>>
BY DEF DirUses

LEMMA UseIs ==
    ASSUME NEW u \in Uses
    PROVE  \E tag, t, k, p : u = <<tag, t, k, p>>
BY UseCases, DirUse

\* The uses of pages are the places that hold one.
LEMMA UsesAre ==
    ASSUME VmOK, NEW tag, NEW t, NEW k, NEW p
    PROVE  <<tag, t, k, p>> \in Uses <=>
               <<tag, t, k>> \in Places /\ p # NULL /\ cells[<<tag, t, k>>] = p
<1>0. 0 \in 0 .. LastPos /\ LastPos \in Nat /\ NULL \notin Pages
  BY Sizes
<1>1. ASSUME NEW u \in Tasks PROVE From(u) \in 0 .. LastPos
  <2>1. Start(pc[u], loc[u]) \in 0 .. LastPos
    BY StartOK DEF VmOK, CoreOK
  <2> QED BY <2>1 DEF From, Start
<1>2. <<tag, t, k, p>> \in Uses <=>
        \/ tag = "stack" /\ t \in Tasks /\ k = 0 /\ kstack[t] # NULL /\ p = kstack[t]
        \/ tag = "page" /\ t \in Tasks /\ k = 0 /\ loc[t].page # NULL /\ p = loc[t].page
        \/ /\ tag = "cr3" /\ t \in Tasks /\ cr3[t] \in Pages /\ k \in 0 .. LastPos
           /\ Victim(cr3[t], k) # NULL /\ p = Victim(cr3[t], k)
        \/ /\ tag = "dir" /\ t \in Tasks /\ OtherDir(t) /\ k \in From(t) .. LastPos
           /\ Victim(loc[t].dir, k) # NULL /\ p = Victim(loc[t].dir, k)
  <2>1. PICK u : u = <<tag, t, k, p>>
    OBVIOUS
  <2>2. (\E x \in Tasks : kstack[x] # NULL /\ u = <<"stack", x, 0, kstack[x]>>)
          <=> tag = "stack" /\ t \in Tasks /\ k = 0 /\ kstack[t] # NULL /\ p = kstack[t]
    BY <2>1
  <2>3. (\E x \in Tasks : loc[x].page # NULL /\ u = <<"page", x, 0, loc[x].page>>)
          <=> tag = "page" /\ t \in Tasks /\ k = 0 /\ loc[t].page # NULL /\ p = loc[t].page
    BY <2>1
  <2>4. (\E x \in Tasks : cr3[x] \in Pages /\ u \in DirUses("cr3", x, cr3[x], 0))
          <=> /\ tag = "cr3" /\ t \in Tasks /\ cr3[t] \in Pages /\ k \in 0 .. LastPos
              /\ Victim(cr3[t], k) # NULL /\ p = Victim(cr3[t], k)
    BY <2>1 DEF DirUses
  <2>5. (\E x \in Tasks : OtherDir(x) /\ u \in DirUses("dir", x, loc[x].dir, From(x)))
          <=> /\ tag = "dir" /\ t \in Tasks /\ OtherDir(t) /\ k \in From(t) .. LastPos
              /\ Victim(loc[t].dir, k) # NULL /\ p = Victim(loc[t].dir, k)
    BY <2>1 DEF DirUses
  <2> QED BY <2>1, <2>2, <2>3, <2>4, <2>5, UseCases
<1>3. <<tag, t, k>> \in Places <=> tag \in Tags /\ t \in Tasks /\ k \in 0 .. LastPos
  BY DEF Places, Tags
<1>4. ASSUME <<tag, t, k>> \in Places
      PROVE  cells[<<tag, t, k>>] = Cell(tag, t, k)
  BY <1>4 DEF cells
<1>5. CASE tag = "stack"
  BY <1>0, <1>2, <1>3, <1>4, <1>5 DEF Cell, Tags
<1>6. CASE tag = "page"
  BY <1>0, <1>2, <1>3, <1>4, <1>6 DEF Cell, Tags
<1>7. CASE tag = "cr3"
  BY <1>0, <1>2, <1>3, <1>4, <1>7 DEF Cell, Tags
<1>8. CASE tag = "dir"
  BY <1>0, <1>1, <1>2, <1>3, <1>4, <1>8 DEF Cell, Tags
<1>9. CASE tag \notin Tags
  BY <1>2, <1>3, <1>9 DEF Tags
<1> QED BY <1>5, <1>6, <1>7, <1>8, <1>9 DEF Tags

LEMMA OnceOK ==
    ASSUME VmOK
    PROVE  PagesUsedOnce
<1>1. SUFFICES ASSUME NEW u \in Uses, NEW w \in Uses, u[4] = w[4]
               PROVE  u = w
  BY DEF PagesUsedOnce
<1>2. PICK a, b, c, p : u = <<a, b, c, p>>
  BY UseIs
<1>3. PICK d, e, f, q : w = <<d, e, f, q>>
  BY UseIs
<1>4. p = q
  BY <1>1, <1>2, <1>3
<1>5. <<a, b, c>> \in Places /\ p # NULL /\ cells[<<a, b, c>>] = p
  BY <1>2, UsesAre
<1>6. <<d, e, f>> \in Places /\ cells[<<d, e, f>>] = q
  BY <1>3, UsesAre
<1>7. <<a, b, c>> = <<d, e, f>>
  BY <1>4, <1>5, <1>6 DEF VmOK, CoreOK, PlacesOK, Sound
<1> QED BY <1>2, <1>3, <1>4, <1>7

LEMMA AccountOK ==
    ASSUME VmOK
    PROVE  AllAccountedFor
<1>1. ASSUME NEW p
      PROVE  p \in Used <=> \E x \in Places : cells[x] # NULL /\ cells[x] = p
  <2>1. ASSUME NEW u \in Uses, u[4] = p
        PROVE  \E x \in Places : cells[x] # NULL /\ cells[x] = p
    <3>1. PICK a, b, c, q : u = <<a, b, c, q>>
      BY UseIs
    <3>2. <<a, b, c>> \in Places /\ q # NULL /\ cells[<<a, b, c>>] = q
      BY <3>1, UsesAre
    <3> QED BY <2>1, <3>1, <3>2
  <2>2. ASSUME NEW x \in Places, cells[x] # NULL, cells[x] = p
        PROVE  \E u \in Uses : u[4] = p
    <3>1. PICK g \in Tags, t \in Tasks, k \in 0 .. LastPos : x = <<g, t, k>>
      BY PlaceIs
    <3>2. <<g, t, k, p>> \in Uses
      BY <2>2, <3>1, UsesAre
    <3> QED BY <3>2
  <2> QED BY <2>1, <2>2 DEF Used
<1>2. /\ \A x \in Places : cells[x] # NULL => cells[x] \in bitmap /\ cells[x] \notin leaked
      /\ \A p \in bitmap : p \notin leaked => \E x \in Places : cells[x] = p
      /\ leaked \subseteq bitmap /\ bitmap \subseteq Pages
  BY DEF VmOK, CoreOK, PlacesOK, Sound
<1>3. ASSUME NEW p \in bitmap, p \notin leaked
      PROVE  p \in Used
  BY <1>1, <1>2, <1>3, Sizes
<1>4. ASSUME NEW p \in Used
      PROVE  p \in bitmap /\ p \notin leaked
  BY <1>1, <1>2
<1> QED BY <1>2, <1>3, <1>4 DEF AllAccountedFor

\* However the system calls of the tasks are interleaved, whichever of their
\* allocations fails, and while an address space is taken apart, no page is used in
\* two places: not as the table or the page of two address spaces, not twice in one,
\* and not as a kernel stack and something else.
THEOREM UsedOnce == Spec => []PagesUsedOnce
<1>1. VmOK => PagesUsedOnce
  BY OnceOK
<1> QED BY <1>1, VmSafe, PTL

\* The bitmap marks exactly the pages that are used and those that the kernel lost
\* where leaked says: nothing in use can be handed out, nothing else is lost.
THEOREM AccountedFor == Spec => []AllAccountedFor
<1>1. VmOK => AllAccountedFor
  BY AccountOK
<1> QED BY <1>1, VmSafe, PTL

-----------------------------------------------------------------------------
(* What an address is mapped to.                                           *)

Maps(pd, pt, d, v) ==
    IF pd[d][pde_index(v)] = NULL THEN NULL ELSE pt[pd[d][pde_index(v)]][pte_index(v)]

LEMMA FindIs ==
    ASSUME NEW d, NEW v
    PROVE  find_pte(d, v) = Maps(pde, pte, d, v) /\ find_pte(d, v)' = Maps(pde', pte', d, v)
BY DEF find_pte, Maps

\* A step changes no mapping of a whole directory but that of v at tag of t.
OnlyAt(t, tag, v) ==
    \A u \in Tasks : \A tag2 \in {"cr3", "dir"} : \A d \in Pages : Rooted(tag2, u, d) =>
        \A w \in VPages : \/ tag2 = tag /\ u = t /\ w = v
                          \/ Maps(pde', pte', d, w) = Maps(pde, pte, d, w)

LEMMA QuietMaps ==
    ASSUME pde' = pde, pte' = pte, NEW t, NEW tag, NEW v
    PROVE  OnlyAt(t, tag, v)
BY DEF OnlyAt

\* The entries of an address are those of no other.
LEMMA AddressOnce ==
    ASSUME NEW v \in VPages, NEW w \in VPages, pde_index(v) = pde_index(w),
           pte_index(v) = pte_index(w)
    PROVE  v = w
<1>1. w \in Nat /\ v \in Nat /\ PTE_CNT \in Nat /\ PTE_CNT > 0
  BY Sizes DEF VPages
<1>2. /\ w = (w \div PTE_CNT) * PTE_CNT + (w % PTE_CNT)
      /\ v = (v \div PTE_CNT) * PTE_CNT + (v % PTE_CNT)
  BY <1>1, Quotient
<1> QED BY <1>2 DEF pde_index, pte_index

LEMMA TablePosition ==
    ASSUME NEW n \in PDEs
    PROVE  K(n, PTE_CNT) \in 0 .. LastPos
<1>1. PTE_CNT \in 0 .. PTE_CNT
  BY Sizes
<1>2. K(n, PTE_CNT) \in 0 .. LastPos - 1
  BY <1>1, Position
<1> QED BY <1>2, Sizes

\* A directory is made of a fresh page.
LEMMA UvmMaps ==
    ASSUME VmOK, NEW p \in Pages, p \notin bitmap, memory_create_uvm(p), NEW t, NEW tag, NEW v
    PROVE  OnlyAt(t, tag, v) /\ \A w \in VPages : Maps(pde', pte', p, w) = NULL
<1> USE DEF VmOK, CoreOK
<1>1. pde' = [pde EXCEPT ![p] = NoTable] /\ pte' = pte
  BY DEF memory_create_uvm
<1>2. ASSUME NEW u \in Tasks, NEW tag2 \in {"cr3", "dir"}, NEW d \in Pages, Rooted(tag2, u, d)
      PROVE  pde'[d] = pde[d]
  <2>1. d \in bitmap
    BY <1>2, RootApart
  <2> QED BY <1>1, <2>1 DEF MemOK
<1>3. OnlyAt(t, tag, v)
  BY <1>1, <1>2 DEF OnlyAt, Maps
<1>4. ASSUME NEW w \in VPages PROVE Maps(pde', pte', p, w) = NULL
  <2>1. pde_index(w) \in PDEs
    BY Address
  <2>2. pde'[p] = NoTable
    BY <1>1 DEF MemOK
  <2>3. pde'[p][pde_index(w)] = NULL
    BY <2>1, <2>2 DEF NoTable, PDEs
  <2> QED BY <2>3 DEF Maps
<1> QED BY <1>3, <1>4

\* An entry of a table of a directory is written.
LEMMA EntryMaps ==
    ASSUME VmOK, NEW t \in Tasks, NEW tag, NEW d \in Pages, Rooted(tag, t, d), NEW v \in VPages,
           NEW i, NEW j, i = pde_index(v), j = pte_index(v), NEW a, TableIs(pde, d, i, a), a # NULL,
           NEW q, pde' = pde, PageSet(pte, pte', a, j, q)
    PROVE  OnlyAt(t, tag, v) /\ Maps(pde', pte', d, v) = q
<1> USE DEF VmOK, CoreOK, TableIs, PageSet
<1>1. i \in PDEs /\ j \in PTEs
  BY Address
<1>2. /\ a \in Pages /\ \A x \in Places : cells[x] = a => x = <<tag, t, K(i, PTE_CNT)>>
  BY <1>1, RootApart
<1>3. /\ pte'[a][j] = q /\ \A n \in PTEs : n # j => pte'[a][n] = pte[a][n]
      /\ \A p \in Pages : p # a => pte'[p] = pte[p]
  BY <1>1, <1>2 DEF MemOK
<1>4. Maps(pde', pte', d, v) = q
  BY <1>3 DEF Maps
<1> HIDE DEF PageSet
<1>5. ASSUME NEW u \in Tasks, NEW tag2 \in {"cr3", "dir"}, NEW e \in Pages, Rooted(tag2, u, e),
             NEW w \in VPages, ~ (tag2 = tag /\ u = t /\ w = v)
      PROVE  Maps(pde', pte', e, w) = Maps(pde, pte, e, w)
  <2>1. PICK n, m, b : n = pde_index(w) /\ m = pte_index(w) /\ b = pde[e][n]
    OBVIOUS
  <2>2. n \in PDEs /\ m \in PTEs
    BY <2>1, Address
  <2>3. CASE b = NULL
    BY <2>1, <2>3 DEF Maps
  <2>4. CASE b # NULL /\ b # a
    <3>1. b \in Pages
      BY <1>5, <2>1, <2>2, <2>4, RootApart
    <3>2. pte'[b] = pte[b]
      BY <1>3, <2>4, <3>1
    <3> QED BY <2>1, <3>2 DEF Maps
  <2>5. CASE b = a
    <3>0. pde[e][n] # NULL /\ pde[e][n] = a
      BY <2>1, <2>5
    <3>a. <<tag2, u, K(n, PTE_CNT)>> \in Places /\ cells[<<tag2, u, K(n, PTE_CNT)>>] = pde[e][n]
      <4>1. PICK k : k = K(n, PTE_CNT)
        OBVIOUS
      <4>2. k \in 0 .. LastPos
        BY <2>2, <4>1, TablePosition
      <4>3. tag2 \in Tags /\ cells[<<tag2, u, k>>] = Vic(pde, pte, e, k)
        BY <1>5, <4>2, RootedIs
      <4>4. Vic(pde, pte, e, k) = pde[e][n]
        BY <2>2, <4>1, VicTable
      <4>5. <<tag2, u, k>> \in Places
        BY <4>2, <4>3, PlaceIs
      <4> QED BY <4>1, <4>3, <4>4, <4>5
    <3>1. <<tag2, u, K(n, PTE_CNT)>> \in Places /\ cells[<<tag2, u, K(n, PTE_CNT)>>] = a
      BY <3>0, <3>a
    <3>2. <<tag2, u, K(n, PTE_CNT)>> = <<tag, t, K(i, PTE_CNT)>>
      BY <1>2, <3>1
    <3>3. tag2 = tag /\ u = t /\ K(n, PTE_CNT) = K(i, PTE_CNT)
      BY <3>2
    <3>4. n = i
      <4>1. PTE_CNT \in 0 .. PTE_CNT
        BY Sizes
      <4> QED BY <1>1, <2>2, <3>3, <4>1, PositionsApart
    <3>5. m # j
      BY <1>5, <2>1, <3>3, <3>4, AddressOnce
    <3>6. pte'[b][m] = pte[b][m]
      BY <1>3, <2>2, <2>5, <3>5
    <3> QED BY <2>1, <3>6 DEF Maps
  <2> QED BY <2>3, <2>4, <2>5
<1>6. OnlyAt(t, tag, v)
  <2> SUFFICES ASSUME NEW u \in Tasks, NEW tag2 \in {"cr3", "dir"}, NEW e \in Pages,
                      Rooted(tag2, u, e), NEW w \in VPages, ~ (tag2 = tag /\ u = t /\ w = v)
               PROVE  Maps(pde', pte', e, w) = Maps(pde, pte, e, w)
    BY DEF OnlyAt
  <2> QED BY <1>5
<1> QED BY <1>4, <1>6

\* A table is made of a fresh page.
LEMMA TableMaps ==
    ASSUME VmOK, NEW t \in Tasks, NEW tag, NEW d \in Pages, Rooted(tag, t, d), NEW v \in VPages,
           NEW i, NEW j, i = pde_index(v), j = pte_index(v), TableIs(pde, d, i, NULL),
           NEW a \in Pages, a \notin bitmap, NEW q, TableSet(pde, pte, pde', pte', d, i, a, j, q)
    PROVE  OnlyAt(t, tag, v) /\ Maps(pde', pte', d, v) = q
<1> USE DEF VmOK, CoreOK, TableIs, TableSet
<1>1. i \in PDEs /\ j \in PTEs /\ a # NULL
  BY Address, Sizes
<1>2. \A x \in Places : cells[x] = d => x = <<tag, t, LastPos>>
  BY RootApart
<1>3. /\ pde'[d][i] = a /\ \A n \in PDEs : n # i => pde'[d][n] = pde[d][n]
      /\ \A p \in Pages : p # d => pde'[p] = pde[p]
  BY <1>1 DEF MemOK
<1>4. /\ pte'[a] = [NoPage EXCEPT ![j] = q] /\ \A p \in Pages : p # a => pte'[p] = pte[p]
  BY <1>1 DEF MemOK
<1>5. pte'[a][j] = q /\ \A m \in PTEs : m # j => pte'[a][m] = NULL
  <2>1. NoPage = [m \in PTEs |-> NULL]
    BY DEF NoPage, PTEs
  <2> QED BY <1>1, <1>4, <2>1
<1> HIDE DEF TableIs, TableSet
<1>6. Maps(pde', pte', d, v) = q
  BY <1>1, <1>3, <1>5 DEF Maps
<1>7. ASSUME NEW u \in Tasks, NEW tag2 \in {"cr3", "dir"}, NEW e \in Pages, Rooted(tag2, u, e),
             NEW w \in VPages, ~ (tag2 = tag /\ u = t /\ w = v)
      PROVE  Maps(pde', pte', e, w) = Maps(pde, pte, e, w)
  <2>1. PICK n, m, b : n = pde_index(w) /\ m = pte_index(w) /\ b = pde[e][n]
    OBVIOUS
  <2>2. n \in PDEs /\ m \in PTEs
    BY <2>1, Address
  <2>3. CASE e # d \/ n # i
    <3>1. pde'[e][n] = b
      BY <1>3, <2>1, <2>2, <2>3
    <3>2. CASE b = NULL
      BY <2>1, <3>1, <3>2 DEF Maps
    <3>3. CASE b # NULL
      <4>1. b \in Pages /\ b \in bitmap
        BY <1>7, <2>1, <2>2, <3>3, RootApart
      <4>2. pte'[b] = pte[b]
        BY <1>4, <4>1
      <4> QED BY <2>1, <3>1, <4>2 DEF Maps
    <3> QED BY <3>2, <3>3
  <2>4. CASE e = d /\ n = i
    <3>1. tag2 \in Tags /\ cells[<<tag2, u, LastPos>>] = Vic(pde, pte, e, LastPos)
      BY <1>7, Zero, RootedIs
    <3>2. <<tag2, u, LastPos>> \in Places /\ cells[<<tag2, u, LastPos>>] = d
      BY <2>4, <3>1, VicTop, Zero, PlaceIs
    <3>3. tag2 = tag /\ u = t
      BY <1>2, <3>2
    <3>4. m # j
      BY <1>7, <2>1, <2>4, <3>3, AddressOnce
    <3>5. Maps(pde, pte, e, w) = NULL
      BY <2>1, <2>4 DEF Maps, TableIs
    <3>6. Maps(pde', pte', e, w) = pte'[a][m]
      BY <1>1, <1>3, <2>1, <2>4 DEF Maps
    <3> QED BY <1>5, <2>2, <3>4, <3>5, <3>6
  <2> QED BY <2>3, <2>4
<1>8. OnlyAt(t, tag, v)
  <2> SUFFICES ASSUME NEW u \in Tasks, NEW tag2 \in {"cr3", "dir"}, NEW e \in Pages,
                      Rooted(tag2, u, e), NEW w \in VPages, ~ (tag2 = tag /\ u = t /\ w = v)
               PROVE  Maps(pde', pte', e, w) = Maps(pde, pte, e, w)
    BY DEF OnlyAt
  <2> QED BY <1>7
<1> QED BY <1>6, <1>8

LEMMA CreateMaps ==
    ASSUME VmOK, NEW t \in Tasks, NEW tag, NEW d \in Pages, Rooted(tag, t, d), NEW v \in VPages,
           NEW p, CanMap(d, v), memory_create_map(d, v, p)
    PROVE  OnlyAt(t, tag, v) /\ Maps(pde', pte', d, v) = p
<1> USE DEF VmOK, CoreOK
<1>1. PICK i, j, a : i = pde_index(v) /\ j = pte_index(v) /\ a = pde[d][i]
  OBVIOUS
<1>2. CASE a # NULL
  <2>1. TableIs(pde, d, i, a) /\ PageSet(pte, pte', a, j, p) /\ pde' = pde
    BY <1>1, <1>2 DEF memory_create_map, TableIs, PageSet
  <2> QED BY <1>1, <1>2, <2>1, EntryMaps
<1>3. CASE a = NULL
  <2>1. PICK b, none : b = addr_alloc_page /\ none = NULL
    OBVIOUS
  <2>2. b \in Pages /\ b \notin bitmap
    BY <1>1, <1>3, <2>1, Marked, FreshPage DEF CanMap
  <2>3. TableIs(pde, d, i, NULL) /\ TableSet(pde, pte, pde', pte', d, i, b, j, p)
    BY <1>1, <1>3, <2>1 DEF memory_create_map, TableIs, TableSet
  <2> QED BY <1>1, <2>2, <2>3, TableMaps
<1> QED BY <1>2, <1>3
-----------------------------------------------------------------------------
(* What a step of t leaves to the others.                                  *)

Keeps(t) ==
    \A u \in Tasks : u # t =>
        /\ pc'[u] = pc[u] /\ loc'[u] = loc[u] /\ heap_end'[u] = heap_end[u]
        /\ pc[u] # "user" => cr3'[u] = cr3[u]

\* pc, loc and heap_end change at t at most.
OwnPlaces(t) ==
    /\ pc' = [pc EXCEPT ![t] = pc'[t]] /\ loc' = [loc EXCEPT ![t] = loc'[t]]
    /\ heap_end' = [heap_end EXCEPT ![t] = heap_end'[t]]

LEMMA OwnKeeps ==
    ASSUME TasksOK, NEW t \in Tasks, OwnPlaces(t), cr3' = cr3
    PROVE  Keeps(t)
BY DEF TasksOK, OwnPlaces, Keeps

LEMMA ChildKeeps ==
    ASSUME TasksOK, NEW t \in Tasks, OwnPlaces(t), NEW c \in Tasks, c = t \/ pc[c] = "user",
           NEW d, cr3' = [cr3 EXCEPT ![c] = d]
    PROVE  Keeps(t)
<1>1. \A u \in Tasks : u # c => cr3'[u] = cr3[u]
  BY DEF TasksOK
<1>2. \A u \in Tasks : u # t /\ pc[u] # "user" => cr3'[u] = cr3[u]
  BY <1>1
<1>3. \A u \in Tasks : u # t =>
          pc'[u] = pc[u] /\ loc'[u] = loc[u] /\ heap_end'[u] = heap_end[u]
  BY DEF TasksOK, OwnPlaces
<1> QED BY <1>2, <1>3 DEF Keeps

LEMMA OwnPlace ==
    ASSUME TasksOK, NEW t \in Tasks,
           pc' = pc \/ \E l : pc' = [pc EXCEPT ![t] = l],
           loc' = loc \/ \E r : loc' = [loc EXCEPT ![t] = r],
           heap_end' = heap_end \/ \E h : heap_end' = [heap_end EXCEPT ![t] = h]
    PROVE  OwnPlaces(t)
<1>1. pc' = [pc EXCEPT ![t] = pc'[t]]
  BY DEF TasksOK
<1>2. loc' = [loc EXCEPT ![t] = loc'[t]]
  BY DEF TasksOK
<1>3. heap_end' = [heap_end EXCEPT ![t] = heap_end'[t]]
  BY DEF TasksOK
<1> QED BY <1>1, <1>2, <1>3 DEF OwnPlaces

LEMMA ForkEndKeeps ==
    ASSUME VmOK, NEW t \in Tasks, NEW l \in Forks, At(t, l), NEW d, ForkEnd(t, d)
    PROVE  Keeps(t)
<1>1. PICK c : c = loc[t].child
  OBVIOUS
<1>2. c \in Tasks /\ pc[c] = "user"
  BY <1>1, ChildFacts
<1>3. cr3' = [cr3 EXCEPT ![c] = d]
  BY <1>1 DEF ForkEnd
<1>4. OwnPlaces(t)
  BY OwnPlace DEF ForkEnd, Return, Go, Set, VmOK, CoreOK
<1> QED BY <1>2, <1>3, <1>4, ChildKeeps DEF VmOK, CoreOK

LEMMA CallKeeps ==
    ASSUME VmOK, NEW t \in Tasks, Call(t)
    PROVE  Keeps(t)
<1> USE DEF VmOK, CoreOK
<1>1. ASSUME NEW c \in Tasks, ForkStack(t, c) PROVE OwnPlaces(t) /\ cr3' = cr3
  BY <1>1, OwnPlace DEF ForkStack, Go, Set
<1>2. ASSUME NEW q \in Programs, ExecDir(t, q) PROVE OwnPlaces(t) /\ cr3' = cr3
  BY <1>2, OwnPlace DEF ExecDir, Go, Set, taskVars
<1>3. ASSUME NEW n \in INCR, sys_sbrk(t, n) PROVE OwnPlaces(t) /\ cr3' = cr3
  BY <1>3, OwnPlace DEF sys_sbrk, Go, Set
<1>4. ASSUME sys_exit(t) PROVE OwnPlaces(t) /\ cr3' = cr3
  BY <1>4, OwnPlace DEF sys_exit
<1> QED BY <1>1, <1>2, <1>3, <1>4, OwnKeeps DEF Call

LEMMA StepKeeps ==
    ASSUME VmOK, NEW t \in Tasks, Step(t)
    PROVE  Keeps(t)
<1> USE DEF VmOK, CoreOK
<1>1. ASSUME ForkDir(t) PROVE Keeps(t)
  <2>1. PICK c : c = loc[t].child
    OBVIOUS
  <2>2. At(t, "fork_dir") /\ "fork_dir" \in Forks
    BY <1>1 DEF ForkDir, Forks
  <2>3. c \in Tasks /\ pc[c] = "user"
    BY <2>1, <2>2, ChildFacts
  <2>4. OwnPlaces(t)
    BY <1>1, OwnPlace DEF ForkDir, Go
  <2>5. CASE cr3' = cr3
    BY <2>4, <2>5, OwnKeeps
  <2>6. CASE cr3' # cr3
    <3>1. \E d : cr3' = [cr3 EXCEPT ![c] = d]
      BY <1>1, <2>1, <2>6 DEF ForkDir
    <3> QED BY <2>3, <2>4, <3>1, ChildKeeps
  <2> QED BY <2>5, <2>6
<1>2. ASSUME UndoStack(t) PROVE Keeps(t)
  BY <1>2, OwnPlace, OwnKeeps DEF UndoStack, Go
<1>3. ASSUME UndoUser(t) PROVE Keeps(t)
  BY <1>3, OwnPlace, OwnKeeps DEF UndoUser, Return, Go, Set
<1>4. ASSUME CopyDir(t) PROVE Keeps(t)
  <2>1. At(t, "copy_dir") /\ "copy_dir" \in Forks
    BY <1>4 DEF CopyDir, Forks
  <2>2. CASE ForkEnd(t, BAD)
    BY <2>1, <2>2, ForkEndKeeps
  <2>3. CASE ~ ForkEnd(t, BAD)
    BY <1>4, <2>3, OwnPlace, OwnKeeps DEF CopyDir, Go, Set, taskVars
  <2> QED BY <2>2, <2>3
<1>5. ASSUME CopyPage(t) PROVE Keeps(t)
  BY <1>5, OwnPlace, OwnKeeps DEF CopyPage, Destroy, Go, Set, taskVars
<1>6. ASSUME CopyMap(t) PROVE Keeps(t)
  BY <1>6, OwnPlace, OwnKeeps DEF CopyMap, Destroy, Go, Set, taskVars
<1>7. ASSUME CopyDone(t) PROVE Keeps(t)
  <2>1. At(t, "copy") /\ "copy" \in Forks /\ ForkEnd(t, loc[t].dir)
    BY <1>7 DEF CopyDone, Forks
  <2>2. PICK d : d = loc[t].dir
    OBVIOUS
  <2> QED BY <2>1, <2>2, ForkEndKeeps
<1>8. ASSUME ExecNoFile(t) PROVE Keeps(t)
  BY <1>8, OwnPlace, OwnKeeps DEF ExecNoFile, Destroy, Go, Set, taskVars
<1>9. ASSUME ExecArgs(t) PROVE Keeps(t)
  <2>1. OwnPlaces(t)
    BY <1>9, OwnPlace DEF ExecArgs, Destroy, Go, Set
  <2>2. CASE cr3' = cr3
    BY <2>1, <2>2, OwnKeeps
  <2>3. CASE cr3' # cr3
    <3>1. PICK d : cr3' = [cr3 EXCEPT ![t] = d]
      BY <1>9, <2>3 DEF ExecArgs
    <3> QED BY <2>1, <3>1, ChildKeeps
  <2> QED BY <2>2, <2>3
<1>10. ASSUME AllocPage(t) PROVE Keeps(t)
  BY <1>10, OwnPlace, OwnKeeps DEF AllocPage, Go, Set
<1>11. ASSUME MapPage(t) PROVE Keeps(t)
  BY <1>11, OwnPlace, OwnKeeps DEF MapPage, Destroy, Return, Go, Set, taskVars
<1>12. ASSUME SbrkDone(t) PROVE Keeps(t)
  BY <1>12, OwnPlace, OwnKeeps DEF SbrkDone, Return, Go, Set
<1>13. ASSUME DestroyStep(t) PROVE Keeps(t)
  <2>1. PICK k : /\ At(t, pc[t]) /\ pc[t] \in {"undo_copy", "destroy"}
                 /\ k # LastPos => loc' = [loc EXCEPT ![t] = Space(loc[t].dir, NULL, k + 1, loc[t].child)]
                                   /\ UNCHANGED <<taskVars, pc>>
                 /\ k = LastPos /\ pc[t] = "undo_copy" => ForkEnd(t, BAD)
                 /\ k = LastPos /\ pc[t] = "destroy" => Return(t) /\ UNCHANGED taskVars
    BY <1>13, DestroyIs DEF Set
  <2>2. CASE k # LastPos
    BY <2>1, <2>2, OwnPlace, OwnKeeps DEF taskVars
  <2>3. CASE k = LastPos /\ pc[t] = "undo_copy"
    <3>1. At(t, "undo_copy") /\ "undo_copy" \in Forks /\ ForkEnd(t, BAD)
      BY <2>1, <2>3 DEF Forks
    <3> QED BY <3>1, ForkEndKeeps
  <2>4. CASE k = LastPos /\ pc[t] = "destroy"
    BY <2>1, <2>4, OwnPlace, OwnKeeps DEF taskVars, Return, Go, Set
  <2> QED BY <2>1, <2>2, <2>3, <2>4
<1> QED BY <1>1, <1>2, <1>3, <1>4, <1>5, <1>6, <1>7, <1>8, <1>9, <1>10, <1>11, <1>12, <1>13 DEF Step
-----------------------------------------------------------------------------
(* The mappings a step of t changes: at most one, in a directory it fills, *)
(* or in its own.                                                          *)

OwnEdit(t, v) ==
    \/ pc[t] = "undo_user" /\ v = ESP[runs[t]]
    \/ pc[t] = "map" /\ loc[t].dir = cr3[t] /\ v = Head(Head(loc[t].todo))

Edits(t) == \E tag, v : OnlyAt(t, tag, v) /\ (tag = "cr3" => OwnEdit(t, v))

LEMMA QuietEdits ==
    ASSUME NEW t, pde' = pde, pte' = pte
    PROVE  Edits(t)
<1>1. PICK tag, v : tag = "none" /\ v = 0
  OBVIOUS
<1>2. OnlyAt(t, tag, v)
  BY QuietMaps
<1> QED BY <1>1, <1>2 DEF Edits

LEMMA UvmEdits ==
    ASSUME VmOK, NEW t, addr_alloc_page # NULL, memory_create_uvm(addr_alloc_page)
    PROVE  Edits(t) /\ \A w \in VPages : Maps(pde', pte', addr_alloc_page, w) = NULL
<1>1. PICK tag, v, p : tag = "none" /\ v = 0 /\ p = addr_alloc_page
  OBVIOUS
<1>2. p \in Pages /\ p \notin bitmap /\ memory_create_uvm(p)
  BY <1>1, Marked, FreshPage DEF VmOK, CoreOK
<1>3. OnlyAt(t, tag, v) /\ \A w \in VPages : Maps(pde', pte', p, w) = NULL
  BY <1>2, UvmMaps
<1> QED BY <1>1, <1>3 DEF Edits

LEMMA UndoUserEdits ==
    ASSUME VmOK, NEW t \in Tasks, UndoUser(t)
    PROVE  Edits(t)
<1> USE DEF VmOK, CoreOK
<1>1. PICK d, v, i, j, a, p, tag, none :
          /\ d = cr3[t] /\ v = ESP[runs[t]] /\ i = pde_index(v) /\ j = pte_index(v) /\ a = pde[d][i]
          /\ p = find_pte(d, v) /\ tag = "cr3" /\ none = NULL
  OBVIOUS
<1>2. /\ At(t, "undo_user") /\ pde' = pde
      /\ pte' = IF p = NULL THEN pte ELSE [pte EXCEPT ![a][j] = none]
  BY <1>1 DEF UndoUser, memory_free_page
<1>3. pc[t] = "undo_user" /\ d \in Pages
  BY <1>1, <1>2, RunIs
<1>4. CASE p = NULL
  BY <1>2, <1>4, QuietEdits
<1>5. CASE p # NULL
  <2>1. a # NULL
    BY <1>1, <1>5 DEF find_pte
  <2>2. TableIs(pde, d, i, a) /\ PageSet(pte, pte', a, j, none) /\ Rooted(tag, t, d)
    BY <1>1, <1>2, <1>5 DEF TableIs, PageSet, Rooted
  <2>3. v \in VPages /\ i = pde_index(v) /\ j = pte_index(v)
    BY <1>1, ProgramAssumption DEF ProgOK
  <2>4. OnlyAt(t, tag, v)
    BY <1>2, <1>3, <2>1, <2>2, <2>3, EntryMaps
  <2>5. OwnEdit(t, v)
    BY <1>1, <1>3 DEF OwnEdit
  <2> QED BY <2>4, <2>5 DEF Edits
<1> QED BY <1>4, <1>5

LEMMA CopyMapEdits ==
    ASSUME VmOK, NEW t \in Tasks, CopyMap(t), CanMap(loc[t].dir, loc[t].pos)
    PROVE  /\ OnlyAt(t, "dir", loc[t].pos)
           /\ Maps(pde', pte', loc[t].dir, loc[t].pos) = loc[t].page
<1> USE DEF VmOK, CoreOK
<1>1. PICK d, p, v, tag : d = loc[t].dir /\ p = loc[t].page /\ v = loc[t].pos /\ tag = "dir"
  OBVIOUS
<1>2. At(t, "copy_map") /\ memory_create_map(d, v, p) /\ CanMap(d, v)
  BY <1>1 DEF CopyMap
<1>3. pc[t] = "copy_map" /\ cr3[t] \in Pages /\ LocIs("copy_map", loc[t], cr3[t])
  BY <1>2, RunIs
<1>4. d \in Pages /\ d # cr3[t] /\ v \in VPages
  BY <1>1, <1>3 DEF LocIs, Others
<1>5. Rooted(tag, t, d)
  BY <1>1, <1>3, <1>4 DEF Rooted, Other, Start
<1>6. OnlyAt(t, tag, v) /\ Maps(pde', pte', d, v) = p
  BY <1>2, <1>4, <1>5, CreateMaps
<1> QED BY <1>1, <1>6

LEMMA MapPageEdits ==
    ASSUME VmOK, NEW t \in Tasks, MapPage(t)
    PROVE  Edits(t)
<1> USE DEF VmOK, CoreOK
<1>1. PICK d, p, segs, v : d = loc[t].dir /\ p = loc[t].page /\ segs = loc[t].todo /\ v = Head(Head(segs))
  OBVIOUS
<1>2. At(t, "map")
  BY DEF MapPage
<1>3. pc[t] = "map" /\ cr3[t] \in Pages /\ LocIs("map", loc[t], cr3[t])
  BY <1>2, RunIs
<1>4. "map" \in Fills
  BY DEF Fills
<1>5. d \in Pages /\ segs \in Seq(Seq(VPages)) /\ segs # <<>> /\ Head(segs) # <<>>
  BY <1>1, <1>3, <1>4, FillIs
<1>6. PICK first : first = Head(segs)
  OBVIOUS
<1>7. first \in Seq(VPages) /\ first # <<>>
  BY <1>5, <1>6, SeqFacts
<1>8. v \in VPages
  BY <1>1, <1>6, <1>7, SeqFacts
<1>9. CASE CanMap(d, v)
  <2>1. memory_create_map(d, v, p)
    BY <1>1, <1>9 DEF MapPage
  <2>2. PICK tag : tag = IF d = cr3[t] THEN "cr3" ELSE "dir"
    OBVIOUS
  <2>3. Rooted(tag, t, d)
    BY <1>1, <1>3, <2>2 DEF Rooted, Other, Start
  <2>4. OnlyAt(t, tag, v)
    BY <1>5, <1>8, <1>9, <2>1, <2>3, CreateMaps
  <2>5. tag = "cr3" => OwnEdit(t, v)
    BY <1>1, <1>3, <2>2 DEF OwnEdit
  <2> QED BY <2>4, <2>5 DEF Edits
<1>10. CASE ~ CanMap(d, v)
  BY <1>1, <1>10, QuietEdits DEF MapPage, memVars
<1> QED BY <1>9, <1>10
LEMMA StepEdits ==
    ASSUME VmOK, NEW t \in Tasks, Call(t) \/ Step(t)
    PROVE  Edits(t)
<1>1. ASSUME ForkDir(t) PROVE Edits(t)
  BY <1>1, QuietEdits, UvmEdits DEF ForkDir, memVars
<1>2. ASSUME CopyDir(t) PROVE Edits(t)
  BY <1>2, QuietEdits, UvmEdits DEF CopyDir, memVars
<1>3. ASSUME NEW q \in Programs, ExecDir(t, q) PROVE Edits(t)
  BY <1>3, UvmEdits DEF ExecDir
<1>4. ASSUME CopyMap(t) PROVE Edits(t)
  <2>1. PICK d, v, tag : d = loc[t].dir /\ v = loc[t].pos /\ tag = "dir"
    OBVIOUS
  <2>2. CASE CanMap(d, v)
    <3>1. OnlyAt(t, tag, v)
      BY <1>4, <2>1, <2>2, CopyMapEdits
    <3> QED BY <2>1, <3>1 DEF Edits
  <2>3. CASE ~ CanMap(d, v)
    BY <1>4, <2>1, <2>3, QuietEdits DEF CopyMap, memVars
  <2> QED BY <2>2, <2>3
<1>5. ASSUME DestroyStep(t) PROVE Edits(t)
  BY <1>5, QuietEdits DEF DestroyStep
<1>6. CASE Call(t)
  <2>1. ASSUME NEW c \in Tasks, ForkStack(t, c) PROVE Edits(t)
    BY <2>1, QuietEdits DEF ForkStack
  <2>2. ASSUME NEW n \in INCR, sys_sbrk(t, n) PROVE Edits(t)
    BY <2>2, QuietEdits DEF sys_sbrk, memVars
  <2>3. ASSUME sys_exit(t) PROVE Edits(t)
    BY <2>3, QuietEdits DEF sys_exit, memVars
  <2> QED BY <1>3, <1>6, <2>1, <2>2, <2>3 DEF Call
<1>7. CASE Step(t)
  <2>1. ASSUME UndoStack(t) PROVE Edits(t)
    BY <2>1, QuietEdits DEF UndoStack
  <2>2. ASSUME CopyPage(t) PROVE Edits(t)
    BY <2>2, QuietEdits DEF CopyPage
  <2>3. ASSUME CopyDone(t) PROVE Edits(t)
    BY <2>3, QuietEdits DEF CopyDone, memVars
  <2>4. ASSUME ExecNoFile(t) PROVE Edits(t)
    BY <2>4, QuietEdits DEF ExecNoFile, memVars
  <2>5. ASSUME ExecArgs(t) PROVE Edits(t)
    BY <2>5, QuietEdits DEF ExecArgs, memVars
  <2>6. ASSUME AllocPage(t) PROVE Edits(t)
    BY <2>6, QuietEdits DEF AllocPage
  <2>7. ASSUME SbrkDone(t) PROVE Edits(t)
    BY <2>7, QuietEdits DEF SbrkDone, memVars
  <2> QED BY <1>1, <1>2, <1>4, <1>5, <1>7, <2>1, <2>2, <2>3, <2>4, <2>5, <2>6, <2>7,
             UndoUserEdits, MapPageEdits DEF Step
<1> QED BY <1>6, <1>7

-----------------------------------------------------------------------------
(* sys_sbrk maps nothing below the end of the heap.                        *)

Beyond(todo, h) ==
    \A n \in DOMAIN todo : \A m \in DOMAIN todo[n] : h <= todo[n][m] * PAGE_SIZE

HeapIs(l, r, d, h) == l \in Fills /\ r.dir = d => Beyond(r.todo, h)

HeapOK == \A t \in Tasks : HeapIs(pc[t], loc[t], cr3[t], heap_end[t])

\* A step of t makes true what HeapOK says of t.
LEMMA HeapStep ==
    ASSUME VmOK, HeapOK, NEW t \in Tasks, Keeps(t),
           HeapIs(pc'[t], loc'[t], cr3'[t], heap_end'[t])
    PROVE  HeapOK'
<1>1. ASSUME NEW u \in Tasks, u # t
      PROVE  HeapIs(pc'[u], loc'[u], cr3'[u], heap_end'[u])
  <2>1. HeapIs(pc[u], loc[u], cr3[u], heap_end[u])
    BY DEF HeapOK
  <2>2. CASE pc[u] = "user"
    BY <1>1, <2>2 DEF Keeps, HeapIs, Fills
  <2>3. CASE pc[u] # "user"
    BY <1>1, <2>1, <2>3 DEF Keeps
  <2> QED BY <2>2, <2>3
<1>2. \A u \in Tasks : HeapIs(pc'[u], loc'[u], cr3'[u], heap_end'[u])
  BY <1>1
<1> QED BY <1>2 DEF HeapOK

LEMMA TailBeyond ==
    ASSUME NEW todo \in Seq(Seq(VPages)), todo # <<>>, NEW h, Beyond(todo, h),
           NEW rest, rest = Tail(todo)
    PROVE  Beyond(rest, h)
<1>1. \A n \in DOMAIN rest : n + 1 \in DOMAIN todo /\ rest[n] = todo[n + 1]
  OBVIOUS
<1> QED BY <1>1 DEF Beyond

LEMMA NextBeyond ==
    ASSUME NEW todo \in Seq(Seq(VPages)), todo # <<>>, NEW h, Beyond(todo, h),
           NEW first, first = Head(todo), first \in Seq(VPages), first # <<>>,
           NEW rest, rest = <<Tail(first)>> \o Tail(todo)
    PROVE  Beyond(rest, h) /\ h <= Head(first) * PAGE_SIZE
<1>1. Tail(first) \in Seq(VPages) /\ Tail(todo) \in Seq(Seq(VPages))
  BY SeqFacts
<1>2. /\ first = todo[1] /\ 1 \in DOMAIN todo /\ 1 \in DOMAIN first /\ Head(first) = first[1]
  OBVIOUS
<1>3. h <= Head(first) * PAGE_SIZE
  BY <1>2 DEF Beyond
<1>4. \A m \in DOMAIN Tail(first) : m + 1 \in DOMAIN first /\ Tail(first)[m] = first[m + 1]
  OBVIOUS
<1>5. PICK one, more : one = Tail(first) /\ more = Tail(todo)
  OBVIOUS
<1>6. rest[1] = one /\ \A n \in DOMAIN rest : n # 1 => n - 1 \in DOMAIN more /\ rest[n] = more[n - 1]
  BY <1>1, <1>5
<1>7. \A n \in DOMAIN more : n + 1 \in DOMAIN todo /\ more[n] = todo[n + 1]
  BY <1>5
<1>8. Beyond(more, h)
  BY <1>7 DEF Beyond
<1>9. \A m \in DOMAIN one : h <= one[m] * PAGE_SIZE
  BY <1>2, <1>4, <1>5 DEF Beyond
<1>10. ASSUME NEW n \in DOMAIN rest PROVE \A m \in DOMAIN rest[n] : h <= rest[n][m] * PAGE_SIZE
  <2>1. CASE n = 1
    BY <1>6, <1>9, <2>1
  <2>2. CASE n # 1
    <3>1. PICK k, s : k = n - 1 /\ s = rest[n]
      OBVIOUS
    <3>2. k \in DOMAIN more /\ s = more[k]
      BY <1>6, <2>2, <3>1
    <3>3. \A m \in DOMAIN s : h <= s[m] * PAGE_SIZE
      BY <1>8, <3>2 DEF Beyond
    <3> QED BY <3>1, <3>3
  <2> QED BY <2>1, <2>2
<1>11. Beyond(rest, h)
  BY <1>10 DEF Beyond
<1> QED BY <1>3, <1>11
LEMMA AwayHeap ==
    ASSUME VmOK, HeapOK, NEW t \in Tasks, Keeps(t), pc'[t] \notin Fills
    PROVE  HeapOK'
<1>1. HeapIs(pc'[t], loc'[t], cr3'[t], heap_end'[t])
  BY DEF HeapIs
<1> QED BY <1>1, HeapStep

\* The pages of a sys_sbrk are beyond the end of the heap.
LEMMA SbrkBeyond ==
    ASSUME NEW h \in Nat, NEW n \in Int, NEW todo, todo = <<SbrkPages(h, n)>>
    PROVE  Beyond(todo, h)
<1> DEFINE P == PAGE_SIZE
           count == (h + n - SbrkFrom(h) + P - 1) \div P
<1>1. P \in Nat /\ P > 0
  BY Sizes
<1>2. PICK q \in Nat : SbrkFrom(h) = q * P /\ SbrkFrom(h) >= h
  BY FromBorder
<1>3. SbrkFrom(h) \div P = q
  <2>1. (q * P + 0) \div P = q
    BY <1>1, Divides
  <2>2. q * P \in Nat
    BY <1>1
  <2> QED BY <1>2, <2>1, <2>2
<1>4. PICK s, k : k = count /\ s = [i \in 1 .. k |-> q + i - 1] /\ s = SbrkPages(h, n)
  BY <1>1, <1>3 DEF SbrkPages, AllocPages
<1> HIDE DEF P, count
<1>5. ASSUME NEW m \in DOMAIN s PROVE h <= s[m] * P
  <2>1. m \in Nat /\ m >= 1 /\ s[m] = q + (m - 1) /\ m - 1 \in Nat
    BY <1>4
  <2>2. (q + (m - 1)) * P = q * P + (m - 1) * P /\ (m - 1) * P \in Nat /\ q * P \in Nat
    BY <1>1, <1>2, <2>1
  <2> QED BY <1>2, <2>1, <2>2
<1>6. DOMAIN todo = {1} /\ todo[1] = s
  BY <1>4
<1> QED BY <1>5, <1>6 DEF Beyond, P
LEMMA SbrkHeap ==
    ASSUME VmOK, HeapOK, NEW t \in Tasks, Keeps(t), NEW n \in INCR, sys_sbrk(t, n)
    PROVE  HeapOK'
<1> USE DEF VmOK, CoreOK
<1>1. PICK h, d : h = heap_end[t] /\ d = cr3[t]
  OBVIOUS
<1>2. At(t, "user")
  BY DEF sys_sbrk
<1>3. pc[t] = "user"
  BY <1>2 DEF At
<1>4. CASE pc' = pc
  <2>1. pc'[t] \notin Fills
    BY <1>3, <1>4 DEF Fills
  <2> QED BY <2>1, AwayHeap
<1>5. CASE pc' # pc
  <2>1. PICK todo, end, no, none : /\ todo = <<SbrkPages(h, n)>> /\ end = h + n /\ no = FALSE
                                   /\ none = NULL
    OBVIOUS
  <2>2. PICK r : r = Fill(d, none, todo, end, no)
    OBVIOUS
  <2>3. loc' = [loc EXCEPT ![t] = r] /\ heap_end' = heap_end
    BY <1>1, <1>5, <2>1, <2>2 DEF sys_sbrk, Set
  <2>4. r.todo = todo
    BY <2>2 DEF Fill
  <2>5. loc'[t] = r /\ heap_end'[t] = h
    BY <1>1, <2>3 DEF TasksOK
  <2>6. h \in Nat /\ n \in Int
    BY <1>1, IncrAssumption DEF TasksOK
  <2>7. Beyond(todo, h)
    BY <2>1, <2>6, SbrkBeyond
  <2>8. HeapIs(pc'[t], loc'[t], cr3'[t], heap_end'[t])
    BY <2>4, <2>5, <2>7 DEF HeapIs
  <2> QED BY <2>8, HeapStep
<1> QED BY <1>4, <1>5

LEMMA ExecDirHeap ==
    ASSUME VmOK, HeapOK, NEW t \in Tasks, Keeps(t), NEW q \in Programs, ExecDir(t, q)
    PROVE  HeapOK'
<1> USE DEF VmOK, CoreOK
<1>1. PICK p, r : p = addr_alloc_page /\ r = Fill(p, NULL, Segments(q), 0, FALSE)
  OBVIOUS
<1>2. At(t, "user") /\ loc' = [loc EXCEPT ![t] = r] /\ cr3' = cr3 /\ p # NULL
  BY <1>1 DEF ExecDir, Set, taskVars
<1>3. cr3[t] \in Pages
  BY <1>2, RunIs
<1>4. cr3[t] \in bitmap
  BY <1>3, Cr3Marked
<1>5. p \notin bitmap
  BY <1>1, <1>2, Marked, FreshPage
<1>6. loc'[t] = r /\ r.dir = p
  BY <1>1, <1>2 DEF TasksOK, Fill
<1>7. HeapIs(pc'[t], loc'[t], cr3'[t], heap_end'[t])
  BY <1>2, <1>4, <1>5, <1>6 DEF HeapIs
<1> QED BY <1>7, HeapStep

LEMMA AllocHeap ==
    ASSUME VmOK, HeapOK, NEW t \in Tasks, Keeps(t), AllocPage(t)
    PROVE  HeapOK'
<1> USE DEF VmOK, CoreOK
<1>1. PICK d, segs, h, p : d = loc[t].dir /\ segs = loc[t].todo /\ h = heap_end[t] /\ p = addr_alloc_page
  OBVIOUS
<1>2. At(t, "alloc") /\ segs # <<>> /\ cr3' = cr3
  BY <1>1 DEF AllocPage
<1>3. pc[t] = "alloc" /\ LocIs("alloc", loc[t], cr3[t]) /\ "alloc" \in Fills
  BY <1>2, RunIs DEF Fills
<1>4. segs \in Seq(Seq(VPages))
  BY <1>1, <1>3, FillIs
<1>5. CASE d # cr3[t]
  <2>1. loc'[t].dir = d
    BY <1>1 DEF AllocPage, Set, Fill, TasksOK
  <2>2. HeapIs(pc'[t], loc'[t], cr3'[t], heap_end'[t])
    BY <1>2, <1>5, <2>1 DEF HeapIs
  <2> QED BY <2>2, HeapStep
<1>6. CASE d = cr3[t]
  <2>0. HeapIs(pc[t], loc[t], cr3[t], heap_end[t])
    BY DEF HeapOK
  <2>1. Beyond(segs, h)
    BY <1>1, <1>3, <1>6, <2>0 DEF HeapIs
  <2>2. PICK rest : rest = Tail(segs)
    OBVIOUS
  <2>3. Beyond(rest, h)
    BY <1>2, <1>4, <2>1, <2>2, TailBeyond
  <2>4. heap_end'[t] = h
    BY <1>1, <1>6 DEF AllocPage
  <2>5. loc'[t].todo \in {segs, rest}
    BY <1>1, <2>2 DEF AllocPage, Set, Fill, TasksOK
  <2>6. HeapIs(pc'[t], loc'[t], cr3'[t], heap_end'[t])
    BY <2>1, <2>3, <2>4, <2>5 DEF HeapIs
  <2> QED BY <2>6, HeapStep
<1> QED BY <1>5, <1>6

\* The address MapPage maps.
LEMMA MapAddress ==
    ASSUME VmOK, NEW t \in Tasks, At(t, "map"), NEW segs, segs = loc[t].todo,
           NEW first, first = Head(segs)
    PROVE  /\ segs \in Seq(Seq(VPages)) /\ segs # <<>> /\ first \in Seq(VPages) /\ first # <<>>
           /\ Head(first) \in VPages
<1>1. LocIs("map", loc[t], cr3[t]) /\ "map" \in Fills
  BY RunIs DEF VmOK, CoreOK, Fills
<1>2. segs \in Seq(Seq(VPages)) /\ segs # <<>> /\ first # <<>>
  BY <1>1, FillIs
<1>3. first \in Seq(VPages)
  BY <1>2, SeqFacts
<1> QED BY <1>2, <1>3, SeqFacts

LEMMA MapHeap ==
    ASSUME VmOK, HeapOK, NEW t \in Tasks, Keeps(t), MapPage(t)
    PROVE  HeapOK'
<1> USE DEF VmOK, CoreOK
<1>1. PICK d, segs, first, h : d = loc[t].dir /\ segs = loc[t].todo /\ first = Head(segs) /\ h = heap_end[t]
  OBVIOUS
<1>2. At(t, "map") /\ cr3' = cr3 /\ heap_end' = heap_end
  BY DEF MapPage, taskVars
<1>3. pc[t] = "map"
  BY <1>2 DEF At
<1>4. segs \in Seq(Seq(VPages)) /\ segs # <<>> /\ first \in Seq(VPages) /\ first # <<>>
  BY <1>1, <1>2, MapAddress
<1>5. CASE CanMap(d, Head(first))
  <2>1. PICK rest : rest = <<Tail(first)>> \o Tail(segs)
    OBVIOUS
  <2>2. loc'[t].dir = d /\ loc'[t].todo = rest
    <3>1. PICK r : r = Fill(d, NULL, rest, loc[t].end, loc[t].lack)
      OBVIOUS
    <3>2. loc' = [loc EXCEPT ![t] = r]
      BY <1>1, <1>5, <2>1, <3>1 DEF MapPage, Set
    <3>3. loc'[t] = r
      BY <3>2 DEF TasksOK
    <3> QED BY <3>1, <3>3 DEF Fill
  <2>3. HeapIs(pc[t], loc[t], cr3[t], heap_end[t])
    BY DEF HeapOK
  <2>4. d = cr3[t] => Beyond(segs, h)
    BY <1>1, <1>3, <2>3 DEF HeapIs, Fills
  <2>5. d = cr3[t] => Beyond(rest, h)
    BY <1>1, <1>4, <2>1, <2>4, NextBeyond
  <2>6. HeapIs(pc'[t], loc'[t], cr3'[t], heap_end'[t])
    BY <1>1, <1>2, <2>2, <2>5 DEF HeapIs
  <2> QED BY <2>6, HeapStep
<1>6. CASE ~ CanMap(d, Head(first))
  <2>1. pc'[t] \in {"user", "destroy"}
    BY <1>1, <1>6 DEF MapPage, Return, Destroy, Go, TasksOK
  <2>2. pc'[t] \notin Fills
    BY <2>1 DEF Fills
  <2> QED BY <2>2, AwayHeap
<1> QED BY <1>5, <1>6

LEMMA HeapNext ==
    ASSUME VmOK, HeapOK, [Next]_vars
    PROVE  HeapOK'
<1> USE DEF VmOK, CoreOK
<1>0. CASE UNCHANGED vars
  BY <1>0 DEF vars, HeapOK, HeapIs, Beyond
<1>1. ASSUME NEW t \in Tasks, Call(t) PROVE HeapOK'
  <2>0. Keeps(t)
    BY <1>1, CallKeeps
  <2>1. ASSUME NEW c \in Tasks, ForkStack(t, c) PROVE pc'[t] \notin Fills
    BY <2>1 DEF ForkStack, Go, Fills, TasksOK
  <2>2. ASSUME sys_exit(t) PROVE pc'[t] \notin Fills
    BY <2>2 DEF sys_exit, At, Fills
  <2>3. ASSUME NEW n \in INCR, sys_sbrk(t, n) PROVE HeapOK'
    BY <2>0, <2>3, SbrkHeap
  <2>4. ASSUME NEW p \in Programs, ExecDir(t, p) PROVE HeapOK'
    BY <2>0, <2>4, ExecDirHeap
  <2> QED BY <1>1, <2>0, <2>1, <2>2, <2>3, <2>4, AwayHeap DEF Call
<1>2. ASSUME NEW t \in Tasks, Step(t) PROVE HeapOK'
  <2>0. Keeps(t)
    BY <1>2, StepKeeps
  <2>1. ASSUME ForkDir(t) \/ UndoStack(t) \/ UndoUser(t) PROVE pc'[t] \notin Fills
    BY <2>1 DEF ForkDir, UndoStack, UndoUser, Return, Go, Fills, TasksOK
  <2>2. ASSUME CopyDir(t) \/ CopyPage(t) \/ CopyMap(t) \/ CopyDone(t) PROVE pc'[t] \notin Fills
    BY <2>2 DEF CopyDir, CopyPage, CopyMap, CopyDone, ForkEnd, Destroy, Return, Go, Fills, TasksOK
  <2>3. ASSUME ExecNoFile(t) \/ ExecArgs(t) \/ SbrkDone(t) PROVE pc'[t] \notin Fills
    BY <2>3 DEF ExecNoFile, ExecArgs, SbrkDone, Destroy, Return, Go, Fills, TasksOK
  <2>4. ASSUME DestroyStep(t) PROVE pc'[t] \notin Fills
    <3>1. pc[t] \in {"undo_copy", "destroy"} /\ (pc' = pc \/ pc' = [pc EXCEPT ![t] = "user"])
      BY <2>4 DEF DestroyStep, ForkEnd, Return, Go
    <3> QED BY <3>1 DEF Fills, TasksOK
  <2> QED BY <1>2, <2>0, <2>1, <2>2, <2>3, <2>4, AllocHeap, MapHeap, AwayHeap DEF Step
<1> QED BY <1>0, <1>1, <1>2 DEF Next
LEMMA HeapInit ==
    ASSUME Init
    PROVE  HeapOK
<1>1. \A t \in Tasks : pc[t] = "user"
  BY DEF Init
<1> QED BY <1>1 DEF HeapOK, HeapIs, Fills

\* The mapping of v in the address space of u, through a step.
LEMMA MappingKept ==
    ASSUME VmOK, HeapOK, NEW t \in Tasks, Edits(t), NEW u \in Tasks, slot[u] = "run",
           cr3[u] \in Pages, NEW v \in VPages
    PROVE  \/ Maps(pde', pte', cr3[u], v) = Maps(pde, pte, cr3[u], v)
           \/ pc[u] = "undo_user" /\ v = ESP[runs[u]]
           \/ pc[u] = "map" /\ ~OtherDir(u) /\ v * PAGE_SIZE >= heap_end[u]
<1> USE DEF VmOK, CoreOK
<1>1. PICK tag, w : OnlyAt(t, tag, w) /\ (tag = "cr3" => OwnEdit(t, w))
  BY DEF Edits
<1>2. PICK d, own : d = cr3[u] /\ own = "cr3"
  OBVIOUS
<1>3. Rooted(own, u, d) /\ d \in Pages
  BY <1>2 DEF Rooted
<1>4. Maps(pde', pte', d, v) = Maps(pde, pte, d, v) \/ (own = tag /\ u = t /\ v = w)
  BY <1>1, <1>2, <1>3 DEF OnlyAt
<1>5. ASSUME own = tag, u = t, v = w, pc[u] # "undo_user"
      PROVE  pc[u] = "map" /\ ~OtherDir(u) /\ v * PAGE_SIZE >= heap_end[u]
  <2>1. pc[u] = "map" /\ loc[u].dir = cr3[u] /\ v = Head(Head(loc[u].todo))
    BY <1>1, <1>2, <1>5 DEF OwnEdit
  <2>2. At(u, "map")
    BY <2>1, Sizes, SizeAssumption DEF At
  <2>3. PICK segs, first, h, rest : /\ segs = loc[u].todo /\ first = Head(segs) /\ h = heap_end[u]
                                    /\ rest = <<Tail(first)>> \o Tail(segs)
    OBVIOUS
  <2>4. segs \in Seq(Seq(VPages)) /\ segs # <<>> /\ first \in Seq(VPages) /\ first # <<>>
    BY <2>2, <2>3, MapAddress
  <2>5. HeapIs(pc[u], loc[u], cr3[u], heap_end[u])
    BY DEF HeapOK
  <2>6. Beyond(segs, h)
    BY <2>1, <2>3, <2>5 DEF HeapIs, Fills
  <2>7. h <= Head(first) * PAGE_SIZE
    BY <2>3, <2>4, <2>6, NextBeyond
  <2>8. v \in Nat /\ h \in Nat /\ v = Head(first) /\ PAGE_SIZE \in Nat
    BY <2>1, <2>3, Sizes DEF VPages, TasksOK
  <2>9. v * PAGE_SIZE >= h
    BY <2>7, <2>8
  <2> QED BY <2>1, <2>3, <2>9 DEF OtherDir
<1>6. own = tag /\ u = t /\ v = w /\ pc[u] = "undo_user" => v = ESP[runs[u]]
  BY <1>1, <1>2 DEF OwnEdit
<1> QED BY <1>2, <1>4, <1>5, <1>6

\* The mappings of an address space in use are kept: however the system calls of the
\* tasks are interleaved, no step takes a mapped page away or puts another in its
\* place, but for the stack page of a failed fork and for pages beyond the heap.
THEOREM AddressesKept == Spec => MappingsKept
<1>1. VmOK /\ HeapOK /\ [Next]_vars => HeapOK'
  BY HeapNext
<1>2. Init => HeapOK
  BY HeapInit
<1>3. ASSUME VmOK, HeapOK, [Next]_vars
      PROVE  [\A t \in Tasks :
                slot[t] = "run" /\ cr3[t] \in Pages /\ cr3'[t] = cr3[t] =>
                    \A v \in Mapped(cr3[t]) :
                        \/ find_pte(cr3[t], v)' = find_pte(cr3[t], v)
                        \/ pc[t] = "undo_user" /\ v = ESP[runs[t]]
                        \/ pc[t] = "map" /\ ~OtherDir(t) /\ v * PAGE_SIZE >= heap_end[t]]_vars
  <2> SUFFICES ASSUME Next, NEW u \in Tasks, slot[u] = "run", cr3[u] \in Pages, cr3'[u] = cr3[u],
                      NEW v \in Mapped(cr3[u])
               PROVE  \/ find_pte(cr3[u], v)' = find_pte(cr3[u], v)
                      \/ pc[u] = "undo_user" /\ v = ESP[runs[u]]
                      \/ pc[u] = "map" /\ ~OtherDir(u) /\ v * PAGE_SIZE >= heap_end[u]
    BY <1>3
  <2>1. PICK t \in Tasks : Call(t) \/ Step(t)
    BY DEF Next
  <2>2. Edits(t)
    BY <1>3, <2>1, StepEdits
  <2>3. v \in VPages
    BY DEF Mapped
  <2>4. \/ Maps(pde', pte', cr3[u], v) = Maps(pde, pte, cr3[u], v)
        \/ pc[u] = "undo_user" /\ v = ESP[runs[u]]
        \/ pc[u] = "map" /\ ~OtherDir(u) /\ v * PAGE_SIZE >= heap_end[u]
    BY <1>3, <2>2, <2>3, MappingKept
  <2> QED BY <2>4 DEF Maps, find_pte
<1> QED BY <1>1, <1>2, <1>3, VmSafe, PTL DEF Spec, MappingsKept
-----------------------------------------------------------------------------
(* What memory_copy_uvm has copied.                                        *)

\* The directory of r has the mappings of d before the position of r.
CopyIs(l, r, d, pd, pt) ==
    l \in {"copy", "copy_map"} =>
        /\ \A v \in VPages : Maps(pd, pt, r.dir, v) # NULL <=> v < r.pos /\ Maps(pd, pt, d, v) # NULL
        /\ l = "copy_map" => Maps(pd, pt, d, r.pos) # NULL

CopyOK == \A t \in Tasks : CopyIs(pc[t], loc[t], cr3[t], pde, pte)

\* The directories of a task in memory_copy_uvm.
LEMMA CopyRoots ==
    ASSUME VmOK, NEW u \in Tasks, pc[u] \in {"copy", "copy_map"}
    PROVE  /\ cr3[u] \in Pages /\ loc[u].dir \in Pages /\ loc[u].pos \in Nat
           /\ Rooted("cr3", u, cr3[u]) /\ Rooted("dir", u, loc[u].dir)
<1>1. LocIs(pc[u], loc[u], cr3[u]) /\ SlotIs(pc[u], slot[u], kstack[u], cr3[u])
  BY DEF VmOK, CoreOK, TasksOK
<1>2. cr3[u] \in Pages
  BY <1>1 DEF SlotIs
<1>3. loc[u].dir \in Pages \ {cr3[u]} /\ loc[u].pos \in Nat
  BY <1>1 DEF LocIs, Others
<1> QED BY <1>2, <1>3 DEF Rooted, Other, Start

\* A step of t keeps what CopyOK says of the others.
LEMMA CopyStepOthers ==
    ASSUME VmOK, CopyOK, NEW t \in Tasks, Keeps(t), Edits(t),
           CopyIs(pc'[t], loc'[t], cr3'[t], pde', pte')
    PROVE  CopyOK'
<1>1. ASSUME NEW u \in Tasks, u # t, pc[u] \in {"copy", "copy_map"}
      PROVE  CopyIs(pc'[u], loc'[u], cr3'[u], pde', pte')
  <2>1. PICK l, r, d, e : l = pc[u] /\ r = loc[u] /\ d = cr3[u] /\ e = r.dir
    OBVIOUS
  <2>2. PICK own, other : own = "cr3" /\ other = "dir"
    OBVIOUS
  <2>3. d \in Pages /\ e \in Pages /\ r.pos \in Nat /\ Rooted(own, u, d) /\ Rooted(other, u, e)
    BY <1>1, <2>1, <2>2, CopyRoots
  <2>4. PICK tag, w : OnlyAt(t, tag, w)
    BY DEF Edits
  <2>5. \A v \in VPages : Maps(pde', pte', d, v) = Maps(pde, pte, d, v)
    BY <1>1, <2>2, <2>3, <2>4 DEF OnlyAt
  <2>6. \A v \in VPages : Maps(pde', pte', e, v) = Maps(pde, pte, e, v)
    BY <1>1, <2>2, <2>3, <2>4 DEF OnlyAt
  <2>7. CopyIs(l, r, d, pde, pte)
    BY <2>1 DEF CopyOK
  <2>8. l = "copy_map" => r.pos \in VPages
    BY <2>1 DEF VmOK, CoreOK, TasksOK, LocIs
  <2>9. CopyIs(l, r, d, pde', pte')
    BY <2>1, <2>5, <2>6, <2>7, <2>8 DEF CopyIs
  <2>10. pc'[u] = l /\ loc'[u] = r /\ cr3'[u] = d
    BY <1>1, <2>1 DEF Keeps
  <2> QED BY <2>9, <2>10
<1>2. ASSUME NEW u \in Tasks, u # t, pc[u] \notin {"copy", "copy_map"}
      PROVE  CopyIs(pc'[u], loc'[u], cr3'[u], pde', pte')
  BY <1>2 DEF Keeps, CopyIs
<1>3. \A u \in Tasks : CopyIs(pc'[u], loc'[u], cr3'[u], pde', pte')
  BY <1>1, <1>2
<1> QED BY <1>3 DEF CopyOK

LEMMA CopyAway ==
    ASSUME VmOK, CopyOK, NEW t \in Tasks, Keeps(t), Edits(t), pc'[t] \notin {"copy", "copy_map"}
    PROVE  CopyOK'
<1>1. CopyIs(pc'[t], loc'[t], cr3'[t], pde', pte')
  BY DEF CopyIs
<1> QED BY <1>1, CopyStepOthers

LEMMA CopyDirCopies ==
    ASSUME VmOK, CopyOK, NEW t \in Tasks, Keeps(t), Edits(t), CopyDir(t)
    PROVE  CopyOK'
<1> USE DEF VmOK, CoreOK
<1>1. PICK p, r : p = addr_alloc_page /\ r = Space(p, NULL, 0, loc[t].child)
  OBVIOUS
<1>2. CASE p = NULL
  <2>1. pc'[t] \notin {"copy", "copy_map"}
    BY <1>1, <1>2 DEF CopyDir, ForkEnd, Return, Go, TasksOK
  <2> QED BY <2>1, CopyAway
<1>3. CASE p # NULL
  <2>1. memory_create_uvm(p) /\ loc' = [loc EXCEPT ![t] = r] /\ pc' = [pc EXCEPT ![t] = "copy"]
    BY <1>1, <1>3 DEF CopyDir, Set, Go
  <2>2. \A w \in VPages : Maps(pde', pte', p, w) = NULL
    BY <1>1, <1>3, <2>1, UvmEdits
  <2>3. loc'[t] = r /\ pc'[t] = "copy" /\ r.dir = p /\ r.pos = 0
    BY <1>1, <2>1 DEF TasksOK, Space
  <2>4. \A v \in VPages : ~ (v < 0)
    BY DEF VPages
  <2>5. CopyIs(pc'[t], loc'[t], cr3'[t], pde', pte')
    BY <2>2, <2>3, <2>4 DEF CopyIs
  <2> QED BY <2>5, CopyStepOthers
<1> QED BY <1>2, <1>3

LEMMA CopyPageCopies ==
    ASSUME VmOK, CopyOK, NEW t \in Tasks, Keeps(t), Edits(t), CopyPage(t)
    PROVE  CopyOK'
<1> USE DEF VmOK, CoreOK
<1>1. PICK p : p = addr_alloc_page
  OBVIOUS
<1>2. CASE p = NULL
  <2>1. pc'[t] \notin {"copy", "copy_map"}
    BY <1>1, <1>2 DEF CopyPage, Destroy, Go, TasksOK
  <2> QED BY <2>1, CopyAway
<1>3. CASE p # NULL
  <2>1. PICK d, pos, S : d = loc[t].dir /\ pos = loc[t].pos /\ S = ToCopy(t)
    OBVIOUS
  <2>2. PICK m : m = CHOOSE v \in S : \A w \in S : v <= w
    OBVIOUS
  <2>3. PICK r : r = Space(d, p, m, loc[t].child)
    OBVIOUS
  <2>4. /\ At(t, "copy") /\ S # {} /\ loc' = [loc EXCEPT ![t] = r] /\ pc' = [pc EXCEPT ![t] = "copy_map"]
        /\ pde' = pde /\ pte' = pte /\ cr3' = cr3
    BY <1>1, <1>3, <2>1, <2>2, <2>3 DEF CopyPage, Set, Go, taskVars
  <2>5. pc[t] = "copy" /\ CopyIs(pc[t], loc[t], cr3[t], pde, pte)
    BY <2>4 DEF At, CopyOK
  <2>6. pos \in Nat
    BY <2>1, <2>5, CopyRoots
  <2>7. S = {v \in VPages : Maps(pde, pte, cr3[t], v) # NULL /\ v >= pos}
    BY <2>1 DEF ToCopy, Mapped, Maps, find_pte
  <2>8. S \in SUBSET Nat /\ S # {}
    BY <2>4, <2>7 DEF VPages
  <2>9. m \in S /\ \A w \in S : m <= w
    BY <2>2, <2>8, Smallest
  <2>10. loc'[t] = r /\ pc'[t] = "copy_map" /\ r.dir = d /\ r.pos = m /\ cr3'[t] = cr3[t]
    BY <2>3, <2>4 DEF TasksOK, Space
  <2>11. ASSUME NEW v \in VPages, Maps(pde, pte, cr3[t], v) # NULL
         PROVE  v < m <=> v < pos
    <3>1. v \in Nat /\ m \in Nat /\ m >= pos
      BY <2>7, <2>9 DEF VPages
    <3>2. v >= pos => m <= v
      BY <2>7, <2>9, <2>11
    <3> QED BY <2>6, <3>1, <3>2
  <2>12. /\ \A v \in VPages : Maps(pde, pte, d, v) # NULL <=> v < m /\ Maps(pde, pte, cr3[t], v) # NULL
         /\ Maps(pde, pte, cr3[t], m) # NULL
    BY <2>1, <2>5, <2>7, <2>9, <2>11 DEF CopyIs
  <2>13. CopyIs(pc'[t], loc'[t], cr3'[t], pde', pte')
    BY <2>4, <2>10, <2>12 DEF CopyIs
  <2> QED BY <2>13, CopyStepOthers
<1> QED BY <1>2, <1>3

LEMMA CopyMapCopies ==
    ASSUME VmOK, CopyOK, NEW t \in Tasks, Keeps(t), Edits(t), CopyMap(t)
    PROVE  CopyOK'
<1> USE DEF VmOK, CoreOK
<1>1. PICK d, pos, p, c : d = loc[t].dir /\ pos = loc[t].pos /\ p = loc[t].page /\ c = cr3[t]
  OBVIOUS
<1>2. At(t, "copy_map")
  BY DEF CopyMap
<1>3. pc[t] = "copy_map" /\ LocIs("copy_map", loc[t], cr3[t])
  BY <1>2, RunIs
<1>4. CASE ~ CanMap(d, pos)
  <2>1. pc'[t] \notin {"copy", "copy_map"}
    BY <1>1, <1>4 DEF CopyMap, Destroy, Go, TasksOK
  <2> QED BY <2>1, CopyAway
<1>5. CASE CanMap(d, pos)
  <2>1. PICK own, other : own = "cr3" /\ other = "dir"
    OBVIOUS
  <2>2. /\ c \in Pages /\ d \in Pages /\ Rooted(own, t, c) /\ Rooted(other, t, d)
        /\ p \in Pages /\ p # NULL /\ pos \in VPages /\ pos \in Nat
    BY <1>1, <1>3, <2>1, CopyRoots, Sizes DEF LocIs
  <2>3. OnlyAt(t, other, pos) /\ Maps(pde', pte', d, pos) = p
    BY <1>1, <1>5, <2>1, CopyMapEdits
  <2>4. \A v \in VPages : Maps(pde', pte', c, v) = Maps(pde, pte, c, v)
    BY <2>1, <2>2, <2>3 DEF OnlyAt
  <2>5. \A v \in VPages : v # pos => Maps(pde', pte', d, v) = Maps(pde, pte, d, v)
    BY <2>1, <2>2, <2>3 DEF OnlyAt
  <2>6. CopyIs(pc[t], loc[t], cr3[t], pde, pte)
    BY DEF CopyOK
  <2>7. /\ \A v \in VPages : Maps(pde, pte, d, v) # NULL <=> v < pos /\ Maps(pde, pte, c, v) # NULL
        /\ Maps(pde, pte, c, pos) # NULL
    BY <1>1, <1>3, <2>6 DEF CopyIs
  <2>8. ASSUME NEW v \in VPages
        PROVE  Maps(pde', pte', d, v) # NULL <=> v < pos + 1 /\ Maps(pde', pte', c, v) # NULL
    <3>1. CASE v = pos
      BY <2>2, <2>3, <2>4, <2>7, <3>1
    <3>2. CASE v # pos
      <4>1. v < pos + 1 <=> v < pos
        BY <2>2, <3>2 DEF VPages
      <4> QED BY <2>4, <2>5, <2>7, <3>2, <4>1
    <3> QED BY <3>1, <3>2
  <2>9. PICK r : r = Space(d, NULL, pos + 1, loc[t].child)
    OBVIOUS
  <2>10. loc' = [loc EXCEPT ![t] = r] /\ pc' = [pc EXCEPT ![t] = "copy"] /\ cr3' = cr3
    BY <1>1, <1>5, <2>9 DEF CopyMap, Set, Go, taskVars
  <2>11. loc'[t] = r /\ pc'[t] = "copy" /\ r.dir = d /\ r.pos = pos + 1 /\ cr3'[t] = c
    BY <1>1, <2>9, <2>10 DEF TasksOK, Space
  <2>12. CopyIs(pc'[t], loc'[t], cr3'[t], pde', pte')
    BY <2>8, <2>11 DEF CopyIs
  <2> QED BY <2>12, CopyStepOthers
<1> QED BY <1>4, <1>5
LEMMA CopyNext ==
    ASSUME VmOK, CopyOK, [Next]_vars
    PROVE  CopyOK'
<1> USE DEF VmOK, CoreOK
<1>0. CASE UNCHANGED vars
  BY <1>0 DEF vars, CopyOK, CopyIs, Maps
<1>1. ASSUME NEW t \in Tasks, Call(t) PROVE CopyOK'
  <2>0. Keeps(t) /\ Edits(t)
    BY <1>1, CallKeeps, StepEdits
  <2>1. ASSUME NEW c \in Tasks, ForkStack(t, c) PROVE pc'[t] \notin {"copy", "copy_map"}
    BY <2>1 DEF ForkStack, Go, TasksOK
  <2>2. ASSUME sys_exit(t) \/ \E q \in Programs : ExecDir(t, q) PROVE pc'[t] \notin {"copy", "copy_map"}
    BY <2>2 DEF sys_exit, ExecDir, At, Go, TasksOK
  <2>3. ASSUME NEW n \in INCR, sys_sbrk(t, n) PROVE pc'[t] \notin {"copy", "copy_map"}
    <3>1. pc[t] = "user" /\ (pc' = pc \/ pc' = [pc EXCEPT ![t] = "alloc"])
      BY <2>3 DEF sys_sbrk, At, Go
    <3> QED BY <3>1 DEF TasksOK
  <2>4. pc'[t] \notin {"copy", "copy_map"}
    BY <1>1, <2>1, <2>2, <2>3 DEF Call
  <2> QED BY <2>0, <2>4, CopyAway
<1>2. ASSUME NEW t \in Tasks, Step(t) PROVE CopyOK'
  <2>0. Keeps(t) /\ Edits(t)
    BY <1>2, StepKeeps, StepEdits
  <2>1. ASSUME ForkDir(t) \/ UndoStack(t) \/ UndoUser(t) PROVE pc'[t] \notin {"copy", "copy_map"}
    BY <2>1 DEF ForkDir, UndoStack, UndoUser, Return, Go, TasksOK
  <2>2. ASSUME CopyDone(t) \/ ExecNoFile(t) PROVE pc'[t] \notin {"copy", "copy_map"}
    BY <2>2 DEF CopyDone, ExecNoFile, ForkEnd, Destroy, Return, Go, TasksOK
  <2>3. ASSUME ExecArgs(t) \/ SbrkDone(t) PROVE pc'[t] \notin {"copy", "copy_map"}
    BY <2>3 DEF ExecArgs, SbrkDone, Destroy, Return, Go, TasksOK
  <2>4. ASSUME DestroyStep(t) PROVE pc'[t] \notin {"copy", "copy_map"}
    <3>1. pc[t] \in {"undo_copy", "destroy"} /\ (pc' = pc \/ pc' = [pc EXCEPT ![t] = "user"])
      BY <2>4 DEF DestroyStep, ForkEnd, Return, Go
    <3> QED BY <3>1 DEF TasksOK
  <2>5. ASSUME AllocPage(t) PROVE pc'[t] \notin {"copy", "copy_map"}
    <3>1. pc[t] = "alloc" /\ (pc' = pc \/ pc' = [pc EXCEPT ![t] = "map"])
      BY <2>5 DEF AllocPage, At, Go
    <3> QED BY <3>1 DEF TasksOK
  <2>6. ASSUME MapPage(t) PROVE pc'[t] \notin {"copy", "copy_map"}
    <3>1. \E l \in {"alloc", "user", "destroy"} : pc' = [pc EXCEPT ![t] = l]
      BY <2>6 DEF MapPage, Destroy, Return, Go
    <3> QED BY <3>1 DEF TasksOK
  <2>7. ASSUME ~ (CopyDir(t) \/ CopyPage(t) \/ CopyMap(t)) PROVE pc'[t] \notin {"copy", "copy_map"}
    BY <1>2, <2>1, <2>2, <2>3, <2>4, <2>5, <2>6, <2>7 DEF Step
  <2> QED BY <2>0, <2>7, CopyDirCopies, CopyPageCopies, CopyMapCopies, CopyAway
<1> QED BY <1>0, <1>1, <1>2 DEF Next

LEMMA CopyInit ==
    ASSUME Init
    PROVE  CopyOK
<1>1. \A t \in Tasks : pc[t] = "user"
  BY DEF Init
<1> QED BY <1>1 DEF CopyOK, CopyIs

\* A child is started by the end of its fork.
Starts(s, c) == CopyDone(s) /\ c = loc[s].child

LEMMA EndStarts ==
    ASSUME VmOK, NEW s \in Tasks, NEW c \in Tasks, slot[c] = "init", slot'[c] = "run",
           NEW d, ForkEnd(s, d)
    PROVE  c = loc[s].child /\ cr3'[c] = d
<1>1. PICK e : e = loc[s].child
  OBVIOUS
<1>2. slot' = [slot EXCEPT ![e] = "run"] /\ cr3' = [cr3 EXCEPT ![e] = d]
  BY <1>1 DEF ForkEnd
<1>3. c = e
  BY <1>2 DEF VmOK, CoreOK, TasksOK
<1> QED BY <1>1, <1>2, <1>3 DEF VmOK, CoreOK, TasksOK

LEMMA StartedBy ==
    ASSUME VmOK, NEW s \in Tasks, Call(s) \/ Step(s), NEW c \in Tasks, slot[c] = "init",
           slot'[c] = "run"
    PROVE  Starts(s, c) \/ cr3'[c] = BAD
<1> USE DEF VmOK, CoreOK
<1>1. ASSUME NEW e \in Tasks, ForkStack(s, e) PROVE FALSE
  BY <1>1 DEF ForkStack, TasksOK
<1>2. ASSUME NEW n \in INCR, sys_sbrk(s, n) PROVE FALSE
  BY <1>2 DEF sys_sbrk
<1>3. ASSUME (\E p \in Programs : ExecDir(s, p)) \/ ForkDir(s) \/ UndoStack(s) \/ CopyPage(s) \/ CopyMap(s) PROVE FALSE
  BY <1>3 DEF ExecDir, ForkDir, UndoStack, CopyPage, CopyMap, taskVars
<1>4. ASSUME ExecNoFile(s) \/ ExecArgs(s) \/ AllocPage(s) \/ MapPage(s) \/ SbrkDone(s) PROVE FALSE
  BY <1>4 DEF ExecNoFile, ExecArgs, AllocPage, MapPage, SbrkDone, taskVars
<1>5. ASSUME sys_exit(s) PROVE FALSE
  BY <1>5 DEF sys_exit, TasksOK
<1>6. ASSUME UndoUser(s) PROVE FALSE
  <2>1. PICK e : slot' = [slot EXCEPT ![e] = "free"]
    BY <1>6 DEF UndoUser
  <2> QED BY <2>1 DEF TasksOK
<1>7. ASSUME CopyDir(s) PROVE cr3'[c] = BAD
  <2>1. ForkEnd(s, BAD)
    BY <1>7 DEF CopyDir, taskVars
  <2> QED BY <2>1, EndStarts
<1>8. ASSUME DestroyStep(s) PROVE cr3'[c] = BAD
  <2>1. ForkEnd(s, BAD)
    BY <1>8 DEF DestroyStep, taskVars
  <2> QED BY <2>1, EndStarts
<1>9. ASSUME CopyDone(s) PROVE Starts(s, c)
  <2>1. PICK d : d = loc[s].dir /\ ForkEnd(s, d)
    BY <1>9 DEF CopyDone
  <2>2. c = loc[s].child
    BY <2>1, EndStarts
  <2> QED BY <1>9, <2>2 DEF Starts
<1> QED BY <1>1, <1>2, <1>3, <1>4, <1>5, <1>6, <1>7, <1>8, <1>9 DEF Call, Step

LEMMA DoneCopies ==
    ASSUME VmOK, CopyOK, NEW t \in Tasks, NEW c \in Tasks, slot[c] = "init", slot'[c] = "run",
           Starts(t, c)
    PROVE  Mapped(cr3[c])' = Mapped(cr3[t])
<1> USE DEF VmOK, CoreOK
<1>1. PICK d, pos, r : d = loc[t].dir /\ pos = loc[t].pos /\ r = cr3[t]
  OBVIOUS
<1>2. At(t, "copy") /\ ToCopy(t) = {} /\ ForkEnd(t, d) /\ pde' = pde /\ pte' = pte
  BY <1>1 DEF Starts, CopyDone, memVars
<1>3. cr3'[c] = d
  BY <1>2, EndStarts
<1>4. pc[t] = "copy" /\ CopyIs(pc[t], loc[t], cr3[t], pde, pte)
  BY <1>2 DEF At, CopyOK
<1>5. pos \in Nat
  BY <1>1, <1>4, CopyRoots
<1>6. \A v \in VPages : Maps(pde, pte, d, v) # NULL <=> v < pos /\ Maps(pde, pte, r, v) # NULL
  BY <1>1, <1>4 DEF CopyIs
<1>7. \A v \in VPages : Maps(pde, pte, r, v) # NULL => ~ (v >= pos)
  BY <1>1, <1>2 DEF ToCopy, Mapped, Maps, find_pte
<1>8. \A v \in VPages : Maps(pde, pte, d, v) # NULL <=> Maps(pde, pte, r, v) # NULL
  BY <1>5, <1>6, <1>7 DEF VPages
<1>9. Mapped(cr3[c])' = {v \in VPages : Maps(pde, pte, d, v) # NULL}
  BY <1>2, <1>3 DEF Mapped, Maps, find_pte
<1>10. Mapped(cr3[t]) = {v \in VPages : Maps(pde, pte, r, v) # NULL}
  BY <1>1 DEF Mapped, Maps, find_pte
<1> QED BY <1>8, <1>9, <1>10

\* A child that is started with an address space has exactly the addresses mapped that
\* its parent has: memory_copy_uvm misses none, however the steps of other tasks come
\* between its own.
THEOREM ChildHasPages == Spec => ForkCopies
<1>1. VmOK /\ CopyOK /\ [Next]_vars => CopyOK'
  BY CopyNext
<1>2. Init => CopyOK
  BY CopyInit
<1>3. ASSUME VmOK, CopyOK, [Next]_vars
      PROVE  [\A t \in Tasks : \A c \in {loc[t].child} \ {NULL} :
                slot[c] = "init" /\ slot'[c] = "run" /\ cr3'[c] # BAD =>
                    Mapped(cr3[c])' = Mapped(cr3[t])]_vars
  <2> SUFFICES ASSUME Next, NEW t \in Tasks, NEW c \in {loc[t].child} \ {NULL},
                      slot[c] = "init", slot'[c] = "run", cr3'[c] # BAD
               PROVE  Mapped(cr3[c])' = Mapped(cr3[t])
    BY <1>3
  <2>1. PICK s \in Tasks : Call(s) \/ Step(s)
    BY DEF Next
  <2>2. LocIs(pc[t], loc[t], cr3[t])
    BY <1>3 DEF VmOK, CoreOK, TasksOK
  <2>3. c \in Tasks /\ c = loc[t].child
    BY <2>2 DEF LocIs
  <2>4. Starts(s, c)
    BY <1>3, <2>1, <2>3, StartedBy
  <2>5. s = t
    BY <1>3, <2>3, <2>4 DEF VmOK, CoreOK, ChildOK, Starts
  <2> QED BY <1>3, <2>3, <2>4, <2>5, DoneCopies
<1> QED BY <1>1, <1>2, <1>3, VmSafe, PTL DEF Spec, ForkCopies

-----------------------------------------------------------------------------
(* The pages of a program and of its heap.                                 *)

\* The pages of program p with a heap from b to h.
Needs(p, b, h) == Image(p) \cup {v \in VPages : b <= v * PAGE_SIZE /\ v * PAGE_SIZE < h}

Listed(todo, v) == \E n \in DOMAIN todo : \E m \in DOMAIN todo[n] : todo[n][m] = v

\* Every page of N is mapped in d, or in todo.
Backed(pd, pt, d, todo, N) ==
    \A v \in VPages : v \in N => Maps(pd, pt, d, v) # NULL \/ Listed(todo, v)

\* A task at l, of slot s, with local variables r and directory d, that runs p and loads q,
\* with a heap from b to h, and that was let run short of pages if sh.  Once execve has
\* set the heap it is empty: that is all that is left of a program whose load fails.
ImageIs(l, s, r, d, p, q, b, h, sh, pd, pt) ==
    /\ s \in {"free", "init"} => h = 0
    /\ s = "run" /\ d \in Pages /\ ~sh => Backed(pd, pt, d, <<>>, Needs(p, b, h))
    /\ l \in Fills /\ r.dir = d /\ ~sh /\ ~r.lack => Backed(pd, pt, d, r.todo, Needs(p, b, r.end))
    /\ l \in Fills /\ r.dir # d =>
          (Len(r.todo) >= 2 \/ h = b) /\ (~r.lack => Backed(pd, pt, r.dir, r.todo, Image(q)))

ShortOK == short = [t \in Tasks |-> short[t]]
ImageOK ==
    \A t \in Tasks : ImageIs(pc[t], slot[t], loc[t], cr3[t], runs[t], loads[t],
                             heap_start[t], heap_end[t], short[t], pde, pte)

\* The same addresses are mapped in d.
MapsSame(d) == \A v \in VPages : Maps(pde', pte', d, v) = Maps(pde, pte, d, v)

LEMMA BackedSame ==
    ASSUME NEW d, MapsSame(d), NEW todo, NEW N, Backed(pde, pte, d, todo, N)
    PROVE  Backed(pde', pte', d, todo, N)
BY DEF MapsSame, Backed

LEMMA NoneListed == \A v : ~ Listed(<<>>, v)
BY DEF Listed

\* Without its heap a program is backed as well.
LEMMA BackedLess ==
    ASSUME NEW pd, NEW pt, NEW d, NEW todo, NEW p, NEW b, NEW h,
           Backed(pd, pt, d, todo, Needs(p, b, h))
    PROVE  Backed(pd, pt, d, todo, Image(p))
BY DEF Backed, Needs

\* An empty heap needs no page.
LEMMA BackedEmpty ==
    ASSUME NEW pd, NEW pt, NEW d, NEW todo, NEW p, Backed(pd, pt, d, todo, Image(p)),
           NEW b \in Nat, NEW h \in {b, 0}
    PROVE  Backed(pd, pt, d, todo, Needs(p, b, h))
<1>1. ASSUME NEW v \in VPages, v \in Needs(p, b, h) PROVE v \in Image(p)
  <2>1. v * PAGE_SIZE \in Nat
    BY Sizes DEF VPages
  <2> QED BY <1>1, <2>1 DEF Needs
<1> QED BY <1>1 DEF Backed

\* A task whose slot, directory, program and mappings a step of t leaves alone.
ProgKept(u) == runs'[u] = runs[u] /\ loads'[u] = loads[u] /\ heap_start'[u] = heap_start[u]
StaysAs(u)  == slot'[u] = slot[u] /\ cr3'[u] = cr3[u] /\ short'[u] = short[u] /\ ProgKept(u)

LEMMA ProgSame ==
    ASSUME UNCHANGED progVars
    PROVE  \A u : ProgKept(u)
BY DEF progVars, ProgKept

ImageWillBe(u) ==
    ImageIs(pc'[u], slot'[u], loc'[u], cr3'[u], runs'[u], loads'[u],
            heap_start'[u], heap_end'[u], short'[u], pde', pte')

LEMMA OtherMaps ==
    ASSUME VmOK, NEW t \in Tasks, Edits(t), NEW u \in Tasks, u # t
    PROVE  /\ cr3[u] \in Pages => MapsSame(cr3[u])
           /\ pc[u] \in Fills => MapsSame(loc[u].dir)
<1>1. PICK tag, w : OnlyAt(t, tag, w)
  BY DEF Edits
<1>2. ASSUME NEW tag2 \in {"cr3", "dir"}, NEW d \in Pages, Rooted(tag2, u, d) PROVE MapsSame(d)
  BY <1>1, <1>2 DEF OnlyAt, MapsSame
<1>3. ASSUME cr3[u] \in Pages PROVE MapsSame(cr3[u])
  <2>1. PICK d, own : d = cr3[u] /\ own = "cr3"
    OBVIOUS
  <2>2. Rooted(own, u, d)
    BY <2>1 DEF Rooted
  <2> QED BY <1>2, <1>3, <2>1, <2>2
<1>4. ASSUME pc[u] \in Fills PROVE MapsSame(loc[u].dir)
  <2>1. PICK d, other : d = loc[u].dir /\ other = "dir"
    OBVIOUS
  <2>2. LocIs(pc[u], loc[u], cr3[u]) /\ SlotIs(pc[u], slot[u], kstack[u], cr3[u])
    BY DEF VmOK, CoreOK, TasksOK
  <2>3. d \in Pages /\ cr3[u] \in Pages
    BY <1>4, <2>1, <2>2, FillIs DEF SlotIs, Fills
  <2>4. CASE d = cr3[u]
    BY <1>3, <2>1, <2>3, <2>4
  <2>5. CASE d # cr3[u]
    <3>1. Rooted(other, u, d)
      BY <1>4, <2>1, <2>5 DEF Rooted, Other, Start, Fills
    <3> QED BY <1>2, <2>1, <2>3, <3>1
  <2> QED BY <2>4, <2>5
<1> QED BY <1>3, <1>4

LEMMA ImageKept ==
    ASSUME VmOK, ImageOK, NEW t \in Tasks, Keeps(t), Edits(t), NEW u \in Tasks, u # t, StaysAs(u)
    PROVE  ImageWillBe(u)
<1>1. PICK l, s, r, d, p, q, b, h : /\ l = pc[u] /\ s = slot[u] /\ r = loc[u] /\ d = cr3[u]
                                    /\ p = runs[u] /\ q = loads[u]
                                    /\ b = heap_start[u] /\ h = heap_end[u]
  OBVIOUS
<1>2. /\ pc'[u] = l /\ slot'[u] = s /\ loc'[u] = r /\ cr3'[u] = d /\ heap_end'[u] = h
      /\ short'[u] = short[u] /\ runs'[u] = p /\ loads'[u] = q /\ heap_start'[u] = b
  BY <1>1 DEF Keeps, StaysAs, ProgKept
<1>3. ImageIs(l, s, r, d, p, q, b, h, short[u], pde, pte)
  BY <1>1 DEF ImageOK
<1>4. d \in Pages => MapsSame(d)
  BY <1>1, OtherMaps
<1>5. l \in Fills => MapsSame(r.dir) /\ d \in Pages
  <2>1. SlotIs(l, s, kstack[u], d)
    BY <1>1 DEF VmOK, CoreOK, TasksOK
  <2> QED BY <1>1, <2>1, OtherMaps DEF SlotIs, Fills
<1>6. ImageIs(l, s, r, d, p, q, b, h, short[u], pde', pte')
  BY <1>3, <1>4, <1>5, BackedSame DEF ImageIs
<1> QED BY <1>2, <1>6 DEF ImageWillBe

LEMMA ImageStep ==
    ASSUME VmOK, ImageOK, NEW t \in Tasks, Keeps(t), Edits(t), ImageWillBe(t),
           \A u \in Tasks : u # t => StaysAs(u) \/ ImageWillBe(u)
    PROVE  ImageOK'
<1>1. \A u \in Tasks : ImageWillBe(u)
  BY ImageKept
<1> QED BY <1>1 DEF ImageWillBe, ImageOK

\* The mappings of t itself.
LEMMA OwnMaps ==
    ASSUME VmOK, NEW t \in Tasks, Edits(t), cr3[t] \in Pages, pc[t] \notin {"undo_user", "map"}
    PROVE  MapsSame(cr3[t])
<1>1. PICK tag, w : OnlyAt(t, tag, w) /\ (tag = "cr3" => OwnEdit(t, w))
  BY DEF Edits
<1>2. tag # "cr3"
  BY <1>1 DEF OwnEdit
<1>3. PICK d, own : d = cr3[t] /\ own = "cr3"
  OBVIOUS
<1>4. Rooted(own, t, d) /\ d \in Pages
  BY <1>3 DEF Rooted
<1> QED BY <1>1, <1>2, <1>3, <1>4 DEF OnlyAt, MapsSame

\* A step of t that ends out of memory_alloc_for_page_dir and leaves t what it has.
LEMMA OwnQuiet ==
    ASSUME VmOK, ImageOK, NEW t \in Tasks, MapsSame(cr3[t]), pc'[t] \notin Fills,
           cr3'[t] = cr3[t], heap_end'[t] = heap_end[t], short'[t] = short[t], ProgKept(t),
           slot[t] = "run", slot'[t] \in {"run", "zombie"}
    PROVE  ImageWillBe(t)
<1>1. PICK d, p, b, h : d = cr3[t] /\ p = runs[t] /\ b = heap_start[t] /\ h = heap_end[t]
  OBVIOUS
<1>2. d \in Pages /\ ~short[t] => Backed(pde, pte, d, <<>>, Needs(p, b, h))
  BY <1>1 DEF ImageOK, ImageIs
<1>3. d \in Pages /\ ~short[t] => Backed(pde', pte', d, <<>>, Needs(p, b, h))
  BY <1>1, <1>2, BackedSame
<1>4. runs'[t] = p /\ heap_start'[t] = b /\ heap_end'[t] = h /\ cr3'[t] = d
  BY <1>1 DEF ProgKept
<1> QED BY <1>3, <1>4 DEF ImageWillBe, ImageIs

LEMMA QuietStep ==
    ASSUME VmOK, ImageOK, NEW t \in Tasks, Keeps(t), Edits(t), NEW l, At(t, l),
           l \notin {"undo_user", "map"}, pc'[t] \notin Fills,
           slot' = slot, cr3' = cr3, heap_end' = heap_end, short' = short, UNCHANGED progVars
    PROVE  ImageOK'
<1>1. slot[t] = "run" /\ pc[t] = l /\ cr3[t] \in Pages
  BY RunIs DEF VmOK, CoreOK
<1>2. MapsSame(cr3[t])
  BY <1>1, OwnMaps
<1>3. ImageWillBe(t)
  BY <1>1, <1>2, OwnQuiet, ProgSame
<1>4. \A u \in Tasks : StaysAs(u)
  BY ProgSame DEF StaysAs
<1> QED BY <1>3, <1>4, ImageStep

\* A task that is not started, or without an address space.
LEMMA ChildImage ==
    ASSUME ProgOK', NEW c \in Tasks, pc'[c] = "user", heap_end'[c] = 0,
           slot'[c] # "run" \/ cr3'[c] \notin Pages
           \/ (~short'[c] => Backed(pde', pte', cr3'[c], <<>>, Image(runs'[c])))
    PROVE  ImageWillBe(c)
<1>1. PICK d, p, b : d = cr3'[c] /\ p = runs'[c] /\ b = heap_start'[c] /\ b \in Nat
  BY DEF ProgOK
<1>2. Backed(pde', pte', d, <<>>, Image(p)) => Backed(pde', pte', d, <<>>, Needs(p, b, 0))
  BY <1>1, BackedEmpty
<1> QED BY <1>1, <1>2 DEF ImageWillBe, ImageIs, Fills

\* The child of t has no heap.
LEMMA ChildHeap ==
    ASSUME VmOK, ImageOK, NEW t \in Tasks, Keeps(t), NEW l \in Forks, At(t, l),
           NEW c, c = loc[t].child
    PROVE  c \in Tasks /\ c # t /\ pc'[c] = "user" /\ heap_end'[c] = 0
<1>1. c \in Tasks /\ c # t /\ slot[c] = "init" /\ pc[c] = "user"
  BY ChildFacts
<1>2. heap_end[c] = 0
  BY <1>1 DEF ImageOK, ImageIs
<1> QED BY <1>1, <1>2 DEF Keeps

LEMMA ForkEndImage ==
    ASSUME VmOK, ProgOK', ImageOK, ShortOK, NEW t \in Tasks, Keeps(t), Edits(t),
           NEW l \in Forks, At(t, l), l # "undo_user", NEW d, ForkEnd(t, d),
           d \in Pages /\ ~short[t] => Backed(pde', pte', d, <<>>, Image(runs[t]))
    PROVE  ImageOK'
<1> USE DEF VmOK, CoreOK
<1>1. PICK c : c = loc[t].child
  OBVIOUS
<1>2. c \in Tasks /\ c # t /\ pc'[c] = "user" /\ heap_end'[c] = 0
  BY <1>1, ChildHeap
<1>3. /\ cr3' = [cr3 EXCEPT ![c] = d] /\ slot' = [slot EXCEPT ![c] = "run"]
      /\ short' = [short EXCEPT ![c] = short[t]] /\ heap_end' = heap_end
      /\ pc' = [pc EXCEPT ![t] = "user"] /\ runs' = [runs EXCEPT ![c] = runs[t]]
      /\ loads' = loads /\ heap_start' = heap_start
  BY <1>1 DEF ForkEnd, Return, Go
<1>4. slot[t] = "run" /\ pc[t] = l /\ cr3[t] \in Pages
  BY RunIs
<1>5. l \notin {"undo_user", "map"}
  BY DEF Forks
<1>6. MapsSame(cr3[t])
  BY <1>4, <1>5, OwnMaps
<1>7. \A u \in Tasks : u # c => StaysAs(u)
  BY <1>3 DEF StaysAs, TasksOK, ShortOK, ProgKept, ProgOK
<1>8. pc'[t] \notin Fills
  BY <1>3 DEF TasksOK, Fills
<1>9. ImageWillBe(t)
  <2>1. /\ cr3'[t] = cr3[t] /\ heap_end'[t] = heap_end[t] /\ short'[t] = short[t]
        /\ slot'[t] = "run" /\ ProgKept(t)
    BY <1>2, <1>3, <1>4, <1>7 DEF StaysAs
  <2> QED BY <1>4, <1>6, <1>8, <2>1, OwnQuiet
<1>10. cr3'[c] = d /\ short'[c] = short[t] /\ runs'[c] = runs[t]
  BY <1>2, <1>3 DEF TasksOK, ShortOK, ProgOK
<1>11. ImageWillBe(c)
  BY <1>2, <1>10, ChildImage
<1> QED BY <1>7, <1>9, <1>11, ImageStep

LEMMA ForkStackImage ==
    ASSUME VmOK, ProgOK', ImageOK, NEW t \in Tasks, Keeps(t), Edits(t),
           NEW c \in Tasks, ForkStack(t, c)
    PROVE  ImageOK'
<1> USE DEF VmOK, CoreOK
<1>1. /\ At(t, "user") /\ slot[c] = "free" /\ slot' = [slot EXCEPT ![c] = "init"] /\ cr3' = cr3
      /\ heap_end' = heap_end /\ short' = short /\ pc' = [pc EXCEPT ![t] = "fork_dir"]
      /\ \A u : ProgKept(u)
  BY ProgSame DEF ForkStack, Go
<1>2. slot[t] = "run" /\ pc[t] = "user" /\ cr3[t] \in Pages
  BY <1>1, RunIs
<1>3. MapsSame(cr3[t])
  BY <1>2, OwnMaps
<1>4. pc'[t] \notin Fills /\ slot'[t] = "run" /\ c # t
  BY <1>1, <1>2 DEF TasksOK, Fills
<1>5. ImageWillBe(t)
  BY <1>1, <1>2, <1>3, <1>4, OwnQuiet
<1>6. \A u \in Tasks : u # c => StaysAs(u)
  BY <1>1 DEF StaysAs, TasksOK
<1>7. SlotIs(pc[c], slot[c], kstack[c], cr3[c]) /\ heap_end[c] = 0
  BY <1>1 DEF TasksOK, ImageOK, ImageIs
<1>8. pc'[c] = "user" /\ heap_end'[c] = 0 /\ slot'[c] = "init"
  BY <1>1, <1>4, <1>7 DEF SlotIs, TasksOK, Keeps
<1>9. ImageWillBe(c)
  BY <1>8, ChildImage
<1> QED BY <1>5, <1>6, <1>9, ImageStep

LEMMA ForkDirImage ==
    ASSUME VmOK, ProgOK', ImageOK, NEW t \in Tasks, Keeps(t), Edits(t), ForkDir(t)
    PROVE  ImageOK'
<1> USE DEF VmOK, CoreOK
<1>1. PICK c : c = loc[t].child
  OBVIOUS
<1>2. /\ At(t, "fork_dir") /\ "fork_dir" \in Forks /\ slot' = slot /\ heap_end' = heap_end /\ short' = short
      /\ cr3' = cr3 \/ \E d : cr3' = [cr3 EXCEPT ![c] = d]
      /\ \A u : ProgKept(u)
  BY <1>1, ProgSame DEF ForkDir, Forks
<1>3. pc'[t] \notin Fills
  BY DEF ForkDir, Go, TasksOK, Fills
<1>4. c \in Tasks /\ c # t /\ pc'[c] = "user" /\ heap_end'[c] = 0
  BY <1>1, <1>2, ChildHeap
<1>5. slot[c] = "init"
  BY <1>1, <1>2, ChildFacts
<1>6. slot[t] = "run" /\ pc[t] = "fork_dir" /\ cr3[t] \in Pages
  BY <1>2, RunIs
<1>7. MapsSame(cr3[t])
  BY <1>6, OwnMaps
<1>8. \A u \in Tasks : u # c => StaysAs(u)
  BY <1>2 DEF StaysAs, TasksOK
<1>9. ImageWillBe(t)
  <2>1. /\ cr3'[t] = cr3[t] /\ slot'[t] = "run" /\ heap_end'[t] = heap_end[t]
        /\ short'[t] = short[t] /\ ProgKept(t)
    BY <1>2, <1>4, <1>6, <1>8 DEF StaysAs
  <2> QED BY <1>3, <1>6, <1>7, <2>1, OwnQuiet
<1>10. ImageWillBe(c)
  BY <1>2, <1>4, <1>5, ChildImage
<1> QED BY <1>8, <1>9, <1>10, ImageStep

LEMMA UndoUserImage ==
    ASSUME VmOK, ProgOK', ImageOK, ShortOK, NEW t \in Tasks, Keeps(t), Edits(t), UndoUser(t)
    PROVE  ImageOK'
<1> USE DEF VmOK, CoreOK
<1>1. PICK c : c = loc[t].child
  OBVIOUS
<1>2. /\ At(t, "undo_user") /\ "undo_user" \in Forks /\ slot' = [slot EXCEPT ![c] = "free"]
      /\ short' = [short EXCEPT ![t] = TRUE] /\ pc' = [pc EXCEPT ![t] = "user"]
      /\ cr3' = cr3 /\ heap_end' = heap_end /\ \A u : ProgKept(u)
  BY <1>1, ProgSame DEF UndoUser, Return, Go, Forks
<1>3. c \in Tasks /\ c # t /\ pc'[c] = "user" /\ heap_end'[c] = 0
  BY <1>1, <1>2, ChildHeap
<1>4. slot[t] = "run"
  BY <1>2, RunIs
<1>5. pc'[t] = "user" /\ short'[t] = TRUE /\ slot'[t] = "run" /\ slot'[c] = "free"
  BY <1>2, <1>3, <1>4 DEF TasksOK, ShortOK
<1>7. ImageWillBe(t)
  BY <1>5 DEF ImageWillBe, ImageIs, Fills
<1>8. ImageWillBe(c)
  BY <1>3, <1>5, ChildImage
<1>9. \A u \in Tasks : u # t /\ u # c => StaysAs(u)
  BY <1>2 DEF StaysAs, TasksOK, ShortOK
<1> QED BY <1>7, <1>8, <1>9, ImageStep
\* The pages of a program are in the directory that a fork has copied.
LEMMA CopyDoneImage ==
    ASSUME VmOK, ProgOK', CopyOK, ImageOK, ShortOK, NEW t \in Tasks, Keeps(t), Edits(t), CopyDone(t)
    PROVE  ImageOK'
<1> USE DEF VmOK, CoreOK
<1>1. PICK d, pos, r, p, b, h : /\ d = loc[t].dir /\ pos = loc[t].pos /\ r = cr3[t]
                                /\ p = runs[t] /\ b = heap_start[t] /\ h = heap_end[t]
  OBVIOUS
<1>2. /\ At(t, "copy") /\ "copy" \in Forks /\ ToCopy(t) = {} /\ ForkEnd(t, d)
      /\ pde' = pde /\ pte' = pte
  BY <1>1 DEF CopyDone, memVars, Forks
<1>3. pc[t] = "copy" /\ slot[t] = "run" /\ CopyIs(pc[t], loc[t], cr3[t], pde, pte)
  BY <1>2 DEF At, CopyOK
<1>4. pos \in Nat /\ r \in Pages
  BY <1>1, <1>3, CopyRoots
<1>5. \A v \in VPages : Maps(pde, pte, d, v) # NULL <=> v < pos /\ Maps(pde, pte, r, v) # NULL
  BY <1>1, <1>3 DEF CopyIs
<1>6. \A v \in VPages : Maps(pde, pte, r, v) # NULL => ~ (v >= pos)
  BY <1>1, <1>2 DEF ToCopy, Mapped, Maps, find_pte
<1>7. \A v \in VPages : Maps(pde, pte, r, v) # NULL => Maps(pde, pte, d, v) # NULL
  BY <1>4, <1>5, <1>6 DEF VPages
<1>8. ~short[t] => Backed(pde, pte, r, <<>>, Needs(p, b, h))
  BY <1>1, <1>3, <1>4 DEF ImageOK, ImageIs
<1>9. ~short[t] => Backed(pde, pte, r, <<>>, Image(p))
  BY <1>8, BackedLess
<1>10. ~short[t] => Backed(pde', pte', d, <<>>, Image(p))
  BY <1>2, <1>7, <1>9 DEF Backed
<1> QED BY <1>1, <1>2, <1>10, ForkEndImage

LEMMA ExitImage ==
    ASSUME VmOK, ImageOK, NEW t \in Tasks, Keeps(t), Edits(t), sys_exit(t)
    PROVE  ImageOK'
<1> USE DEF VmOK, CoreOK
<1>1. /\ At(t, "user") /\ slot' = [slot EXCEPT ![t] = "zombie"] /\ cr3' = cr3
      /\ heap_end' = heap_end /\ short' = short /\ pc' = pc /\ \A u : ProgKept(u)
  BY ProgSame DEF sys_exit
<1>2. slot[t] = "run" /\ pc[t] = "user" /\ cr3[t] \in Pages
  BY <1>1, RunIs
<1>3. MapsSame(cr3[t])
  BY <1>2, OwnMaps
<1>4. pc'[t] \notin Fills /\ slot'[t] = "zombie"
  BY <1>1, <1>2 DEF TasksOK, Fills
<1>5. ImageWillBe(t)
  BY <1>1, <1>2, <1>3, <1>4, OwnQuiet
<1>6. \A u \in Tasks : u # t => StaysAs(u)
  BY <1>1 DEF StaysAs, TasksOK
<1> QED BY <1>5, <1>6, ImageStep

\* The segments hold the pages of the program; there are two or more, with the stack.
LEMMA SegmentsListed ==
    ASSUME NEW pd, NEW pt, NEW d, NEW q \in Programs
    PROVE  Backed(pd, pt, d, Segments(q), Image(q))
<1>1. ASSUME NEW v, v \in Image(q) PROVE Listed(Segments(q), v)
  <2>1. PICK segs : segs = Segments(q)
    OBVIOUS
  <2>2. v \in UNION {PagesOf(segs[i]) : i \in DOMAIN segs}
    BY <1>1, <2>1 DEF Image
  <2>3. PICK i \in DOMAIN segs : v \in PagesOf(segs[i])
    BY <2>2
  <2>4. \E m \in DOMAIN segs[i] : segs[i][m] = v
    BY <2>3 DEF PagesOf
  <2> QED BY <2>1, <2>4 DEF Listed
<1> QED BY <1>1 DEF Backed

LEMMA SegmentsLen ==
    ASSUME NEW q \in Programs
    PROVE  Len(Segments(q)) >= 2
<1>1. PICK n, one, stack : /\ n = FILE[q].phnum /\ one = AllocPages(FILE[q].vaddr, FILE[q].memsz)
                           /\ stack = AllocPages(STACK_START, STACK_SIZE)
  OBVIOUS
<1>2. n \in Nat /\ n >= 1
  BY <1>1, ProgramAssumption
<1>3. PICK S, f : S = {one, stack} /\ f = [i \in 1 .. n |-> one]
  OBVIOUS
<1>4. f \in Seq(S) /\ Len(f) = n
  BY <1>2, <1>3
<1>5. Len(f \o <<stack>>) = n + 1
  BY <1>2, <1>3, <1>4
<1>6. Segments(q) = f \o <<stack>>
  BY <1>1, <1>3 DEF Segments
<1> QED BY <1>2, <1>5, <1>6

\* A step of t on a directory beside its own.
LEMMA LoadImage ==
    ASSUME VmOK, ProgOK', ImageOK, NEW t \in Tasks, slot[t] = "run", cr3[t] \in Pages,
           MapsSame(cr3[t]), slot'[t] = "run", cr3'[t] = cr3[t], short'[t] = short[t],
           runs'[t] = runs[t], NEW r, loc'[t] = r, r.dir # cr3[t],
           \/ heap_end'[t] = heap_end[t] /\ heap_start'[t] = heap_start[t]
           \/ heap_end'[t] = heap_start'[t],
           Len(r.todo) >= 2 \/ heap_end'[t] = heap_start'[t],
           ~r.lack => Backed(pde', pte', r.dir, r.todo, Image(loads'[t]))
    PROVE  ImageWillBe(t)
<1>1. PICK d, p, b, h, c, g : /\ d = cr3[t] /\ p = runs[t] /\ b = heap_start[t] /\ h = heap_end[t]
                              /\ c = heap_start'[t] /\ g = heap_end'[t] /\ c \in Nat
  BY DEF ProgOK
<1>2. ~short[t] => Backed(pde, pte, d, <<>>, Needs(p, b, h))
  BY <1>1 DEF ImageOK, ImageIs
<1>3. ~short[t] => Backed(pde, pte, d, <<>>, Needs(p, c, g))
  <2>1. CASE g = h /\ c = b
    BY <1>2, <2>1
  <2>2. CASE g = c
    <3>1. ~short[t] => Backed(pde, pte, d, <<>>, Image(p))
      BY <1>2, BackedLess
    <3> QED BY <1>1, <2>2, <3>1, BackedEmpty
  <2> QED BY <1>1, <2>1, <2>2
<1>4. ~short[t] => Backed(pde', pte', d, <<>>, Needs(p, c, g))
  BY <1>1, <1>3, BackedSame
<1> QED BY <1>1, <1>4 DEF ImageWillBe, ImageIs

LEMMA ExecDirImage ==
    ASSUME VmOK, ProgOK', ImageOK, NEW t \in Tasks, Keeps(t), Edits(t),
           NEW q \in Programs, ExecDir(t, q)
    PROVE  ImageOK'
<1> USE DEF VmOK, CoreOK
<1>1. PICK p, r : p = addr_alloc_page /\ r = Fill(p, NULL, Segments(q), 0, FALSE)
  OBVIOUS
<1>2. /\ At(t, "user") /\ loc' = [loc EXCEPT ![t] = r] /\ cr3' = cr3 /\ p # NULL /\ slot' = slot
      /\ heap_end' = heap_end /\ short' = short /\ runs' = runs /\ heap_start' = heap_start
      /\ loads' = [loads EXCEPT ![t] = q]
  BY <1>1 DEF ExecDir, Set
<1>3. slot[t] = "run" /\ pc[t] = "user" /\ cr3[t] \in Pages
  BY <1>2, RunIs
<1>4. MapsSame(cr3[t])
  BY <1>3, OwnMaps
<1>5. cr3[t] \in bitmap
  BY <1>3, Cr3Marked
<1>6. p \notin bitmap
  BY <1>1, <1>2, Marked, FreshPage
<1>7. loc'[t] = r /\ r.dir = p /\ r.todo = Segments(q) /\ loads'[t] = q
  BY <1>1, <1>2 DEF TasksOK, ProgOK, Fill
<1>8. r.dir # cr3[t] /\ Len(r.todo) >= 2
  BY <1>5, <1>6, <1>7, SegmentsLen
<1>9. Backed(pde', pte', r.dir, r.todo, Image(loads'[t]))
  BY <1>7, SegmentsListed
<1>10. ImageWillBe(t)
  BY <1>2, <1>3, <1>4, <1>7, <1>8, <1>9, LoadImage
<1>11. \A u \in Tasks : u # t => StaysAs(u)
  BY <1>2 DEF StaysAs, ProgKept, ProgOK
<1> QED BY <1>10, <1>11, ImageStep
\* No address of d loses its mapping.
MapsKeep(d) ==
    \A v \in VPages : Maps(pde, pte, d, v) # NULL => Maps(pde', pte', d, v) # NULL

LEMMA BackedKeep ==
    ASSUME NEW d, MapsKeep(d), NEW todo, NEW N, Backed(pde, pte, d, todo, N)
    PROVE  Backed(pde', pte', d, todo, N)
BY DEF MapsKeep, Backed

\* A step of t on its own directory, in sys_sbrk.
LEMMA GrowImage ==
    ASSUME VmOK, ImageOK, NEW t \in Tasks, slot[t] = "run", cr3[t] \in Pages, MapsKeep(cr3[t]),
           slot'[t] = "run", cr3'[t] = cr3[t], short'[t] = short[t], heap_end'[t] = heap_end[t],
           ProgKept(t), NEW r, loc'[t] = r, r.dir = cr3[t],
           ~short[t] /\ ~r.lack =>
               Backed(pde', pte', cr3[t], r.todo, Needs(runs[t], heap_start[t], r.end))
    PROVE  ImageWillBe(t)
<1>1. PICK d, p, b, h : d = cr3[t] /\ p = runs[t] /\ b = heap_start[t] /\ h = heap_end[t]
  OBVIOUS
<1>2. ~short[t] => Backed(pde, pte, d, <<>>, Needs(p, b, h))
  BY <1>1 DEF ImageOK, ImageIs
<1>3. ~short[t] => Backed(pde', pte', d, <<>>, Needs(p, b, h))
  BY <1>1, <1>2, BackedKeep
<1>4. runs'[t] = p /\ heap_start'[t] = b /\ heap_end'[t] = h /\ cr3'[t] = d
  BY <1>1 DEF ProgKept
<1> QED BY <1>1, <1>3, <1>4 DEF ImageWillBe, ImageIs

LEMMA ListedTail ==
    ASSUME NEW todo \in Seq(Seq(VPages)), todo # <<>>, Head(todo) = <<>>, NEW v, Listed(todo, v),
           NEW rest, rest = Tail(todo)
    PROVE  Listed(rest, v)
<1>1. PICK n \in DOMAIN todo : \E m \in DOMAIN todo[n] : todo[n][m] = v
  BY DEF Listed
<1>2. n \in 1 .. Len(todo) /\ todo[1] = <<>>
  OBVIOUS
<1>3. n # 1
  BY <1>1, <1>2
<1>4. n - 1 \in DOMAIN rest /\ rest[n - 1] = todo[n]
  BY <1>2, <1>3
<1> QED BY <1>1, <1>4 DEF Listed

LEMMA ListedNext ==
    ASSUME NEW todo \in Seq(Seq(VPages)), todo # <<>>,
           NEW first, first = Head(todo), first \in Seq(VPages), first # <<>>,
           NEW rest, rest = <<Tail(first)>> \o Tail(todo), NEW v, Listed(todo, v)
    PROVE  v = Head(first) \/ Listed(rest, v)
<1>0. PICK n \in DOMAIN todo : \E m \in DOMAIN todo[n] : todo[n][m] = v
  BY DEF Listed
<1>1. PICK m \in DOMAIN todo[n] : todo[n][m] = v
  BY <1>0
<1>2. n \in 1 .. Len(todo) /\ todo[1] = first
  OBVIOUS
<1>3. Tail(first) \in Seq(VPages) /\ Tail(todo) \in Seq(Seq(VPages))
  BY SeqFacts
<1>4. /\ rest[1] = Tail(first) /\ 1 \in DOMAIN rest
      /\ \A k \in 2 .. Len(todo) : k \in DOMAIN rest /\ rest[k] = todo[k]
  BY <1>3
<1>5. CASE n # 1
  <2>1. n \in 2 .. Len(todo)
    BY <1>2, <1>5
  <2>2. n \in DOMAIN rest /\ rest[n] = todo[n]
    BY <1>4, <2>1
  <2>3. PICK s : s = todo[n]
    OBVIOUS
  <2>4. rest[n] = s /\ m \in DOMAIN s /\ s[m] = v
    BY <1>1, <2>2, <2>3
  <2> QED BY <2>2, <2>4 DEF Listed
<1>6. CASE n = 1 /\ m = 1
  BY <1>1, <1>2, <1>6
<1>7. CASE n = 1 /\ m # 1
  <2>1. m \in DOMAIN first /\ first[m] = v
    BY <1>1, <1>2, <1>7
  <2>2. PICK s : s = Tail(first)
    OBVIOUS
  <2>3. m - 1 \in DOMAIN s /\ s[m - 1] = v
    BY <1>7, <2>1, <2>2
  <2> QED BY <1>4, <2>2, <2>3 DEF Listed
<1> QED BY <1>5, <1>6, <1>7

LEMMA Lengths ==
    ASSUME NEW todo \in Seq(Seq(VPages)), todo # <<>>,
           NEW first \in Seq(VPages), NEW rest, rest = <<first>> \o Tail(todo)
    PROVE  Len(rest) = Len(todo) /\ Len(Tail(todo)) = Len(todo) - 1 /\ Len(todo) \in Nat
<1>1. Tail(todo) \in Seq(Seq(VPages)) /\ Len(Tail(todo)) = Len(todo) - 1 /\ Len(todo) \in Nat
  OBVIOUS
<1> QED BY <1>1

LEMMA AllocImage ==
    ASSUME VmOK, ProgOK', ImageOK, NEW t \in Tasks, Keeps(t), Edits(t), AllocPage(t)
    PROVE  ImageOK'
<1> USE DEF VmOK, CoreOK
<1>1. PICK d, segs, end, p, rest, x, b :
          /\ d = loc[t].dir /\ segs = loc[t].todo /\ end = loc[t].end /\ p = addr_alloc_page
          /\ rest = Tail(segs) /\ x = runs[t] /\ b = heap_start[t]
  OBVIOUS
<1>2. /\ At(t, "alloc") /\ segs # <<>> /\ cr3' = cr3 /\ slot' = slot /\ short' = short
      /\ pde' = pde /\ pte' = pte /\ runs' = runs /\ loads' = loads
  BY <1>1 DEF AllocPage
<1>3. /\ slot[t] = "run" /\ pc[t] = "alloc" /\ cr3[t] \in Pages /\ LocIs("alloc", loc[t], cr3[t])
      /\ "alloc" \in Fills
  BY <1>2, RunIs DEF Fills
<1>4. segs \in Seq(Seq(VPages))
  BY <1>1, <1>3, FillIs
<1>5. MapsSame(cr3[t]) /\ MapsKeep(cr3[t])
  BY <1>2 DEF MapsSame, MapsKeep
<1>6. ImageIs("alloc", "run", loc[t], cr3[t], x, loads[t], b, heap_end[t], short[t], pde, pte)
  BY <1>1, <1>3 DEF ImageOK
<1>7. PICK r : loc'[t] = r
  OBVIOUS
<1> DEFINE SameHeap == heap_end' = heap_end /\ heap_start' = heap_start
           NewHeap == \E g : /\ heap_start' = [heap_start EXCEPT ![t] = g]
                             /\ heap_end' = [heap_end EXCEPT ![t] = g]
<1>8. /\ r.dir = d /\ r.end = end
      /\ \/ r.todo = segs /\ r.lack = loc[t].lack /\ SameHeap
         \/ /\ r.todo = rest /\ r.lack = (loc[t].lack \/ Head(segs) # <<>>)
            /\ IF d # cr3[t] /\ Len(segs) > 1 THEN NewHeap ELSE SameHeap
  <2>1. CASE Head(segs) # <<>> /\ p # NULL
    <3>1. PICK q : q = Fill(d, p, segs, end, loc[t].lack)
      OBVIOUS
    <3>2. loc' = [loc EXCEPT ![t] = q] /\ SameHeap
      BY <1>1, <2>1, <3>1 DEF AllocPage, Set
    <3>3. r = q
      BY <1>7, <3>2 DEF TasksOK
    <3> QED BY <3>1, <3>2, <3>3 DEF Fill
  <2>2. CASE ~ (Head(segs) # <<>> /\ p # NULL)
    <3>1. PICK q : q = Fill(d, NULL, rest, end, loc[t].lack \/ Head(segs) # <<>>)
      OBVIOUS
    <3>2. loc' = [loc EXCEPT ![t] = q]
      BY <1>1, <2>2, <3>1 DEF AllocPage, Set
    <3>3. IF d # cr3[t] /\ Len(segs) > 1 THEN NewHeap ELSE SameHeap
      BY <1>1, <2>2 DEF AllocPage
    <3>4. r = q
      BY <1>7, <3>2 DEF TasksOK
    <3> QED BY <3>1, <3>3, <3>4 DEF Fill
  <2> QED BY <2>1, <2>2
<1>9. ASSUME NEW e, NEW N, Backed(pde, pte, e, segs, N), ~r.lack
      PROVE  ~loc[t].lack /\ Backed(pde', pte', e, r.todo, N)
  <2>1. CASE r.todo = segs /\ r.lack = loc[t].lack
    BY <1>2, <1>9, <2>1
  <2>2. CASE r.todo = rest /\ r.lack = (loc[t].lack \/ Head(segs) # <<>>)
    <3>1. ~loc[t].lack /\ Head(segs) = <<>>
      BY <1>9, <2>2
    <3>2. \A v : Listed(segs, v) => Listed(rest, v)
      BY <1>1, <1>2, <1>4, <3>1, ListedTail
    <3> QED BY <1>2, <1>9, <2>2, <3>1, <3>2 DEF Backed
  <2> QED BY <1>8, <2>1, <2>2
<1>10. \A u \in Tasks : u # t => StaysAs(u)
  <2>1. \A u \in Tasks : u # t => heap_start'[u] = heap_start[u]
    BY <1>8 DEF ProgOK
  <2> QED BY <1>2, <2>1 DEF StaysAs, ProgKept
<1>11. CASE d = cr3[t]
  <2>1. SameHeap /\ r.dir = cr3[t]
    BY <1>8, <1>11
  <2>2. ~short[t] /\ ~loc[t].lack => Backed(pde, pte, cr3[t], segs, Needs(x, b, end))
    BY <1>1, <1>3, <1>6, <1>11 DEF ImageIs
  <2>3. ~r.lack => ~loc[t].lack
    BY <1>8
  <2>4. ~short[t] /\ ~r.lack => Backed(pde', pte', cr3[t], r.todo, Needs(x, b, r.end))
    BY <1>8, <1>9, <2>2, <2>3
  <2>5. ProgKept(t)
    BY <1>2, <2>1 DEF ProgKept
  <2>6. ImageWillBe(t)
    BY <1>1, <1>2, <1>3, <1>5, <1>7, <2>1, <2>4, <2>5, GrowImage
  <2> QED BY <1>10, <2>6, ImageStep
<1>12. CASE d # cr3[t]
  <2>1. /\ Len(segs) >= 2 \/ heap_end[t] = heap_start[t]
        /\ ~loc[t].lack => Backed(pde, pte, d, segs, Image(loads[t]))
    BY <1>1, <1>3, <1>6, <1>12 DEF ImageIs
  <2>2. ~r.lack => ~loc[t].lack
    BY <1>8
  <2>3. ~r.lack => Backed(pde', pte', r.dir, r.todo, Image(loads'[t]))
    BY <1>2, <1>8, <1>9, <2>1, <2>2
  <2>4. Len(segs) \in Nat
    BY <1>4
  <2>5. ASSUME NewHeap PROVE heap_end'[t] = heap_start'[t]
    BY <2>5 DEF TasksOK, ProgOK
  <2>6. /\ \/ heap_end'[t] = heap_end[t] /\ heap_start'[t] = heap_start[t]
           \/ heap_end'[t] = heap_start'[t]
        /\ Len(r.todo) >= 2 \/ heap_end'[t] = heap_start'[t]
    <3>1. CASE r.todo = segs /\ SameHeap
      BY <2>1, <3>1
    <3>2. CASE IF d # cr3[t] /\ Len(segs) > 1 THEN NewHeap ELSE SameHeap
      <4>1. CASE Len(segs) > 1
        BY <1>12, <2>5, <3>2, <4>1
      <4>2. CASE ~ (Len(segs) > 1)
        BY <2>1, <2>4, <3>2, <4>2
      <4> QED BY <4>1, <4>2
    <3> QED BY <1>8, <3>1, <3>2
  <2>7. r.dir # cr3[t]
    BY <1>8, <1>12
  <2>8. ImageWillBe(t)
    BY <1>2, <1>3, <1>5, <1>7, <2>3, <2>6, <2>7, LoadImage
  <2> QED BY <1>10, <2>8, ImageStep
<1> QED BY <1>11, <1>12
LEMMA MapImage ==
    ASSUME VmOK, ProgOK', ImageOK, NEW t \in Tasks, Keeps(t), Edits(t), MapPage(t)
    PROVE  ImageOK'
<1> USE DEF VmOK, CoreOK
<1>1. PICK d, segs, first, end, p, rest, v, x, b :
          /\ d = loc[t].dir /\ segs = loc[t].todo /\ first = Head(segs) /\ end = loc[t].end
          /\ p = loc[t].page /\ rest = <<Tail(first)>> \o Tail(segs) /\ v = Head(first)
          /\ x = runs[t] /\ b = heap_start[t]
  OBVIOUS
<1>2. /\ At(t, "map") /\ cr3' = cr3 /\ slot' = slot /\ heap_end' = heap_end /\ short' = short
      /\ \A u : ProgKept(u)
  BY ProgSame DEF MapPage, taskVars
<1>3. /\ slot[t] = "run" /\ pc[t] = "map" /\ cr3[t] \in Pages /\ LocIs("map", loc[t], cr3[t])
      /\ "map" \in Fills
  BY <1>2, RunIs DEF Fills
<1>4. d \in Pages /\ p \in Pages /\ p # NULL
  BY <1>1, <1>3, FillIs, Sizes
<1>5. /\ segs \in Seq(Seq(VPages)) /\ segs # <<>> /\ first \in Seq(VPages) /\ first # <<>>
      /\ v \in VPages
  BY <1>1, <1>2, MapAddress
<1>6. ImageIs("map", "run", loc[t], cr3[t], x, loads[t], b, heap_end[t], short[t], pde, pte)
  BY <1>1, <1>3 DEF ImageOK
<1>7. \A u \in Tasks : StaysAs(u)
  BY <1>2 DEF StaysAs
<1>8. CASE ~ CanMap(d, v)
  <2>1. pde' = pde /\ pte' = pte
    BY <1>1, <1>8 DEF MapPage, memVars
  <2>2. pc'[t] \in {"user", "destroy"}
    BY <1>1, <1>8 DEF MapPage, Return, Destroy, Go, TasksOK
  <2>3. MapsSame(cr3[t]) /\ pc'[t] \notin Fills
    BY <2>1, <2>2 DEF MapsSame, Fills
  <2>4. ImageWillBe(t)
    BY <1>2, <1>3, <2>3, OwnQuiet
  <2> QED BY <1>7, <2>4, ImageStep
<1>9. CASE CanMap(d, v)
  <2>1. PICK r : r = Fill(d, NULL, rest, end, loc[t].lack)
    OBVIOUS
  <2>2. loc' = [loc EXCEPT ![t] = r] /\ memory_create_map(d, v, p)
    BY <1>1, <1>9, <2>1 DEF MapPage, Set
  <2>3. loc'[t] = r
    BY <2>2 DEF TasksOK
  <2>4. r.dir = d /\ r.todo = rest /\ r.end = end /\ r.lack = loc[t].lack
    BY <2>1 DEF Fill
  <2>5. PICK tag, own : tag = (IF d = cr3[t] THEN "cr3" ELSE "dir") /\ own = "cr3"
    OBVIOUS
  <2>6. Rooted(tag, t, d)
    BY <1>1, <1>3, <2>5 DEF Rooted, Other, Start
  <2>7. OnlyAt(t, tag, v) /\ Maps(pde', pte', d, v) = p
    BY <1>4, <1>5, <1>9, <2>2, <2>6, CreateMaps
  <2>8. \A w \in VPages : w # v => Maps(pde', pte', d, w) = Maps(pde, pte, d, w)
    BY <1>4, <2>5, <2>6, <2>7 DEF OnlyAt
  <2>9. MapsKeep(d)
    BY <1>4, <2>7, <2>8 DEF MapsKeep
  <2>10. ASSUME NEW N, Backed(pde, pte, d, segs, N) PROVE Backed(pde', pte', d, rest, N)
    <3>1. \A w : Listed(segs, w) => w = v \/ Listed(rest, w)
      BY <1>1, <1>5, ListedNext
    <3>2. ASSUME NEW w \in VPages, w \in N
          PROVE  Maps(pde', pte', d, w) # NULL \/ Listed(rest, w)
      BY <1>4, <2>7, <2>9, <2>10, <3>1, <3>2 DEF Backed, MapsKeep
    <3> QED BY <3>2 DEF Backed
  <2>11. CASE d = cr3[t]
    <3>1. ~short[t] /\ ~loc[t].lack => Backed(pde, pte, d, segs, Needs(x, b, end))
      BY <1>1, <1>3, <1>6, <2>11 DEF ImageIs
    <3>2. ~short[t] /\ ~r.lack => Backed(pde', pte', cr3[t], r.todo, Needs(x, b, r.end))
      BY <2>4, <2>10, <2>11, <3>1
    <3>3. r.dir = cr3[t] /\ MapsKeep(cr3[t])
      BY <2>4, <2>9, <2>11
    <3>4. ImageWillBe(t)
      BY <1>1, <1>2, <1>3, <2>3, <3>2, <3>3, GrowImage
    <3> QED BY <1>7, <3>4, ImageStep
  <2>12. CASE d # cr3[t]
    <3>1. /\ Len(segs) >= 2 \/ heap_end[t] = heap_start[t]
          /\ ~loc[t].lack => Backed(pde, pte, d, segs, Image(loads[t]))
      BY <1>1, <1>3, <1>6, <2>12 DEF ImageIs
    <3>2. PICK more : more = Tail(first)
      OBVIOUS
    <3>3. more \in Seq(VPages) /\ rest = <<more>> \o Tail(segs)
      BY <1>1, <1>5, <3>2, SeqFacts
    <3>4. Len(rest) = Len(segs)
      BY <1>5, <3>3, Lengths
    <3>5. /\ loads'[t] = loads[t] /\ runs'[t] = runs[t]
          /\ heap_end'[t] = heap_end[t] /\ heap_start'[t] = heap_start[t]
      BY <1>2 DEF ProgKept
    <3>6. ~r.lack => Backed(pde', pte', r.dir, r.todo, Image(loads'[t]))
      BY <2>4, <2>10, <3>1, <3>5
    <3>7. MapsSame(cr3[t])
      <4>1. PICK c : c = cr3[t]
        OBVIOUS
      <4>2. Rooted(own, t, c) /\ own # tag
        BY <2>5, <2>12, <4>1 DEF Rooted
      <4> QED BY <1>3, <2>5, <2>7, <4>1, <4>2 DEF OnlyAt, MapsSame
    <3>8. r.dir # cr3[t] /\ (Len(r.todo) >= 2 \/ heap_end'[t] = heap_start'[t])
      BY <2>4, <2>12, <3>1, <3>4, <3>5
    <3>9. ImageWillBe(t)
      BY <1>2, <1>3, <2>3, <3>5, <3>6, <3>7, <3>8, LoadImage
    <3> QED BY <1>7, <3>9, ImageStep
  <2> QED BY <2>11, <2>12
<1> QED BY <1>8, <1>9
\* A heap that grows within its last page has the same pages.
LEMMA InPage ==
    ASSUME NEW h \in Nat, NEW n \in Int, h % PAGE_SIZE # 0, (h % PAGE_SIZE) + n <= PAGE_SIZE,
           NEW v \in VPages, v * PAGE_SIZE < h + n
    PROVE  v * PAGE_SIZE < h
<1> DEFINE P == PAGE_SIZE
           q == h \div P
           r == h % P
<1>1. P \in Nat /\ P > 0 /\ v \in Nat
  BY Sizes DEF VPages
<1>2. q \in Nat /\ r \in 1 .. P - 1 /\ h = q * P + r /\ r + n <= P
  BY <1>1, Quotient
<1> HIDE DEF P, q, r
<1>3. ASSUME v * P < h + n PROVE v * P < h
  <2>1. q * P \in Nat /\ v * P \in Nat
    BY <1>1, <1>2
  <2>2. ~ (q < v)
    <3> SUFFICES ASSUME q < v PROVE FALSE
      OBVIOUS
    <3>1. q * P + P <= v * P
      BY <1>1, <1>2, Products
    <3> QED BY <1>1, <1>2, <1>3, <2>1, <3>1
  <2>3. CASE v = q
    BY <1>1, <1>2, <2>1, <2>3
  <2>4. CASE v < q
    <3>1. v * P + P <= q * P
      BY <1>1, <1>2, <2>4, Products
    <3> QED BY <1>1, <1>2, <2>1, <3>1
  <2> QED BY <1>1, <1>2, <2>2, <2>3, <2>4
<1> QED BY <1>3 DEF P

\* The pages of a sys_sbrk are those that its heap needs more.
LEMMA SbrkListed ==
    ASSUME NEW h \in Nat, NEW n \in Nat, NEW v \in VPages, v * PAGE_SIZE < h + n,
           v * PAGE_SIZE >= h, NEW todo, todo = <<SbrkPages(h, n)>>
    PROVE  Listed(todo, v)
<1> DEFINE P == PAGE_SIZE
           m == h + n - SbrkFrom(h) + P - 1
           count == m \div P
<1>1. P \in Nat /\ P > 0 /\ v \in Nat /\ v * P \in Nat
  BY Sizes DEF VPages
<1>2. PICK q \in Nat : SbrkFrom(h) = q * P /\ SbrkFrom(h) \in Nat
  BY FromBorder
<1>3. SbrkFrom(h) < h + P
  <2>1. h % P \in 0 .. P - 1
    BY <1>1, Quotient
  <2> QED BY <1>1, <2>1 DEF SbrkFrom
<1>4. SbrkFrom(h) \div P = q
  <2>1. (q * P + 0) \div P = q
    BY <1>1, Divides
  <2>2. q * P \in Nat
    BY <1>1
  <2> QED BY <1>2, <2>1, <2>2
<1>5. PICK s, k : k = count /\ s = [i \in 1 .. k |-> q + i - 1] /\ s = SbrkPages(h, n)
  BY <1>1, <1>4 DEF SbrkPages, AllocPages
<1>6. v >= q
  <2> SUFFICES ASSUME v < q PROVE FALSE
    BY <1>1
  <2>1. v * P + P <= q * P
    BY <1>1, Products
  <2> QED BY <1>1, <1>2, <1>3, <2>1
<1>7. v * P = q * P + (v - q) * P /\ v - q \in Nat /\ (v - q) * P \in Nat /\ q * P \in Nat
  BY <1>1, <1>6
<1>8. m \in Nat /\ m >= (v - q) * P + P
  BY <1>1, <1>2, <1>7
<1>9. k \in Nat /\ \E r \in 0 .. P - 1 : m = k * P + r
  BY <1>1, <1>5, <1>8, Quotient
<1> HIDE DEF P, m, count
<1>10. v - q < k
  <2> SUFFICES ASSUME k <= v - q PROVE FALSE
    BY <1>7, <1>9
  <2>1. k * P <= (v - q) * P /\ k * P \in Nat
    <3>1. CASE k = v - q
      BY <1>1, <1>7, <3>1
    <3>2. CASE k < v - q
      <4>1. PICK a : a = v - q
        OBVIOUS
      <4>2. k * P + P <= a * P
        BY <1>1, <1>7, <1>9, <3>2, <4>1, Products
      <4>3. k * P \in Nat /\ a * P \in Nat
        BY <1>1, <1>7, <1>9, <4>1
      <4> QED BY <1>1, <4>1, <4>2, <4>3
    <3> QED BY <1>7, <1>9, <3>1, <3>2
  <2>2. PICK r \in 0 .. P - 1 : m = k * P + r
    BY <1>9
  <2> QED BY <1>1, <1>7, <1>8, <2>1, <2>2
<1>11. v - q + 1 \in DOMAIN s /\ s[v - q + 1] = v
  BY <1>1, <1>5, <1>6, <1>9, <1>10
<1>12. 1 \in DOMAIN todo /\ todo[1] = s
  BY <1>5
<1> QED BY <1>11, <1>12 DEF Listed
LEMMA SbrkImage ==
    ASSUME VmOK, ImageOK, NEW t \in Tasks, Keeps(t), Edits(t), NEW n \in INCR, sys_sbrk(t, n)
    PROVE  ImageOK'
<1> USE DEF VmOK, CoreOK
<1>1. PICK h, d, p, b : h = heap_end[t] /\ d = cr3[t] /\ p = runs[t] /\ b = heap_start[t]
  OBVIOUS
<1>2. /\ At(t, "user") /\ slot' = slot /\ cr3' = cr3 /\ short' = short
      /\ pde' = pde /\ pte' = pte /\ h > 0 /\ \A u : ProgKept(u)
  BY <1>1, ProgSame DEF sys_sbrk, memVars
<1>3. slot[t] = "run" /\ pc[t] = "user" /\ d \in Pages
  BY <1>1, <1>2, RunIs
<1>4. h \in Nat /\ n \in Int /\ n # 0
  BY <1>1, IncrAssumption DEF TasksOK
<1>5. ~short[t] => Backed(pde, pte, d, <<>>, Needs(p, b, h))
  BY <1>1, <1>3 DEF ImageOK, ImageIs
<1>6. \A u \in Tasks : StaysAs(u)
  BY <1>2 DEF StaysAs
<1>7. CASE h % PAGE_SIZE # 0 /\ (h % PAGE_SIZE) + n <= PAGE_SIZE
  <2>1. heap_end' = [heap_end EXCEPT ![t] = h + n] /\ pc' = pc /\ loc' = loc
    BY <1>1, <1>7 DEF sys_sbrk
  <2>2. PICK g : g = h + n
    OBVIOUS
  <2>3. \A v \in VPages : v * PAGE_SIZE < g => v * PAGE_SIZE < h
    BY <1>4, <1>7, <2>2, InPage
  <2>4. ~short[t] => Backed(pde', pte', d, <<>>, Needs(p, b, g))
    BY <1>2, <1>5, <2>3 DEF Backed, Needs
  <2>5. /\ heap_end'[t] = g /\ pc'[t] = "user" /\ slot'[t] = "run" /\ cr3'[t] = d
        /\ short'[t] = short[t] /\ runs'[t] = p /\ heap_start'[t] = b
    BY <1>1, <1>2, <1>3, <2>1, <2>2 DEF TasksOK, ProgKept
  <2>6. ImageWillBe(t)
    BY <2>4, <2>5 DEF ImageWillBe, ImageIs, Fills
  <2> QED BY <1>6, <2>6, ImageStep
<1>8. CASE ~ (h % PAGE_SIZE # 0 /\ (h % PAGE_SIZE) + n <= PAGE_SIZE)
  <2>1. PICK todo, end, r : /\ todo = <<SbrkPages(h, n)>> /\ end = h + n
                            /\ r = Fill(d, NULL, todo, end, FALSE)
    OBVIOUS
  <2>2. loc' = [loc EXCEPT ![t] = r] /\ heap_end' = heap_end
    BY <1>1, <1>8, <2>1 DEF sys_sbrk, Set
  <2>3. loc'[t] = r /\ r.dir = cr3[t] /\ r.todo = todo /\ r.end = end
    BY <1>1, <2>1, <2>2 DEF TasksOK, Fill
  <2>4. ASSUME NEW v \in VPages, v * PAGE_SIZE < end, ~ (v * PAGE_SIZE < h)
        PROVE  Listed(todo, v)
    <3>1. v * PAGE_SIZE \in Nat
      BY Sizes DEF VPages
    <3>2. n \in Nat /\ v * PAGE_SIZE >= h
      BY <1>4, <2>1, <2>4, <3>1
    <3>3. v * PAGE_SIZE < h + n
      BY <2>1, <2>4
    <3> QED BY <1>4, <2>1, <3>2, <3>3, SbrkListed
  <2>5. ~short[t] => Backed(pde', pte', d, todo, Needs(p, b, end))
    <3>1. ASSUME ~short[t], NEW v \in VPages, v \in Needs(p, b, end)
          PROVE  Maps(pde', pte', d, v) # NULL \/ Listed(todo, v)
      <4>1. v \in Needs(p, b, h) \/ (v * PAGE_SIZE < end /\ ~ (v * PAGE_SIZE < h))
        BY <3>1 DEF Needs
      <4>2. CASE v \in Needs(p, b, h)
        BY <1>2, <1>5, <3>1, <4>2, NoneListed DEF Backed
      <4> QED BY <2>4, <4>1, <4>2
    <3> QED BY <3>1 DEF Backed
  <2>6. ~short[t] => Backed(pde', pte', cr3[t], r.todo, Needs(runs[t], heap_start[t], r.end))
    BY <1>1, <2>3, <2>5
  <2>7. MapsKeep(cr3[t])
    BY <1>2 DEF MapsKeep
  <2>8. ImageWillBe(t)
    BY <1>1, <1>2, <1>3, <2>2, <2>3, <2>6, <2>7, GrowImage
  <2> QED BY <1>6, <2>8, ImageStep
<1> QED BY <1>7, <1>8

LEMMA SbrkDoneImage ==
    ASSUME VmOK, ImageOK, ShortOK, NEW t \in Tasks, Keeps(t), Edits(t), SbrkDone(t)
    PROVE  ImageOK'
<1> USE DEF VmOK, CoreOK
<1>1. PICK d, end, p, b : d = cr3[t] /\ end = loc[t].end /\ p = runs[t] /\ b = heap_start[t]
  OBVIOUS
<1>2. /\ At(t, "alloc") /\ loc[t].todo = <<>> /\ loc[t].dir = d /\ slot' = slot /\ cr3' = cr3
      /\ pde' = pde /\ pte' = pte /\ heap_end' = [heap_end EXCEPT ![t] = end]
      /\ short' = [short EXCEPT ![t] = short[t] \/ loc[t].lack] /\ pc' = [pc EXCEPT ![t] = "user"]
      /\ \A u : ProgKept(u)
  BY <1>1, ProgSame DEF SbrkDone, memVars, Return, Go
<1>3. slot[t] = "run" /\ pc[t] = "alloc" /\ d \in Pages
  BY <1>1, <1>2, RunIs
<1>4. ~short[t] /\ ~loc[t].lack => Backed(pde, pte, d, <<>>, Needs(p, b, end))
  BY <1>1, <1>2, <1>3 DEF ImageOK, ImageIs, Fills
<1>5. /\ pc'[t] = "user" /\ heap_end'[t] = end /\ slot'[t] = "run" /\ cr3'[t] = d
      /\ short'[t] = (short[t] \/ loc[t].lack) /\ runs'[t] = p /\ heap_start'[t] = b
  BY <1>1, <1>2, <1>3 DEF TasksOK, ShortOK, ProgKept
<1>6. ~short'[t] => Backed(pde', pte', d, <<>>, Needs(p, b, end))
  BY <1>2, <1>4, <1>5
<1>7. ImageWillBe(t)
  BY <1>5, <1>6 DEF ImageWillBe, ImageIs, Fills
<1>8. \A u \in Tasks : u # t => StaysAs(u)
  BY <1>2 DEF StaysAs, TasksOK, ShortOK
<1> QED BY <1>7, <1>8, ImageStep

LEMMA ExecArgsImage ==
    ASSUME VmOK, ImageOK, ShortOK, NEW t \in Tasks, Keeps(t), Edits(t), ExecArgs(t)
    PROVE  ImageOK'
<1> USE DEF VmOK, CoreOK
<1>1. PICK d, h, b, q : d = loc[t].dir /\ h = heap_end[t] /\ b = heap_start[t] /\ q = loads[t]
  OBVIOUS
<1>2. /\ At(t, "alloc") /\ d # cr3[t] /\ loc[t].todo = <<>> /\ slot' = slot /\ heap_end' = heap_end
      /\ pde' = pde /\ pte' = pte /\ pc' = [pc EXCEPT ![t] = "destroy"]
      /\ heap_start' = heap_start /\ loads' = loads
  BY <1>1 DEF ExecArgs, memVars, Destroy, Go
<1>3. slot[t] = "run" /\ pc[t] = "alloc" /\ cr3[t] \in Pages
  BY <1>2, RunIs
<1>4. pc'[t] = "destroy" /\ pc'[t] \notin Fills
  BY <1>2 DEF TasksOK, Fills
<1>5. CASE find_pte(d, ARGS) = NULL
  <2>1. cr3' = cr3 /\ short' = short /\ runs' = runs
    BY <1>1, <1>5 DEF ExecArgs
  <2>2. UNCHANGED progVars
    BY <1>2, <2>1 DEF progVars
  <2> QED BY <1>2, <1>4, <2>1, <2>2, QuietStep
<1>6. CASE find_pte(d, ARGS) # NULL
  <2>1. /\ cr3' = [cr3 EXCEPT ![t] = d] /\ short' = [short EXCEPT ![t] = loc[t].lack]
        /\ runs' = [runs EXCEPT ![t] = q]
    BY <1>1, <1>6 DEF ExecArgs
  <2>2. h = b /\ b \in Nat /\ (~loc[t].lack => Backed(pde, pte, d, <<>>, Image(q)))
    <3>1. /\ Len(loc[t].todo) >= 2 \/ h = b
          /\ ~loc[t].lack => Backed(pde, pte, d, loc[t].todo, Image(q))
      BY <1>1, <1>2, <1>3 DEF ImageOK, ImageIs, Fills
    <3>2. Len(loc[t].todo) = 0
      BY <1>2
    <3>3. b \in Nat
      BY <1>1 DEF ProgOK
    <3> QED BY <1>2, <3>1, <3>2, <3>3
  <2>3. ~loc[t].lack => Backed(pde', pte', d, <<>>, Needs(q, b, h))
    BY <1>2, <2>2, BackedEmpty
  <2>4. /\ heap_end'[t] = h /\ slot'[t] = "run" /\ cr3'[t] = d /\ short'[t] = loc[t].lack
        /\ runs'[t] = q /\ heap_start'[t] = b
    BY <1>1, <1>2, <1>3, <2>1 DEF TasksOK, ShortOK, ProgOK
  <2>5. ImageWillBe(t)
    BY <1>4, <2>3, <2>4 DEF ImageWillBe, ImageIs
  <2>6. \A u \in Tasks : u # t => StaysAs(u)
    BY <1>2, <2>1 DEF StaysAs, TasksOK, ShortOK, ProgOK, ProgKept
  <2> QED BY <2>5, <2>6, ImageStep
<1> QED BY <1>5, <1>6
LEMMA ShortKept ==
    ASSUME ShortOK, short' = short \/ \E c, b : short' = [short EXCEPT ![c] = b]
    PROVE  ShortOK'
BY DEF ShortOK

LEMMA ShortNext ==
    ASSUME ShortOK, [Next]_vars
    PROVE  ShortOK'
<1>1. ASSUME NEW t \in Tasks, Call(t) PROVE short' = short
  BY <1>1 DEF Call, ForkStack, ExecDir, sys_sbrk, sys_exit
<1>2. ASSUME NEW t \in Tasks, ForkDir(t) \/ UndoStack(t) \/ CopyPage(t) \/ CopyMap(t) \/ ExecNoFile(t)
                              \/ AllocPage(t) \/ MapPage(t) PROVE short' = short
  BY <1>2 DEF ForkDir, UndoStack, CopyPage, CopyMap, ExecNoFile, AllocPage, MapPage
<1>3. ASSUME NEW t \in Tasks, UndoUser(t) PROVE \E c, b : short' = [short EXCEPT ![c] = b]
  BY <1>3 DEF UndoUser
<1>4. ASSUME NEW t \in Tasks, NEW d, ForkEnd(t, d) PROVE \E c, b : short' = [short EXCEPT ![c] = b]
  BY <1>4 DEF ForkEnd
<1>5. ASSUME NEW t \in Tasks, CopyDir(t) PROVE short' = short \/ ForkEnd(t, BAD)
  BY <1>5 DEF CopyDir
<1>6. ASSUME NEW t \in Tasks, DestroyStep(t) PROVE short' = short \/ ForkEnd(t, BAD)
  BY <1>6 DEF DestroyStep
<1>7. ASSUME NEW t \in Tasks, CopyDone(t) PROVE ForkEnd(t, loc[t].dir)
  BY <1>7 DEF CopyDone
<1>8. ASSUME NEW t \in Tasks, ExecArgs(t)
      PROVE  short' = short \/ \E c, b : short' = [short EXCEPT ![c] = b]
  BY <1>8 DEF ExecArgs
<1>9. ASSUME NEW t \in Tasks, SbrkDone(t) PROVE \E c, b : short' = [short EXCEPT ![c] = b]
  BY <1>9 DEF SbrkDone
<1>10. ASSUME NEW t \in Tasks, Step(t)
       PROVE  short' = short \/ \E c, b : short' = [short EXCEPT ![c] = b]
  BY <1>2, <1>3, <1>4, <1>5, <1>6, <1>7, <1>8, <1>9, <1>10 DEF Step
<1>11. UNCHANGED vars => short' = short
  BY DEF vars
<1> QED BY <1>1, <1>10, <1>11, ShortKept DEF Next

LEMMA ImageNext ==
    ASSUME VmOK, CopyOK, ShortOK, ImageOK, [Next]_vars
    PROVE  ImageOK'
<1> USE DEF VmOK, CoreOK
<1>p. ProgOK'
  BY NextOK
<1>0. CASE UNCHANGED vars
  BY <1>0 DEF vars, progVars, ImageOK, ImageIs, Backed, Maps
<1>1. ASSUME NEW t \in Tasks, Call(t) PROVE ImageOK'
  <2>0. Keeps(t) /\ Edits(t)
    BY <1>1, CallKeeps, StepEdits
  <2>1. ASSUME NEW c \in Tasks, ForkStack(t, c) PROVE ImageOK'
    BY <1>p, <2>0, <2>1, ForkStackImage
  <2>2. ASSUME NEW n \in INCR, sys_sbrk(t, n) PROVE ImageOK'
    BY <2>0, <2>2, SbrkImage
  <2>3. ASSUME NEW q \in Programs, ExecDir(t, q) PROVE ImageOK'
    BY <1>p, <2>0, <2>3, ExecDirImage
  <2> QED BY <1>1, <2>0, <2>1, <2>2, <2>3, ExitImage DEF Call
<1>2. ASSUME NEW t \in Tasks, Step(t) PROVE ImageOK'
  <2>0. Keeps(t) /\ Edits(t)
    BY <1>2, StepKeeps, StepEdits
  <2>1. ASSUME NEW l \in Forks \ {"undo_user"}, At(t, l), ForkEnd(t, BAD) PROVE ImageOK'
    <3>1. PICK d : d = BAD
      OBVIOUS
    <3>2. d \notin Pages
      BY <3>1, Sizes
    <3> QED BY <1>p, <2>0, <2>1, <3>1, <3>2, ForkEndImage
  <2>2. ASSUME NEW l, At(t, l), l \notin {"undo_user", "map"}, pc'[t] \notin Fills, UNCHANGED taskVars,
               short' = short
        PROVE  ImageOK'
    BY <2>0, <2>2, QuietStep DEF taskVars
  <2>3. ASSUME UndoStack(t) PROVE ImageOK'
    <3>1. /\ At(t, "undo_stack") /\ slot' = slot /\ cr3' = cr3 /\ heap_end' = heap_end /\ short' = short
          /\ UNCHANGED progVars
      BY <2>3 DEF UndoStack
    <3>2. pc'[t] \notin Fills
      BY <2>3 DEF UndoStack, Go, Fills, TasksOK
    <3> QED BY <2>0, <3>1, <3>2, QuietStep
  <2>4. ASSUME CopyDir(t) PROVE ImageOK'
    <3>1. At(t, "copy_dir") /\ "copy_dir" \in Forks \ {"undo_user"}
      BY <2>4 DEF CopyDir, Forks
    <3>2. CASE ForkEnd(t, BAD)
      BY <2>1, <3>1, <3>2
    <3>3. CASE ~ ForkEnd(t, BAD)
      <4>1. pc' = [pc EXCEPT ![t] = "copy"] /\ UNCHANGED <<taskVars, short>>
        BY <2>4, <3>3 DEF CopyDir, Go
      <4>2. pc'[t] \notin Fills
        BY <4>1 DEF Fills, TasksOK
      <4> QED BY <2>2, <3>1, <4>1, <4>2
    <3> QED BY <3>2, <3>3
  <2>5. ASSUME CopyPage(t) PROVE ImageOK'
    <3>1. At(t, "copy") /\ UNCHANGED <<taskVars, short>>
      BY <2>5 DEF CopyPage
    <3>2. pc'[t] \notin Fills
      BY <2>5 DEF CopyPage, Destroy, Go, Fills, TasksOK
    <3> QED BY <2>2, <3>1, <3>2
  <2>6. ASSUME CopyMap(t) PROVE ImageOK'
    <3>1. At(t, "copy_map") /\ UNCHANGED <<taskVars, short>>
      BY <2>6 DEF CopyMap
    <3>2. pc'[t] \notin Fills
      BY <2>6 DEF CopyMap, Destroy, Go, Fills, TasksOK
    <3> QED BY <2>2, <3>1, <3>2
  <2>7. ASSUME ExecNoFile(t) PROVE ImageOK'
    <3>1. At(t, "alloc") /\ UNCHANGED <<taskVars, short>>
      BY <2>7 DEF ExecNoFile
    <3>2. pc'[t] \notin Fills
      BY <2>7 DEF ExecNoFile, Destroy, Go, Fills, TasksOK
    <3> QED BY <2>2, <3>1, <3>2
  <2>8. ASSUME DestroyStep(t) PROVE ImageOK'
    <3>1. PICK l : l = pc[t]
      OBVIOUS
    <3>2. l \in {"undo_copy", "destroy"} /\ At(t, l)
      BY <2>8, <3>1 DEF DestroyStep
    <3>3. \/ ForkEnd(t, BAD) /\ l = "undo_copy"
          \/ (pc' = pc \/ pc' = [pc EXCEPT ![t] = "user"]) /\ UNCHANGED <<taskVars, short>>
      BY <2>8, <3>1 DEF DestroyStep, Return, Go
    <3>4. CASE ForkEnd(t, BAD) /\ l = "undo_copy"
      <4>1. l \in Forks \ {"undo_user"}
        BY <3>4 DEF Forks
      <4> QED BY <2>1, <3>2, <3>4, <4>1
    <3>5. CASE (pc' = pc \/ pc' = [pc EXCEPT ![t] = "user"]) /\ UNCHANGED <<taskVars, short>>
      <4>1. pc'[t] \notin Fills
        BY <3>1, <3>2, <3>5 DEF Fills, TasksOK
      <4> QED BY <2>2, <3>2, <3>5, <4>1
    <3> QED BY <3>3, <3>4, <3>5
  <2> QED BY <1>p, <1>2, <2>0, <2>3, <2>4, <2>5, <2>6, <2>7, <2>8, ForkDirImage, UndoUserImage,
             CopyDoneImage, ExecArgsImage, AllocImage, MapImage, SbrkDoneImage DEF Step
<1> QED BY <1>0, <1>1, <1>2 DEF Next
\* The first program has its pages.
LEMMA FirstMaps ==
    ASSUME Init, NEW v \in FirstPages
    PROVE  Maps(pde, pte, 0, v) # NULL
<1>1. PICK i, j : i = pde_index(v) /\ j = pte_index(v)
  OBVIOUS
<1>2. v \in VPages
  BY ProgramIs
<1>3. i \in PDEs /\ j \in PTEs /\ i \in Dirs
  BY <1>1, <1>2, Address, EntryOf
<1>4. PICK a : a = Table(i)
  OBVIOUS
<1>5. a \in Pages /\ a # NULL
  BY <1>3, <1>4, TableRange, MarksFit, Sizes
<1>6. pde[0][i] = a
  BY <1>3, <1>4, InitMem
<1>7. Entry(a, j) = {v}
  BY <1>1, <1>4, EntryOf
<1>8. pte[a][j] = Page(v)
  <2>1. pte[a][j] = IF Entry(a, j) = {} THEN NULL ELSE Page(CHOOSE x \in Entry(a, j) : TRUE)
    BY <1>3, <1>5, InitMem
  <2>2. (CHOOSE x \in Entry(a, j) : TRUE) = v
    BY <1>7
  <2> QED BY <1>7, <2>1, <2>2
<1>9. Page(v) # NULL
  BY PageRange, MarksFit, Sizes
<1> QED BY <1>1, <1>5, <1>6, <1>8, <1>9 DEF Maps

LEMMA ImageInit ==
    ASSUME Init
    PROVE  ShortOK /\ ImageOK
<1>1. ShortOK
  BY DEF Init, ShortOK
<1>2. Backed(pde, pte, 0, <<>>, Needs("first_task", 0, 0))
  <2>1. PICK d, p, b : d = 0 /\ p = "first_task" /\ b = 0
    OBVIOUS
  <2>2. Image(p) = FirstPages
    BY <2>1, ProgramAssumption DEF Image
  <2>3. Backed(pde, pte, d, <<>>, Image(p))
    BY <2>1, <2>2, FirstMaps DEF Backed
  <2>4. Backed(pde, pte, d, <<>>, Needs(p, b, b))
    BY <2>1, <2>3, BackedEmpty
  <2> QED BY <2>1, <2>4
<1>3. /\ slot = [t \in Tasks |-> IF t = First THEN "run" ELSE "free"]
      /\ cr3 = [t \in Tasks |-> IF t = First THEN 0 ELSE NULL]
      /\ heap_end = [t \in Tasks |-> 0] /\ heap_start = [t \in Tasks |-> 0]
      /\ pc = [t \in Tasks |-> "user"] /\ runs = [t \in Tasks |-> "first_task"]
  BY DEF Init
<1>4. ASSUME NEW t \in Tasks
      PROVE  ImageIs(pc[t], slot[t], loc[t], cr3[t], runs[t], loads[t],
                     heap_start[t], heap_end[t], short[t], pde, pte)
  <2>1. CASE t = First
    <3>1. /\ slot[t] = "run" /\ cr3[t] = 0 /\ heap_end[t] = 0 /\ heap_start[t] = 0
          /\ runs[t] = "first_task" /\ pc[t] = "user"
      BY <1>3, <2>1
    <3> QED BY <1>2, <3>1 DEF ImageIs, Fills
  <2>2. CASE t # First
    <3>1. slot[t] = "free" /\ heap_end[t] = 0 /\ pc[t] = "user"
      BY <1>3, <2>2
    <3> QED BY <3>1 DEF ImageIs, Fills
  <2> QED BY <2>1, <2>2
<1> QED BY <1>1, <1>4 DEF ImageOK

LEMMA ImageInSpace ==
    ASSUME NEW p \in Programs \cup {"first_task"}
    PROVE  Image(p) \subseteq VPages
<1>1. CASE p \notin Programs
  BY <1>1, SpaceAssumption DEF Image
<1>2. CASE p \in Programs
  <2>1. PICK segs : segs = Segments(p)
    OBVIOUS
  <2>2. segs \in Seq(Seq(VPages))
    BY <1>2, <2>1, SpaceAssumption
  <2>3. \A i \in DOMAIN segs : PagesOf(segs[i]) \subseteq VPages
    BY <2>2 DEF PagesOf
  <2>4. Image(p) = UNION {PagesOf(segs[i]) : i \in DOMAIN segs}
    BY <1>2, <2>1 DEF Image
  <2> QED BY <2>3, <2>4
<1> QED BY <1>1, <1>2

\* memory_alloc_for_page_dir maps every page of n units from the border of a page.
LEMMA AllocCovers ==
    ASSUME NEW a \in Nat, NEW n \in Nat, NEW v \in Nat, a <= v,
           v * PAGE_SIZE < a * PAGE_SIZE + n
    PROVE  v \in PagesOf(AllocPages(a * PAGE_SIZE, n))
<1> DEFINE P == PAGE_SIZE
           m == n + P - 1
           k == m \div P
<1>1. P \in Nat /\ P > 0
  BY Sizes
<1>2. PICK e \in Nat : v = a + e
  <2>1. v - a \in Nat /\ v = a + (v - a)
    OBVIOUS
  <2> QED BY <2>1
<1>3. v * P = a * P + e * P /\ a * P \in Nat /\ e * P \in Nat /\ m \in Nat
  BY <1>1, <1>2
<1>4. m >= e * P + P
  BY <1>1, <1>3
<1>5. k \in Nat /\ \E r \in 0 .. P - 1 : m = k * P + r
  BY <1>1, <1>3, Quotient
<1>6. (a * P) \div P = a
  <2>1. (a * P + 0) \div P = a
    BY <1>1, Divides
  <2> QED BY <1>3, <2>1
<1>7. AllocPages(a * P, n) = [i \in 1 .. k |-> a + i - 1]
  BY <1>6 DEF AllocPages
<1> HIDE DEF P, m, k
<1>8. e < k
  <2> SUFFICES ASSUME ~ (e < k) PROVE FALSE
    OBVIOUS
  <2>1. PICK r \in 0 .. P - 1 : m = k * P + r
    BY <1>5
  <2>2. k * P <= e * P /\ k * P \in Nat
    <3>1. CASE k = e
      BY <1>3, <3>1
    <3>2. CASE k < e
      <4>1. k * P + P <= e * P /\ k * P \in Nat
        BY <1>1, <1>2, <1>5, <3>2, Products
      <4> QED BY <1>1, <1>3, <4>1
    <3> QED BY <1>2, <1>5, <3>1, <3>2
  <2> QED BY <1>1, <1>3, <1>4, <2>1, <2>2
<1>9. PICK s : s = AllocPages(a * P, n)
  OBVIOUS
<1>10. e + 1 \in DOMAIN s /\ s[e + 1] = v
  BY <1>2, <1>5, <1>7, <1>8, <1>9
<1> QED BY <1>9, <1>10 DEF PagesOf, P

\* The page a program's own heap starts in is one of the program.
LEMMA HeapInImage ==
    ASSUME NEW q \in Programs, FILE[q].vaddr % PAGE_SIZE = 0, NEW v \in VPages,
           v * PAGE_SIZE < HeapStart(q), (v + 1) * PAGE_SIZE > HeapStart(q)
    PROVE  v \in Image(q)
<1> DEFINE P == PAGE_SIZE
<1>1. PICK addr, n : addr = FILE[q].vaddr /\ n = FILE[q].memsz
  OBVIOUS
<1>2. addr \in Nat /\ n \in Nat /\ n > 0 /\ HeapStart(q) = addr + n
  BY <1>1, ProgramAssumption DEF HeapStart
<1>3. P \in Nat /\ P > 0 /\ v \in Nat /\ v * P \in Nat /\ (v + 1) * P = v * P + P
  BY Sizes DEF VPages
<1>4. PICK a \in Nat : addr = a * P
  <2>1. PICK a, r : a = addr \div P /\ r = addr % P
    OBVIOUS
  <2>2. a \in Nat /\ addr = a * P + r /\ r = 0
    BY <1>1, <1>2, <1>3, <2>1, Quotient
  <2>3. a * P \in Nat
    BY <1>3, <2>2
  <2> QED BY <2>2, <2>3
<1>5. v * P < a * P + n /\ v * P + P > a * P + n /\ a * P \in Nat
  BY <1>2, <1>3, <1>4
<1> HIDE DEF P
<1>6. a <= v
  <2> SUFFICES ASSUME v < a PROVE FALSE
    BY <1>3
  <2>1. v * P + P <= a * P
    BY <1>3, Products
  <2> QED BY <1>2, <1>3, <1>5, <2>1
<1>7. v \in PagesOf(AllocPages(addr, n))
  BY <1>2, <1>3, <1>4, <1>5, <1>6, AllocCovers DEF P
<1>8. PICK one, stack, f, c : /\ one = AllocPages(addr, n) /\ c = FILE[q].phnum
                              /\ stack = AllocPages(STACK_START, STACK_SIZE)
                              /\ f = [i \in 1 .. c |-> one]
  OBVIOUS
<1>9. c \in Nat /\ c >= 1
  BY <1>8, ProgramAssumption
<1>10. PICK segs : segs = f \o <<stack>> /\ segs = Segments(q)
  BY <1>1, <1>8 DEF Segments
<1>11. 1 \in DOMAIN segs /\ segs[1] = one
  <2>1. PICK S : S = {one, stack}
    OBVIOUS
  <2>2. f \in Seq(S) /\ Len(f) = c /\ f[1] = one
    BY <1>8, <1>9, <2>1
  <2>3. <<stack>> \in Seq(S)
    BY <2>1
  <2> QED BY <1>9, <1>10, <2>2, <2>3
<1>12. Image(q) = UNION {PagesOf(segs[i]) : i \in DOMAIN segs}
  BY <1>10 DEF Image
<1> QED BY <1>7, <1>8, <1>11, <1>12

LEMMA ImageIsBacked ==
    ASSUME VmOK, ImageOK
    PROVE  ImageBacked
<1> SUFFICES ASSUME NEW t \in Tasks, At(t, "user"), ~short[t]
             PROVE  /\ Image(runs[t]) \subseteq Mapped(cr3[t])
                    /\ \A v \in VPages :
                          v * PAGE_SIZE < heap_end[t] /\ (v + 1) * PAGE_SIZE > heap_start[t] =>
                              \/ v \in Mapped(cr3[t])
                              \/ v * PAGE_SIZE < heap_start[t] /\ ~HeapFollows(t)
  BY DEF ImageBacked
<1>1. PICK p, b, h : p = runs[t] /\ b = heap_start[t] /\ h = heap_end[t]
  OBVIOUS
<1>2. slot[t] = "run" /\ cr3[t] \in Pages
  BY RunIs DEF VmOK, CoreOK
<1>3. Backed(pde, pte, cr3[t], <<>>, Needs(p, b, h))
  BY <1>1, <1>2 DEF ImageOK, ImageIs
<1>4. ASSUME NEW v \in VPages, v \in Needs(p, b, h) PROVE v \in Mapped(cr3[t])
  <2>1. Maps(pde, pte, cr3[t], v) # NULL
    BY <1>3, <1>4, NoneListed DEF Backed
  <2> QED BY <2>1 DEF Maps, Mapped, find_pte
<1>5. Image(p) \subseteq VPages /\ b \in Nat
  BY <1>1, ImageInSpace DEF VmOK, ProgOK
<1>6. Image(p) \subseteq Mapped(cr3[t])
  BY <1>4, <1>5 DEF Needs
<1>7. ASSUME NEW v \in VPages, v * PAGE_SIZE < h, (v + 1) * PAGE_SIZE > b
      PROVE  v \in Mapped(cr3[t]) \/ (v * PAGE_SIZE < b /\ ~HeapFollows(t))
  <2>1. v * PAGE_SIZE \in Nat
    BY Sizes DEF VPages
  <2>2. CASE b <= v * PAGE_SIZE
    BY <1>4, <1>7, <2>2 DEF Needs
  <2>3. ASSUME v * PAGE_SIZE < b, HeapFollows(t) PROVE v \in Image(p)
    <3>1. b = HeapStart(p) /\ (p \in Programs => FILE[p].vaddr % PAGE_SIZE = 0)
      BY <1>1, <2>3 DEF HeapFollows
    <3>2. p \in Programs
      BY <2>1, <2>3, <3>1 DEF HeapStart
    <3> QED BY <1>7, <2>3, <3>1, <3>2, HeapInImage
  <2> QED BY <1>5, <1>6, <2>1, <2>2, <2>3
<1> QED BY <1>1, <1>6, <1>7

\* A task in user mode that was never let run short of pages has the program it runs and
\* the pages of its heap mapped, whatever forks, execve and sys_sbrk did before, and failed
\* to do: also when a failed execve has left it the heap of a program that is not there.
THEOREM ProgramsBacked == Spec => []ImageBacked
<1>1. VmOK /\ CopyOK /\ [Next]_vars => CopyOK'
  BY CopyNext
<1>2. ShortOK /\ [Next]_vars => ShortOK'
  BY ShortNext
<1>3. VmOK /\ CopyOK /\ ShortOK /\ ImageOK /\ [Next]_vars => ImageOK'
  BY ImageNext
<1>4. Init => CopyOK /\ ShortOK /\ ImageOK
  BY CopyInit, ImageInit
<1>5. VmOK /\ ImageOK => ImageBacked
  BY ImageIsBacked
<1> QED BY <1>1, <1>2, <1>3, <1>4, <1>5, VmSafe, PTL DEF Spec
=============================================================================
