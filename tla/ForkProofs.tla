----------------------------- MODULE ForkProofs -----------------------------
(* The task table and the descriptor table, for tables of any size, any    *)
(* names and any number of forks.                                          *)
EXTENDS Fork, FiniteSetTheorems, WellFoundedInduction, TLAPS

-----------------------------------------------------------------------------
(* The invariant.                                                          *)

Labels == {"user", "alloc", "desc", "pages", "name", "start", "uninit", "free"}
Locs   == [child : g_task_table \cup {NULL}, sel : Descs \cup {NULL, -1}]
Ours   == RESERVED .. GDT_TABLE_SIZE - 1
Begun  == live \cup gone

\* Where a task can be, whatever was raced or emptied.
Shape ==
    /\ live \subseteq Tasks /\ gone \subseteq Tasks
    /\ pc \in [Tasks -> Labels] /\ loc \in [Tasks -> Locs]
    /\ \A t \in Tasks : loc[t].child = NULL <=> pc[t] = "user"
    /\ \A t \in Tasks : pc[t] = "user" => loc[t] = NoLoc
    /\ \A t \in Tasks \ live : pc[t] = "user"
    /\ name = [t \in Tasks |-> name[t]] /\ tss_sel = [t \in Tasks |-> tss_sel[t]]
    /\ base = [d \in Descs |-> base[d]]
    /\ raced \in BOOLEAN /\ emptied \in BOOLEAN

\* A string that is not empty and does not begin with a NUL.
Proper(s) == Len(s) \in Nat \ {0} /\ DOMAIN s = 1 .. Len(s) /\ s[1] # NUL

Empty(s) == name[s] = <<>> /\ tss_sel[s] = 0

\* The slot of a task that was started.
Started == \A t \in Begun : Proper(name[t]) /\ tss_sel[t] \in Descs /\ base[tss_sel[t]] = t

\* A slot and a descriptor, at a line of the fork that works on them.
SlotAt(l, c, d) ==
    /\ c \in g_task_table \ Begun
    /\ l \in {"alloc", "desc", "pages", "uninit", "free"} => Empty(c)
    /\ l = "name" => name[c] = <<>>
    /\ l = "start" => Proper(name[c])
    /\ l \in {"desc", "pages", "name", "start"} => d \in Ours
    /\ l = "alloc" => d = NULL
    /\ l \in {"uninit", "free"} => d # -1
    /\ l = "desc" => base[d] = NULL
    /\ l \in {"pages", "name", "start"} => base[d] = c
    /\ l \in {"name", "start"} => tss_sel[c] = d

ForksOK == \A t \in Forking : SlotAt(pc[t], loc[t].child, loc[t].sel)

Apart == \A t, u \in Forking : loc[t].child = loc[u].child => t = u

Alone == \A t, u \in Window : t = u

Unused(s) == s \in g_task_table \ Begun /\ \A t \in Forking : loc[t].child # s

UnusedOK == \A s \in g_task_table : Unused(s) => Empty(s)

\* d is the descriptor of s, or will be.
Owns(s, d) ==
    \/ tss_sel[s] = d
    \/ \E t \in Forking : pc[t] = "pages" /\ loc[t].child = s /\ loc[t].sel = d

DescsOK ==
    /\ \A d \in Ours : base[d] # NULL => base[d] \in g_task_table /\ Owns(base[d], d)
    /\ \A d \in 1 .. RESERVED - 1 : base[d] # NULL

Tables == Started /\ ForksOK /\ Apart /\ Alone /\ UnusedOK /\ DescsOK

ForkInv == Shape /\ (~raced /\ ~emptied => Tables)

LEMMA Sizes ==
    /\ NTASKS \in Nat \ {0} /\ GDT_TABLE_SIZE \in Nat /\ RESERVED \in Nat \ {0, 1}
    /\ GDT_TABLE_SIZE >= RESERVED + NTASKS
    /\ g_task_table \subseteq Nat /\ Descs \subseteq Nat /\ Ours \subseteq Descs /\ 0 \notin Descs
    /\ RESERVED - 1 \in Descs /\ RESERVED - 1 \notin Ours
    /\ NULL \notin g_task_table /\ NULL \notin Descs /\ NULL # -1 /\ NULL # "seg" /\ NULL # First
    /\ First \in Tasks /\ First \notin g_task_table
<1>1. NTASKS \in Nat \ {0} /\ GDT_TABLE_SIZE \in Nat /\ RESERVED \in Nat \ {0, 1}
  BY TableAssumption
<1>2. GDT_TABLE_SIZE >= RESERVED + NTASKS
  BY GdtAssumption
<1>3. g_task_table \subseteq Nat /\ Descs \subseteq Nat /\ Ours \subseteq Descs /\ 0 \notin Descs
  BY <1>1 DEF g_task_table, Descs, Ours
<1>4. RESERVED - 1 \in Descs /\ RESERVED - 1 \notin Ours
  BY <1>1, <1>2 DEF Descs, Ours
<1>5. NULL \notin g_task_table /\ NULL \notin Int /\ NULL # "seg" /\ NULL # First
  BY FirstAssumption DEF Tasks
<1>6. NULL \notin Descs /\ NULL # -1
  <2>1. -1 \in Int /\ Descs \subseteq Int
    BY <1>3
  <2> QED BY ONLY <1>5, <2>1
<1>7. First \in Tasks /\ First \notin g_task_table
  BY FirstAssumption DEF Tasks
<1> QED BY <1>1, <1>2, <1>3, <1>4, <1>5, <1>6, <1>7

\* What the searches find.
LEMMA Smallest ==
    ASSUME NEW S \in SUBSET Nat, S # {}
    PROVE  /\ Min(S) \in S
           /\ \E x \in S : \A y \in S : x <= y
<1> DEFINE R == OpToRel(<, Nat)
<1>1. IsWellFoundedOn(R, Nat)
  BY NatLessThanWellFounded
<1>2. \A x, y \in Nat : <<x, y>> \in R <=> x < y
  BY DEF OpToRel
<1> HIDE DEF R
<1>3. PICK x \in S : \A y \in S : ~ (<<y, x>> \in R)
  BY <1>1, WFMin
<1>4. ASSUME NEW y \in S PROVE x <= y
  <2>1. ~ (y < x)
    BY <1>2, <1>3
  <2> QED BY <2>1
<1> QED BY <1>4 DEF Min

-----------------------------------------------------------------------------
(* The names.                                                              *)

\* A string that ends within its memory is proper, or empty.
LEMMA StringProper ==
    ASSUME NEW n \in Nat, NEW mem, DOMAIN mem = 0 .. n, NEW e \in 0 .. n, mem[e] = NUL
    PROVE  /\ StringAt(mem) = <<>> \/ Proper(StringAt(mem))
           /\ mem[0] # NUL => Proper(StringAt(mem))
<1> DEFINE End(k) == k >= 0 /\ mem[k] = NUL /\ \A i \in 0 .. k - 1 : mem[i] # NUL
           len    == CHOOSE k \in DOMAIN mem : End(k)
<1>1. PICK k \in {i \in 0 .. n : mem[i] = NUL} : \A y \in {i \in 0 .. n : mem[i] = NUL} : k <= y
  <2> DEFINE S == {i \in 0 .. n : mem[i] = NUL}
  <2>1. S \in SUBSET Nat /\ S # {}
    OBVIOUS
  <2> HIDE DEF S
  <2>2. \E x \in S : \A y \in S : x <= y
    BY <2>1, Smallest
  <2> QED BY <2>2 DEF S
<1>2. k \in DOMAIN mem /\ End(k)
  BY <1>1
<1>3. len \in DOMAIN mem /\ End(len)
  BY <1>2
<1> HIDE DEF len
<1>4. len \in Nat /\ (mem[0] # NUL => len # 0) /\ (len # 0 => mem[0] # NUL)
  BY <1>3
<1>5. StringAt(mem) = [i \in 1 .. len |-> mem[i - 1]]
  BY DEF StringAt, len
<1>6. CASE len = 0
  BY <1>4, <1>5, <1>6
<1>7. CASE len # 0
  <2> DEFINE s == [i \in 1 .. len |-> mem[i - 1]]
             S == {mem[j] : j \in 0 .. n}
  <2>1. DOMAIN s = 1 .. len /\ s[1] = mem[0]
    BY <1>4, <1>7
  <2>2. Len(s) = len
    <3>1. ASSUME NEW i \in 1 .. len PROVE mem[i - 1] \in S
      <4>1. i - 1 \in 0 .. n
        BY <1>3, <1>4
      <4> QED BY <4>1
    <3> HIDE DEF S
    <3>2. s \in [1 .. len -> S]
      BY <3>1
    <3> HIDE DEF s
    <3>3. s \in Seq(S)
      BY ONLY <1>4, <3>2
    <3> QED BY ONLY <1>4, <3>2, <3>3
  <2> QED BY <1>4, <1>5, <1>7, <2>1, <2>2 DEF Proper
<1> QED BY <1>6, <1>7

\* The name that k_strncpy makes of a string that fits is proper, or empty, and is
\* proper if the string is.
LEMMA NamedProper ==
    ASSUME NEW s, Len(s) \in Nat
    PROVE  /\ Named(s) = <<>> \/ Proper(Named(s))
           /\ Proper(s) => Proper(Named(s))
<1> DEFINE z   == TASK_NAME_SIZE
           n   == IF Len(s) < z THEN Len(s) ELSE z
           end == IF Len(s) = z - 1 THEN n - 1 ELSE n
           mem == [i \in 0 .. z |-> IF i = end THEN NUL
                                    ELSE IF i \in 0 .. n - 1 THEN s[i + 1] ELSE NUL]
<1>1. z \in Nat \ {0, 1, 2}
  BY NameAssumption
<1>2. end \in 0 .. z /\ n \in 0 .. z /\ (Len(s) # 0 => end # 0 /\ n # 0)
  <2>1. PICK m \in Nat : m = Len(s)
    OBVIOUS
  <2>2. CASE m < z - 1
    BY <1>1, <2>1, <2>2
  <2>3. CASE m = z - 1
    BY <1>1, <2>1, <2>3
  <2>4. CASE m >= z
    BY <1>1, <2>1, <2>4
  <2> QED BY <1>1, <2>1, <2>2, <2>3, <2>4
<1>3. Named(s) = StringAt(mem)
  BY <1>1 DEF Named, k_strncpy
<1> HIDE DEF end, n, z
<1>4. DOMAIN mem = 0 .. z /\ mem[end] = NUL
  BY <1>1, <1>2
<1>5. Proper(s) => mem[0] = s[1] /\ mem[0] # NUL
  BY <1>1, <1>2 DEF Proper
<1> HIDE DEF mem
<1>6. /\ StringAt(mem) = <<>> \/ Proper(StringAt(mem))
      /\ mem[0] # NUL => Proper(StringAt(mem))
  BY <1>1, <1>2, <1>4, StringProper
<1> QED BY <1>3, <1>5, <1>6

LEMMA ProperNotEmpty == ~ Proper(<<>>)
BY DEF Proper
-----------------------------------------------------------------------------
(* The initial state.                                                      *)

LEMMA InitTables == Init => ForkInv
<1> SUFFICES ASSUME Init PROVE ForkInv
  OBVIOUS
<1> USE Sizes
<1>1. \A t \in Tasks : pc[t] = "user" /\ loc[t] = NoLoc
  BY DEF Init
<1>2. NoLoc \in Locs /\ NoLoc.child = NULL
  BY DEF NoLoc, Locs
<1>3. Shape
  BY <1>1, <1>2 DEF Init, Shape, Labels
<1>4. Forking = {} /\ Window = {} /\ Begun = {First}
  BY <1>1, <1>2 DEF Init, Forking, Window, Begun
<1>5. Proper(FirstName)
  BY NameAssumption DEF Proper
<1>6. \A d \in Descs : base[d] = IF d = RESERVED - 1 THEN First ELSE IF d < RESERVED THEN "seg" ELSE NULL
  BY DEF Init
<1>7. Started
  BY <1>4, <1>5, <1>6 DEF Init, Started
<1>8. UnusedOK
  BY <1>4 DEF Init, UnusedOK, Unused, Empty, Tasks
<1>9. \A d \in Ours : base[d] = NULL
  BY <1>6 DEF Ours
<1>10. \A d \in 1 .. RESERVED - 1 : d \in Descs /\ base[d] # NULL
  BY <1>6 DEF Descs
<1>11. DescsOK
  BY <1>9, <1>10 DEF DescsOK
<1> QED BY <1>3, <1>4, <1>7, <1>8, <1>11 DEF ForkInv, Tables, ForksOK, Apart, Alone

-----------------------------------------------------------------------------
(* The steps.                                                              *)

\* The slot that alloc_task finds.
LEMMA SlotFound ==
    ASSUME NEW t, ForkSlot(t)
    PROVE  \E c \in g_task_table : name[c] = <<>> /\ loc' = [loc EXCEPT ![t].child = c]
<1> DEFINE free == {s \in g_task_table : name[s] = <<>>}
<1>1. free \in SUBSET Nat /\ free # {} /\ loc' = [loc EXCEPT ![t].child = Min(free)]
  BY Sizes DEF ForkSlot
<1> HIDE DEF free
<1>2. Min(free) \in free
  BY <1>1, Smallest
<1>3. PICK c : c = Min(free) /\ c \in free
  BY <1>2
<1> QED BY <1>1, <1>3 DEF free

\* The descriptor that gdt_alloc_desc finds.
LEMMA DescFound ==
    \/ gdt_alloc_desc = -1 /\ \A d \in Descs : base[d] # NULL
    \/ gdt_alloc_desc \in Descs /\ base[gdt_alloc_desc] = NULL
<1> DEFINE free == {d \in Descs : base[d] = NULL}
<1>1. free \in SUBSET Nat
  BY Sizes
<1>2. CASE free = {}
  BY <1>2 DEF gdt_alloc_desc
<1>3. CASE free # {}
  <2>1. gdt_alloc_desc = Min(free)
    BY <1>3 DEF gdt_alloc_desc
  <2> HIDE DEF free
  <2>2. Min(free) \in free
    BY <1>1, <1>3, Smallest
  <2> QED BY <2>1, <2>2 DEF free
<1> QED BY <1>2, <1>3

LEMMA ShapeStep == ASSUME Shape, [Next]_vars PROVE Shape'
<1> USE DEF Shape, Labels
<1>1. CASE UNCHANGED vars
  BY <1>1 DEF vars
<1> SUFFICES ASSUME NEW t \in Tasks,
                    \/ ForkSlot(t) \/ ForkDesc(t) \/ ForkSeg(t) \/ ForkPages(t) \/ ForkName(t)
                    \/ ForkStart(t) \/ ForkUninit(t) \/ ForkFree(t)
                    \/ \E p \in Paths : sys_execve(t, p)
                    \/ sys_exit(t)
             PROVE  Shape'
  BY <1>1 DEF Next
<1> USE DEF At, Go
<1>2. NoLoc \in Locs /\ NoLoc.child = NULL
  BY DEF NoLoc, Locs
<1>3. CASE ForkSlot(t)
  <2>1. PICK c \in g_task_table : loc' = [loc EXCEPT ![t].child = c]
    BY <1>3, SlotFound
  <2>2. PICK r \in Locs : loc[t] = r
    OBVIOUS
  <2>3. loc'[t] = [r EXCEPT !.child = c]
    BY <2>1, <2>2
  <2>4. [r EXCEPT !.child = c] \in Locs /\ [r EXCEPT !.child = c].child = c /\ c # NULL
    BY ONLY r \in Locs, c \in g_task_table, Sizes DEF Locs
  <2>5. loc'[t] \in Locs /\ loc'[t].child # NULL
    BY <2>3, <2>4
  <2>6. loc' \in [Tasks -> Locs] /\ \A u \in Tasks \ {t} : loc'[u] = loc[u]
    BY <2>1, <2>5
  <2>7. /\ pc' \in [Tasks -> Labels] /\ pc'[t] = "alloc" /\ t \in live
        /\ \A u \in Tasks \ {t} : pc'[u] = pc[u]
    BY <1>3 DEF ForkSlot
  <2>8. UNCHANGED <<name, tss_sel, base, live, gone, emptied>> /\ raced' \in BOOLEAN
    BY <1>3 DEF ForkSlot
  <2> QED BY <2>5, <2>6, <2>7, <2>8
<1>4. CASE ForkDesc(t)
  <2>1. PICK d \in Descs \cup {-1} : loc' = [loc EXCEPT ![t].sel = d]
    BY <1>4, DescFound DEF ForkDesc
  <2>2. loc'[t] \in Locs /\ loc'[t].child = loc[t].child
    BY <2>1 DEF Locs
  <2> QED BY <1>4, <2>1, <2>2 DEF ForkDesc
<1>5. CASE ForkSeg(t)
  BY <1>5 DEF ForkSeg, segment_desc_set
<1>6. CASE ForkPages(t)
  BY <1>6 DEF ForkPages, gdt_free_sel
<1>7. CASE ForkName(t)
  BY <1>7 DEF ForkName
<1>8. CASE ForkStart(t)
  <2>1. loc[t].child \in Tasks
    BY <1>8 DEF ForkStart, Locs, Tasks
  <2> QED BY <1>2, <1>8, <2>1 DEF ForkStart, Return
<1>9. CASE ForkUninit(t)
  BY <1>9 DEF ForkUninit, gdt_free_sel
<1>10. CASE ForkFree(t)
  BY <1>2, <1>10 DEF ForkFree, free_task, Return
<1>11. CASE \E p \in Paths : sys_execve(t, p)
  BY <1>11 DEF sys_execve
<1>12. CASE sys_exit(t)
  BY <1>12 DEF sys_exit
<1> QED BY <1>3, <1>4, <1>5, <1>6, <1>7, <1>8, <1>9, <1>10, <1>11, <1>12

\* A step of t leaves the others where they are.
Others(t) == \A u \in Tasks \ {t} : pc'[u] = pc[u] /\ loc'[u] = loc[u]

\* The lines at which a fork keeps others from starting.
Unnamed == {"alloc", "desc", "pages", "name", "uninit", "free"}

LEMMA ForkingIs ==
    ASSUME Shape
    PROVE  /\ \A u \in Forking : u \in Tasks /\ u \in live /\ loc[u].child \in g_task_table
           /\ \A u \in Tasks : u \in Forking <=> u \in live /\ pc[u] # "user"
           /\ \A u \in Tasks : u \in Window <=> u \in live /\ pc[u] \in Unnamed
<1>1. \A u \in Tasks : u \in Forking <=> u \in live /\ pc[u] # "user"
  BY DEF Forking, Shape
<1>2. \A u \in Forking : u \in Tasks /\ u \in live /\ loc[u].child \in g_task_table
  BY DEF Forking, Shape, Locs
<1> QED BY <1>1, <1>2 DEF Window, Unnamed

\* The same of the next state.
LEMMA ForkingNext ==
    ASSUME Shape'
    PROVE  /\ \A u \in Forking' : u \in Tasks /\ u \in live' /\ loc'[u].child \in g_task_table
           /\ \A u \in Tasks : u \in Forking' <=> u \in live' /\ pc'[u] # "user"
           /\ \A u \in Tasks : u \in Window' <=> u \in live' /\ pc'[u] \in Unnamed
<1>1. \A u \in Tasks : u \in Forking' <=> u \in live' /\ pc'[u] # "user"
  BY DEF Forking, Shape
<1>2. \A u \in Forking' : u \in Tasks /\ u \in live' /\ loc'[u].child \in g_task_table
  BY DEF Forking, Shape, Locs
<1>3. Tasks' = Tasks
  BY DEF Tasks, g_task_table
<1> QED BY <1>1, <1>2, <1>3 DEF Window, Unnamed

\* A slot without a selector has no descriptor, but for the one being set.
LEMMA NoDesc ==
    ASSUME Shape, Tables, NEW t \in Forking, Empty(loc[t].child)
    PROVE  \A e \in Ours : base[e] = loc[t].child => pc[t] = "pages" /\ loc[t].sel = e
<1> SUFFICES ASSUME NEW e \in Ours, base[e] = loc[t].child
             PROVE  pc[t] = "pages" /\ loc[t].sel = e
  OBVIOUS
<1>1. loc[t].child # NULL /\ tss_sel[loc[t].child] = 0 /\ e # 0
  BY Sizes, ForkingIs DEF Empty
<1>2. Owns(loc[t].child, e)
  BY <1>1 DEF Tables, DescsOK
<1>3. PICK u \in Forking : pc[u] = "pages" /\ loc[u].child = loc[t].child /\ loc[u].sel = e
  BY <1>1, <1>2 DEF Owns
<1> QED BY <1>3 DEF Tables, Apart

\* The steps of a fork between finding its slot and leaving it.
LEMMA Within ==
    ASSUME Shape, Tables, Shape', NEW t \in Window, NEW c, c = loc[t].child,
           pc'[t] # "user", loc'[t].child = c, Others(t), live' = live, gone' = gone,
           \A s \in Tasks \ {c} : name'[s] = name[s] /\ tss_sel'[s] = tss_sel[s],
           \A e \in Descs : \/ base'[e] = base[e]
                            \/ e \in Ours /\ base[e] \in {NULL, c} /\ base'[e] \in {NULL, c},
           SlotAt(pc[t], loc[t].child, loc[t].sel)',
           \A e \in Ours : base'[e] = c => Owns(c, e)'
    PROVE  Tables'
<1>1. t \in Forking /\ t \in Tasks /\ c \in g_task_table /\ c # NULL /\ c \notin Begun
  BY ForkingIs, Sizes DEF Window, Shape, Unnamed, Tables, ForksOK, SlotAt
<1>2. Forking' = Forking /\ t \in Forking'
  BY <1>1, ForkingIs, ForkingNext DEF Others
<1>3. \A u \in Forking \ {t} : u \in Tasks /\ pc'[u] = pc[u] /\ loc'[u] = loc[u] /\ loc[u].child # c
  BY <1>1, ForkingIs DEF Others, Tables, Apart
<1>4. \A u \in Forking \ {t} : pc[u] = "start"
  BY <1>1, ForkingIs DEF Tables, Alone, Unnamed, Shape, Labels
<1>5. Begun' = Begun /\ Begun \subseteq Tasks
  BY DEF Begun, Shape
<1>6. Started'
  <2> SUFFICES ASSUME NEW u \in Begun
               PROVE  Proper(name'[u]) /\ tss_sel'[u] \in Descs /\ base'[tss_sel'[u]] = u
    BY <1>5 DEF Started
  <2>1. Proper(name[u]) /\ tss_sel[u] \in Descs /\ base[tss_sel[u]] = u
    BY DEF Tables, Started
  <2>2. u \in Tasks /\ u # c /\ u # NULL
    BY <1>1, <1>5, Sizes DEF Tasks
  <2>3. name'[u] = name[u] /\ tss_sel'[u] = tss_sel[u]
    BY <2>2
  <2> QED BY <2>1, <2>2, <2>3
<1>7. ForksOK'
  <2> SUFFICES ASSUME NEW u \in Forking \ {t}
               PROVE  SlotAt(pc[u], loc[u].child, loc[u].sel)'
    BY <1>2 DEF ForksOK
  <2>1. SlotAt("start", loc[u].child, loc[u].sel)
    BY <1>4 DEF Tables, ForksOK
  <2>2. PICK k, d : k = loc[u].child /\ d = loc[u].sel
    OBVIOUS
  <2>3. k # c /\ k \in g_task_table /\ d \in Ours /\ base[d] = k /\ tss_sel[k] = d /\ Proper(name[k])
        /\ k \notin Begun
    BY <1>3, <2>1, <2>2 DEF SlotAt
  <2>4. k \in Tasks /\ d \in Descs /\ k # NULL
    BY <2>3, Sizes DEF Tasks
  <2>5. base'[d] = k /\ tss_sel'[k] = d /\ name'[k] = name[k]
    BY <2>3, <2>4
  <2> QED BY <1>3, <1>4, <1>5, <2>2, <2>3, <2>5 DEF SlotAt
<1>8. Apart' /\ Alone'
  <2>1. Apart'
    BY <1>2, <1>3 DEF Tables, Apart
  <2>2. ASSUME NEW u \in Window' PROVE u = t
    <3>1. u \in Tasks /\ u \in live' /\ pc'[u] \in Unnamed
      BY DEF Window, Unnamed, Shape
    <3>2. u \in Forking
      BY <1>2, <3>1, ForkingNext DEF Unnamed
    <3> QED BY <1>3, <1>4, <3>1, <3>2 DEF Unnamed
  <2> QED BY <2>1, <2>2 DEF Alone
<1>9. UnusedOK'
  <2> SUFFICES ASSUME NEW s \in g_task_table, Unused(s)'
               PROVE  name'[s] = <<>> /\ tss_sel'[s] = 0
    BY DEF UnusedOK, Empty
  <2>1. s # c /\ s \in Tasks
    BY <1>2 DEF Unused, Tasks
  <2>2. Unused(s)
    BY <1>2, <1>3, <1>5, <2>1 DEF Unused
  <2>3. Empty(s)
    BY <2>2 DEF Tables, UnusedOK
  <2> QED BY <2>1, <2>3 DEF Empty
<1>10. DescsOK'
  <2>1. \A d \in 1 .. RESERVED - 1 : d \in Descs /\ d \notin Ours
    BY Sizes DEF Descs, Ours
  <2>2. \A d \in 1 .. RESERVED - 1 : base'[d] # NULL
    BY <2>1 DEF Tables, DescsOK
  <2>3. ASSUME NEW e \in Ours, base'[e] # NULL
        PROVE  base'[e] \in g_task_table /\ Owns(base[e], e)'
    <3>1. CASE base'[e] = c
      BY <1>1, <3>1 DEF Owns
    <3>2. CASE base'[e] # c
      <4>1. PICK s : s = base[e] /\ s = base'[e] /\ s # c /\ s # NULL
        BY <2>3, <3>2, Sizes
      <4>2. s \in g_task_table /\ Owns(s, e) /\ s \in Tasks
        BY <4>1 DEF Tables, DescsOK, Tasks
      <4>3. CASE tss_sel[s] = e
        <5>1. tss_sel'[s] = e
          BY <4>1, <4>2, <4>3
        <5> QED BY <4>1, <4>2, <5>1 DEF Owns
      <4>4. CASE \E u \in Forking : pc[u] = "pages" /\ loc[u].child = s /\ loc[u].sel = e
        BY <1>4, <4>1, <4>4
      <4> QED BY <4>2, <4>3, <4>4 DEF Owns
    <3> QED BY <3>1, <3>2
  <2> QED BY <2>2, <2>3 DEF DescsOK
<1> QED BY <1>6, <1>7, <1>8, <1>9, <1>10 DEF Tables

\* No slot has two descriptors.
LEMMA OneEach ==
    ASSUME Shape, Tables, NEW d \in Ours, NEW e \in Ours, base[d] # NULL, base[d] = base[e]
    PROVE  d = e
<1>1. PICK s \in g_task_table : s = base[d] /\ Owns(s, d) /\ Owns(s, e)
  BY DEF Tables, DescsOK
<1>2. d # 0 /\ e # 0
  BY Sizes
<1>3. ASSUME NEW t \in Forking, pc[t] = "pages", loc[t].child = s
      PROVE  loc[t].sel = d /\ loc[t].sel = e
  <2>1. Empty(loc[t].child)
    BY <1>3 DEF Tables, ForksOK, SlotAt
  <2> QED BY <1>1, <1>3, <2>1, NoDesc
<1> QED BY <1>1, <1>3 DEF Owns

\* A slot without a descriptor leaves one free, as there is one for each.
LEMMA DescLeft ==
    ASSUME Shape, Tables, NEW c \in g_task_table, \A e \in Ours : base[e] # c
    PROVE  \E d \in Ours : base[d] = NULL
<1> SUFFICES ASSUME \A d \in Ours : base[d] # NULL PROVE FALSE
  OBVIOUS
<1> DEFINE f == [d \in Ours |-> base[d]]
           T == g_task_table \ {c}
<1>1. f \in [Ours -> T]
  BY DEF Tables, DescsOK
<1>2. IsFiniteSet(Ours) /\ Cardinality(Ours) >= NTASKS
  <2>1. PICK a \in Int, b \in Int : a = RESERVED /\ b = GDT_TABLE_SIZE - 1 /\ a <= b
    BY Sizes
  <2>2. IsFiniteSet(a .. b) /\ Cardinality(a .. b) = b - a + 1
    BY <2>1, FS_Interval
  <2> QED BY <2>1, <2>2, Sizes DEF Ours
<1>3. IsFiniteSet(T) /\ Cardinality(T) = NTASKS - 1
  <2>1. PICK a \in Int, b \in Int : a = 0 /\ b = NTASKS - 1 /\ a <= b
    BY Sizes
  <2>2. IsFiniteSet(a .. b) /\ Cardinality(a .. b) = b - a + 1
    BY <2>1, FS_Interval
  <2>3. IsFiniteSet(g_task_table) /\ Cardinality(g_task_table) = NTASKS
    BY <2>1, <2>2, Sizes DEF g_task_table
  <2> QED BY <2>3, FS_RemoveElement
<1>4. Cardinality(Ours) \in Nat /\ Cardinality(T) < Cardinality(Ours)
  BY <1>2, <1>3, FS_CardinalityType, Sizes
<1>5. \E d, e \in Ours : d # e /\ f[d] = f[e]
  <2> HIDE DEF f, T
  <2> QED BY <1>1, <1>2, <1>3, <1>4, FS_PigeonHole
<1>6. PICK d \in Ours, e \in Ours : d # e /\ base[d] = base[e]
  BY <1>5
<1> QED BY <1>6, OneEach

LEMMA DescStep ==
    ASSUME Shape, Tables, Shape', NEW t \in Tasks, ForkDesc(t)
    PROVE  Tables'
<1>1. t \in Window /\ t \in Forking /\ pc[t] = "alloc" /\ Others(t)
  BY ForkingIs DEF ForkDesc, At, Go, Unnamed, Others, Shape
<1>2. PICK c : c = loc[t].child /\ c \in g_task_table \ Begun /\ Empty(c)
  BY <1>1 DEF Tables, ForksOK, SlotAt
<1>3. \A e \in Ours : base[e] # c
  BY <1>1, <1>2, NoDesc
<1>4. PICK d : d = gdt_alloc_desc /\ d \in Ours /\ base[d] = NULL
  <2>1. \E e \in Ours : base[e] = NULL
    BY <1>2, <1>3, DescLeft
  <2>2. gdt_alloc_desc \in Descs /\ base[gdt_alloc_desc] = NULL
    BY <2>1, DescFound, Sizes
  <2>3. \A e \in Descs \ Ours : e \in 1 .. RESERVED - 1
    BY Sizes DEF Descs, Ours
  <2> QED BY <2>2, <2>3 DEF Tables, DescsOK
<1>5. loc'[t].child = c /\ loc'[t].sel = d /\ pc'[t] = "desc"
  BY <1>2, <1>4 DEF ForkDesc, Go, Shape, Locs
<1>6. UNCHANGED <<name, tss_sel, base, live, gone>>
  BY DEF ForkDesc
<1>7. SlotAt(pc[t], loc[t].child, loc[t].sel)'
  BY <1>2, <1>4, <1>5, <1>6 DEF SlotAt, Empty, Begun
<1> QED BY <1>1, <1>2, <1>3, <1>5, <1>6, <1>7, Within

LEMMA SegStep ==
    ASSUME Shape, Tables, Shape', NEW t \in Tasks, ForkSeg(t)
    PROVE  Tables'
<1>1. t \in Window /\ t \in Forking /\ pc[t] = "desc" /\ Others(t)
  BY ForkingIs DEF ForkSeg, At, Go, Unnamed, Others, Shape
<1>2. PICK c, d : /\ c = loc[t].child /\ c \in g_task_table \ Begun /\ Empty(c)
                  /\ d = loc[t].sel /\ d \in Ours /\ base[d] = NULL
  BY <1>1 DEF Tables, ForksOK, SlotAt
<1>3. \A e \in Ours : base[e] # c
  BY <1>1, <1>2, NoDesc
<1>4. loc'[t].child = c /\ loc'[t].sel = d /\ pc'[t] = "pages" /\ t \in Forking'
  BY <1>1, <1>2, ForkingNext DEF ForkSeg, At, Go, Shape, Locs
<1>5. UNCHANGED <<name, tss_sel, live, gone>>
  BY DEF ForkSeg
<1>6. \A e \in Descs : base'[e] = IF e = d THEN c ELSE base[e]
  BY <1>2 DEF ForkSeg, segment_desc_set
<1>7. d \in Descs
  BY <1>2, Sizes
<1>8. SlotAt(pc[t], loc[t].child, loc[t].sel)'
  BY <1>2, <1>4, <1>5, <1>6, <1>7 DEF SlotAt, Empty, Begun
<1>9. \A e \in Ours : base'[e] = c => Owns(c, e)'
  BY <1>3, <1>4, <1>6, Sizes DEF Owns
<1>10. \A e \in Descs : \/ base'[e] = base[e]
                        \/ e \in Ours /\ base[e] \in {NULL, c} /\ base'[e] \in {NULL, c}
  BY <1>2, <1>6
<1> QED BY <1>1, <1>2, <1>4, <1>5, <1>8, <1>9, <1>10, Within

LEMMA PagesStep ==
    ASSUME Shape, Tables, Shape', NEW t \in Tasks, ForkPages(t)
    PROVE  Tables'
<1>1. t \in Window /\ t \in Forking /\ pc[t] = "pages" /\ Others(t)
  BY ForkingIs DEF ForkPages, At, Go, Unnamed, Others, Shape
<1>2. PICK c, d : /\ c = loc[t].child /\ c \in g_task_table \ Begun /\ Empty(c)
                  /\ d = loc[t].sel /\ d \in Ours /\ base[d] = c
  BY <1>1 DEF Tables, ForksOK, SlotAt
<1>3. \A e \in Ours : base[e] = c => e = d
  BY <1>1, <1>2, NoDesc
<1>4. c \in Tasks /\ d \in Descs /\ d # -1
  BY <1>2, Sizes DEF Tasks
<1>5. UNCHANGED <<name, live, gone, loc>>
  BY DEF ForkPages
<1>6. CASE tss_sel' = [tss_sel EXCEPT ![c] = d] /\ base' = base /\ Go(t, "name")
  <2>1. pc'[t] = "name" /\ tss_sel'[c] = d /\ \A s \in Tasks \ {c} : tss_sel'[s] = tss_sel[s]
    BY <1>4, <1>6 DEF Go, Shape
  <2>2. SlotAt(pc[t], loc[t].child, loc[t].sel)'
    BY <1>2, <1>5, <1>6, <2>1 DEF SlotAt, Empty, Begun
  <2>3. \A e \in Ours : base'[e] = c => Owns(c, e)'
    BY <1>3, <1>6, <2>1 DEF Owns
  <2> QED BY <1>1, <1>2, <1>5, <1>6, <2>1, <2>2, <2>3, Within
<1>7. CASE gdt_free_sel(d) /\ tss_sel' = tss_sel /\ Go(t, "uninit")
  <2>1. pc'[t] = "uninit" /\ \A e \in Descs : base'[e] = IF e = d THEN NULL ELSE base[e]
    BY <1>7 DEF Go, Shape, gdt_free_sel
  <2>2. SlotAt(pc[t], loc[t].child, loc[t].sel)'
    BY <1>2, <1>4, <1>5, <1>7, <2>1 DEF SlotAt, Empty, Begun
  <2>3. \A e \in Ours : base'[e] # c
    BY <1>2, <1>3, <2>1, Sizes
  <2>4. \A e \in Descs : \/ base'[e] = base[e]
                         \/ e \in Ours /\ base[e] \in {NULL, c} /\ base'[e] \in {NULL, c}
    BY <1>2, <2>1
  <2> QED BY <1>1, <1>2, <1>5, <1>7, <2>1, <2>2, <2>3, <2>4, Within
<1> QED BY <1>2, <1>6, <1>7 DEF ForkPages

LEMMA NameStep ==
    ASSUME Shape, Tables, Shape', NEW t \in Tasks, ForkName(t)
    PROVE  Tables'
<1>1. t \in Window /\ t \in Forking /\ pc[t] = "name" /\ Others(t) /\ t \in Begun
  BY ForkingIs DEF ForkName, At, Go, Unnamed, Others, Shape, Begun
<1>2. PICK c, d : /\ c = loc[t].child /\ c \in g_task_table \ Begun
                  /\ d = loc[t].sel /\ d \in Ours /\ base[d] = c /\ tss_sel[c] = d
  BY <1>1 DEF Tables, ForksOK, SlotAt
<1>3. c \in Tasks
  BY <1>2 DEF Tasks
<1>4. Proper(Named(name[t]))
  <2>1. PICK s : s = name[t] /\ Proper(s) /\ Len(s) \in Nat
    BY <1>1 DEF Tables, Started, Proper
  <2>2. Proper(Named(s))
    BY <2>1, NamedProper
  <2> QED BY <2>1, <2>2
<1>5. /\ UNCHANGED <<tss_sel, base, live, gone, loc>> /\ pc'[t] = "start"
      /\ name'[c] = Named(name[t]) /\ \A s \in Tasks \ {c} : name'[s] = name[s]
  BY <1>2, <1>3 DEF ForkName, Go, Shape
<1>6. SlotAt(pc[t], loc[t].child, loc[t].sel)'
  BY <1>2, <1>4, <1>5 DEF SlotAt, Begun
<1>7. ASSUME NEW e \in Ours, base'[e] = c PROVE Owns(c, e)'
  <2>1. Owns(c, e)
    BY <1>2, <1>5, <1>7, Sizes DEF Tables, DescsOK
  <2>2. CASE tss_sel[c] = e
    BY <1>5, <2>2 DEF Owns
  <2>3. CASE \E u \in Forking : pc[u] = "pages" /\ loc[u].child = c /\ loc[u].sel = e
    BY <1>1, <1>2, <2>3 DEF Tables, Apart
  <2> QED BY <2>1, <2>2, <2>3 DEF Owns
<1> QED BY <1>1, <1>2, <1>5, <1>6, <1>7, Within

LEMMA UninitStep ==
    ASSUME Shape, Tables, Shape', NEW t \in Tasks, ForkUninit(t)
    PROVE  Tables'
<1>1. t \in Window /\ t \in Forking /\ pc[t] = "uninit" /\ Others(t)
  BY ForkingIs DEF ForkUninit, At, Go, Unnamed, Others, Shape
<1>2. PICK c, d : c = loc[t].child /\ c \in g_task_table \ Begun /\ Empty(c) /\ d = loc[t].sel /\ d # -1
  BY <1>1 DEF Tables, ForksOK, SlotAt
<1>3. \A e \in Ours : base[e] # c
  BY <1>1, <1>2, NoDesc
<1>4. c \in Tasks
  BY <1>2 DEF Tasks
<1>5. /\ UNCHANGED <<base, live, gone, loc>> /\ pc'[t] = "free" /\ name'[c] = <<>> /\ tss_sel'[c] = 0
      /\ \A s \in Tasks \ {c} : name'[s] = name[s] /\ tss_sel'[s] = tss_sel[s]
  BY <1>2, <1>4 DEF ForkUninit, Go, Shape, Empty
<1>6. SlotAt(pc[t], loc[t].child, loc[t].sel)'
  BY <1>2, <1>5 DEF SlotAt, Empty, Begun
<1> QED BY <1>1, <1>2, <1>3, <1>5, <1>6, Within

LEMMA SlotStep ==
    ASSUME Shape, Tables, Shape', NEW t \in Tasks, ForkSlot(t), Window = {}
    PROVE  Tables'
<1>1. t \in live /\ t \notin Forking /\ loc[t] = NoLoc /\ Others(t)
  BY ForkingIs DEF ForkSlot, At, Go, Others, Shape
<1>2. PICK c \in g_task_table : name[c] = <<>> /\ loc' = [loc EXCEPT ![t].child = c]
  BY SlotFound
<1>3. pc'[t] = "alloc" /\ loc'[t].child = c /\ loc'[t].sel = NULL
  BY <1>1, <1>2 DEF ForkSlot, Go, Shape, NoLoc
<1>4. \A u \in Forking : pc[u] = "start" /\ u \in Tasks /\ u # t /\ pc'[u] = pc[u] /\ loc'[u] = loc[u]
  BY <1>1, ForkingIs DEF Unnamed, Shape, Labels, Others
<1>5. Unused(c)
  <2>1. c \notin Begun
    BY <1>2, ProperNotEmpty DEF Tables, Started
  <2>2. \A u \in Forking : Proper(name[loc[u].child])
    BY <1>4 DEF Tables, ForksOK, SlotAt
  <2> QED BY <1>2, <2>1, <2>2, ProperNotEmpty DEF Unused
<1>6. Empty(c) /\ c \notin Begun
  BY <1>5 DEF Tables, UnusedOK, Unused
<1>7. UNCHANGED <<name, tss_sel, base, live, gone>> /\ Begun' = Begun
  BY DEF ForkSlot, Begun
<1>8. Forking' = Forking \cup {t}
  <2>1. t \in Forking'
    BY <1>1, <1>3, <1>7, ForkingNext
  <2>2. \A u \in Tasks \ {t} : u \in Forking' <=> u \in Forking
    BY <1>1, <1>7, ForkingIs, ForkingNext DEF Others
  <2> QED BY <2>1, <2>2, ForkingIs, ForkingNext
<1>9. Started'
  BY <1>7 DEF Tables, Started
<1>10. ForksOK'
  <2>1. SlotAt(pc[t], loc[t].child, loc[t].sel)'
    BY <1>3, <1>6, <1>7 DEF SlotAt, Empty
  <2>2. ASSUME NEW u \in Forking
        PROVE  SlotAt(pc[u], loc[u].child, loc[u].sel)'
    <3>1. SlotAt(pc[u], loc[u].child, loc[u].sel)
      BY DEF Tables, ForksOK
    <3> QED BY <1>4, <1>7, <3>1 DEF SlotAt, Empty
  <2> QED BY <1>8, <2>1, <2>2 DEF ForksOK
<1>11. Apart'
  BY <1>3, <1>4, <1>5, <1>8 DEF Tables, Apart, Unused
<1>12. Alone'
  <2>1. ASSUME NEW u \in Window' PROVE u = t
    <3>1. u \in Tasks /\ u \in live' /\ pc'[u] \in Unnamed
      BY DEF Window, Unnamed, Shape
    <3>2. u \in Forking'
      BY <3>1, ForkingNext DEF Unnamed
    <3> QED BY <1>4, <1>8, <3>1, <3>2 DEF Unnamed
  <2> QED BY <2>1 DEF Alone
<1>13. UnusedOK'
  <2> SUFFICES ASSUME NEW s \in g_task_table, Unused(s)'
               PROVE  name[s] = <<>> /\ tss_sel[s] = 0
    BY <1>7 DEF UnusedOK, Empty
  <2>1. Unused(s)
    BY <1>4, <1>7, <1>8 DEF Unused
  <2> QED BY <2>1 DEF Tables, UnusedOK, Empty
<1>14. DescsOK'
  <2>1. ASSUME NEW e \in Ours, base'[e] # NULL
        PROVE  base'[e] \in g_task_table /\ Owns(base[e], e)'
    <3>1. base[e] \in g_task_table /\ Owns(base[e], e)
      BY <1>7, <2>1 DEF Tables, DescsOK
    <3> QED BY <1>4, <1>7, <3>1 DEF Owns
  <2> QED BY <1>7, <2>1 DEF Tables, DescsOK
<1> QED BY <1>9, <1>10, <1>11, <1>12, <1>13, <1>14 DEF Tables

LEMMA StartStep ==
    ASSUME Shape, Tables, Shape', NEW t \in Tasks, ForkStart(t)
    PROVE  Tables'
<1>1. t \in Forking /\ pc[t] = "start" /\ Others(t) /\ pc'[t] = "user"
  BY ForkingIs DEF ForkStart, At, Go, Return, Others, Shape
<1>2. PICK c, d : /\ c = loc[t].child /\ c \in g_task_table \ Begun /\ Proper(name[c])
                  /\ d = loc[t].sel /\ d \in Ours /\ base[d] = c /\ tss_sel[c] = d
  BY <1>1 DEF Tables, ForksOK, SlotAt
<1>3. c \in Tasks /\ pc[c] = "user" /\ c # t /\ d \in Descs
  BY <1>1, <1>2, ForkingIs, Sizes DEF Tasks, Shape, Begun
<1>4. UNCHANGED <<name, tss_sel, base>> /\ Begun' = Begun \cup {c} /\ live' = live \cup {c}
  BY <1>2 DEF ForkStart, Begun
<1>5. /\ Forking' = Forking \ {t}
      /\ \A u \in Forking' : pc'[u] = pc[u] /\ loc'[u] = loc[u] /\ loc[u].child # c
  <2>1. t \notin Forking' /\ c \notin Forking' /\ c \notin Forking
    BY <1>1, <1>3, ForkingIs, ForkingNext DEF Others
  <2>2. \A u \in Tasks \ {t, c} : u \in Forking' <=> u \in Forking
    BY <1>1, <1>4, ForkingIs, ForkingNext DEF Others
  <2>3. Forking' = Forking \ {t}
    BY <2>1, <2>2, ForkingIs, ForkingNext
  <2> QED BY <1>1, <1>2, <2>3, ForkingIs DEF Others, Tables, Apart
<1>6. Started'
  BY <1>2, <1>3, <1>4 DEF Tables, Started
<1>7. ForksOK'
  <2> SUFFICES ASSUME NEW u \in Forking'
               PROVE  SlotAt(pc[u], loc[u].child, loc[u].sel)'
    BY DEF ForksOK
  <2>1. SlotAt(pc[u], loc[u].child, loc[u].sel)
    BY <1>5 DEF Tables, ForksOK
  <2> QED BY <1>4, <1>5, <2>1 DEF SlotAt, Empty
<1>8. Apart'
  BY <1>5 DEF Tables, Apart
<1>9. Alone'
  <2>1. ASSUME NEW u \in Window' PROVE u \in Window
    <3>1. u \in Tasks /\ u \in live' /\ pc'[u] \in Unnamed
      BY DEF Window, Unnamed, Shape
    <3>2. u \in Forking'
      BY <3>1, ForkingNext DEF Unnamed
    <3> QED BY <1>5, <3>1, <3>2, ForkingIs
  <2> QED BY <2>1 DEF Tables, Alone
<1>10. UnusedOK'
  <2> SUFFICES ASSUME NEW s \in g_task_table, Unused(s)'
               PROVE  name[s] = <<>> /\ tss_sel[s] = 0
    BY <1>4 DEF UnusedOK, Empty
  <2>1. s # c /\ Unused(s)
    BY <1>2, <1>4, <1>5 DEF Unused
  <2> QED BY <2>1 DEF Tables, UnusedOK, Empty
<1>11. DescsOK'
  <2>1. ASSUME NEW e \in Ours, base'[e] # NULL
        PROVE  base'[e] \in g_task_table /\ Owns(base[e], e)'
    <3>1. base[e] \in g_task_table /\ Owns(base[e], e)
      BY <1>4, <2>1 DEF Tables, DescsOK
    <3> QED BY <1>1, <1>4, <1>5, <3>1 DEF Owns
  <2> QED BY <1>4, <2>1 DEF Tables, DescsOK
<1> QED BY <1>6, <1>7, <1>8, <1>9, <1>10, <1>11 DEF Tables

LEMMA FreeStep ==
    ASSUME Shape, Tables, Shape', NEW t \in Tasks, ForkFree(t)
    PROVE  Tables'
<1>1. t \in Forking /\ pc[t] = "free" /\ Others(t) /\ pc'[t] = "user"
  BY ForkingIs DEF ForkFree, At, Go, Return, Others, Shape
<1>2. PICK c : c = loc[t].child /\ c \in g_task_table \ Begun /\ Empty(c)
  BY <1>1 DEF Tables, ForksOK, SlotAt
<1>3. UNCHANGED <<name, tss_sel, base, live, gone>> /\ Begun' = Begun
  BY <1>2 DEF ForkFree, free_task, Begun, Empty, Shape
<1>4. /\ Forking' = Forking \ {t}
      /\ \A u \in Forking' : pc'[u] = pc[u] /\ loc'[u] = loc[u]
  <2>1. t \notin Forking'
    BY <1>1, ForkingNext
  <2>2. \A u \in Tasks \ {t} : u \in Forking' <=> u \in Forking
    BY <1>1, <1>3, ForkingIs, ForkingNext DEF Others
  <2>3. Forking' = Forking \ {t}
    BY <2>1, <2>2, ForkingIs, ForkingNext
  <2> QED BY <1>1, <2>3, ForkingIs DEF Others
<1>5. Started'
  BY <1>3 DEF Tables, Started
<1>6. ForksOK'
  <2> SUFFICES ASSUME NEW u \in Forking'
               PROVE  SlotAt(pc[u], loc[u].child, loc[u].sel)'
    BY DEF ForksOK
  <2>1. SlotAt(pc[u], loc[u].child, loc[u].sel)
    BY <1>4 DEF Tables, ForksOK
  <2> QED BY <1>3, <1>4, <2>1 DEF SlotAt, Empty
<1>7. Apart'
  BY <1>4 DEF Tables, Apart
<1>8. Alone'
  <2>1. ASSUME NEW u \in Window' PROVE u \in Window
    <3>1. u \in Tasks /\ u \in live' /\ pc'[u] \in Unnamed
      BY DEF Window, Unnamed, Shape
    <3>2. u \in Forking'
      BY <3>1, ForkingNext DEF Unnamed
    <3> QED BY <1>4, <3>1, <3>2, ForkingIs
  <2> QED BY <2>1 DEF Tables, Alone
<1>9. UnusedOK'
  <2> SUFFICES ASSUME NEW s \in g_task_table, Unused(s)'
               PROVE  Empty(s)
    BY <1>3 DEF UnusedOK, Empty
  <2>1. CASE s = c
    BY <1>2, <2>1
  <2>2. CASE s # c
    <3>1. Unused(s)
      BY <1>2, <1>3, <1>4, <2>2 DEF Unused
    <3> QED BY <3>1 DEF Tables, UnusedOK
  <2> QED BY <2>1, <2>2
<1>10. DescsOK'
  <2>1. ASSUME NEW e \in Ours, base'[e] # NULL
        PROVE  base'[e] \in g_task_table /\ Owns(base[e], e)'
    <3>1. base[e] \in g_task_table /\ Owns(base[e], e)
      BY <1>3, <2>1 DEF Tables, DescsOK
    <3> QED BY <1>1, <1>3, <1>4, <3>1 DEF Owns
  <2> QED BY <1>3, <2>1 DEF Tables, DescsOK
<1> QED BY <1>5, <1>6, <1>7, <1>8, <1>9, <1>10 DEF Tables

\* Only names of tasks that were started change, and they stay proper.
LEMMA Rename ==
    ASSUME Shape, Tables, Shape', tss_sel' = tss_sel, base' = base, pc' = pc, loc' = loc,
           Begun' = Begun, Forking' = Forking, Window' = Window,
           \A s \in Tasks : name'[s] = name[s] \/ (s \in Begun /\ Proper(name'[s]))
    PROVE  Tables'
<1>1. Begun \subseteq Tasks /\ g_task_table \subseteq Tasks
  BY DEF Begun, Shape, Tasks
<1>2. \A s \in g_task_table \ Begun : name'[s] = name[s]
  BY <1>1
<1>3. Started'
  BY <1>1 DEF Tables, Started
<1>4. ForksOK'
  <2> SUFFICES ASSUME NEW u \in Forking
               PROVE  SlotAt(pc[u], loc[u].child, loc[u].sel)'
    BY DEF ForksOK
  <2>1. SlotAt(pc[u], loc[u].child, loc[u].sel)
    BY DEF Tables, ForksOK
  <2> QED BY <1>2, <2>1 DEF SlotAt, Empty
<1>5. Apart' /\ Alone'
  BY DEF Tables, Apart, Alone
<1>6. UnusedOK'
  <2> SUFFICES ASSUME NEW s \in g_task_table, Unused(s)'
               PROVE  name'[s] = <<>> /\ tss_sel[s] = 0
    BY DEF UnusedOK, Empty
  <2>1. Unused(s)
    BY DEF Unused
  <2> QED BY <1>2, <2>1 DEF Tables, UnusedOK, Empty, Unused
<1>7. DescsOK'
  BY DEF Tables, DescsOK, Owns
<1> QED BY <1>3, <1>4, <1>5, <1>6, <1>7 DEF Tables

LEMMA ExecStep ==
    ASSUME Shape, Tables, Shape', NEW t \in Tasks, NEW p \in Paths, sys_execve(t, p), ~emptied'
    PROVE  Tables'
<1>1. t \in Begun /\ UNCHANGED <<tss_sel, base, live, gone, pc, loc>>
  BY DEF sys_execve, At, Begun
<1>2. Begun' = Begun /\ Forking' = Forking /\ Window' = Window
  BY <1>1 DEF Begun, Forking, Window
<1>3. PICK s : s = get_file_name(p) /\ Len(s) \in Nat
  BY NameAssumption
<1>4. name'[t] = Named(s) /\ name'[t] # <<>> /\ \A u \in Tasks \ {t} : name'[u] = name[u]
  BY <1>3 DEF sys_execve, Shape
<1>5. Proper(name'[t])
  BY <1>3, <1>4, NamedProper
<1>6. \A u \in Tasks : name'[u] = name[u] \/ (u \in Begun /\ Proper(name'[u]))
  BY <1>1, <1>4, <1>5
<1> QED BY <1>1, <1>2, <1>6, Rename

LEMMA ExitStep ==
    ASSUME Shape, Tables, Shape', NEW t \in Tasks, sys_exit(t)
    PROVE  Tables'
<1>1. UNCHANGED <<name, tss_sel, base, pc, loc>> /\ pc[t] = "user" /\ t \in live
  BY DEF sys_exit, At
<1>2. live' = live \ {t} /\ Begun' = Begun
  BY <1>1 DEF sys_exit, Begun
<1>3. Forking' = Forking
  BY <1>1, <1>2 DEF Forking, Shape
<1>4. Window' = Window
  BY <1>1, <1>2 DEF Window
<1>5. \A u \in Tasks : name'[u] = name[u] \/ (u \in Begun /\ Proper(name'[u]))
  BY <1>1
<1> QED BY <1>1, <1>2, <1>3, <1>4, <1>5, Rename

LEMMA TablesStep == ASSUME ForkInv, [Next]_vars PROVE ForkInv'
<1>1. Shape /\ Shape'
  BY ShapeStep DEF ForkInv
<1> SUFFICES ASSUME ~raced', ~emptied' PROVE Tables'
  BY <1>1 DEF ForkInv
<1>2. CASE UNCHANGED vars
  <2>1. UNCHANGED <<name, tss_sel, base, live, gone, pc, loc, raced, emptied>>
    BY <1>2 DEF vars
  <2>2. Begun' = Begun /\ Forking' = Forking /\ Window' = Window
    BY <2>1 DEF Begun, Forking, Window
  <2>3. Tables
    BY <2>1 DEF ForkInv
  <2>4. \A u \in Tasks : name'[u] = name[u] \/ (u \in Begun /\ Proper(name'[u]))
    BY <2>1
  <2> QED BY <1>1, <2>1, <2>2, <2>3, <2>4, Rename
<1> SUFFICES ASSUME NEW t \in Tasks,
                    \/ ForkSlot(t) \/ ForkDesc(t) \/ ForkSeg(t) \/ ForkPages(t) \/ ForkName(t)
                    \/ ForkStart(t) \/ ForkUninit(t) \/ ForkFree(t)
                    \/ \E p \in Paths : sys_execve(t, p)
                    \/ sys_exit(t)
             PROVE  Tables'
  BY <1>2 DEF Next
<1>3. ~raced /\ ~emptied
  BY <1>1 DEF Shape, ForkSlot, ForkDesc, ForkSeg, ForkPages, ForkName, ForkStart, ForkUninit,
              ForkFree, sys_execve, sys_exit
<1>4. Tables
  BY <1>3 DEF ForkInv
<1>5. CASE ForkSlot(t)
  <2>1. Window = {}
    BY <1>5 DEF ForkSlot
  <2> QED BY <1>1, <1>4, <1>5, <2>1, SlotStep
<1>6. CASE ForkDesc(t)
  BY <1>1, <1>4, <1>6, DescStep
<1>7. CASE ForkSeg(t)
  BY <1>1, <1>4, <1>7, SegStep
<1>8. CASE ForkPages(t)
  BY <1>1, <1>4, <1>8, PagesStep
<1>9. CASE ForkName(t)
  BY <1>1, <1>4, <1>9, NameStep
<1>10. CASE ForkStart(t)
  BY <1>1, <1>4, <1>10, StartStep
<1>11. CASE ForkUninit(t)
  BY <1>1, <1>4, <1>11, UninitStep
<1>12. CASE ForkFree(t)
  BY <1>1, <1>4, <1>12, FreeStep
<1>13. CASE \E p \in Paths : sys_execve(t, p)
  BY <1>1, <1>4, <1>13, ExecStep
<1>14. CASE sys_exit(t)
  BY <1>1, <1>4, <1>14, ExitStep
<1> QED BY <1>5, <1>6, <1>7, <1>8, <1>9, <1>10, <1>11, <1>12, <1>13, <1>14

-----------------------------------------------------------------------------
(* The theorems.                                                           *)

\* sys_fork works on a slot of its own while no fork starts in another's window and
\* no task is given the empty name, for tables of any size and any interleaving.
THEOREM ForksApart == Spec => []SlotsApart
<1>1. ForkInv => SlotsApart
  BY DEF ForkInv, Tables, Apart, ForksOK, SlotAt, Begun, SlotsApart
<1> QED BY <1>1, InitTables, TablesStep, PTL DEF Spec

\* Under the same conditions every task has the descriptor of its own tss, failed
\* forks give theirs back, and gdt_alloc_desc finds one for every slot.
THEOREM OwnDescriptors == Spec => []SelectorsOwn
<1>1. ForkInv => SelectorsOwn
  <2> SUFFICES ASSUME Shape, Tables, ~raced, ~emptied PROVE SelectorsOwn
    BY DEF ForkInv, SelectorsOwn
  <2>1. \A t \in live \cup gone : tss_sel[t] \in Descs /\ base[tss_sel[t]] = t
    BY DEF Tables, Started, Begun
  <2>2. ASSUME NEW d \in Descs, d >= RESERVED, base[d] # NULL
        PROVE  (\E t \in Tasks : tss_sel[t] = d) \/ (\E t \in Forking : d \in HeldBy(t))
    <3>1. d \in Ours
      BY <2>2, Sizes DEF Descs, Ours
    <3>2. base[d] \in Tasks /\ Owns(base[d], d)
      BY <2>2, <3>1 DEF Tables, DescsOK, Tasks
    <3> QED BY <3>2 DEF Owns, HeldBy
  <2>3. ASSUME NEW t \in Forking PROVE loc[t].sel # -1
    <3>1. SlotAt(pc[t], loc[t].child, loc[t].sel)
      BY DEF Tables, ForksOK
    <3>2. pc[t] \in Labels \ {"user"}
      BY ForkingIs DEF Shape
    <3>3. NULL # -1 /\ -1 \notin Ours
      <4>1. \A d \in Ours : d \in Nat
        BY Sizes
      <4>2. -1 \notin Nat
        OBVIOUS
      <4> QED BY <4>1, <4>2, Sizes
    <3> QED BY <3>1, <3>2, <3>3 DEF SlotAt, Labels
  <2> QED BY <2>1, <2>2, <2>3 DEF SelectorsOwn
<1> QED BY <1>1, InitTables, TablesStep, PTL DEF Spec
=============================================================================
