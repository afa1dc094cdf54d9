---------------------------- MODULE FilesProofs -----------------------------
(* Files, descriptors and devices, for any number of tasks and tables of   *)
(* any size.                                                               *)
EXTENDS Files, FiniteSetTheorems, WellFoundedInduction, TLAPS

-----------------------------------------------------------------------------
(* The tables.                                                             *)

LEMMA Tables ==
    /\ fds \subseteq Nat /\ file_tb \subseteq Nat /\ dev_tb \subseteq Nat
    /\ NULL \notin fds /\ NULL \notin file_tb /\ NULL \notin dev_tb /\ NULL \notin Names
    /\ Names \subseteq Nat
    /\ 0 \in fds /\ 0 \in dev_tb /\ DEV_TABLE_SIZE - 1 \in dev_tb
    /\ IsFiniteSet(fds) /\ IsFiniteSet(file_tb) /\ IsFiniteSet(dev_tb)
<1>1. FILE_TABLE_SIZE \in Nat \ {0} /\ TASK_OFILE_NR \in Nat \ {0} /\ DEV_TABLE_SIZE \in Nat \ {0}
  BY SizeAssumption
<1>2. IsFiniteSet(fds) /\ IsFiniteSet(file_tb) /\ IsFiniteSet(dev_tb)
  BY <1>1, FS_Interval DEF fds, file_tb, dev_tb
<1>3. fds \subseteq Nat /\ file_tb \subseteq Nat /\ dev_tb \subseteq Nat /\ Names \subseteq Nat
  BY NameAssumption DEF fds, file_tb, dev_tb
<1>4. NULL \notin Nat
  BY NullAssumption
<1>5. NULL \notin fds /\ NULL \notin file_tb /\ NULL \notin dev_tb /\ NULL \notin Names
  BY <1>3, <1>4
<1>6. 0 \in fds /\ 0 \in dev_tb /\ DEV_TABLE_SIZE - 1 \in dev_tb
  BY <1>1 DEF fds, dev_tb
<1> QED BY <1>2, <1>3, <1>5, <1>6

\* The first entry of a table that is as wanted.
LEMMA Smallest ==
    ASSUME NEW S \in SUBSET Nat, S # {}
    PROVE  Min(S) \in S /\ \A y \in S : Min(S) <= y
<1> DEFINE R == OpToRel(<, Nat)
<1>1. IsWellFoundedOn(R, Nat)
  BY NatLessThanWellFounded
<1>2. \A x, y \in Nat : <<x, y>> \in R <=> x < y
  BY DEF OpToRel
<1> HIDE DEF R
<1>3. PICK x \in S : \A y \in S : ~ (<<y, x>> \in R)
  BY <1>1, WFMin
<1>4. ASSUME NEW y \in S PROVE x <= y
  <2>1. ~ (y < x)
    BY <1>2, <1>3
  <2> QED BY <2>1
<1> QED BY <1>4 DEF Min

\* The last one.
LEMMA Largest ==
    ASSUME NEW S \in SUBSET dev_tb, S # {}
    PROVE  Max(S) \in S
<1> DEFINE n == DEV_TABLE_SIZE
           T == {n - x : x \in S}
<1>1. n \in Nat /\ \A x \in S : x \in Nat /\ x < n
  BY SizeAssumption DEF dev_tb
<1>2. T \in SUBSET Nat /\ T # {}
  BY <1>1
<1>3. Min(T) \in T /\ \A y \in T : Min(T) <= y
  BY <1>2, Smallest
<1>4. PICK x \in S : Min(T) = n - x
  BY <1>3
<1>5. ASSUME NEW y \in S PROVE x >= y
  <2>1. n - x <= n - y
    BY <1>3, <1>4
  <2> QED BY <1>1, <2>1
<1> QED BY <1>5 DEF Max

-----------------------------------------------------------------------------
(* Who works on which file.  A file belongs to the task that opens it or   *)
(* has a descriptor of it; the descriptor of a failed open is on its way   *)
(* out and does not count any more.                                        *)

PCs == {"user", "fd", "dev", "set", "free", "remove", "dup"}

Opening(t)      == pc[t] \in {"fd", "dev", "set", "free"}
Pending(t, fd)  == pc[t] \in {"dev", "set", "free", "remove"} /\ loc[t].fd = fd
Removing(t, fd) == pc[t] = "remove" /\ loc[t].fd = fd

Holds(t, f) ==
    \/ Opening(t) /\ loc[t].file = f
    \/ \E fd \in fds : file_table[t][fd] = f /\ ~Removing(t, fd)

\* The local variables at l.
LocIs(l, r) ==
    /\ r = Local(r.file, r.fd, r.num, r.dev)
    /\ l = "user" => r = NoLoc
    /\ l # "user" => r.file \in file_tb
    /\ l \in {"fd", "dup"} => r.fd = NULL
    /\ l \in {"dev", "set", "remove"} => r.fd \in fds
    /\ l = "free" => r.fd \in fds \cup {NULL}
    /\ l \in {"fd", "dev", "set"} => r.num \in Names
    /\ l = "set" => r.dev \in dev_tb

ShapeOK ==
    /\ pc \in [Tasks -> PCs] /\ loc = [t \in Tasks |-> loc[t]]
    /\ \A t \in Tasks : LocIs(pc[t], loc[t])

TabIs(t) ==
    /\ t \in zombie => pc[t] = "user" /\ \A fd \in fds : file_table[t][fd] = NULL
    /\ Opening(t) => /\ ref[loc[t].file] = 1
                     /\ \A fd \in fds : file_table[t][fd] = loc[t].file <=> loc[t].fd = fd
    /\ pc[t] = "remove" => file_table[t][loc[t].fd] = loc[t].file
    /\ pc[t] = "dup" => \E fd \in fds : file_table[t][fd] = loc[t].file

OwnIs(t, f) == Holds(t, f) => ref[f] > 0 /\ \A u \in Tasks : Holds(u, f) => t = u

\* The terminal a descriptor was opened for.
AskIs(t, fd) ==
    /\ file_table[t][fd] # NULL /\ ~Pending(t, fd)
           => Leads(dev_id[file_table[t][fd]], asked[t][fd])
    /\ (file_table[t][fd] = NULL \/ Pending(t, fd)) /\ t \notin zombie => asked[t][fd] = NULL

DevIs(t) == pc[t] = "set" => Leads(loc[t].dev, loc[t].num)

TabOK == \A t \in Tasks : TabIs(t)
OwnOK == \A t \in Tasks : \A f \in file_tb : OwnIs(t, f)
AskOK == \A t \in Tasks : \A fd \in fds : AskIs(t, fd)
DevOK == \A t \in Tasks : DevIs(t)

\* A terminal has one device.
OneDevice ==
    \A d, e \in dev_tb :
        open_count[d] > 0 /\ open_count[e] > 0 /\ minor[d] = minor[e] => d = e

FilesOK == TypeOK /\ ShapeOK /\ TabOK /\ OwnOK /\ AskOK /\ DevOK /\ OneDevice

\* A step of t in a system call.
Moves(t, b, r) ==
    /\ t \notin zombie /\ zombie' = zombie
    /\ pc' = [pc EXCEPT ![t] = b] /\ loc' = [loc EXCEPT ![t] = r]

LEMMA Moved ==
    ASSUME ShapeOK, NEW t \in Tasks, NEW b \in PCs, NEW r, Moves(t, b, r), LocIs(b, r)
    PROVE  /\ pc'[t] = b /\ loc'[t] = r
           /\ \A u \in Tasks : u # t => pc'[u] = pc[u] /\ loc'[u] = loc[u]
           /\ ShapeOK'
<1>1. /\ pc'[t] = b /\ loc'[t] = r
      /\ \A u \in Tasks : u # t => pc'[u] = pc[u] /\ loc'[u] = loc[u]
      /\ pc' \in [Tasks -> PCs] /\ loc' = [u \in Tasks |-> loc'[u]]
  BY DEF Moves, ShapeOK
<1>2. \A u \in Tasks : LocIs(pc'[u], loc'[u])
  BY <1>1 DEF ShapeOK
<1> QED BY <1>1, <1>2 DEF ShapeOK

LEMMA LocalIs ==
    ASSUME NEW f, NEW fd, NEW num, NEW d
    PROVE  /\ Local(f, fd, num, d).file = f /\ Local(f, fd, num, d).fd = fd
           /\ Local(f, fd, num, d).num = num /\ Local(f, fd, num, d).dev = d
BY DEF Local

\* A file without a count belongs to nobody.
LEMMA NotHeld ==
    ASSUME FilesOK, NEW f \in file_tb, ref[f] = 0, NEW u \in Tasks
    PROVE  /\ Opening(u) => loc[u].file # f
           /\ \A fd \in fds : file_table[u][fd] = f => Removing(u, fd)
           /\ ~Holds(u, f)
<1>1. ~Holds(u, f)
  BY DEF FilesOK, OwnOK, OwnIs
<1> QED BY <1>1 DEF Holds

\* A free file: nobody has it.
LEMMA OpenFileStep ==
    ASSUME FilesOK, NEW t \in Tasks, NEW num \in Names, OpenFile(t, num)
    PROVE  FilesOK'
<1> DEFINE free == {g \in file_tb : ref[g] = 0}
           f == Min(free)
           r == Local(f, NULL, num, NULL)
<1>1. free # {} /\ free \in SUBSET Nat
  BY Tables DEF OpenFile
<1>2. f \in file_tb /\ ref[f] = 0
  BY <1>1, Smallest
<1>3. /\ ref' = [ref EXCEPT ![f] = 1] /\ dev_id' = [dev_id EXCEPT ![f] = 0]
      /\ pc[t] = "user" /\ Moves(t, "fd", r)
      /\ UNCHANGED <<minor, open_count, file_table, zombie, asked, lost>>
  BY DEF OpenFile, file_alloc, At, Go, Moves, devVars
<1>4. r.file = f /\ r.fd = NULL /\ r.num = num /\ r.dev = NULL
  BY LocalIs
<1> HIDE DEF free, f, r
<1>5. LocIs("fd", r)
  BY <1>2, <1>4 DEF LocIs, r
<1>6. /\ pc'[t] = "fd" /\ loc'[t] = r /\ ShapeOK'
      /\ \A u \in Tasks : u # t => pc'[u] = pc[u] /\ loc'[u] = loc[u]
  BY <1>3, <1>5, Moved DEF PCs, FilesOK
<1>7. TypeOK'
  BY <1>2, <1>3, Tables DEF FilesOK, TypeOK
<1>8. /\ ref'[f] = 1 /\ \A g \in file_tb : g # f => ref'[g] = ref[g] /\ dev_id'[g] = dev_id[g]
  BY <1>2, <1>3 DEF FilesOK, TypeOK
<1>9. ASSUME NEW u \in Tasks PROVE TabIs(u)' /\ DevIs(u)'
  <2>1. CASE u = t
    <3>1. \A fd \in fds : file_table[t][fd] # f
      BY <1>2, <1>3, NotHeld DEF Removing
    <3> QED BY <1>3, <1>4, <1>6, <1>8, <2>1, <3>1, Tables DEF TabIs, DevIs, Opening, Moves
  <2>2. CASE u # t
    <3>1. TabIs(u) /\ DevIs(u) /\ LocIs(pc[u], loc[u])
      BY DEF FilesOK, TabOK, DevOK, ShapeOK
    <3>2. Opening(u) => ref'[loc[u].file] = ref[loc[u].file]
      BY <1>2, <1>8, <3>1, NotHeld DEF LocIs, Opening
    <3> QED BY <1>3, <1>6, <2>2, <3>1, <3>2 DEF TabIs, DevIs, Opening, Leads
  <2> QED BY <2>1, <2>2
<1>10. ASSUME NEW u \in Tasks, NEW fd \in fds PROVE AskIs(u, fd)'
  <2>1. AskIs(u, fd) /\ (Pending(u, fd)' <=> Pending(u, fd))
    BY <1>3, <1>6 DEF FilesOK, AskOK, Pending
  <2>2. file_table[u][fd] # NULL /\ ~Pending(u, fd) => file_table[u][fd] \in file_tb \ {f}
    BY <1>2, NotHeld DEF FilesOK, TypeOK, Pending, Removing
  <2> QED BY <1>3, <1>8, <2>1, <2>2 DEF AskIs, Leads
<1>11. ASSUME NEW u \in Tasks, NEW g \in file_tb, Holds(u, g)'
       PROVE  \/ g # f /\ Holds(u, g)
              \/ g = f /\ u = t
  <2>1. \A fd \in fds : Removing(u, fd)' <=> Removing(u, fd)
    BY <1>3, <1>6 DEF Removing
  <2>2. u # t => Holds(u, g)
    BY <1>3, <1>6, <1>11, <2>1 DEF Holds, Opening
  <2>3. u = t /\ g # f => Holds(u, g)
    BY <1>3, <1>4, <1>6, <1>11, <2>1 DEF Holds, Opening
  <2> QED BY <1>2, <2>2, <2>3, NotHeld
<1>12. ASSUME NEW u \in Tasks, NEW g \in file_tb PROVE OwnIs(u, g)'
  <2>1. OwnIs(u, g)
    BY DEF FilesOK, OwnOK
  <2> QED BY <1>8, <1>11, <2>1 DEF OwnIs
<1>13. OneDevice'
  BY <1>3 DEF FilesOK, OneDevice
<1> QED BY <1>6, <1>7, <1>9, <1>10, <1>12, <1>13 DEF FilesOK, TabOK, DevOK, AskOK, OwnOK

\* The step leaves t's file alone, and every task has what it had.
LEMMA OwnKept ==
    ASSUME FilesOK, ref' = ref,
           \A u \in Tasks : \A g \in file_tb : Holds(u, g)' => Holds(u, g)
    PROVE  OwnOK'
BY DEF FilesOK, OwnOK, OwnIs

\* A free descriptor, or none.
LEMMA OpenFdStep ==
    ASSUME FilesOK, NEW t \in Tasks, OpenFd(t)
    PROVE  FilesOK'
<1> DEFINE f == loc[t].file
<1>1. /\ pc[t] = "fd" /\ t \notin zombie
      /\ UNCHANGED <<ref, dev_id, minor, open_count, zombie, asked, lost>>
  BY DEF OpenFd, At, fileVars, devVars
<1>2. /\ LocIs("fd", loc[t]) /\ TabIs(t) /\ f \in file_tb /\ f # NULL
  BY <1>1, Tables DEF FilesOK, ShapeOK, TabOK, LocIs
<1>3. ref[f] = 1 /\ loc[t].fd = NULL /\ \A fd \in fds : file_table[t][fd] # f
  BY <1>1, <1>2, Tables DEF TabIs, Opening, LocIs
<1>4. OneDevice'
  BY <1>1 DEF FilesOK, OneDevice
<1>5. CASE FreeFds(t) = {}
  <2>1. Moves(t, "free", loc[t]) /\ file_table' = file_table /\ loc' = loc
    BY <1>1, <1>5 DEF OpenFd, Go, Moves, FilesOK, ShapeOK
  <2>2. LocIs("free", loc[t])
    BY <1>2 DEF LocIs
  <2>3. /\ pc'[t] = "free" /\ loc'[t] = loc[t] /\ ShapeOK'
        /\ \A u \in Tasks : u # t => pc'[u] = pc[u] /\ loc'[u] = loc[u]
    BY <2>1, <2>2, Moved DEF PCs, FilesOK
  <2>4. TypeOK'
    BY <1>1, <2>1 DEF FilesOK, TypeOK
  <2>5. ASSUME NEW u \in Tasks PROVE TabIs(u)' /\ DevIs(u)'
    BY <1>1, <2>1, <2>3 DEF FilesOK, TabOK, DevOK, TabIs, DevIs, Opening, Leads
  <2>6. ASSUME NEW u \in Tasks, NEW fd \in fds PROVE AskIs(u, fd)'
    <3>1. Pending(u, fd)' <=> Pending(u, fd)
      BY <1>1, <1>3, <2>1, <2>3, Tables DEF Pending
    <3>2. AskIs(u, fd)
      BY DEF FilesOK, AskOK
    <3> QED BY <1>1, <2>1, <3>1, <3>2 DEF AskIs, Leads
  <2>7. ASSUME NEW u \in Tasks, NEW g \in file_tb PROVE Holds(u, g)' => Holds(u, g)
    BY <1>1, <2>1, <2>3 DEF Holds, Opening, Removing
  <2>8. OwnOK'
    BY <1>1, <2>7, OwnKept
  <2> QED BY <1>4, <2>3, <2>4, <2>5, <2>6, <2>8 DEF FilesOK, TabOK, DevOK, AskOK
<1>6. CASE FreeFds(t) # {}
  <2> DEFINE fd == Min(FreeFds(t))
             r == Local(f, fd, loc[t].num, NULL)
  <2>1. fd \in fds /\ file_table[t][fd] = NULL
    BY <1>6, Tables, Smallest DEF FreeFds
  <2>2. /\ Moves(t, "dev", r) /\ file_table' = [file_table EXCEPT ![t][fd] = f]
    BY <1>1, <1>6 DEF OpenFd, Go, Moves
  <2>3. r.file = f /\ r.fd = fd /\ r.num = loc[t].num /\ r.dev = NULL
    BY LocalIs
  <2> HIDE DEF fd, r
  <2>4. LocIs("dev", r)
    BY <1>2, <2>1, <2>3 DEF LocIs, r
  <2>5. /\ pc'[t] = "dev" /\ loc'[t] = r /\ ShapeOK'
        /\ \A u \in Tasks : u # t => pc'[u] = pc[u] /\ loc'[u] = loc[u]
    BY <2>2, <2>4, Moved DEF PCs, FilesOK
  <2>6. /\ file_table' \in [Tasks -> [fds -> file_tb \cup {NULL}]]
        /\ file_table'[t][fd] = f
        /\ \A u \in Tasks : \A gd \in fds :
               u # t \/ gd # fd => file_table'[u][gd] = file_table[u][gd]
    BY <1>2, <2>1, <2>2 DEF FilesOK, TypeOK
  <2> HIDE DEF f
  <2>7. TypeOK'
    BY <1>1, <2>6 DEF FilesOK, TypeOK
  <2>8. ASSUME NEW u \in Tasks PROVE TabIs(u)' /\ DevIs(u)'
    <3>1. CASE u = t
      BY <1>1, <1>3, <2>3, <2>5, <2>6, <3>1 DEF TabIs, DevIs, Opening
    <3>2. CASE u # t
      <4>1. TabIs(u) /\ DevIs(u) /\ LocIs(pc[u], loc[u])
        BY DEF FilesOK, TabOK, DevOK, ShapeOK
      <4>2. pc[u] = "remove" => loc[u].fd \in fds
        BY <4>1 DEF LocIs
      <4> QED BY <1>1, <2>5, <2>6, <3>2, <4>1, <4>2 DEF TabIs, DevIs, Opening, Leads
    <3> QED BY <3>1, <3>2
  <2>9. ASSUME NEW u \in Tasks, NEW gd \in fds PROVE AskIs(u, gd)'
    <3>1. AskIs(u, gd)
      BY DEF FilesOK, AskOK
    <3>2. CASE u = t /\ gd = fd
      BY <1>1, <2>1, <2>3, <2>5, <2>6, <3>1, <3>2 DEF AskIs, Pending
    <3>3. CASE ~ (u = t /\ gd = fd)
      <4>1. Pending(u, gd)' <=> Pending(u, gd)
        BY <1>1, <2>3, <2>5, <3>3 DEF Pending
      <4> QED BY <1>1, <2>6, <3>1, <3>3, <4>1 DEF AskIs, Leads
    <3> QED BY <3>2, <3>3
  <2>10. ASSUME NEW u \in Tasks, NEW g \in file_tb, Holds(u, g)' PROVE Holds(u, g)
    <3>1. CASE u = t
      <4>1. g = f \/ \E gd \in fds : gd # fd /\ file_table[t][gd] = g
        BY <2>3, <2>5, <2>6, <2>10, <3>1 DEF Holds, Opening
      <4> QED BY <1>1, <3>1, <4>1 DEF Holds, Opening, Removing, f
    <3>2. CASE u # t
      BY <2>5, <2>6, <2>10, <3>2 DEF Holds, Opening, Removing
    <3> QED BY <3>1, <3>2
  <2>11. OwnOK'
    BY <1>1, <2>10, OwnKept
  <2> QED BY <1>4, <2>5, <2>7, <2>8, <2>9, <2>11 DEF FilesOK, TabOK, DevOK, AskOK
<1> QED BY <1>5, <1>6

\* dev_open: devices that are open stay what they are, and the one it finds is open
\* for the terminal.
Reaches(oc, mi, d, n) == oc[d] > 0 /\ mi[d] = n

LEMMA DevOpened ==
    ASSUME FilesOK, NEW t \in Tasks, pc[t] = "dev", dev_open(t)
    PROVE  /\ minor' \in [dev_tb -> Nat] /\ open_count' \in [dev_tb -> Nat] /\ OneDevice'
           /\ \A d \in dev_tb : \A n :
                  Reaches(open_count, minor, d, n) => Reaches(open_count', minor', d, n)
           /\ \/ Go(t, "free") /\ loc' = loc /\ open_count' = open_count
              \/ \E d \in dev_tb : /\ Go(t, "set") /\ Found(t, d)
                                   /\ Reaches(open_count', minor', d, loc[t].num)
                                   /\ open_count' = [open_count EXCEPT ![d] = open_count[d] + 1]
<1> DEFINE num == loc[t].num
<1>1. /\ num \in Nat /\ minor \in [dev_tb -> Nat] /\ open_count \in [dev_tb -> Nat] /\ OneDevice
  BY Tables DEF FilesOK, TypeOK, ShapeOK, LocIs
<1>2. Opened(num) \in SUBSET dev_tb /\ FreeDevs \in SUBSET dev_tb /\ dev_tb \subseteq Nat
  BY Tables DEF Opened, FreeDevs
<1>3. CASE Opened(num) # {}
  <2> DEFINE d == Min(Opened(num))
  <2>1. d \in Opened(num)
    BY <1>2, <1>3, Smallest
  <2>2. /\ open_count' = [open_count EXCEPT ![d] = open_count[d] + 1] /\ minor' = minor
        /\ Go(t, "set") /\ Found(t, d)
    BY <1>3 DEF dev_open
  <2> HIDE DEF d, num
  <2>3. d \in dev_tb /\ open_count[d] > 0 /\ minor[d] = num
    BY <2>1 DEF Opened
  <2>4. \A e \in dev_tb : open_count'[e] > 0 <=> open_count[e] > 0
    BY <1>1, <2>2, <2>3
  <2>5. /\ OneDevice' /\ Reaches(open_count', minor', d, num)
        /\ \A e \in dev_tb : \A n :
               Reaches(open_count, minor, e, n) => Reaches(open_count', minor', e, n)
    BY <1>1, <2>2, <2>3, <2>4 DEF OneDevice, Reaches
  <2>6. open_count' \in [dev_tb -> Nat]
    BY <1>1, <2>2, <2>3
  <2>7. Reaches(open_count', minor', d, loc[t].num)
    BY <2>5 DEF num
  <2> QED BY <1>1, <2>2, <2>3, <2>5, <2>6, <2>7
<1>4. CASE Opened(num) = {} /\ FreeDevs = {}
  BY <1>1, <1>4 DEF dev_open, devVars, OneDevice, Leads
<1>5. CASE Opened(num) = {} /\ FreeDevs # {}
  <2> DEFINE d == Max(FreeDevs)
  <2>1. d \in FreeDevs
    BY <1>2, <1>5, Largest
  <2>2. /\ minor' = [minor EXCEPT ![d] = num]
        /\ \/ open_count' = [open_count EXCEPT ![d] = 1] /\ Go(t, "set") /\ Found(t, d)
           \/ open_count' = open_count /\ Go(t, "free") /\ loc' = loc
    BY <1>5 DEF dev_open
  <2> HIDE DEF d
  <2>3. d \in dev_tb /\ open_count[d] = 0
    BY <2>1 DEF FreeDevs
  <2>4. \A e \in dev_tb : e # d => minor'[e] = minor[e] /\ open_count'[e] = open_count[e]
    BY <1>1, <2>2, <2>3
  <2>5. \A e \in dev_tb : \A n :
            Reaches(open_count, minor, e, n) => Reaches(open_count', minor', e, n)
    BY <2>3, <2>4 DEF Reaches
  <2>6. minor' \in [dev_tb -> Nat] /\ minor'[d] = num /\ open_count' \in [dev_tb -> Nat]
    BY <1>1, <2>2, <2>3
  <2>7. \A e \in dev_tb : e # d /\ open_count[e] > 0 => minor[e] # num
    BY <1>5 DEF Opened
  <2>8. OneDevice'
    BY <1>1, <2>4, <2>6, <2>7 DEF OneDevice
  <2>9. CASE open_count' = [open_count EXCEPT ![d] = 1] /\ Go(t, "set") /\ Found(t, d)
    <3>1. open_count'[d] = 1
      BY <1>1, <2>3, <2>9
    <3>3. Reaches(open_count', minor', d, loc[t].num)
      BY <2>6, <3>1 DEF Reaches
    <3>4. open_count' = [open_count EXCEPT ![d] = open_count[d] + 1]
      BY <2>3, <2>9
    <3> QED BY <2>3, <2>5, <2>6, <2>8, <2>9, <3>3, <3>4
  <2>10. CASE open_count' = open_count /\ Go(t, "free") /\ loc' = loc
    BY <2>5, <2>6, <2>8, <2>10
  <2> QED BY <2>2, <2>9, <2>10
<1> QED BY <1>3, <1>4, <1>5

LEMMA OpenDevStep ==
    ASSUME FilesOK, NEW t \in Tasks, OpenDev(t)
    PROVE  FilesOK'
<1>1. /\ pc[t] = "dev" /\ t \notin zombie /\ dev_open(t)
      /\ UNCHANGED <<ref, dev_id, file_table, zombie, asked, lost>>
  BY DEF OpenDev, At, fileVars
<1>2. /\ minor' \in [dev_tb -> Nat] /\ open_count' \in [dev_tb -> Nat] /\ OneDevice'
      /\ \A d \in dev_tb : \A n :
             Reaches(open_count, minor, d, n) => Reaches(open_count', minor', d, n)
      /\ \/ Go(t, "free") /\ loc' = loc
         \/ \E d \in dev_tb : /\ Go(t, "set") /\ Found(t, d)
                              /\ Reaches(open_count', minor', d, loc[t].num)
  BY <1>1, DevOpened
<1>3. LocIs("dev", loc[t]) /\ TabIs(t)
  BY <1>1 DEF FilesOK, ShapeOK, TabOK
<1>4. PICK b, r :
          /\ b \in {"set", "free"}
          /\ Moves(t, b, r) /\ LocIs(b, r) /\ r.file = loc[t].file /\ r.fd = loc[t].fd
          /\ b = "set" => Reaches(open_count', minor', r.dev, r.num)
  <2>1. CASE Go(t, "free") /\ loc' = loc
    <3>1. Moves(t, "free", loc[t]) /\ LocIs("free", loc[t])
      BY <1>1, <1>3, <2>1 DEF Go, Moves, LocIs, FilesOK, ShapeOK
    <3> QED BY <3>1
  <2>2. ASSUME NEW d \in dev_tb, Go(t, "set"), Found(t, d),
               Reaches(open_count', minor', d, loc[t].num)
        PROVE  \E r : /\ Moves(t, "set", r) /\ LocIs("set", r) /\ r.file = loc[t].file
                      /\ r.fd = loc[t].fd /\ Reaches(open_count', minor', r.dev, r.num)
    <3> DEFINE r == Local(loc[t].file, loc[t].fd, loc[t].num, d)
    <3>1. r.file = loc[t].file /\ r.fd = loc[t].fd /\ r.num = loc[t].num /\ r.dev = d
      BY LocalIs
    <3>2. Moves(t, "set", r) /\ loc'[t] = r
      BY <1>1, <2>2 DEF Go, Moves, Found, FilesOK, ShapeOK
    <3> HIDE DEF r
    <3>3. LocIs("set", r)
      BY <1>3, <3>1 DEF LocIs, r
    <3>4. Reaches(open_count', minor', r.dev, r.num)
      BY <2>2, <3>1
    <3> QED BY <3>1, <3>2, <3>3, <3>4
  <2> QED BY <1>2, <2>1, <2>2
<1>5. /\ pc'[t] = b /\ loc'[t] = r /\ ShapeOK'
      /\ \A u \in Tasks : u # t => pc'[u] = pc[u] /\ loc'[u] = loc[u]
  BY <1>4, Moved DEF PCs, FilesOK
<1>6. TypeOK'
  BY <1>1, <1>2 DEF FilesOK, TypeOK
<1>7. ASSUME NEW u \in Tasks PROVE TabIs(u)' /\ DevIs(u)'
  <2>1. TabIs(u)'
    BY <1>1, <1>3, <1>4, <1>5 DEF FilesOK, TabOK, TabIs, Opening
  <2>2. DevIs(u)'
    <3>1. CASE u = t
      BY <1>4, <1>5, <3>1 DEF DevIs, Leads, Reaches
    <3>2. CASE u # t
      <4>1. DevIs(u) /\ LocIs(pc[u], loc[u])
        BY DEF FilesOK, DevOK, ShapeOK
      <4>2. pc[u] = "set" => loc[u].dev \in dev_tb
        BY <4>1 DEF LocIs
      <4> QED BY <1>2, <1>5, <3>2, <4>1, <4>2 DEF DevIs, Leads, Reaches
    <3> QED BY <3>1, <3>2
  <2> QED BY <2>1, <2>2
<1>8. ASSUME NEW u \in Tasks, NEW fd \in fds PROVE AskIs(u, fd)'
  <2>1. Pending(u, fd)' <=> Pending(u, fd)
    BY <1>1, <1>4, <1>5 DEF Pending
  <2>2. AskIs(u, fd) /\ file_table[u][fd] \in file_tb \cup {NULL}
    BY DEF FilesOK, AskOK, TypeOK
  <2>3. file_table[u][fd] # NULL => dev_id[file_table[u][fd]] \in dev_tb
    BY <2>2 DEF FilesOK, TypeOK
  <2> QED BY <1>1, <1>2, <2>1, <2>2, <2>3 DEF AskIs, Leads, Reaches
<1>9. ASSUME NEW u \in Tasks, NEW g \in file_tb PROVE Holds(u, g)' => Holds(u, g)
  BY <1>1, <1>4, <1>5 DEF Holds, Opening, Removing
<1>10. OwnOK'
  BY <1>1, <1>9, OwnKept
<1> QED BY <1>2, <1>5, <1>6, <1>7, <1>8, <1>10 DEF FilesOK, TabOK, DevOK, AskOK

\* The file gets its device: nobody else has the file.
LEMMA OpenDoneStep ==
    ASSUME FilesOK, NEW t \in Tasks, OpenDone(t)
    PROVE  FilesOK'
<1> DEFINE f == loc[t].file
           fd == loc[t].fd
<1>1. /\ pc[t] = "set" /\ Moves(t, "user", NoLoc)
      /\ dev_id' = [dev_id EXCEPT ![f] = loc[t].dev] /\ ref' = [ref EXCEPT ![f] = 1]
      /\ asked' = [asked EXCEPT ![t][fd] = loc[t].num]
      /\ UNCHANGED <<minor, open_count, file_table, lost>>
  BY DEF OpenDone, At, Go, Return, Moves, devVars
<1>2. LocIs("set", loc[t]) /\ TabIs(t) /\ DevIs(t)
  BY <1>1 DEF FilesOK, ShapeOK, TabOK, DevOK
<1>3. /\ f \in file_tb /\ fd \in fds /\ loc[t].num \in Names /\ loc[t].dev \in dev_tb
      /\ ref[f] = 1 /\ \A gd \in fds : file_table[t][gd] = f <=> gd = fd
      /\ Leads(loc[t].dev, loc[t].num)
  BY <1>1, <1>2 DEF LocIs, TabIs, DevIs, Opening
<1>4. LocIs("user", NoLoc) /\ NoLoc.file = NULL /\ NoLoc.fd = NULL
  BY DEF LocIs, NoLoc, Local
<1>5. /\ pc'[t] = "user" /\ loc'[t] = NoLoc /\ ShapeOK'
      /\ \A u \in Tasks : u # t => pc'[u] = pc[u] /\ loc'[u] = loc[u]
  BY <1>1, <1>4, Moved DEF PCs, FilesOK
<1>6. ref' = ref
  BY <1>1, <1>3 DEF FilesOK, TypeOK
<1>7. TypeOK'
  BY <1>1, <1>3, <1>6 DEF FilesOK, TypeOK
<1>8. /\ dev_id'[f] = loc[t].dev /\ asked'[t][fd] = loc[t].num
      /\ \A g \in file_tb : g # f => dev_id'[g] = dev_id[g]
      /\ \A u \in Tasks : \A gd \in fds : u # t \/ gd # fd => asked'[u][gd] = asked[u][gd]
  BY <1>1, <1>3 DEF FilesOK, TypeOK
<1>9. ASSUME NEW u \in Tasks PROVE TabIs(u)' /\ DevIs(u)'
  BY <1>1, <1>5, <1>6 DEF FilesOK, TabOK, DevOK, TabIs, DevIs, Opening, Leads, Moves
<1>10. ASSUME NEW u \in Tasks, NEW gd \in fds PROVE AskIs(u, gd)'
  <2>1. AskIs(u, gd) /\ file_table[u][gd] \in file_tb \cup {NULL}
    BY DEF FilesOK, AskOK, TypeOK
  <2>2. CASE u = t /\ gd = fd
    <3>1. file_table[t][fd] = f /\ f # NULL
      BY <1>3, Tables
    <3>2. ~Pending(u, gd)'
      BY <1>5, <2>2 DEF Pending
    <3>3. file_table'[u][gd] = f /\ asked'[u][gd] = loc[t].num
          /\ dev_id'[f] = loc[t].dev
      BY <1>1, <1>8, <2>2, <3>1
    <3>4. open_count'[loc[t].dev] > 0 /\ minor'[loc[t].dev] = loc[t].num
      BY <1>1, <1>3 DEF Leads
    <3> QED BY <3>1, <3>2, <3>3, <3>4 DEF AskIs, Leads
  <2>3. CASE ~ (u = t /\ gd = fd)
    <3>1. Pending(u, gd)' <=> Pending(u, gd)
      BY <1>1, <1>5, <2>3 DEF Pending
    <3>2. ~Pending(u, gd) => file_table[u][gd] # f
      <4>1. u = t => file_table[u][gd] # f
        BY <1>3, <2>3
      <4>2. ~Pending(u, gd) /\ file_table[u][gd] = f => Holds(u, f)
        BY DEF Holds, Pending, Removing
      <4>3. Holds(t, f)
        BY <1>1 DEF Holds, Opening
      <4>4. OwnIs(t, f)
        BY <1>3 DEF FilesOK, OwnOK
      <4> QED BY <4>1, <4>2, <4>3, <4>4 DEF OwnIs
    <3>3. asked'[u][gd] = asked[u][gd]
      BY <1>8, <2>3
    <3>4. /\ file_table[u][gd] # NULL /\ ~Pending(u, gd)
               => dev_id'[file_table[u][gd]] = dev_id[file_table[u][gd]]
      BY <1>8, <2>1, <3>2
    <3> HIDE DEF f, fd
    <3> QED BY <1>1, <2>1, <3>1, <3>3, <3>4 DEF AskIs, Leads, Moves
  <2> QED BY <2>2, <2>3
<1>11. ASSUME NEW u \in Tasks, NEW g \in file_tb, Holds(u, g)' PROVE Holds(u, g)
  BY <1>1, <1>5, <1>11 DEF Holds, Opening, Removing
<1>12. OwnOK'
  BY <1>6, <1>11, OwnKept
<1>13. OneDevice'
  BY <1>1 DEF FilesOK, OneDevice
<1> QED BY <1>5, <1>7, <1>9, <1>10, <1>12, <1>13 DEF FilesOK, TabOK, DevOK, AskOK

\* A failed open gives its file back, and nobody else has it.
LEMMA OpenFreeStep ==
    ASSUME FilesOK, NEW t \in Tasks, OpenFree(t)
    PROVE  FilesOK'
<1> DEFINE f == loc[t].file
<1>1. /\ pc[t] = "free" /\ t \notin zombie /\ zombie' = zombie
      /\ ref' = [ref EXCEPT ![f] = IF ref[f] > 0 THEN ref[f] - 1 ELSE 0]
      /\ UNCHANGED <<dev_id, minor, open_count, file_table, asked, lost>>
  BY DEF OpenFree, file_free, At, devVars
<1>2. LocIs("free", loc[t]) /\ TabIs(t)
  BY <1>1 DEF FilesOK, ShapeOK, TabOK
<1>3. /\ f \in file_tb /\ ref[f] = 1
      /\ \A gd \in fds : file_table[t][gd] = f <=> loc[t].fd = gd
  BY <1>1, <1>2 DEF LocIs, TabIs, Opening
<1>4. PICK b, r :
          /\ b \in {"user", "remove"}
          /\ Moves(t, b, r) /\ LocIs(b, r)
          /\ b = "user" => r = NoLoc /\ loc[t].fd = NULL
          /\ b = "remove" => r = loc[t]
  <2>1. LocIs("user", NoLoc)
    BY DEF LocIs, NoLoc, Local
  <2>2. CASE loc[t].fd = NULL
    <3>1. Moves(t, "user", NoLoc)
      BY <1>1, <2>2 DEF OpenFree, Return, Go, Moves
    <3> QED BY <2>1, <2>2, <3>1
  <2>3. CASE loc[t].fd # NULL
    <3>1. Moves(t, "remove", loc[t])
      BY <1>1, <2>3 DEF OpenFree, Go, Moves, FilesOK, ShapeOK
    <3>2. LocIs("remove", loc[t])
      BY <1>2, <2>3 DEF LocIs
    <3> QED BY <3>1, <3>2
  <2> QED BY <2>2, <2>3
<1>5. /\ pc'[t] = b /\ loc'[t] = r /\ ShapeOK'
      /\ \A u \in Tasks : u # t => pc'[u] = pc[u] /\ loc'[u] = loc[u]
  BY <1>4, Moved DEF PCs, FilesOK
<1>6. ref'[f] = 0 /\ \A g \in file_tb : g # f => ref'[g] = ref[g]
  BY <1>1, <1>3 DEF FilesOK, TypeOK
<1>7. TypeOK'
  <2>1. ref' \in [file_tb -> Nat]
    BY <1>1, <1>3 DEF FilesOK, TypeOK
  <2> QED BY <1>1, <2>1 DEF FilesOK, TypeOK
<1>8. Holds(t, f) /\ OwnIs(t, f)
  BY <1>1, <1>3 DEF Holds, Opening, FilesOK, OwnOK
<1>9. ASSUME NEW u \in Tasks PROVE TabIs(u)' /\ DevIs(u)'
  <2>1. TabIs(u) /\ DevIs(u) /\ LocIs(pc[u], loc[u])
    BY DEF FilesOK, TabOK, DevOK, ShapeOK
  <2>2. CASE u = t
    <3>1. CASE b = "user"
      BY <1>1, <1>5, <2>2, <3>1 DEF TabIs, DevIs, Opening
    <3>2. CASE b = "remove"
      <4>1. loc[t].fd \in fds
        BY <1>4, <3>2 DEF LocIs
      <4> QED BY <1>1, <1>3, <1>4, <1>5, <2>2, <3>2, <4>1 DEF TabIs, DevIs, Opening
    <3> QED BY <1>4, <3>1, <3>2
  <2>3. CASE u # t
    <3>1. Opening(u) => loc[u].file \in file_tb /\ loc[u].file # f
      BY <1>8, <2>1, <2>3 DEF Opening, LocIs, OwnIs, Holds
    <3> QED BY <1>1, <1>5, <1>6, <2>1, <2>3, <3>1 DEF TabIs, DevIs, Opening, Leads
  <2> QED BY <2>2, <2>3
<1>10. ASSUME NEW u \in Tasks, NEW fd \in fds PROVE AskIs(u, fd)'
  <2>1. Pending(u, fd)' <=> Pending(u, fd)
    BY <1>1, <1>4, <1>5, Tables DEF Pending
  <2>2. AskIs(u, fd)
    BY DEF FilesOK, AskOK
  <2> QED BY <1>1, <2>1, <2>2 DEF AskIs, Leads
<1>11. ASSUME NEW u \in Tasks, NEW g \in file_tb, Holds(u, g)' PROVE Holds(u, g) /\ g # f
  <2>1. CASE u = t
    <3>1. PICK gd \in fds : file_table[t][gd] = g /\ ~Removing(t, gd)'
      BY <1>1, <1>4, <1>5, <1>11, <2>1 DEF Holds, Opening
    <3>2. g # f
      BY <1>3, <1>4, <1>5, <3>1, Tables DEF Removing
    <3>3. ~Removing(t, gd)
      BY <1>1 DEF Removing
    <3> QED BY <2>1, <3>1, <3>2, <3>3 DEF Holds
  <2>2. CASE u # t
    <3>1. Holds(u, g)
      BY <1>1, <1>5, <1>11, <2>2 DEF Holds, Opening, Removing
    <3> QED BY <1>8, <2>2, <3>1 DEF OwnIs
  <2> QED BY <2>1, <2>2
<1>12. ASSUME NEW u \in Tasks, NEW g \in file_tb PROVE OwnIs(u, g)'
  <2>1. OwnIs(u, g)
    BY DEF FilesOK, OwnOK
  <2> QED BY <1>6, <1>11, <2>1 DEF OwnIs
<1>13. OneDevice'
  BY <1>1 DEF FilesOK, OneDevice
<1> QED BY <1>5, <1>7, <1>9, <1>10, <1>12, <1>13 DEF FilesOK, TabOK, DevOK, AskOK, OwnOK

\* The descriptor of a failed open goes; the file may be another task's by now.
LEMMA OpenRemoveStep ==
    ASSUME FilesOK, NEW t \in Tasks, OpenRemove(t)
    PROVE  FilesOK'
<1> DEFINE fd == loc[t].fd
<1>1. /\ pc[t] = "remove" /\ Moves(t, "user", NoLoc)
      /\ file_table' = [file_table EXCEPT ![t][fd] = NULL]
      /\ UNCHANGED <<ref, dev_id, minor, open_count, asked, lost>>
  BY DEF OpenRemove, At, Go, Return, Moves, fileVars, devVars
<1>2. fd \in fds
  BY <1>1 DEF FilesOK, ShapeOK, LocIs
<1>3. LocIs("user", NoLoc) /\ NoLoc.file = NULL /\ NoLoc.fd = NULL
  BY DEF LocIs, NoLoc, Local
<1>4. /\ pc'[t] = "user" /\ loc'[t] = NoLoc /\ ShapeOK'
      /\ \A u \in Tasks : u # t => pc'[u] = pc[u] /\ loc'[u] = loc[u]
  BY <1>1, <1>3, Moved DEF PCs, FilesOK
<1>5. /\ file_table' \in [Tasks -> [fds -> file_tb \cup {NULL}]]
      /\ file_table'[t][fd] = NULL
      /\ \A u \in Tasks : \A gd \in fds :
             u # t \/ gd # fd => file_table'[u][gd] = file_table[u][gd]
  BY <1>1, <1>2 DEF FilesOK, TypeOK
<1>6. AskIs(t, fd)
  BY <1>2 DEF FilesOK, AskOK
<1>7. t \notin zombie /\ zombie' = zombie /\ Pending(t, fd)
  BY <1>1 DEF Moves, Pending
<1>8. asked[t][fd] = NULL
  BY <1>6, <1>7 DEF AskIs
<1>9. TypeOK'
  BY <1>1, <1>5 DEF FilesOK, TypeOK
<1>10. ASSUME NEW u \in Tasks PROVE TabIs(u)' /\ DevIs(u)'
  <2>1. CASE u = t
    BY <1>4, <1>7, <2>1 DEF TabIs, DevIs, Opening
  <2>2. CASE u # t
    <3>1. TabIs(u) /\ DevIs(u) /\ LocIs(pc[u], loc[u])
      BY DEF FilesOK, TabOK, DevOK, ShapeOK
    <3>2. pc[u] = "remove" => loc[u].fd \in fds
      BY <3>1 DEF LocIs
    <3> QED BY <1>1, <1>4, <1>5, <1>7, <2>2, <3>1, <3>2 DEF TabIs, DevIs, Opening, Leads
  <2> QED BY <2>1, <2>2
<1>11. ASSUME NEW u \in Tasks, NEW gd \in fds PROVE AskIs(u, gd)'
  <2>1. AskIs(u, gd)
    BY DEF FilesOK, AskOK
  <2>2. CASE u = t /\ gd = fd
    BY <1>1, <1>5, <1>8, <2>2 DEF AskIs
  <2>3. CASE ~ (u = t /\ gd = fd)
    <3>1. Pending(u, gd)' <=> Pending(u, gd)
      BY <1>1, <1>4, <2>3 DEF Pending
    <3>2. file_table'[u][gd] = file_table[u][gd]
      BY <1>5, <2>3
    <3> HIDE DEF fd
    <3> QED BY <1>1, <1>7, <2>1, <3>1, <3>2 DEF AskIs, Leads
  <2> QED BY <2>2, <2>3
<1>12. ASSUME NEW u \in Tasks, NEW g \in file_tb, Holds(u, g)' PROVE Holds(u, g)
  <2>1. CASE u = t
    <3>1. PICK gd \in fds : file_table'[t][gd] = g
      BY <1>4, <1>12, <2>1 DEF Holds, Opening
    <3>2. gd # fd /\ file_table[t][gd] = g
      BY <1>5, <3>1, Tables
    <3>3. ~Removing(t, gd)
      BY <3>2 DEF Removing
    <3> QED BY <2>1, <3>2, <3>3 DEF Holds
  <2>2. CASE u # t
    BY <1>4, <1>5, <1>12, <2>2 DEF Holds, Opening, Removing
  <2> QED BY <2>1, <2>2
<1>13. OwnOK'
  BY <1>1, <1>12, OwnKept
<1>14. OneDevice'
  BY <1>1 DEF FilesOK, OneDevice
<1> QED BY <1>4, <1>9, <1>10, <1>11, <1>13, <1>14 DEF FilesOK, TabOK, DevOK, AskOK

\* A second descriptor of a file the task has.
LEMMA DupStep ==
    ASSUME FilesOK, NEW t \in Tasks, NEW old \in fds, sys_dup(t, old)
    PROVE  FilesOK'
<1> DEFINE fd == Min(FreeFds(t))
           f == file_table[t][old]
           r == Local(f, NULL, NULL, NULL)
<1>1. /\ pc[t] = "user" /\ Moves(t, "dup", r) /\ f # NULL /\ FreeFds(t) # {}
      /\ file_table' = [file_table EXCEPT ![t][fd] = f]
      /\ asked' = [asked EXCEPT ![t][fd] = asked[t][old]]
      /\ UNCHANGED <<ref, dev_id, minor, open_count, lost>>
  BY DEF sys_dup, task_file, At, Go, Moves, fileVars, devVars
<1>2. fd \in fds /\ file_table[t][fd] = NULL /\ f \in file_tb
  <2>1. FreeFds(t) \in SUBSET Nat
    BY Tables DEF FreeFds
  <2>2. fd \in FreeFds(t)
    BY <1>1, <2>1, Smallest
  <2>3. f \in file_tb
    BY <1>1 DEF FilesOK, TypeOK
  <2> QED BY <2>2, <2>3 DEF FreeFds
<1>3. r.file = f /\ r.fd = NULL
  BY LocalIs
<1> HIDE DEF fd, f, r
<1>4. LocIs("dup", r)
  BY <1>2, <1>3 DEF LocIs, r, Local
<1>5. /\ pc'[t] = "dup" /\ loc'[t] = r /\ ShapeOK'
      /\ \A u \in Tasks : u # t => pc'[u] = pc[u] /\ loc'[u] = loc[u]
  BY <1>1, <1>4, Moved DEF PCs, FilesOK
<1>6. /\ file_table' \in [Tasks -> [fds -> file_tb \cup {NULL}]]
      /\ file_table'[t][fd] = f
      /\ \A u \in Tasks : \A gd \in fds :
             u # t \/ gd # fd => file_table'[u][gd] = file_table[u][gd]
  BY <1>1, <1>2 DEF FilesOK, TypeOK
<1>7. /\ asked' \in [Tasks -> [fds -> Names \cup {NULL}]]
      /\ asked'[t][fd] = asked[t][old]
      /\ \A u \in Tasks : \A gd \in fds :
             u # t \/ gd # fd => asked'[u][gd] = asked[u][gd]
  BY <1>1, <1>2 DEF FilesOK, TypeOK
<1>8. TypeOK'
  BY <1>1, <1>6, <1>7 DEF FilesOK, TypeOK
<1>9. t \notin zombie /\ zombie' = zombie
  BY <1>1 DEF Moves
<1>10. ASSUME NEW u \in Tasks PROVE TabIs(u)' /\ DevIs(u)'
  <2>1. CASE u = t
    BY <1>2, <1>3, <1>5, <1>6, <1>9, <2>1 DEF TabIs, DevIs, Opening
  <2>2. CASE u # t
    <3>1. TabIs(u) /\ DevIs(u) /\ LocIs(pc[u], loc[u])
      BY DEF FilesOK, TabOK, DevOK, ShapeOK
    <3>2. pc[u] = "remove" => loc[u].fd \in fds
      BY <3>1 DEF LocIs
    <3> QED BY <1>1, <1>5, <1>6, <1>9, <2>2, <3>1, <3>2 DEF TabIs, DevIs, Opening, Leads
  <2> QED BY <2>1, <2>2
<1>11. ASSUME NEW u \in Tasks, NEW gd \in fds PROVE AskIs(u, gd)'
  <2>1. AskIs(u, gd)
    BY DEF FilesOK, AskOK
  <2>2. CASE u = t /\ gd = fd
    <3>1. AskIs(t, old) /\ ~Pending(t, old) /\ file_table[t][old] = f
      BY <1>1 DEF FilesOK, AskOK, Pending, f
    <3>2. Leads(dev_id[f], asked[t][old])
      BY <1>1, <3>1 DEF AskIs
    <3>3. ~Pending(u, gd)'
      BY <1>5, <2>2 DEF Pending
    <3> QED BY <1>1, <1>6, <1>7, <2>2, <3>2, <3>3 DEF AskIs, Leads
  <2>3. CASE ~ (u = t /\ gd = fd)
    <3>1. Pending(u, gd)' <=> Pending(u, gd)
      BY <1>1, <1>5 DEF Pending
    <3>2. file_table'[u][gd] = file_table[u][gd] /\ asked'[u][gd] = asked[u][gd]
      BY <1>6, <1>7, <2>3
    <3> QED BY <1>1, <1>9, <2>1, <3>1, <3>2 DEF AskIs, Leads
  <2> QED BY <2>2, <2>3
<1>12. ASSUME NEW u \in Tasks, NEW g \in file_tb, Holds(u, g)' PROVE Holds(u, g)
  <2>1. CASE u = t
    <3>1. PICK gd \in fds : file_table'[t][gd] = g
      BY <1>5, <1>12, <2>1 DEF Holds, Opening
    <3>2. \E hd \in fds : file_table[t][hd] = g
      BY <1>6, <3>1 DEF f
    <3> QED BY <1>1, <2>1, <3>2 DEF Holds, Removing
  <2>2. CASE u # t
    BY <1>5, <1>6, <1>12, <2>2 DEF Holds, Opening, Removing
  <2> QED BY <2>1, <2>2
<1>13. OwnOK'
  BY <1>1, <1>12, OwnKept
<1>14. OneDevice'
  BY <1>1 DEF FilesOK, OneDevice
<1> QED BY <1>5, <1>8, <1>10, <1>11, <1>13, <1>14 DEF FilesOK, TabOK, DevOK, AskOK

\* The count of a file the task has.
LEMMA DupRefStep ==
    ASSUME FilesOK, NEW t \in Tasks, DupRef(t)
    PROVE  FilesOK'
<1> DEFINE f == loc[t].file
<1>1. /\ pc[t] = "dup" /\ Moves(t, "user", NoLoc)
      /\ ref' = [ref EXCEPT ![f] = ref[f] + 1]
      /\ UNCHANGED <<dev_id, minor, open_count, file_table, asked, lost>>
  BY DEF DupRef, At, Go, Return, Moves, devVars
<1>2. LocIs("dup", loc[t]) /\ TabIs(t)
  BY <1>1 DEF FilesOK, ShapeOK, TabOK
<1>3. f \in file_tb /\ \E fd \in fds : file_table[t][fd] = f
  BY <1>1, <1>2 DEF LocIs, TabIs
<1>4. Holds(t, f) /\ OwnIs(t, f)
  BY <1>1, <1>3 DEF Holds, Removing, FilesOK, OwnOK
<1>5. LocIs("user", NoLoc) /\ NoLoc.file = NULL /\ NoLoc.fd = NULL
  BY DEF LocIs, NoLoc, Local
<1>6. /\ pc'[t] = "user" /\ loc'[t] = NoLoc /\ ShapeOK'
      /\ \A u \in Tasks : u # t => pc'[u] = pc[u] /\ loc'[u] = loc[u]
  BY <1>1, <1>5, Moved DEF PCs, FilesOK
<1>7. /\ ref' \in [file_tb -> Nat] /\ ref'[f] = ref[f] + 1
      /\ \A g \in file_tb : g # f => ref'[g] = ref[g]
  BY <1>1, <1>3 DEF FilesOK, TypeOK
<1>8. TypeOK'
  BY <1>1, <1>7 DEF FilesOK, TypeOK
<1>9. t \notin zombie /\ zombie' = zombie
  BY <1>1 DEF Moves
<1>10. ASSUME NEW u \in Tasks PROVE TabIs(u)' /\ DevIs(u)'
  <2>1. CASE u = t
    BY <1>6, <1>9, <2>1 DEF TabIs, DevIs, Opening
  <2>2. CASE u # t
    <3>1. TabIs(u) /\ DevIs(u) /\ LocIs(pc[u], loc[u])
      BY DEF FilesOK, TabOK, DevOK, ShapeOK
    <3>2. Opening(u) => loc[u].file \in file_tb /\ loc[u].file # f
      BY <1>4, <2>2, <3>1 DEF Opening, LocIs, OwnIs, Holds
    <3> QED BY <1>1, <1>6, <1>7, <1>9, <2>2, <3>1, <3>2 DEF TabIs, DevIs, Opening, Leads
  <2> QED BY <2>1, <2>2
<1>11. ASSUME NEW u \in Tasks, NEW fd \in fds PROVE AskIs(u, fd)'
  <2>1. Pending(u, fd)' <=> Pending(u, fd)
    BY <1>1, <1>6 DEF Pending
  <2>2. AskIs(u, fd)
    BY DEF FilesOK, AskOK
  <2> QED BY <1>1, <1>9, <2>1, <2>2 DEF AskIs, Leads
<1>12. ASSUME NEW u \in Tasks, NEW g \in file_tb, Holds(u, g)' PROVE Holds(u, g)
  BY <1>1, <1>6, <1>12 DEF Holds, Opening, Removing
<1>13. ASSUME NEW u \in Tasks, NEW g \in file_tb PROVE OwnIs(u, g)'
  <2>1. OwnIs(u, g) /\ ref[g] \in Nat /\ ref[f] \in Nat
    BY <1>3 DEF FilesOK, OwnOK, TypeOK
  <2>2. ref[g] > 0 => ref'[g] > 0
    BY <1>7, <2>1
  <2> QED BY <1>12, <2>1, <2>2 DEF OwnIs
<1>14. OneDevice'
  BY <1>1 DEF FilesOK, OneDevice
<1> QED BY <1>6, <1>8, <1>10, <1>11, <1>13, <1>14 DEF FilesOK, TabOK, DevOK, AskOK, OwnOK

\* The descriptors of a task are finite in number.
LEMMA DescriptorsFinite ==
    ASSUME NEW t \in Tasks, NEW f
    PROVE  IsFiniteSet(Descriptors(t, f)) /\ Cardinality(Descriptors(t, f)) \in Nat
<1>1. Descriptors(t, f) \subseteq fds
  BY DEF Descriptors
<1> QED BY <1>1, Tables, FS_Subset, FS_CardinalityType

\* The descriptors of a task that exits.
LEMMA ExitStep ==
    ASSUME FilesOK, NEW t \in Tasks, sys_exit(t)
    PROVE  FilesOK'
<1>1. /\ pc[t] = "user" /\ zombie' = zombie \cup {t}
      /\ file_table' = [file_table EXCEPT ![t] = [fd \in fds |-> NULL]]
      /\ lost' = [f \in file_tb |-> lost[f] + Cardinality(Descriptors(t, f))]
      /\ UNCHANGED <<ref, dev_id, minor, open_count, pc, loc, asked>>
  BY DEF sys_exit, At, fileVars, devVars
<1>2. lost' \in [file_tb -> Nat]
  <2>1. ASSUME NEW f \in file_tb PROVE lost[f] + Cardinality(Descriptors(t, f)) \in Nat
    <3>1. lost[f] \in Nat
      BY DEF FilesOK, TypeOK
    <3> QED BY <3>1, DescriptorsFinite
  <2> QED BY <1>1, <2>1
<1>3. /\ file_table' \in [Tasks -> [fds -> file_tb \cup {NULL}]]
      /\ \A fd \in fds : file_table'[t][fd] = NULL
      /\ \A u \in Tasks : u # t => file_table'[u] = file_table[u]
  BY <1>1 DEF FilesOK, TypeOK
<1>4. TypeOK'
  BY <1>1, <1>2, <1>3 DEF FilesOK, TypeOK
<1>5. ShapeOK'
  BY <1>1 DEF FilesOK, ShapeOK
<1>6. ASSUME NEW u \in Tasks PROVE TabIs(u)' /\ DevIs(u)'
  <2>1. TabIs(u) /\ DevIs(u)
    BY DEF FilesOK, TabOK, DevOK
  <2>2. CASE u = t
    BY <1>1, <1>3, <2>2 DEF TabIs, DevIs, Opening
  <2>3. CASE u # t
    BY <1>1, <1>3, <2>1, <2>3 DEF TabIs, DevIs, Opening, Leads
  <2> QED BY <2>2, <2>3
<1>7. ASSUME NEW u \in Tasks, NEW fd \in fds PROVE AskIs(u, fd)'
  <2>1. AskIs(u, fd) /\ (Pending(u, fd)' <=> Pending(u, fd))
    BY <1>1 DEF FilesOK, AskOK, Pending
  <2>2. CASE u = t
    BY <1>1, <1>3, <2>2 DEF AskIs
  <2>3. CASE u # t
    BY <1>1, <1>3, <2>1, <2>3 DEF AskIs, Leads
  <2> QED BY <2>2, <2>3
<1>8. ASSUME NEW u \in Tasks, NEW g \in file_tb, Holds(u, g)' PROVE Holds(u, g)
  BY <1>1, <1>3, <1>8, Tables DEF Holds, Opening, Removing
<1>9. OwnOK'
  BY <1>1, <1>8, OwnKept
<1>10. OneDevice'
  BY <1>1 DEF FilesOK, OneDevice
<1> QED BY <1>4, <1>5, <1>6, <1>7, <1>9, <1>10 DEF FilesOK, TabOK, DevOK, AskOK

LEMMA InitFiles ==
    ASSUME Init PROVE FilesOK
<1>1. TypeOK
  BY SizeAssumption, Tables DEF Init, TypeOK
<1>2. LocIs("user", NoLoc)
  BY DEF LocIs, NoLoc, Local
<1>3. pc = [t \in Tasks |-> "user"] /\ loc = [t \in Tasks |-> NoLoc] /\ zombie = {}
  BY DEF Init
<1>4. ShapeOK
  BY <1>2, <1>3 DEF ShapeOK, PCs
<1>5. \A t \in Tasks : \A fd \in fds : file_table[t][fd] = NULL /\ asked[t][fd] = NULL
  BY DEF Init
<1>6. TabOK /\ AskOK /\ DevOK
  BY <1>3, <1>5 DEF TabOK, TabIs, AskOK, AskIs, DevOK, DevIs, Opening, Pending
<1>7. \A t \in Tasks : \A f \in file_tb : ~Holds(t, f)
  BY <1>3, <1>5, Tables DEF Holds, Opening
<1>8. OwnOK
  BY <1>7 DEF OwnOK, OwnIs
<1>9. OneDevice
  BY DEF Init, OneDevice
<1> QED BY <1>1, <1>4, <1>6, <1>8, <1>9 DEF FilesOK

LEMMA StepFiles ==
    ASSUME FilesOK, [Next]_vars PROVE FilesOK'
<1>1. CASE UNCHANGED vars
  <2>1. TypeOK'
    BY <1>1 DEF vars, FilesOK, TypeOK
  <2>2. ShapeOK'
    BY <1>1 DEF vars, FilesOK, ShapeOK
  <2>3. TabOK' /\ DevOK'
    BY <1>1 DEF vars, FilesOK, TabOK, TabIs, DevOK, DevIs, Opening, Leads
  <2>4. AskOK'
    BY <1>1 DEF vars, FilesOK, AskOK, AskIs, Pending, Leads
  <2>5. \A u \in Tasks : \A g \in file_tb : Holds(u, g)' => Holds(u, g)
    BY <1>1 DEF vars, Holds, Opening, Removing
  <2>6. OwnOK'
    BY <1>1, <2>5, OwnKept DEF vars
  <2>7. OneDevice'
    BY <1>1 DEF vars, FilesOK, OneDevice
  <2> QED BY <2>1, <2>2, <2>3, <2>4, <2>6, <2>7 DEF FilesOK
<1>2. CASE Next
  BY <1>2, OpenFileStep, OpenFdStep, OpenDevStep, OpenDoneStep, OpenFreeStep,
     OpenRemoveStep, DupStep, DupRefStep, ExitStep DEF Next
<1> QED BY <1>1, <1>2

LEMMA FilesInvariant == Spec => []FilesOK
BY InitFiles, StepFiles, PTL DEF Spec

-----------------------------------------------------------------------------
(* The descriptors of a task are the first ones: task_alloc_fd takes the   *)
(* first that is free, and only a failed open gives back one, its own,     *)
(* which is the last.                                                      *)

Row(t, tab, l, r) ==
    /\ \A fd, gd \in fds : gd < fd /\ tab[t][fd] # NULL => tab[t][gd] # NULL
    /\ l \in {"dev", "set", "free", "remove"} /\ r.fd \in fds
           => \A gd \in fds : gd > r.fd => tab[t][gd] = NULL

RowsOK == \A t \in Tasks : Row(t, file_table, pc[t], loc[t])

\* A step of t that leaves the descriptors alone.
LEMMA RowSame ==
    ASSUME FilesOK, RowsOK, NEW t \in Tasks, file_table' = file_table,
           NEW b, NEW r, pc' = [pc EXCEPT ![t] = b], loc' = [loc EXCEPT ![t] = r],
           \/ b \notin {"dev", "set", "free", "remove"}
           \/ r.fd \notin fds
           \/ pc[t] \in {"dev", "set", "free", "remove"} /\ r.fd = loc[t].fd
    PROVE  RowsOK'
<1>1. pc \in [Tasks -> PCs] /\ loc = [u \in Tasks |-> loc[u]]
  BY DEF FilesOK, ShapeOK
<1>2. /\ pc'[t] = b /\ loc'[t] = r
      /\ \A u \in Tasks : u # t => pc'[u] = pc[u] /\ loc'[u] = loc[u]
  BY <1>1
<1>3. ASSUME NEW u \in Tasks PROVE Row(u, file_table', pc'[u], loc'[u])
  <2>1. Row(u, file_table, pc[u], loc[u])
    BY DEF RowsOK
  <2>2. CASE u = t
    BY <1>2, <2>1, <2>2 DEF Row
  <2>3. CASE u # t
    BY <1>2, <2>1, <2>3
  <2> QED BY <2>2, <2>3
<1> QED BY <1>3 DEF RowsOK

\* The first free descriptor of t is given out.
LEMMA RowMore ==
    ASSUME FilesOK, RowsOK, NEW t \in Tasks, FreeFds(t) # {}, NEW f \in file_tb,
           file_table' = [file_table EXCEPT ![t][Min(FreeFds(t))] = f],
           NEW b, NEW r, pc' = [pc EXCEPT ![t] = b], loc' = [loc EXCEPT ![t] = r],
           r.fd \in fds => r.fd = Min(FreeFds(t))
    PROVE  RowsOK'
<1>1. pc \in [Tasks -> PCs] /\ loc = [u \in Tasks |-> loc[u]]
  BY DEF FilesOK, ShapeOK
<1>2. /\ pc'[t] = b /\ loc'[t] = r
      /\ \A u \in Tasks : u # t => pc'[u] = pc[u] /\ loc'[u] = loc[u]
  BY <1>1
<1>3. PICK fd : fd = Min(FreeFds(t))
  OBVIOUS
<1>4. FreeFds(t) \in SUBSET Nat /\ fds \subseteq Nat /\ f # NULL
  BY Tables DEF FreeFds
<1>5. /\ fd \in fds /\ file_table[t][fd] = NULL
      /\ \A gd \in fds : gd < fd => file_table[t][gd] # NULL
  <2>1. fd \in FreeFds(t) /\ \A gd \in FreeFds(t) : fd <= gd
    BY <1>3, <1>4, Smallest
  <2>2. \A gd \in fds : gd < fd => gd \notin FreeFds(t)
    BY <1>4, <2>1
  <2> QED BY <2>1, <2>2 DEF FreeFds
<1>6. Row(t, file_table, pc[t], loc[t])
  BY DEF RowsOK
<1>7. \A gd \in fds : gd > fd => file_table[t][gd] = NULL
  BY <1>4, <1>5, <1>6 DEF Row
<1>8. /\ file_table'[t][fd] = f
      /\ \A gd \in fds : gd # fd => file_table'[t][gd] = file_table[t][gd]
      /\ \A u \in Tasks : u # t => file_table'[u] = file_table[u]
  BY <1>3, <1>5 DEF FilesOK, TypeOK
<1>9. Row(t, file_table', b, r)
  <2>1. ASSUME NEW hd \in fds, NEW gd \in fds, gd < hd, file_table'[t][hd] # NULL
        PROVE  file_table'[t][gd] # NULL
    <3>1. hd <= fd
      BY <1>4, <1>5, <1>7, <1>8, <2>1
    <3>2. gd < fd
      BY <1>4, <1>5, <2>1, <3>1
    <3> QED BY <1>4, <1>5, <1>8, <3>2
  <2>2. ASSUME r.fd \in fds, NEW gd \in fds, gd > r.fd PROVE file_table'[t][gd] = NULL
    BY <1>3, <1>4, <1>5, <1>7, <1>8, <2>2
  <2> QED BY <2>1, <2>2 DEF Row
<1>10. ASSUME NEW u \in Tasks PROVE Row(u, file_table', pc'[u], loc'[u])
  <2>1. CASE u = t
    BY <1>2, <1>9, <2>1
  <2>2. CASE u # t
    <3>1. Row(u, file_table, pc[u], loc[u])
      BY DEF RowsOK
    <3> QED BY <1>2, <1>8, <2>2, <3>1 DEF Row
  <2> QED BY <2>1, <2>2
<1> QED BY <1>10 DEF RowsOK

\* A descriptor is given back that has none after it, or all are.
LEMMA RowLess ==
    ASSUME FilesOK, RowsOK, NEW t \in Tasks,
           NEW q \in [fds -> file_tb \cup {NULL}], file_table' = [file_table EXCEPT ![t] = q],
           \/ \A gd \in fds : q[gd] = NULL
           \/ \E fd \in fds :
                 /\ q[fd] = NULL /\ \A gd \in fds \ {fd} : q[gd] = file_table[t][gd]
                 /\ \A gd \in fds : gd > fd => file_table[t][gd] = NULL,
           pc'[t] = "user",
           \A u \in Tasks : u # t => pc'[u] = pc[u] /\ loc'[u] = loc[u]
    PROVE  RowsOK'
<1>1. /\ file_table'[t] = q
      /\ \A u \in Tasks : u # t => file_table'[u] = file_table[u]
  BY DEF FilesOK, TypeOK
<1>2. Row(t, file_table, pc[t], loc[t]) /\ fds \subseteq Nat
  BY Tables DEF RowsOK
<1>3. ASSUME NEW hd \in fds, NEW gd \in fds, gd < hd, q[hd] # NULL PROVE q[gd] # NULL
  <2>1. PICK fd \in fds :
          /\ q[fd] = NULL /\ \A kd \in fds \ {fd} : q[kd] = file_table[t][kd]
          /\ \A kd \in fds : kd > fd => file_table[t][kd] = NULL
    BY <1>3
  <2>2. hd # fd /\ file_table[t][hd] # NULL
    BY <1>3, <2>1
  <2>3. hd < fd /\ file_table[t][gd] # NULL
    BY <1>2, <1>3, <2>1, <2>2 DEF Row
  <2> QED BY <1>2, <1>3, <2>1, <2>3
<1>4. ASSUME NEW u \in Tasks PROVE Row(u, file_table', pc'[u], loc'[u])
  <2>1. CASE u = t
    BY <1>1, <1>3, <2>1 DEF Row
  <2>2. CASE u # t
    <3>1. Row(u, file_table, pc[u], loc[u])
      BY DEF RowsOK
    <3> QED BY <1>1, <2>2, <3>1 DEF Row
  <2> QED BY <2>1, <2>2
<1> QED BY <1>4 DEF RowsOK

LEMMA RowsInit ==
    ASSUME Init PROVE RowsOK
BY DEF Init, RowsOK, Row

LEMMA RowsStep ==
    ASSUME FilesOK, RowsOK, [Next]_vars PROVE RowsOK'
<1> USE DEF fileVars, devVars
<1>0. NoLoc.fd = NULL /\ NULL \notin fds
  BY Tables DEF NoLoc, Local
<1>1. ASSUME NEW t \in Tasks, NEW num \in Names, OpenFile(t, num) PROVE RowsOK'
  <2>1. PICK r : r = Local(Min({g \in file_tb : ref[g] = 0}), NULL, num, NULL)
    OBVIOUS
  <2>2. pc' = [pc EXCEPT ![t] = "fd"] /\ loc' = [loc EXCEPT ![t] = r] /\ file_table' = file_table
    BY <1>1, <2>1 DEF OpenFile, Go
  <2> QED BY <2>2, RowSame
<1>2. ASSUME NEW t \in Tasks, OpenFd(t) PROVE RowsOK'
  <2>1. /\ pc[t] = "fd" /\ loc[t].file \in file_tb /\ loc[t].fd = NULL
        /\ loc = [u \in Tasks |-> loc[u]]
    BY <1>2 DEF OpenFd, At, FilesOK, ShapeOK, LocIs
  <2>2. CASE FreeFds(t) = {}
    <3>1. pc' = [pc EXCEPT ![t] = "free"] /\ loc' = loc /\ file_table' = file_table
      BY <1>2, <2>2 DEF OpenFd, Go
    <3>2. loc' = [loc EXCEPT ![t] = loc[t]]
      BY <2>1, <3>1
    <3> QED BY <1>0, <2>1, <3>1, <3>2, RowSame
  <2>3. CASE FreeFds(t) # {}
    <3>1. PICK r : r = Local(loc[t].file, Min(FreeFds(t)), loc[t].num, NULL)
      OBVIOUS
    <3>2. r.fd = Min(FreeFds(t))
      BY <3>1, LocalIs
    <3>3. /\ pc' = [pc EXCEPT ![t] = "dev"] /\ loc' = [loc EXCEPT ![t] = r]
          /\ file_table' = [file_table EXCEPT ![t][Min(FreeFds(t))] = loc[t].file]
      BY <1>2, <2>3, <3>1 DEF OpenFd, Go
    <3> QED BY <2>1, <2>3, <3>2, <3>3, RowMore
  <2> QED BY <2>2, <2>3
<1>3. ASSUME NEW t \in Tasks, OpenDev(t) PROVE RowsOK'
  <2>1. pc[t] = "dev" /\ file_table' = file_table /\ dev_open(t)
    BY <1>3 DEF OpenDev, At
  <2>2. \/ Go(t, "free") /\ loc' = loc
        \/ \E d \in dev_tb : Go(t, "set") /\ Found(t, d)
    BY <2>1, DevOpened
  <2>3. CASE Go(t, "free") /\ loc' = loc
    <3>1. pc' = [pc EXCEPT ![t] = "free"] /\ loc' = [loc EXCEPT ![t] = loc[t]]
      BY <2>3 DEF Go, FilesOK, ShapeOK
    <3> QED BY <2>1, <3>1, RowSame
  <2>4. ASSUME NEW d \in dev_tb, Go(t, "set"), Found(t, d) PROVE RowsOK'
    <3>1. PICK r : r = Local(loc[t].file, loc[t].fd, loc[t].num, d)
      OBVIOUS
    <3>2. /\ pc' = [pc EXCEPT ![t] = "set"] /\ loc' = [loc EXCEPT ![t] = r]
          /\ r.fd = loc[t].fd
      BY <2>4, <3>1, LocalIs DEF Go, Found
    <3> QED BY <2>1, <3>2, RowSame
  <2> QED BY <2>2, <2>3, <2>4
<1>4. ASSUME NEW t \in Tasks, OpenDone(t) \/ DupRef(t) PROVE RowsOK'
  <2>1. /\ pc' = [pc EXCEPT ![t] = "user"] /\ loc' = [loc EXCEPT ![t] = NoLoc]
        /\ file_table' = file_table
    BY <1>4 DEF OpenDone, DupRef, Return, Go
  <2> QED BY <2>1, RowSame
<1>5. ASSUME NEW t \in Tasks, OpenFree(t) PROVE RowsOK'
  <2>1. pc[t] = "free" /\ file_table' = file_table
    BY <1>5 DEF OpenFree, At
  <2>2. CASE loc[t].fd = NULL
    <3>1. pc' = [pc EXCEPT ![t] = "user"] /\ loc' = [loc EXCEPT ![t] = NoLoc]
      BY <1>5, <2>2 DEF OpenFree, Return, Go
    <3> QED BY <2>1, <3>1, RowSame
  <2>3. CASE loc[t].fd # NULL
    <3>1. pc' = [pc EXCEPT ![t] = "remove"] /\ loc' = [loc EXCEPT ![t] = loc[t]]
      BY <1>5, <2>3 DEF OpenFree, Go, FilesOK, ShapeOK
    <3> QED BY <2>1, <3>1, RowSame
  <2> QED BY <2>2, <2>3
<1>6. ASSUME NEW t \in Tasks, OpenRemove(t) PROVE RowsOK'
  <2>1. PICK fd : fd = loc[t].fd
    OBVIOUS
  <2>2. /\ pc[t] = "remove" /\ fd \in fds
        /\ file_table' = [file_table EXCEPT ![t][fd] = NULL]
        /\ pc' = [pc EXCEPT ![t] = "user"] /\ loc' = [loc EXCEPT ![t] = NoLoc]
    BY <1>6, <2>1 DEF OpenRemove, At, Return, Go, FilesOK, ShapeOK, LocIs
  <2>3. Row(t, file_table, pc[t], loc[t])
    BY DEF RowsOK
  <2>4. \A gd \in fds : gd > fd => file_table[t][gd] = NULL
    BY <2>1, <2>2, <2>3 DEF Row
  <2>5. PICK q : q = [file_table[t] EXCEPT ![fd] = NULL]
    OBVIOUS
  <2>6. /\ q \in [fds -> file_tb \cup {NULL}] /\ q[fd] = NULL
        /\ \A gd \in fds \ {fd} : q[gd] = file_table[t][gd]
    BY <2>2, <2>5 DEF FilesOK, TypeOK
  <2>7. file_table' = [file_table EXCEPT ![t] = q]
    BY <2>2, <2>5
  <2>8. /\ pc'[t] = "user"
        /\ \A u \in Tasks : u # t => pc'[u] = pc[u] /\ loc'[u] = loc[u]
    BY <2>2 DEF FilesOK, ShapeOK
  <2>9. \E gd \in fds :
           /\ q[gd] = NULL /\ \A hd \in fds \ {gd} : q[hd] = file_table[t][hd]
           /\ \A hd \in fds : hd > gd => file_table[t][hd] = NULL
    BY <2>2, <2>4, <2>6
  <2> QED BY <2>6, <2>7, <2>8, <2>9, RowLess
<1>7. ASSUME NEW t \in Tasks, NEW old \in fds, sys_dup(t, old) PROVE RowsOK'
  <2>1. PICK f, r : f = task_file(t, old) /\ r = Local(f, NULL, NULL, NULL)
    OBVIOUS
  <2>2. /\ FreeFds(t) # {} /\ r.fd = NULL
        /\ file_table' = [file_table EXCEPT ![t][Min(FreeFds(t))] = f]
        /\ pc' = [pc EXCEPT ![t] = "dup"] /\ loc' = [loc EXCEPT ![t] = r]
    BY <1>7, <2>1, LocalIs DEF sys_dup, Go
  <2>3. f \in file_tb
    BY <1>7, <2>1 DEF sys_dup, task_file, FilesOK, TypeOK
  <2> QED BY <1>0, <2>2, <2>3, RowMore
<1>8. ASSUME NEW t \in Tasks, sys_exit(t) PROVE RowsOK'
  <2>1. PICK q : q = [fd \in fds |-> NULL]
    OBVIOUS
  <2>2. /\ q \in [fds -> file_tb \cup {NULL}] /\ \A gd \in fds : q[gd] = NULL
        /\ file_table' = [file_table EXCEPT ![t] = q]
        /\ pc'[t] = "user" /\ pc' = pc /\ loc' = loc
    BY <1>8, <2>1 DEF sys_exit, At
  <2> QED BY <2>2, RowLess
<1>9. CASE UNCHANGED vars
  BY <1>9 DEF vars, RowsOK, Row
<1> QED BY <1>1, <1>2, <1>3, <1>4, <1>5, <1>6, <1>7, <1>8, <1>9 DEF Next

LEMMA RowsInvariant == Spec => []RowsOK
BY InitFiles, StepFiles, RowsInit, RowsStep, PTL DEF Spec

\* A write reaches the terminal its descriptor was opened for, and a read, but of the
\* program file's descriptor, that of descriptor 0, which a task with any descriptor
\* has, whatever opens, duplicates and exits of other tasks go on.
THEOREM TerminalReached == Spec => []LeadsToTerminal
<1>1. ASSUME FilesOK, RowsOK PROVE LeadsToTerminal
  <2> SUFFICES ASSUME NEW t \in Tasks, NEW fd \in fds,
                      At(t, "user"), file_table[t][fd] # NULL
               PROVE  /\ Leads(sys_write_dev(t, fd), asked[t][fd])
                      /\ fd # TEMP_FILE_ID => /\ file_table[t][0] # NULL
                                             /\ Leads(sys_read_dev(t, fd), asked[t][0])
    BY DEF LeadsToTerminal
  <2>1. AskIs(t, fd) /\ AskIs(t, 0) /\ 0 \in fds /\ fds \subseteq Nat
    BY <1>1, Tables DEF FilesOK, AskOK
  <2>2. ~Pending(t, fd) /\ ~Pending(t, 0)
    BY DEF At, Pending
  <2>3. Leads(dev_id[file_table[t][fd]], asked[t][fd])
    BY <2>1, <2>2 DEF AskIs
  <2>4. file_table[t][0] # NULL
    <3>1. Row(t, file_table, pc[t], loc[t])
      BY <1>1 DEF RowsOK
    <3>2. fd = 0 \/ 0 < fd
      BY <2>1
    <3> QED BY <2>1, <3>1, <3>2 DEF Row
  <2>5. Leads(dev_id[file_table[t][0]], asked[t][0])
    BY <2>1, <2>2, <2>4 DEF AskIs
  <2> QED BY <2>3, <2>4, <2>5 DEF sys_write_dev, sys_read_dev, task_file
<1> QED BY <1>1, FilesInvariant, RowsInvariant, PTL

-----------------------------------------------------------------------------
(* The counts.  A task between file_alloc and task_alloc_fd has a file     *)
(* without a descriptor; one between the two halves of sys_dup, or of a    *)
(* failed open, has a descriptor that is not counted.                      *)

IsBare(l, r, f) == l \in {"fd", "free"} /\ r.file = f /\ r.fd = NULL
IsOwed(l, r, f) == l \in {"dup", "remove"} /\ r.file = f

Bare(f) == {t \in Tasks : IsBare(pc[t], loc[t], f)}
Owed(f) == {t \in Tasks : IsOwed(pc[t], loc[t], f)}
Desc(f) == {p \in Tasks \X fds : file_table[p[1]][p[2]] = f}

CountIs(f) ==
    ref[f] + Cardinality(Owed(f)) = lost[f] + Cardinality(Desc(f)) + Cardinality(Bare(f))
CountOK == \A f \in file_tb : CountIs(f)

\* The sizes of two sets that differ at x only.
LEMMA SizeMoves ==
    ASSUME NEW S, NEW T, IsFiniteSet(S), NEW x, S \ {x} = T \ {x}
    PROVE  /\ IsFiniteSet(T) /\ Cardinality(S) \in Nat /\ Cardinality(T) \in Nat
           /\ Cardinality(T) + (IF x \in S THEN 1 ELSE 0)
                  = Cardinality(S) + (IF x \in T THEN 1 ELSE 0)
<1> DEFINE R == S \ {x}
<1>1. IsFiniteSet(R) /\ Cardinality(R) \in Nat
  BY FS_RemoveElement, FS_CardinalityType
<1>2. Cardinality(R \cup {x}) = Cardinality(R) + 1 /\ IsFiniteSet(R \cup {x})
  BY <1>1, FS_AddElement
<1>3. S = R \/ S = R \cup {x}
  OBVIOUS
<1>4. T = R \/ T = R \cup {x}
  OBVIOUS
<1>5. x \notin R
  OBVIOUS
<1>6. x \in S <=> S = R \cup {x}
  BY <1>3, <1>5
<1>7. x \in T <=> T = R \cup {x}
  BY <1>4, <1>5
<1> HIDE DEF R
<1>8. R # R \cup {x}
  BY <1>5
<1> QED BY <1>1, <1>2, <1>3, <1>4, <1>6, <1>7, <1>8

LEMMA SetsFinite ==
    ASSUME NEW f
    PROVE  /\ IsFiniteSet(Bare(f)) /\ IsFiniteSet(Owed(f)) /\ IsFiniteSet(Desc(f))
           /\ Cardinality(Bare(f)) \in Nat /\ Cardinality(Owed(f)) \in Nat
           /\ Cardinality(Desc(f)) \in Nat
<1>1. IsFiniteSet(Tasks) /\ IsFiniteSet(Tasks \X fds)
  BY TaskAssumption, Tables, FS_Product
<1>2. Bare(f) \subseteq Tasks /\ Owed(f) \subseteq Tasks /\ Desc(f) \subseteq Tasks \X fds
  BY DEF Bare, Owed, Desc
<1>3. IsFiniteSet(Bare(f)) /\ IsFiniteSet(Owed(f)) /\ IsFiniteSet(Desc(f))
  BY <1>1, <1>2, FS_Subset
<1> QED BY <1>3, FS_CardinalityType

\* A step of t in a system call moves t only.
TaskMoves(t, f) ==
    /\ Cardinality(Bare(f))' \in Nat /\ Cardinality(Owed(f))' \in Nat
    /\ Cardinality(Bare(f))' + (IF IsBare(pc[t], loc[t], f) THEN 1 ELSE 0)
           = Cardinality(Bare(f)) + (IF IsBare(pc'[t], loc'[t], f) THEN 1 ELSE 0)
    /\ Cardinality(Owed(f))' + (IF IsOwed(pc[t], loc[t], f) THEN 1 ELSE 0)
           = Cardinality(Owed(f)) + (IF IsOwed(pc'[t], loc'[t], f) THEN 1 ELSE 0)

LEMMA TaskMoved ==
    ASSUME NEW t \in Tasks, NEW f,
           \A u \in Tasks : u # t => pc'[u] = pc[u] /\ loc'[u] = loc[u]
    PROVE  TaskMoves(t, f)
<1>1. Bare(f) \ {t} = Bare(f)' \ {t}
  BY DEF Bare
<1>2. Owed(f) \ {t} = Owed(f)' \ {t}
  BY DEF Owed
<1>3. /\ t \in Bare(f) <=> IsBare(pc[t], loc[t], f)
      /\ t \in Bare(f)' <=> IsBare(pc'[t], loc'[t], f)
  BY DEF Bare
<1>4. /\ t \in Owed(f) <=> IsOwed(pc[t], loc[t], f)
      /\ t \in Owed(f)' <=> IsOwed(pc'[t], loc'[t], f)
  BY DEF Owed
<1>5. /\ Cardinality(Bare(f)') \in Nat
      /\ Cardinality(Bare(f)') + (IF t \in Bare(f) THEN 1 ELSE 0)
             = Cardinality(Bare(f)) + (IF t \in Bare(f)' THEN 1 ELSE 0)
  BY <1>1, SetsFinite, SizeMoves
<1>6. /\ Cardinality(Owed(f)') \in Nat
      /\ Cardinality(Owed(f)') + (IF t \in Owed(f) THEN 1 ELSE 0)
             = Cardinality(Owed(f)) + (IF t \in Owed(f)' THEN 1 ELSE 0)
  BY <1>2, SetsFinite, SizeMoves
<1> QED BY <1>3, <1>4, <1>5, <1>6 DEF TaskMoves

\* So does a step that changes one descriptor.
LEMMA DescMoved ==
    ASSUME NEW t \in Tasks, NEW fd \in fds, NEW f,
           \A u \in Tasks : \A gd \in fds :
               u # t \/ gd # fd => file_table'[u][gd] = file_table[u][gd]
    PROVE  /\ Cardinality(Desc(f))' \in Nat
           /\ Cardinality(Desc(f))' + (IF file_table[t][fd] = f THEN 1 ELSE 0)
                  = Cardinality(Desc(f)) + (IF file_table'[t][fd] = f THEN 1 ELSE 0)
<1> DEFINE x == <<t, fd>>
<1>1. ASSUME NEW p \in (Tasks \X fds) \ {x}
      PROVE  file_table'[p[1]][p[2]] = file_table[p[1]][p[2]]
  <2>1. p[1] \in Tasks /\ p[2] \in fds /\ p = <<p[1], p[2]>>
    OBVIOUS
  <2>2. p[1] # t \/ p[2] # fd
    BY <2>1
  <2> QED BY <2>1, <2>2
<1>2. Desc(f) \ {x} = Desc(f)' \ {x}
  BY <1>1 DEF Desc
<1>3. /\ x \in Desc(f) <=> file_table[t][fd] = f
      /\ x \in Desc(f)' <=> file_table'[t][fd] = f
  BY DEF Desc
<1>4. /\ Cardinality(Desc(f)') \in Nat
      /\ Cardinality(Desc(f)') + (IF x \in Desc(f) THEN 1 ELSE 0)
             = Cardinality(Desc(f)) + (IF x \in Desc(f)' THEN 1 ELSE 0)
  <2>1. IsFiniteSet(Desc(f))
    BY SetsFinite
  <2>2. PICK A, B, e : A = Desc(f) /\ B = Desc(f)' /\ e = x
    OBVIOUS
  <2>3. IsFiniteSet(A) /\ A \ {e} = B \ {e}
    BY <1>2, <2>1, <2>2
  <2>4. /\ Cardinality(B) \in Nat
        /\ Cardinality(B) + (IF e \in A THEN 1 ELSE 0) = Cardinality(A) + (IF e \in B THEN 1 ELSE 0)
    BY ONLY <2>3, SizeMoves
  <2> QED BY <2>2, <2>4
<1> QED BY <1>3, <1>4

LEMMA MovesOnly ==
    ASSUME FilesOK, NEW t \in Tasks, NEW b, NEW r, Moves(t, b, r), NEW f
    PROVE  pc'[t] = b /\ loc'[t] = r /\ TaskMoves(t, f)
<1>1. pc'[t] = b /\ loc'[t] = r /\ \A u \in Tasks : u # t => pc'[u] = pc[u] /\ loc'[u] = loc[u]
  BY DEF Moves, FilesOK, ShapeOK
<1> QED BY <1>1, TaskMoved

LEMMA CountsAre ==
    ASSUME FilesOK, NEW f \in file_tb
    PROVE  /\ ref[f] \in Nat /\ lost[f] \in Nat /\ Cardinality(Desc(f)) \in Nat
           /\ Cardinality(Bare(f)) \in Nat /\ Cardinality(Owed(f)) \in Nat
BY SetsFinite DEF FilesOK, TypeOK

\* The descriptors of a file stay what they are.
LEMMA DescSame ==
    ASSUME NEW f, file_table' = file_table
    PROVE  Cardinality(Desc(f))' = Cardinality(Desc(f))
<1>1. Desc(f)' = Desc(f)
  BY DEF Desc
<1> QED BY <1>1

\* One more file without a descriptor.
LEMMA OpenFileCount ==
    ASSUME FilesOK, NEW t \in Tasks, NEW num \in Names, OpenFile(t, num),
           NEW f \in file_tb, CountIs(f)
    PROVE  CountIs(f)'
<1> DEFINE g == Min({h \in file_tb : ref[h] = 0})
           r == Local(g, NULL, num, NULL)
<1>1. g \in file_tb /\ ref[g] = 0
  BY Tables, Smallest DEF OpenFile
<1>2. /\ ref' = [ref EXCEPT ![g] = 1] /\ pc[t] = "user" /\ Moves(t, "fd", r)
      /\ UNCHANGED <<file_table, lost>>
  BY DEF OpenFile, file_alloc, At, Go, Moves
<1>3. r.file = g /\ r.fd = NULL
  BY LocalIs
<1> HIDE DEF g, r
<1>4. pc'[t] = "fd" /\ loc'[t] = r /\ TaskMoves(t, f)
  BY <1>2, MovesOnly
<1>5. Cardinality(Desc(f))' = Cardinality(Desc(f))
  BY <1>2, DescSame
<1>6. /\ ~IsBare(pc[t], loc[t], f) /\ ~IsOwed(pc[t], loc[t], f)
      /\ ~IsOwed(pc'[t], loc'[t], f) /\ (IsBare(pc'[t], loc'[t], f) <=> f = g)
  BY <1>2, <1>3, <1>4 DEF IsBare, IsOwed
<1>7. ref'[f] = IF f = g THEN ref[f] + 1 ELSE ref[f]
  BY <1>1, <1>2 DEF FilesOK, TypeOK
<1> QED BY <1>2, <1>4, <1>5, <1>6, <1>7, CountsAre DEF CountIs, TaskMoves

\* The descriptor, or none.
LEMMA OpenFdCount ==
    ASSUME FilesOK, NEW t \in Tasks, OpenFd(t), NEW f \in file_tb, CountIs(f)
    PROVE  CountIs(f)'
<1>1. /\ pc[t] = "fd" /\ t \notin zombie /\ ref' = ref /\ lost' = lost /\ zombie' = zombie
  BY DEF OpenFd, At, fileVars
<1>2. LocIs("fd", loc[t]) /\ loc[t].fd = NULL
  BY <1>1 DEF FilesOK, ShapeOK, LocIs
<1>3. /\ IsBare(pc[t], loc[t], f) <=> loc[t].file = f
      /\ ~IsOwed(pc[t], loc[t], f)
  BY <1>1, <1>2 DEF IsBare, IsOwed
<1>4. CASE FreeFds(t) = {}
  <2>1. Moves(t, "free", loc[t]) /\ file_table' = file_table
    BY <1>1, <1>4 DEF OpenFd, Go, Moves, FilesOK, ShapeOK
  <2>2. pc'[t] = "free" /\ loc'[t] = loc[t] /\ TaskMoves(t, f)
    BY <2>1, MovesOnly
  <2>3. Cardinality(Desc(f))' = Cardinality(Desc(f))
    BY <2>1, DescSame
  <2>4. /\ IsBare(pc'[t], loc'[t], f) <=> loc[t].file = f
        /\ ~IsOwed(pc'[t], loc'[t], f)
    BY <1>2, <2>2 DEF IsBare, IsOwed
  <2> QED BY <1>1, <1>3, <2>2, <2>3, <2>4, CountsAre DEF CountIs, TaskMoves
<1>5. CASE FreeFds(t) # {}
  <2> DEFINE fd == Min(FreeFds(t))
             r == Local(loc[t].file, fd, loc[t].num, NULL)
  <2>1. fd \in fds /\ file_table[t][fd] = NULL
    BY <1>5, Tables, Smallest DEF FreeFds
  <2>2. Moves(t, "dev", r) /\ file_table' = [file_table EXCEPT ![t][fd] = loc[t].file]
    BY <1>1, <1>5 DEF OpenFd, Go, Moves
  <2> HIDE DEF fd
  <2>3. pc'[t] = "dev" /\ TaskMoves(t, f)
    BY <2>2, MovesOnly
  <2>4. /\ file_table'[t][fd] = loc[t].file
        /\ \A u \in Tasks : \A gd \in fds :
               u # t \/ gd # fd => file_table'[u][gd] = file_table[u][gd]
    BY <2>1, <2>2 DEF FilesOK, TypeOK
  <2>5. /\ Cardinality(Desc(f))' \in Nat
        /\ Cardinality(Desc(f))' = Cardinality(Desc(f)) + (IF loc[t].file = f THEN 1 ELSE 0)
    <3>1. file_table[t][fd] # f
      BY <2>1, Tables
    <3> QED BY <2>1, <2>4, <3>1, DescMoved, SetsFinite
  <2>6. ~IsBare(pc'[t], loc'[t], f) /\ ~IsOwed(pc'[t], loc'[t], f)
    BY <2>3 DEF IsBare, IsOwed
  <2> QED BY <1>1, <1>3, <2>3, <2>5, <2>6, CountsAre DEF CountIs, TaskMoves
<1> QED BY <1>4, <1>5

\* A call that has its file and its descriptor.
LEMMA OpenDevCount ==
    ASSUME FilesOK, NEW t \in Tasks, OpenDev(t), NEW f \in file_tb, CountIs(f)
    PROVE  CountIs(f)'
<1>1. /\ pc[t] = "dev" /\ t \notin zombie /\ dev_open(t)
      /\ UNCHANGED <<ref, file_table, zombie, lost>>
  BY DEF OpenDev, At, fileVars
<1>2. loc[t].fd \in fds /\ loc[t].fd # NULL
  BY <1>1, Tables DEF FilesOK, ShapeOK, LocIs
<1>3. PICK b, r : b \in {"set", "free"} /\ Moves(t, b, r) /\ r.fd = loc[t].fd
  <2>1. CASE Go(t, "free") /\ loc' = loc
    <3>1. Moves(t, "free", loc[t])
      BY <1>1, <2>1 DEF Go, Moves, FilesOK, ShapeOK
    <3> QED BY <3>1
  <2>2. ASSUME NEW d \in dev_tb, Go(t, "set"), Found(t, d)
        PROVE  \E r : Moves(t, "set", r) /\ r.fd = loc[t].fd
    <3>1. Moves(t, "set", Local(loc[t].file, loc[t].fd, loc[t].num, d))
      BY <1>1, <2>2 DEF Go, Moves, Found
    <3> QED BY <3>1, LocalIs
  <2> QED BY <1>1, <2>1, <2>2, DevOpened
<1>4. pc'[t] = b /\ loc'[t] = r /\ TaskMoves(t, f)
  BY <1>3, MovesOnly
<1>5. Cardinality(Desc(f))' = Cardinality(Desc(f))
  BY <1>1, DescSame
<1>6. /\ ~IsBare(pc[t], loc[t], f) /\ ~IsOwed(pc[t], loc[t], f)
      /\ ~IsBare(pc'[t], loc'[t], f) /\ ~IsOwed(pc'[t], loc'[t], f)
  BY <1>1, <1>2, <1>3, <1>4 DEF IsBare, IsOwed
<1> QED BY <1>1, <1>4, <1>5, <1>6, CountsAre DEF CountIs, TaskMoves

LEMMA OpenDoneCount ==
    ASSUME FilesOK, NEW t \in Tasks, OpenDone(t), NEW f \in file_tb, CountIs(f)
    PROVE  CountIs(f)'
<1>1. /\ pc[t] = "set" /\ Moves(t, "user", NoLoc) /\ ref' = [ref EXCEPT ![loc[t].file] = 1]
      /\ UNCHANGED <<file_table, lost>>
  BY DEF OpenDone, At, Go, Return, Moves
<1>2. loc[t].file \in file_tb /\ ref[loc[t].file] = 1
  BY <1>1 DEF FilesOK, ShapeOK, LocIs, TabOK, TabIs, Opening
<1>3. ref'[f] = ref[f]
  BY <1>1, <1>2 DEF FilesOK, TypeOK
<1>4. pc'[t] = "user" /\ TaskMoves(t, f)
  BY <1>1, MovesOnly
<1>5. Cardinality(Desc(f))' = Cardinality(Desc(f))
  BY <1>1, DescSame
<1>6. /\ ~IsBare(pc[t], loc[t], f) /\ ~IsOwed(pc[t], loc[t], f)
      /\ ~IsBare(pc'[t], loc'[t], f) /\ ~IsOwed(pc'[t], loc'[t], f)
  BY <1>1, <1>4 DEF IsBare, IsOwed
<1> QED BY <1>1, <1>3, <1>4, <1>5, <1>6, CountsAre DEF CountIs, TaskMoves

\* The file goes first, and then the descriptor.
LEMMA OpenFreeCount ==
    ASSUME FilesOK, NEW t \in Tasks, OpenFree(t), NEW f \in file_tb, CountIs(f)
    PROVE  CountIs(f)'
<1> DEFINE g == loc[t].file
<1>1. /\ pc[t] = "free" /\ t \notin zombie /\ zombie' = zombie
      /\ ref' = [ref EXCEPT ![g] = IF ref[g] > 0 THEN ref[g] - 1 ELSE 0]
      /\ UNCHANGED <<file_table, lost>>
  BY DEF OpenFree, file_free, At
<1>2. g \in file_tb /\ ref[g] = 1
  BY <1>1 DEF FilesOK, ShapeOK, LocIs, TabOK, TabIs, Opening
<1>3. ref'[f] = IF f = g THEN ref[f] - 1 ELSE ref[f]
  BY <1>1, <1>2 DEF FilesOK, TypeOK
<1>4. Cardinality(Desc(f))' = Cardinality(Desc(f))
  BY <1>1, DescSame
<1>5. CASE loc[t].fd = NULL
  <2>1. Moves(t, "user", NoLoc)
    BY <1>1, <1>5 DEF OpenFree, Return, Go, Moves
  <2>2. pc'[t] = "user" /\ TaskMoves(t, f)
    BY <2>1, MovesOnly
  <2>3. /\ (IsBare(pc[t], loc[t], f) <=> f = g) /\ ~IsOwed(pc[t], loc[t], f)
        /\ ~IsBare(pc'[t], loc'[t], f) /\ ~IsOwed(pc'[t], loc'[t], f)
    BY <1>1, <1>5, <2>2 DEF IsBare, IsOwed
  <2> HIDE DEF g
  <2> QED BY <1>1, <1>3, <1>4, <2>2, <2>3, CountsAre DEF CountIs, TaskMoves
<1>6. CASE loc[t].fd # NULL
  <2>1. Moves(t, "remove", loc[t])
    BY <1>1, <1>6 DEF OpenFree, Go, Moves, FilesOK, ShapeOK
  <2>2. pc'[t] = "remove" /\ loc'[t] = loc[t] /\ TaskMoves(t, f)
    BY <2>1, MovesOnly
  <2>3. /\ ~IsBare(pc[t], loc[t], f) /\ ~IsOwed(pc[t], loc[t], f)
        /\ ~IsBare(pc'[t], loc'[t], f) /\ (IsOwed(pc'[t], loc'[t], f) <=> f = g)
    BY <1>1, <1>6, <2>2 DEF IsBare, IsOwed
  <2> HIDE DEF g
  <2> QED BY <1>1, <1>3, <1>4, <2>2, <2>3, CountsAre DEF CountIs, TaskMoves
<1> QED BY <1>5, <1>6

LEMMA OpenRemoveCount ==
    ASSUME FilesOK, NEW t \in Tasks, OpenRemove(t), NEW f \in file_tb, CountIs(f)
    PROVE  CountIs(f)'
<1> DEFINE fd == loc[t].fd
           g == loc[t].file
<1>1. /\ pc[t] = "remove" /\ Moves(t, "user", NoLoc) /\ ref' = ref /\ lost' = lost
      /\ file_table' = [file_table EXCEPT ![t][fd] = NULL]
  BY DEF OpenRemove, At, Go, Return, Moves, fileVars
<1>2. fd \in fds /\ file_table[t][fd] = g
  BY <1>1 DEF FilesOK, ShapeOK, LocIs, TabOK, TabIs
<1>3. /\ file_table'[t][fd] = NULL
      /\ \A u \in Tasks : \A gd \in fds :
             u # t \/ gd # fd => file_table'[u][gd] = file_table[u][gd]
  BY <1>1, <1>2 DEF FilesOK, TypeOK
<1>4. pc'[t] = "user" /\ TaskMoves(t, f)
  BY <1>1, MovesOnly
<1>5. /\ ~IsBare(pc[t], loc[t], f) /\ (IsOwed(pc[t], loc[t], f) <=> g = f)
      /\ ~IsBare(pc'[t], loc'[t], f) /\ ~IsOwed(pc'[t], loc'[t], f)
  BY <1>1, <1>4 DEF IsBare, IsOwed
<1> HIDE DEF fd, g
<1>6. /\ Cardinality(Desc(f))' \in Nat
      /\ Cardinality(Desc(f))' + (IF g = f THEN 1 ELSE 0) = Cardinality(Desc(f))
  <2>1. file_table'[t][fd] # f
    BY <1>3, Tables
  <2> QED BY <1>2, <1>3, <2>1, DescMoved, SetsFinite
<1> QED BY <1>1, <1>4, <1>5, <1>6, CountsAre DEF CountIs, TaskMoves

\* A descriptor that is not counted yet.
LEMMA DupCount ==
    ASSUME FilesOK, NEW t \in Tasks, NEW old \in fds, sys_dup(t, old),
           NEW f \in file_tb, CountIs(f)
    PROVE  CountIs(f)'
<1> DEFINE fd == Min(FreeFds(t))
           g == file_table[t][old]
           r == Local(g, NULL, NULL, NULL)
<1>1. /\ pc[t] = "user" /\ Moves(t, "dup", r) /\ FreeFds(t) # {}
      /\ file_table' = [file_table EXCEPT ![t][fd] = g]
      /\ ref' = ref /\ lost' = lost
  BY DEF sys_dup, task_file, At, Go, Moves, fileVars
<1>2. fd \in fds /\ file_table[t][fd] = NULL
  <2>1. FreeFds(t) \in SUBSET Nat
    BY Tables DEF FreeFds
  <2>2. fd \in FreeFds(t)
    BY <1>1, <2>1, Smallest
  <2> QED BY <2>2 DEF FreeFds
<1>3. r.file = g
  BY LocalIs
<1> HIDE DEF fd, g, r
<1>4. pc'[t] = "dup" /\ loc'[t] = r /\ TaskMoves(t, f)
  BY <1>1, MovesOnly
<1>5. /\ file_table'[t][fd] = g
      /\ \A u \in Tasks : \A gd \in fds :
             u # t \/ gd # fd => file_table'[u][gd] = file_table[u][gd]
  BY <1>1, <1>2 DEF FilesOK, TypeOK
<1>6. /\ ~IsBare(pc[t], loc[t], f) /\ ~IsOwed(pc[t], loc[t], f)
      /\ ~IsBare(pc'[t], loc'[t], f) /\ (IsOwed(pc'[t], loc'[t], f) <=> g = f)
  BY <1>1, <1>3, <1>4 DEF IsBare, IsOwed
<1>7. /\ Cardinality(Desc(f))' \in Nat
      /\ Cardinality(Desc(f))' = Cardinality(Desc(f)) + (IF g = f THEN 1 ELSE 0)
  <2>1. file_table[t][fd] # f
    BY <1>2, Tables
  <2> QED BY <1>2, <1>5, <2>1, DescMoved, SetsFinite
<1> QED BY <1>1, <1>4, <1>6, <1>7, CountsAre DEF CountIs, TaskMoves

LEMMA DupRefCount ==
    ASSUME FilesOK, NEW t \in Tasks, DupRef(t), NEW f \in file_tb, CountIs(f)
    PROVE  CountIs(f)'
<1> DEFINE g == loc[t].file
<1>1. /\ pc[t] = "dup" /\ Moves(t, "user", NoLoc) /\ ref' = [ref EXCEPT ![g] = ref[g] + 1]
      /\ UNCHANGED <<file_table, lost>>
  BY DEF DupRef, At, Go, Return, Moves
<1>2. g \in file_tb
  BY <1>1 DEF FilesOK, ShapeOK, LocIs
<1>3. ref'[f] = IF f = g THEN ref[f] + 1 ELSE ref[f]
  BY <1>1, <1>2 DEF FilesOK, TypeOK
<1>4. pc'[t] = "user" /\ TaskMoves(t, f)
  BY <1>1, MovesOnly
<1>5. Cardinality(Desc(f))' = Cardinality(Desc(f))
  BY <1>1, DescSame
<1>6. /\ ~IsBare(pc[t], loc[t], f) /\ (IsOwed(pc[t], loc[t], f) <=> f = g)
      /\ ~IsBare(pc'[t], loc'[t], f) /\ ~IsOwed(pc'[t], loc'[t], f)
  BY <1>1, <1>4 DEF IsBare, IsOwed
<1> HIDE DEF g
<1> QED BY <1>1, <1>3, <1>4, <1>5, <1>6, CountsAre DEF CountIs, TaskMoves

\* The descriptors a task drops, as pairs.
LEMMA DroppedCount ==
    ASSUME NEW t \in Tasks, NEW f
    PROVE  Cardinality({p \in Desc(f) : p[1] = t}) = Cardinality(Descriptors(t, f))
<1> DEFINE S == Descriptors(t, f)
           T == {p \in Desc(f) : p[1] = t}
           h == [fd \in S |-> <<t, fd>>]
<1>1. \A fd \in S : <<t, fd>> \in T
  BY DEF Descriptors, Desc
<1>2. \A p \in T : p[2] \in S /\ p = <<t, p[2]>>
  BY DEF Descriptors, Desc
<1> HIDE DEF S, T
<1>3. h \in Bijection(S, T)
  <2>1. h \in [S -> T]
    BY <1>1
  <2>2. \A a, b \in S : h[a] = h[b] => a = b
    OBVIOUS
  <2>3. \A p \in T : \E a \in S : h[a] = p
    BY <1>2
  <2> QED BY <2>1, <2>2, <2>3 DEF Bijection, Injection, Surjection, IsInjective
<1>4. ExistsBijection(S, T)
  BY <1>3 DEF ExistsBijection
<1>5. IsFiniteSet(S)
  BY DescriptorsFinite DEF S
<1>6. Cardinality(T) = Cardinality(S)
  BY <1>4, <1>5, FS_Bijection
<1> QED BY <1>6 DEF S, T

\* What sys_exit drops is lost.
LEMMA ExitCount ==
    ASSUME FilesOK, NEW t \in Tasks, sys_exit(t), NEW f \in file_tb, CountIs(f)
    PROVE  CountIs(f)'
<1> DEFINE D == {p \in Desc(f) : p[1] = t}
<1>1. /\ file_table' = [file_table EXCEPT ![t] = [fd \in fds |-> NULL]]
      /\ lost' = [g \in file_tb |-> lost[g] + Cardinality(Descriptors(t, g))]
      /\ UNCHANGED <<ref, pc, loc>>
  BY DEF sys_exit, fileVars
<1>2. /\ \A fd \in fds : file_table'[t][fd] = NULL
      /\ \A u \in Tasks : u # t => file_table'[u] = file_table[u]
  BY <1>1 DEF FilesOK, TypeOK
<1>3. ASSUME NEW p \in Tasks \X fds
      PROVE  p \in Desc(f)' <=> p \in Desc(f) /\ p[1] # t
  <2>1. p[1] \in Tasks /\ p[2] \in fds
    OBVIOUS
  <2> QED BY <1>2, <2>1, Tables DEF Desc
<1>4. Desc(f)' = Desc(f) \ D
  BY <1>3 DEF Desc
<1>5. Desc(f) \cap D = D
  OBVIOUS
<1>6. Cardinality(Desc(f) \ D) = Cardinality(Desc(f)) - Cardinality(D)
  BY <1>5, SetsFinite, FS_Difference
<1>7. Cardinality(D) = Cardinality(Descriptors(t, f))
  BY DroppedCount
<1>8. Cardinality(Desc(f))' = Cardinality(Desc(f)) - Cardinality(Descriptors(t, f))
  BY <1>4, <1>6, <1>7
<1>9. Cardinality(Bare(f))' = Cardinality(Bare(f)) /\ Cardinality(Owed(f))' = Cardinality(Owed(f))
  <2>1. Bare(f)' = Bare(f) /\ Owed(f)' = Owed(f)
    BY <1>1 DEF Bare, Owed
  <2> QED BY <2>1
<1>10. lost'[f] = lost[f] + Cardinality(Descriptors(t, f)) /\ ref'[f] = ref[f]
  BY <1>1
<1>11. Cardinality(Descriptors(t, f)) \in Nat
  BY DescriptorsFinite
<1> QED BY <1>8, <1>9, <1>10, <1>11, CountsAre DEF CountIs

LEMMA InitCount ==
    ASSUME Init PROVE CountOK
<1> SUFFICES ASSUME NEW f \in file_tb PROVE CountIs(f)
  BY DEF CountOK
<1>1. Bare(f) = {} /\ Owed(f) = {}
  BY DEF Init, Bare, Owed, IsBare, IsOwed
<1>2. Desc(f) = {}
  BY Tables DEF Init, Desc
<1>3. ref[f] = 0 /\ lost[f] = 0
  BY DEF Init
<1> QED BY <1>1, <1>2, <1>3, FS_EmptySet DEF CountIs

LEMMA StepCount ==
    ASSUME FilesOK, CountOK, [Next]_vars PROVE CountOK'
<1> SUFFICES ASSUME NEW f \in file_tb PROVE CountIs(f)'
  BY DEF CountOK
<1>1. CountIs(f)
  BY DEF CountOK
<1>2. CASE UNCHANGED vars
  <2>1. Bare(f)' = Bare(f) /\ Owed(f)' = Owed(f) /\ Desc(f)' = Desc(f)
    BY <1>2 DEF vars, Bare, Owed, Desc
  <2> QED BY <1>1, <1>2, <2>1 DEF vars, CountIs
<1>3. CASE Next
  BY <1>1, <1>3, OpenFileCount, OpenFdCount, OpenDevCount, OpenDoneCount, OpenFreeCount,
     OpenRemoveCount, DupCount, DupRefCount, ExitCount DEF Next
<1> QED BY <1>2, <1>3

\* Every file in the table is counted once per descriptor, and no two tasks have
\* descriptors of one file, however their opens are interleaved and wherever they fail.
THEOREM FilesCounted == Spec => []FilesAccounted
<1>1. ASSUME FilesOK, CountOK PROVE FilesAccounted
  <2>1. ASSUME NEW f \in file_tb, ~Busy(f)
        PROVE  ref[f] = lost[f]
                   + Cardinality({p \in Tasks \X fds : file_table[p[1]][p[2]] = f})
    <3>1. Bare(f) = {} /\ Owed(f) = {}
      BY <2>1 DEF Busy, Bare, Owed, IsBare, IsOwed
    <3>2. CountIs(f)
      BY <1>1 DEF CountOK
    <3> QED BY <1>1, <3>1, <3>2, FS_EmptySet, CountsAre DEF CountIs, Desc
  <2>2. ASSUME NEW t \in Tasks, NEW u \in Tasks, NEW fd \in fds, NEW gd \in fds,
               t # u, file_table[t][fd] # NULL, file_table[t][fd] = file_table[u][gd]
        PROVE  \E v \in {t, u} : pc[v] = "remove" /\ loc[v].file = file_table[t][fd]
    <3>1. file_table[t][fd] \in file_tb
      BY <1>1, <2>2 DEF FilesOK, TypeOK
    <3>2. Removing(t, fd) \/ Removing(u, gd)
      BY <1>1, <2>2, <3>1 DEF FilesOK, OwnOK, OwnIs, Holds
    <3>3. \A v \in Tasks : pc[v] = "remove" => file_table[v][loc[v].fd] = loc[v].file
      BY <1>1 DEF FilesOK, TabOK, TabIs
    <3> QED BY <2>2, <3>2, <3>3 DEF Removing
  <2> QED BY <2>1, <2>2 DEF FilesAccounted
<1>2. Spec => []CountOK
  BY InitCount, StepCount, FilesInvariant, PTL DEF Spec
<1> QED BY <1>1, <1>2, FilesInvariant, PTL

-----------------------------------------------------------------------------
(* The count of a device: the log's, one for every open that has found it  *)
(* and not stored it yet, one for every file on it.                        *)

IsSet(l, r, d) == l = "set" /\ r.dev = d
SetOn(d)   == {t \in Tasks : IsSet(pc[t], loc[t], d)}
Opens(f)   == \E t \in Tasks : Opening(t) /\ loc[t].file = f
InUse(f)   == ref[f] > 0 /\ ~ \E t \in Tasks : loc[t].file = f /\ pc[t] \notin {"remove", "dup"}
FilesOn(d) == {f \in file_tb : InUse(f) /\ dev_id[f] = d}

DeviceIs(d) ==
    open_count[d] = (IF d = DEV_TABLE_SIZE - 1 THEN 1 ELSE 0)
                    + Cardinality(SetOn(d)) + Cardinality(FilesOn(d))
DeviceOK == \A d \in dev_tb : DeviceIs(d)

LEMMA InUseIs ==
    ASSUME ShapeOK, NEW f \in file_tb
    PROVE  InUse(f) <=> ref[f] > 0 /\ ~Opens(f)
<1>1. ASSUME NEW t \in Tasks
      PROVE  loc[t].file = f /\ pc[t] \notin {"remove", "dup"} <=> Opening(t) /\ loc[t].file = f
  <2>1. pc[t] \in PCs /\ LocIs(pc[t], loc[t])
    BY DEF ShapeOK
  <2>2. pc[t] = "user" => loc[t].file = NULL
    BY <2>1 DEF LocIs, NoLoc, Local
  <2> QED BY <2>1, <2>2, Tables DEF PCs, Opening
<1> QED BY <1>1 DEF InUse, Opens

LEMMA InUseIsNext ==
    ASSUME ShapeOK', NEW f \in file_tb
    PROVE  InUse(f)' <=> ref'[f] > 0 /\ ~Opens(f)'
<1>1. ASSUME NEW t \in Tasks
      PROVE  /\ loc'[t].file = f /\ pc'[t] \notin {"remove", "dup"}
                 <=> Opening(t)' /\ loc'[t].file = f
  <2>1. pc'[t] \in PCs /\ LocIs(pc'[t], loc'[t])
    BY DEF ShapeOK
  <2>2. pc'[t] = "user" => loc'[t].file = NULL
    BY <2>1 DEF LocIs, NoLoc, Local
  <2> QED BY <2>1, <2>2, Tables DEF PCs, Opening
<1> QED BY <1>1 DEF InUse, Opens

LEMMA DevSetsFinite ==
    ASSUME NEW d
    PROVE  /\ IsFiniteSet(SetOn(d)) /\ Cardinality(SetOn(d)) \in Nat
           /\ IsFiniteSet(FilesOn(d)) /\ Cardinality(FilesOn(d)) \in Nat
<1>1. SetOn(d) \subseteq Tasks /\ FilesOn(d) \subseteq file_tb
  BY DEF SetOn, FilesOn
<1> QED BY <1>1, TaskAssumption, Tables, FS_Subset, FS_CardinalityType

SetMoves(t, d) ==
    /\ Cardinality(SetOn(d))' \in Nat
    /\ Cardinality(SetOn(d))' + (IF IsSet(pc[t], loc[t], d) THEN 1 ELSE 0)
           = Cardinality(SetOn(d)) + (IF IsSet(pc'[t], loc'[t], d) THEN 1 ELSE 0)

LEMMA SetMoved ==
    ASSUME NEW t \in Tasks, NEW d,
           \A u \in Tasks : u # t => pc'[u] = pc[u] /\ loc'[u] = loc[u]
    PROVE  SetMoves(t, d)
<1>1. SetOn(d) \ {t} = SetOn(d)' \ {t}
  BY DEF SetOn
<1>2. /\ t \in SetOn(d) <=> IsSet(pc[t], loc[t], d)
      /\ t \in SetOn(d)' <=> IsSet(pc'[t], loc'[t], d)
  BY DEF SetOn
<1>3. /\ Cardinality(SetOn(d)') \in Nat
      /\ Cardinality(SetOn(d)') + (IF t \in SetOn(d) THEN 1 ELSE 0)
             = Cardinality(SetOn(d)) + (IF t \in SetOn(d)' THEN 1 ELSE 0)
  BY <1>1, DevSetsFinite, SizeMoves
<1> QED BY <1>2, <1>3 DEF SetMoves

\* The files in use and their devices stay what they are.
LEMMA FilesOnSame ==
    ASSUME NEW d,
           \A f \in file_tb : /\ InUse(f)' <=> InUse(f)
                              /\ InUse(f) => dev_id'[f] = dev_id[f]
    PROVE  Cardinality(FilesOn(d))' = Cardinality(FilesOn(d))
<1>1. FilesOn(d)' = FilesOn(d)
  BY DEF FilesOn
<1> QED BY <1>1

LEMMA DeviceCounts ==
    ASSUME FilesOK, NEW d \in dev_tb
    PROVE  /\ open_count[d] \in Nat
           /\ Cardinality(SetOn(d)) \in Nat /\ Cardinality(FilesOn(d)) \in Nat
BY DevSetsFinite DEF FilesOK, TypeOK

\* A step of t that is not about devices.
LEMMA QuietStep ==
    ASSUME FilesOK, FilesOK', NEW d \in dev_tb, DeviceIs(d), NEW t \in Tasks,
           pc[t] # "set", pc'[t] # "set", Opening(t)' <=> Opening(t),
           Opening(t) => loc'[t].file = loc[t].file,
           \A u \in Tasks : u # t => pc'[u] = pc[u] /\ loc'[u] = loc[u],
           \A f \in file_tb : ref'[f] > 0 <=> ref[f] > 0,
           dev_id' = dev_id, open_count' = open_count
    PROVE  DeviceIs(d)'
<1>1. \A u \in Tasks : /\ Opening(u)' <=> Opening(u)
                       /\ Opening(u) => loc'[u].file = loc[u].file
  BY DEF Opening
<1>2. \A f \in file_tb : Opens(f)' <=> Opens(f)
  BY <1>1 DEF Opens
<1>3. \A f \in file_tb : InUse(f)' <=> InUse(f)
  BY <1>2, InUseIs, InUseIsNext DEF FilesOK
<1>4. Cardinality(FilesOn(d))' = Cardinality(FilesOn(d))
  BY <1>3, FilesOnSame
<1>5. SetMoves(t, d)
  BY SetMoved
<1>6. ~IsSet(pc[t], loc[t], d) /\ ~IsSet(pc'[t], loc'[t], d)
  BY DEF IsSet
<1> QED BY <1>4, <1>5, <1>6, DeviceCounts DEF DeviceIs, SetMoves

LEMMA MovesAlone ==
    ASSUME FilesOK, NEW t \in Tasks, NEW b, NEW r, Moves(t, b, r)
    PROVE  /\ pc'[t] = b /\ loc'[t] = r
           /\ \A u \in Tasks : u # t => pc'[u] = pc[u] /\ loc'[u] = loc[u]
BY DEF Moves, FilesOK, ShapeOK

LEMMA OpenFileDevice ==
    ASSUME FilesOK, FilesOK', NEW t \in Tasks, NEW num \in Names, OpenFile(t, num),
           NEW d \in dev_tb, DeviceIs(d)
    PROVE  DeviceIs(d)'
<1>1. PICK g \in file_tb : g = Min({h \in file_tb : ref[h] = 0}) /\ ref[g] = 0
  BY Tables, Smallest DEF OpenFile
<1> DEFINE r == Local(g, NULL, num, NULL)
<1>2. /\ ref' = [ref EXCEPT ![g] = 1] /\ dev_id' = [dev_id EXCEPT ![g] = 0]
      /\ pc[t] = "user" /\ Moves(t, "fd", r) /\ open_count' = open_count
  BY <1>1 DEF OpenFile, file_alloc, At, Go, Moves, devVars
<1>3. r.file = g
  BY LocalIs
<1> HIDE DEF r
<1>4. /\ pc'[t] = "fd" /\ loc'[t] = r
      /\ \A u \in Tasks : u # t => pc'[u] = pc[u] /\ loc'[u] = loc[u]
  BY <1>2, MovesAlone
<1>5. \A f \in file_tb : f # g => ref'[f] = ref[f] /\ dev_id'[f] = dev_id[f]
  BY <1>1, <1>2 DEF FilesOK, TypeOK
<1>6. \A f \in file_tb : Opens(f)' <=> Opens(f) \/ f = g
  BY <1>2, <1>3, <1>4 DEF Opens, Opening
<1>7. ~InUse(g) /\ ~InUse(g)'
  BY <1>1, <1>6, InUseIs, InUseIsNext DEF FilesOK
<1>8. \A f \in file_tb : InUse(f)' <=> InUse(f)
  BY <1>5, <1>6, <1>7, InUseIs, InUseIsNext DEF FilesOK
<1>9. Cardinality(FilesOn(d))' = Cardinality(FilesOn(d))
  BY <1>5, <1>7, <1>8, FilesOnSame
<1>10. SetMoves(t, d)
  BY <1>4, SetMoved
<1>11. ~IsSet(pc[t], loc[t], d) /\ ~IsSet(pc'[t], loc'[t], d)
  BY <1>2, <1>4 DEF IsSet
<1> QED BY <1>2, <1>9, <1>10, <1>11, DeviceCounts DEF DeviceIs, SetMoves

LEMMA OpenFdDevice ==
    ASSUME FilesOK, FilesOK', NEW t \in Tasks, OpenFd(t), NEW d \in dev_tb, DeviceIs(d)
    PROVE  DeviceIs(d)'
<1>1. /\ pc[t] = "fd" /\ t \notin zombie /\ zombie' = zombie
      /\ UNCHANGED <<ref, dev_id, open_count>>
  BY DEF OpenFd, At, fileVars, devVars
<1>2. PICK b, r : b \in {"free", "dev"} /\ Moves(t, b, r) /\ r.file = loc[t].file
  <2>1. CASE FreeFds(t) = {}
    <3>1. Moves(t, "free", loc[t])
      BY <1>1, <2>1 DEF OpenFd, Go, Moves, FilesOK, ShapeOK
    <3> QED BY <3>1
  <2>2. CASE FreeFds(t) # {}
    <3>1. Moves(t, "dev", Local(loc[t].file, Min(FreeFds(t)), loc[t].num, NULL))
      BY <1>1, <2>2 DEF OpenFd, Go, Moves
    <3> QED BY <3>1, LocalIs
  <2> QED BY <2>1, <2>2
<1>3. /\ pc'[t] = b /\ loc'[t] = r
      /\ \A u \in Tasks : u # t => pc'[u] = pc[u] /\ loc'[u] = loc[u]
  BY <1>2, MovesAlone
<1>4. Opening(t) /\ Opening(t)'
  BY <1>1, <1>2, <1>3 DEF Opening
<1> QED BY <1>1, <1>2, <1>3, <1>4, QuietStep

\* The count that dev_open adds is that of the call.
LEMMA OpenDevDevice ==
    ASSUME FilesOK, FilesOK', NEW t \in Tasks, OpenDev(t), NEW d \in dev_tb, DeviceIs(d)
    PROVE  DeviceIs(d)'
<1>1. /\ pc[t] = "dev" /\ t \notin zombie /\ dev_open(t)
      /\ UNCHANGED <<ref, dev_id, zombie>>
  BY DEF OpenDev, At, fileVars
<1>2. CASE Go(t, "free") /\ loc' = loc /\ open_count' = open_count
  <2>1. Moves(t, "free", loc[t])
    BY <1>1, <1>2 DEF Go, Moves, FilesOK, ShapeOK
  <2>2. /\ pc'[t] = "free" /\ loc'[t] = loc[t]
        /\ \A u \in Tasks : u # t => pc'[u] = pc[u] /\ loc'[u] = loc[u]
    BY <2>1, MovesAlone
  <2>3. Opening(t) /\ Opening(t)'
    BY <1>1, <2>2 DEF Opening
  <2> QED BY <1>1, <1>2, <2>2, <2>3, QuietStep
<1>3. ASSUME NEW e \in dev_tb, Go(t, "set"), Found(t, e),
             open_count' = [open_count EXCEPT ![e] = open_count[e] + 1]
      PROVE  DeviceIs(d)'
  <2> DEFINE r == Local(loc[t].file, loc[t].fd, loc[t].num, e)
  <2>1. Moves(t, "set", r) /\ r.file = loc[t].file /\ r.dev = e
    BY <1>1, <1>3, LocalIs DEF Go, Moves, Found
  <2> HIDE DEF r
  <2>2. /\ pc'[t] = "set" /\ loc'[t] = r
        /\ \A u \in Tasks : u # t => pc'[u] = pc[u] /\ loc'[u] = loc[u]
    BY <2>1, MovesAlone
  <2>3. \A f \in file_tb : Opens(f)' <=> Opens(f)
    BY <1>1, <2>1, <2>2 DEF Opens, Opening
  <2>4. \A f \in file_tb : InUse(f)' <=> InUse(f)
    BY <1>1, <2>3, InUseIs, InUseIsNext DEF FilesOK
  <2>5. Cardinality(FilesOn(d))' = Cardinality(FilesOn(d))
    BY <1>1, <2>4, FilesOnSame
  <2>6. SetMoves(t, d) /\ ~IsSet(pc[t], loc[t], d) /\ (IsSet(pc'[t], loc'[t], d) <=> e = d)
    BY <1>1, <2>1, <2>2, SetMoved DEF IsSet
  <2>7. open_count'[d] = IF e = d THEN open_count[d] + 1 ELSE open_count[d]
    BY <1>3 DEF FilesOK, TypeOK
  <2> QED BY <2>5, <2>6, <2>7, DeviceCounts DEF DeviceIs, SetMoves
<1> QED BY <1>1, <1>2, <1>3, DevOpened

\* What it was for is now a file on the device.
LEMMA OpenDoneDevice ==
    ASSUME FilesOK, FilesOK', NEW t \in Tasks, OpenDone(t), NEW d \in dev_tb, DeviceIs(d)
    PROVE  DeviceIs(d)'
<1>1. pc[t] = "set" /\ Moves(t, "user", NoLoc) /\ open_count' = open_count
  BY DEF OpenDone, At, Go, Return, Moves, devVars
<1>2. loc[t].file \in file_tb /\ ref[loc[t].file] = 1
  BY <1>1 DEF FilesOK, ShapeOK, LocIs, TabOK, TabIs, Opening
<1>3. PICK g \in file_tb : g = loc[t].file
  BY <1>2
<1>4. dev_id' = [dev_id EXCEPT ![g] = loc[t].dev] /\ ref' = [ref EXCEPT ![g] = 1]
  BY <1>3 DEF OpenDone
<1>5. /\ ref' = ref /\ ref[g] > 0 /\ dev_id'[g] = loc[t].dev
      /\ \A f \in file_tb : f # g => dev_id'[f] = dev_id[f]
  BY <1>2, <1>3, <1>4 DEF FilesOK, TypeOK
<1>6. /\ pc'[t] = "user"
      /\ \A u \in Tasks : u # t => pc'[u] = pc[u] /\ loc'[u] = loc[u]
  BY <1>1, MovesAlone
<1>7. Opening(t) /\ ~Opening(t)'
  BY <1>1, <1>6 DEF Opening
<1>8. \A f \in file_tb : f # g => (Opens(f)' <=> Opens(f))
  BY <1>3, <1>6, <1>7 DEF Opens, Opening
<1>9. Opens(g) /\ ~Opens(g)'
  <2>1. Holds(t, g) /\ OwnIs(t, g)
    BY <1>3, <1>7 DEF Holds, FilesOK, OwnOK
  <2>2. \A u \in Tasks : u # t /\ Opening(u) => loc[u].file # g
    BY <2>1 DEF OwnIs, Holds
  <2> QED BY <1>3, <1>6, <1>7, <2>2 DEF Opens, Opening
<1>10. /\ ~InUse(g) /\ InUse(g)'
       /\ \A f \in file_tb : f # g => (InUse(f)' <=> InUse(f))
  BY <1>5, <1>8, <1>9, InUseIs, InUseIsNext DEF FilesOK
<1>11. FilesOn(d) \ {g} = FilesOn(d)' \ {g}
  BY <1>5, <1>10 DEF FilesOn
<1>12. g \notin FilesOn(d) /\ (g \in FilesOn(d)' <=> loc[t].dev = d)
  BY <1>5, <1>10 DEF FilesOn
<1>13. /\ Cardinality(FilesOn(d)') \in Nat
       /\ Cardinality(FilesOn(d)')
              = Cardinality(FilesOn(d)) + (IF loc[t].dev = d THEN 1 ELSE 0)
  <2>1. /\ Cardinality(FilesOn(d)') \in Nat
        /\ Cardinality(FilesOn(d)') + (IF g \in FilesOn(d) THEN 1 ELSE 0)
               = Cardinality(FilesOn(d)) + (IF g \in FilesOn(d)' THEN 1 ELSE 0)
    BY <1>11, DevSetsFinite, SizeMoves
  <2> QED BY <1>12, <2>1, DevSetsFinite
<1>14. SetMoves(t, d)
  BY <1>6, SetMoved
<1>15. (IsSet(pc[t], loc[t], d) <=> loc[t].dev = d) /\ ~IsSet(pc'[t], loc'[t], d)
  BY <1>1, <1>6 DEF IsSet
<1> QED BY <1>1, <1>13, <1>14, <1>15, DeviceCounts DEF DeviceIs, SetMoves

LEMMA OpenFreeDevice ==
    ASSUME FilesOK, FilesOK', NEW t \in Tasks, OpenFree(t), NEW d \in dev_tb, DeviceIs(d)
    PROVE  DeviceIs(d)'
<1>1. /\ pc[t] = "free" /\ t \notin zombie /\ zombie' = zombie
      /\ UNCHANGED <<dev_id, open_count>>
  BY DEF OpenFree, At, devVars
<1>2. loc[t].file \in file_tb /\ ref[loc[t].file] = 1
  BY <1>1 DEF FilesOK, ShapeOK, LocIs, TabOK, TabIs, Opening
<1>3. PICK g \in file_tb : g = loc[t].file
  BY <1>2
<1>4. ref' = [ref EXCEPT ![g] = IF ref[g] > 0 THEN ref[g] - 1 ELSE 0]
  BY <1>3 DEF OpenFree, file_free
<1>5. ref'[g] = 0 /\ \A f \in file_tb : f # g => ref'[f] = ref[f]
  BY <1>2, <1>3, <1>4 DEF FilesOK, TypeOK
<1>6. PICK b, r : b \in {"user", "remove"} /\ Moves(t, b, r)
  <2>1. loc[t].fd = NULL => Moves(t, "user", NoLoc)
    BY <1>1 DEF OpenFree, Return, Go, Moves
  <2>2. loc[t].fd # NULL => Moves(t, "remove", loc[t])
    BY <1>1 DEF OpenFree, Go, Moves, FilesOK, ShapeOK
  <2> QED BY <2>1, <2>2
<1>7. /\ pc'[t] = b
      /\ \A u \in Tasks : u # t => pc'[u] = pc[u] /\ loc'[u] = loc[u]
  BY <1>6, MovesAlone
<1>8. Opening(t) /\ ~Opening(t)'
  BY <1>1, <1>6, <1>7 DEF Opening
<1>9. Opens(g) /\ \A f \in file_tb : f # g => (Opens(f)' <=> Opens(f))
  BY <1>3, <1>7, <1>8 DEF Opens, Opening
<1>10. \A f \in file_tb : InUse(f)' <=> InUse(f)
  <2>1. ~InUse(g) /\ ~InUse(g)'
    BY <1>5, <1>9, InUseIs, InUseIsNext DEF FilesOK
  <2>2. \A f \in file_tb : f # g => (InUse(f)' <=> InUse(f))
    BY <1>5, <1>9, InUseIs, InUseIsNext DEF FilesOK
  <2> QED BY <2>1, <2>2
<1>11. Cardinality(FilesOn(d))' = Cardinality(FilesOn(d))
  BY <1>1, <1>10, FilesOnSame
<1>12. SetMoves(t, d)
  BY <1>7, SetMoved
<1>13. ~IsSet(pc[t], loc[t], d) /\ ~IsSet(pc'[t], loc'[t], d)
  BY <1>1, <1>6, <1>7 DEF IsSet
<1> QED BY <1>1, <1>11, <1>12, <1>13, DeviceCounts DEF DeviceIs, SetMoves

LEMMA OpenRemoveDevice ==
    ASSUME FilesOK, FilesOK', NEW t \in Tasks, OpenRemove(t), NEW d \in dev_tb, DeviceIs(d)
    PROVE  DeviceIs(d)'
<1>1. /\ pc[t] = "remove" /\ Moves(t, "user", NoLoc)
      /\ UNCHANGED <<ref, dev_id, open_count>>
  BY DEF OpenRemove, At, Go, Return, Moves, fileVars, devVars
<1>2. /\ pc'[t] = "user"
      /\ \A u \in Tasks : u # t => pc'[u] = pc[u] /\ loc'[u] = loc[u]
  BY <1>1, MovesAlone
<1>3. ~Opening(t) /\ ~Opening(t)'
  BY <1>1, <1>2 DEF Opening
<1> QED BY <1>1, <1>2, <1>3, QuietStep

LEMMA DupDevice ==
    ASSUME FilesOK, FilesOK', NEW t \in Tasks, NEW old \in fds, sys_dup(t, old),
           NEW d \in dev_tb, DeviceIs(d)
    PROVE  DeviceIs(d)'
<1>1. /\ pc[t] = "user" /\ Moves(t, "dup", Local(file_table[t][old], NULL, NULL, NULL))
      /\ UNCHANGED <<ref, dev_id, open_count>>
  BY DEF sys_dup, task_file, At, Go, Moves, fileVars, devVars
<1>2. /\ pc'[t] = "dup"
      /\ \A u \in Tasks : u # t => pc'[u] = pc[u] /\ loc'[u] = loc[u]
  BY <1>1, MovesAlone
<1>3. ~Opening(t) /\ ~Opening(t)'
  BY <1>1, <1>2 DEF Opening
<1> QED BY <1>1, <1>2, <1>3, QuietStep

\* The file is in use before and after.
LEMMA DupRefDevice ==
    ASSUME FilesOK, FilesOK', NEW t \in Tasks, DupRef(t), NEW d \in dev_tb, DeviceIs(d)
    PROVE  DeviceIs(d)'
<1> DEFINE g == loc[t].file
<1>1. /\ pc[t] = "dup" /\ Moves(t, "user", NoLoc) /\ ref' = [ref EXCEPT ![g] = ref[g] + 1]
      /\ UNCHANGED <<dev_id, open_count>>
  BY DEF DupRef, At, Go, Return, Moves, devVars
<1>2. g \in file_tb /\ \E fd \in fds : file_table[t][fd] = g
  BY <1>1 DEF FilesOK, ShapeOK, LocIs, TabOK, TabIs
<1>3. Holds(t, g)
  BY <1>1, <1>2 DEF Holds, Removing
<1>4. ref[g] > 0
  BY <1>2, <1>3 DEF FilesOK, OwnOK, OwnIs
<1>5. \A f \in file_tb : ref'[f] > 0 <=> ref[f] > 0
  BY <1>1, <1>2, <1>4 DEF FilesOK, TypeOK
<1>6. /\ pc'[t] = "user"
      /\ \A u \in Tasks : u # t => pc'[u] = pc[u] /\ loc'[u] = loc[u]
  BY <1>1, MovesAlone
<1>7. ~Opening(t) /\ ~Opening(t)'
  BY <1>1, <1>6 DEF Opening
<1> QED BY <1>1, <1>5, <1>6, <1>7, QuietStep

LEMMA ExitDevice ==
    ASSUME FilesOK, FilesOK', NEW t \in Tasks, sys_exit(t), NEW d \in dev_tb, DeviceIs(d)
    PROVE  DeviceIs(d)'
<1>1. pc[t] = "user" /\ UNCHANGED <<ref, dev_id, open_count, pc, loc>>
  BY DEF sys_exit, At, fileVars, devVars
<1>2. ~Opening(t) /\ ~Opening(t)'
  BY <1>1 DEF Opening
<1> QED BY <1>1, <1>2, QuietStep

LEMMA InitDevice ==
    ASSUME Init PROVE DeviceOK
<1> SUFFICES ASSUME NEW d \in dev_tb PROVE DeviceIs(d)
  BY DEF DeviceOK
<1>1. SetOn(d) = {}
  BY DEF Init, SetOn, IsSet
<1>2. FilesOn(d) = {}
  BY DEF Init, FilesOn, InUse
<1>3. open_count[d] = IF d = DEV_TABLE_SIZE - 1 THEN 1 ELSE 0
  BY DEF Init
<1> QED BY <1>1, <1>2, <1>3, FS_EmptySet DEF DeviceIs

LEMMA StepDevice ==
    ASSUME FilesOK, FilesOK', DeviceOK, [Next]_vars PROVE DeviceOK'
<1> SUFFICES ASSUME NEW d \in dev_tb PROVE DeviceIs(d)'
  BY DEF DeviceOK
<1>1. DeviceIs(d)
  BY DEF DeviceOK
<1>2. CASE UNCHANGED vars
  <2>1. SetOn(d)' = SetOn(d) /\ FilesOn(d)' = FilesOn(d)
    BY <1>2 DEF vars, SetOn, FilesOn, InUse
  <2> QED BY <1>1, <1>2, <2>1 DEF vars, DeviceIs
<1>3. CASE Next
  BY <1>1, <1>3, OpenFileDevice, OpenFdDevice, OpenDevDevice, OpenDoneDevice,
     OpenFreeDevice, OpenRemoveDevice, DupDevice, DupRefDevice, ExitDevice DEF Next
<1> QED BY <1>2, <1>3

\* A terminal has one device, whose count is that of the files on it and of the opens
\* on their way, whichever of the opens fail.
THEOREM DevicesOpenOnce == Spec => []DevicesCounted
<1>1. ASSUME FilesOK, DeviceOK PROVE DevicesCounted
  <2>1. ASSUME NEW d \in dev_tb
        PROVE  open_count[d] =
                     (IF d = DEV_TABLE_SIZE - 1 THEN 1 ELSE 0)
                   + Cardinality({t \in Tasks : pc[t] = "set" /\ loc[t].dev = d})
                   + Cardinality({f \in file_tb : ref[f] > 0 /\ dev_id[f] = d
                         /\ ~ \E t \in Tasks : loc[t].file = f /\ pc[t] \notin {"remove", "dup"}})
    <3>1. SetOn(d) = {t \in Tasks : pc[t] = "set" /\ loc[t].dev = d}
      BY DEF SetOn, IsSet
    <3>2. FilesOn(d) = {f \in file_tb : ref[f] > 0 /\ dev_id[f] = d
                           /\ ~ \E t \in Tasks : loc[t].file = f /\ pc[t] \notin {"remove", "dup"}}
      BY DEF FilesOn, InUse
    <3>3. DeviceIs(d)
      BY <1>1 DEF DeviceOK
    <3> QED BY <3>1, <3>2, <3>3 DEF DeviceIs
  <2> QED BY <1>1, <2>1 DEF FilesOK, OneDevice, DevicesCounted
<1>2. Spec => []DeviceOK
  BY InitDevice, StepDevice, FilesInvariant, PTL DEF Spec
<1> QED BY <1>1, <1>2, FilesInvariant, PTL

=============================================================================
