----------------------------- MODULE TtyProofs ------------------------------
(* The terminal, for any number of tasks, any messages and any sizes of    *)
(* the buffers.                                                            *)
EXTENDS Tty, ListOps, FiniteSetTheorems, SequenceTheorems, TLAPS

\* list_insert_last adds one member.
LEMMA InsertLast ==
    ASSUME NEW S, NEW q \in Seq(S), NEW t \in S
    PROVE  /\ list_insert_last(q, t) \in Seq(S)
           /\ Len(list_insert_last(q, t)) = Len(q) + 1
           /\ Members(list_insert_last(q, t)) = Members(q) \cup {t}
           /\ Injective(q) /\ t \notin Members(q) => Injective(list_insert_last(q, t))
           /\ list_insert_last(q, t) # <<>>
<1> DEFINE r == list_insert_last(q, t)
<1>1. /\ r \in Seq(S)
      /\ Len(r) = Len(q) + 1
      /\ \A i \in 1 .. Len(q) : r[i] = q[i]
      /\ r[Len(q) + 1] = t
  BY DEF list_insert_last
<1>2. DOMAIN q = 1 .. Len(q) /\ DOMAIN r = 1 .. Len(q) + 1 /\ Len(q) \in Nat
  BY <1>1
<1>3. Members(r) = Members(q) \cup {t}
  <2>1. \A x \in Members(r) : x \in Members(q) \cup {t}
    BY <1>1, <1>2 DEF Members
  <2>2. \A x \in Members(q) : x \in Members(r)
    BY <1>1, <1>2 DEF Members
  <2>3. t \in Members(r)
    BY <1>1, <1>2 DEF Members
  <2> QED BY <2>1, <2>2, <2>3
<1>4. Injective(q) /\ t \notin Members(q) => Injective(r)
  BY <1>1, <1>2 DEF Members, Injective
<1>5. r # <<>>
  BY <1>1, <1>2
<1> QED BY <1>1, <1>3, <1>4, <1>5

\* The members of a sequence over S are elements of S, the head is one of them.
LEMMA HeadMember ==
    ASSUME NEW S, NEW q \in Seq(S)
    PROVE  /\ Members(q) \subseteq S
           /\ q # <<>> => Head(q) \in Members(q)
           /\ q = <<>> <=> Len(q) = 0
           /\ q = <<>> => Members(q) = {}
<1>1. DOMAIN q = 1 .. Len(q) /\ Len(q) \in Nat
  OBVIOUS
<1>2. \A x \in Members(q) : x \in S
  BY <1>1 DEF Members
<1>3. q = <<>> <=> Len(q) = 0
  OBVIOUS
<1>4. q # <<>> => Head(q) = q[1] /\ 1 \in DOMAIN q
  BY <1>1, <1>3
<1>5. q = <<>> => Members(q) = {}
  BY <1>1, <1>3 DEF Members
<1> QED BY <1>2, <1>3, <1>4, <1>5 DEF Members

\* list_delete_first removes the first member.
LEMMA DeleteFirst ==
    ASSUME NEW S, NEW q \in Seq(S), Injective(q), Len(q) > 0
    PROVE  /\ Head(q) \in S /\ Head(q) \in Members(q)
           /\ Tail(q) \in Seq(S) /\ Injective(Tail(q))
           /\ Members(Tail(q)) = Members(q) \ {Head(q)}
<1>1. /\ DOMAIN q = 1 .. Len(q) /\ Len(q) \in Nat /\ Head(q) = q[1]
      /\ Tail(q) \in Seq(S) /\ Len(Tail(q)) = Len(q) - 1
      /\ DOMAIN Tail(q) = 1 .. Len(q) - 1
      /\ \A i \in 1 .. Len(q) - 1 : Tail(q)[i] = q[i + 1]
  OBVIOUS
<1>2. Head(q) \in S /\ Head(q) \in Members(q)
  BY <1>1 DEF Members
<1>3. Injective(Tail(q))
  <2> SUFFICES ASSUME NEW i \in 1 .. Len(q) - 1, NEW j \in 1 .. Len(q) - 1,
                      Tail(q)[i] = Tail(q)[j]
               PROVE  i = j
    BY <1>1 DEF Injective
  <2>1. q[i + 1] = q[j + 1] /\ i + 1 \in DOMAIN q /\ j + 1 \in DOMAIN q
    BY <1>1
  <2>2. i + 1 = j + 1
    BY <2>1 DEF Injective
  <2> QED BY <2>2
<1>4. \A x : x \in Members(Tail(q)) <=> x \in Members(q) /\ x # Head(q)
  <2>1. ASSUME NEW i \in 1 .. Len(q) - 1
        PROVE  Tail(q)[i] \in Members(q) /\ Tail(q)[i] # Head(q)
    <3>1. Tail(q)[i] = q[i + 1] /\ i + 1 \in DOMAIN q /\ 1 \in DOMAIN q /\ i + 1 # 1
      BY <1>1
    <3> QED BY <1>1, <3>1 DEF Members, Injective
  <2>2. ASSUME NEW i \in 1 .. Len(q), q[i] # Head(q)
        PROVE  q[i] \in Members(Tail(q))
    <3>1. i - 1 \in DOMAIN Tail(q) /\ Tail(q)[i - 1] = q[i]
      BY <1>1, <2>2
    <3> QED BY <3>1 DEF Members
  <2> QED BY <1>1, <2>1, <2>2 DEF Members
<1> QED BY <1>1, <1>2, <1>3, <1>4

-----------------------------------------------------------------------------
PCs == {"start", "loop", "wait", "test", "put", "lock", "gtest", "get",
        "notify", "show", "unlock", "rwait", "rtest", "rget", "done"}

-----------------------------------------------------------------------------
(* Who waits.  A task is put on a wait list when it goes to the place      *)
(* where it will go on; there it stays until it is taken off.              *)

console == mutex["console"]
log     == mutex["log"]

SyncOK ==
    /\ osem = Sem(osem.count, osem.list) /\ osem.count \in Nat /\ osem.list \in Seq(Users)
    /\ isem = Sem(isem.count, isem.list) /\ isem.count \in Nat /\ isem.list \in Seq(Users)
    /\ mutex = [m \in {"console", "log"} |-> mutex[m]]
    /\ console.owner \in Users \cup {NULL} /\ console.list \in Seq(Users)
    /\ log.owner \in Users \cup {NULL} /\ log.list \in Seq(Users)
    /\ pc \in [Users -> PCs]

\* A wait list has no task twice, and its tasks are at l.
AllAt(q, p, l) == \A t \in Members(q) : p[t] = l
WaitsAt(q, l) == Injective(q) /\ AllAt(q, pc, l)

WaitOK ==
    /\ WaitsAt(osem.list, "test") /\ WaitsAt(isem.list, "rtest")
    /\ WaitsAt(console.list, "gtest") /\ WaitsAt(log.list, "loop")

\* The tasks that are on some wait list.
LEMMA BlockedIff ==
    ASSUME SyncOK, NEW t
    PROVE  Blocked(t) <=> \/ t \in Members(osem.list) \/ t \in Members(isem.list)
                          \/ t \in Members(console.list) \/ t \in Members(log.list)
<1>1. DOMAIN mutex = {"console", "log"}
  BY DEF SyncOK
<1> QED BY <1>1 DEF Blocked, Members, console, log

\* What a step of t may do to one wait list.
Waiting(q, q1, t, l, there) ==
    \/ q1 = q
    \/ q1 = Append(q, t) /\ there = l /\ t \in Users
    \/ q # <<>> /\ q1 = Tail(q)

LEMMA ListStep ==
    ASSUME NEW t, \A u \in Users : u # t => pc'[u] = pc[u],
           NEW q \in Seq(Users), NEW q1, NEW l,
           WaitsAt(q, l), t \notin Members(q), Waiting(q, q1, t, l, pc'[t])
    PROVE  /\ q1 \in Seq(Users) /\ Injective(q1)
           /\ AllAt(q1, pc', l)
<1> USE DEF WaitsAt, AllAt
<1>1. Members(q) \subseteq Users
  BY HeadMember
<1>2. CASE q1 = q
  BY <1>1, <1>2
<1>3. CASE q1 = Append(q, t) /\ pc'[t] = l /\ t \in Users
  <2>1. /\ q1 \in Seq(Users) /\ Members(q1) = Members(q) \cup {t} /\ Injective(q1)
    BY <1>3, InsertLast DEF list_insert_last
  <2> QED BY <1>1, <1>3, <2>1
<1>4. CASE q # <<>> /\ q1 = Tail(q)
  <2>1. Len(q) > 0
    BY <1>4
  <2>2. q1 \in Seq(Users) /\ Members(q1) = Members(q) \ {Head(q)} /\ Injective(q1)
    BY <1>4, <2>1, DeleteFirst
  <2> QED BY <1>1, <2>2
<1> QED BY <1>2, <1>3, <1>4 DEF Waiting

\* A step of t, a task or the keyboard, which is on no wait list.
LEMMA WaitStep ==
    ASSUME SyncOK, WaitOK, NEW t, ~Blocked(t),
           \A u \in Users : u # t => pc'[u] = pc[u],
           Waiting(osem.list, osem.list', t, "test", pc'[t]),
           Waiting(isem.list, isem.list', t, "rtest", pc'[t]),
           Waiting(console.list, console.list', t, "gtest", pc'[t]),
           Waiting(log.list, log.list', t, "loop", pc'[t])
    PROVE  /\ WaitOK'
           /\ osem.list' \in Seq(Users) /\ isem.list' \in Seq(Users)
           /\ console.list' \in Seq(Users) /\ log.list' \in Seq(Users)
<1>1. /\ t \notin Members(osem.list) /\ t \notin Members(isem.list)
      /\ t \notin Members(console.list) /\ t \notin Members(log.list)
  BY BlockedIff
<1>2. /\ osem.list \in Seq(Users) /\ WaitsAt(osem.list, "test")
      /\ isem.list \in Seq(Users) /\ WaitsAt(isem.list, "rtest")
      /\ console.list \in Seq(Users) /\ WaitsAt(console.list, "gtest")
      /\ log.list \in Seq(Users) /\ WaitsAt(log.list, "loop")
  BY DEF WaitOK, SyncOK
<1>3. osem.list' \in Seq(Users) /\ WaitsAt(osem.list, "test")'
  <2>1. /\ osem.list' \in Seq(Users) /\ Injective(osem.list')
        /\ AllAt(osem.list', pc', "test")
    BY <1>1, <1>2, ListStep
  <2> QED BY <2>1 DEF WaitsAt
<1>4. isem.list' \in Seq(Users) /\ WaitsAt(isem.list, "rtest")'
  <2>1. /\ isem.list' \in Seq(Users) /\ Injective(isem.list')
        /\ AllAt(isem.list', pc', "rtest")
    BY <1>1, <1>2, ListStep
  <2> QED BY <2>1 DEF WaitsAt
<1>5. console.list' \in Seq(Users) /\ WaitsAt(console.list, "gtest")'
  <2>1. /\ console.list' \in Seq(Users) /\ Injective(console.list')
        /\ AllAt(console.list', pc', "gtest")
    BY <1>1, <1>2, ListStep
  <2> QED BY <2>1 DEF WaitsAt
<1>6. log.list' \in Seq(Users) /\ WaitsAt(log.list, "loop")'
  <2>1. /\ log.list' \in Seq(Users) /\ Injective(log.list')
        /\ AllAt(log.list', pc', "loop")
    BY <1>1, <1>2, ListStep
  <2> QED BY <2>1 DEF WaitsAt
<1> QED BY <1>3, <1>4, <1>5, <1>6 DEF WaitOK

\* The fields of semaphores and mutexes, and the calls.
LEMMA SemCalls ==
    ASSUME NEW s, NEW t, s = Sem(s.count, s.list), s.count \in Nat
    PROVE  /\ sem_wait(s, t) = Sem(sem_wait(s, t).count, sem_wait(s, t).list)
           /\ sem_notify(s) = Sem(sem_notify(s).count, sem_notify(s).list)
           /\ sem_wait(s, t).count \in Nat /\ sem_notify(s).count \in Nat
           /\ \/ /\ sem_wait(s, t).count = s.count - 1 /\ s.count > 0
                 /\ sem_wait(s, t).list = s.list
              \/ /\ sem_wait(s, t).count = s.count
                 /\ sem_wait(s, t).list = Append(s.list, t)
           /\ \/ /\ sem_notify(s).count = s.count + 1
                 /\ sem_notify(s).list = s.list
              \/ /\ sem_notify(s).count = s.count /\ s.list # <<>>
                 /\ sem_notify(s).list = Tail(s.list)
<1>1. \A n, q : Sem(n, q).count = n /\ Sem(n, q).list = q
  BY DEF Sem
<1>2. \/ sem_wait(s, t) = Sem(s.count - 1, s.list) /\ s.count > 0
      \/ sem_wait(s, t) = Sem(s.count, Append(s.list, t))
  BY DEF sem_wait
<1>3. \/ sem_notify(s) = Sem(s.count + 1, s.list)
      \/ sem_notify(s) = Sem(s.count, Tail(s.list)) /\ s.list # <<>>
  BY DEF sem_notify
<1>4. /\ sem_wait(s, t) = Sem(sem_wait(s, t).count, sem_wait(s, t).list)
      /\ \/ /\ sem_wait(s, t).count = s.count - 1 /\ s.count > 0
            /\ sem_wait(s, t).list = s.list
         \/ /\ sem_wait(s, t).count = s.count
            /\ sem_wait(s, t).list = Append(s.list, t)
  <2>1. CASE sem_wait(s, t) = Sem(s.count - 1, s.list) /\ s.count > 0
    <3> DEFINE n == s.count - 1
    <3>1. sem_wait(s, t) = Sem(n, s.list)
      BY <2>1
    <3> HIDE DEF n
    <3>2. sem_wait(s, t).count = n /\ sem_wait(s, t).list = s.list
      BY ONLY <1>1, <3>1
    <3> QED BY <2>1, <3>1, <3>2 DEF n
  <2>2. CASE sem_wait(s, t) = Sem(s.count, Append(s.list, t))
    <3> DEFINE q == Append(s.list, t)
    <3>1. sem_wait(s, t) = Sem(s.count, q)
      BY <2>2
    <3> HIDE DEF q
    <3>2. sem_wait(s, t).count = s.count /\ sem_wait(s, t).list = q
      BY ONLY <1>1, <3>1
    <3> QED BY <3>1, <3>2 DEF q
  <2> QED BY <1>2, <2>1, <2>2
<1>5. /\ sem_notify(s) = Sem(sem_notify(s).count, sem_notify(s).list)
      /\ \/ /\ sem_notify(s).count = s.count + 1
            /\ sem_notify(s).list = s.list
         \/ /\ sem_notify(s).count = s.count /\ s.list # <<>>
            /\ sem_notify(s).list = Tail(s.list)
  BY ONLY <1>1, <1>3
<1>6. sem_wait(s, t).count \in Nat /\ sem_notify(s).count \in Nat
  BY ONLY <1>4, <1>5, s.count \in Nat
<1> QED BY <1>4, <1>5, <1>6

LEMMA MutexCalls ==
    ASSUME NEW m, NEW t
    PROVE  /\ \/ /\ mutex_lock(m, t).owner = t /\ m.owner = NULL
                 /\ mutex_lock(m, t).list = m.list
              \/ /\ mutex_lock(m, t).owner = m.owner /\ m.owner # NULL
                 /\ mutex_lock(m, t).list = Append(m.list, t)
           /\ \/ /\ mutex_unlock(m).owner = NULL /\ m.list = <<>>
                 /\ mutex_unlock(m).list = m.list
              \/ /\ mutex_unlock(m).owner = Head(m.list) /\ m.list # <<>>
                 /\ mutex_unlock(m).list = Tail(m.list)
BY DEF mutex_lock, mutex_unlock, Mutex

\* A step that moves t to b and leaves semaphores and mutexes alone.
Moves(t, b) == pc' = [pc EXCEPT ![t] = b] /\ ~Blocked(t)

LEMMA QuietStep ==
    ASSUME SyncOK, WaitOK, NEW t \in Users, NEW b \in PCs, Moves(t, b),
           UNCHANGED <<osem, isem, mutex>>
    PROVE  SyncOK' /\ WaitOK'
<1>1. pc' \in [Users -> PCs] /\ \A u \in Users : u # t => pc'[u] = pc[u]
  BY DEF SyncOK, Moves
<1>2. SyncOK'
  BY <1>1 DEF SyncOK, console, log
<1>3. /\ osem.list' = osem.list /\ isem.list' = isem.list
      /\ console.list' = console.list /\ log.list' = log.list
  BY DEF console, log
<1>4. WaitOK'
  BY <1>1, <1>3, WaitStep DEF Moves, Waiting
<1> QED BY <1>2, <1>4

\* Steps that wait for or notify osem and isem, lock or unlock the mutexes.
LEMMA OsemStep ==
    ASSUME SyncOK, WaitOK, NEW t \in Users, NEW b \in PCs, Moves(t, b),
           UNCHANGED <<isem, mutex>>,
           \/ osem' = sem_wait(osem, t) /\ b = "test"
           \/ osem' = sem_notify(osem)
    PROVE  SyncOK' /\ WaitOK'
<1>1. pc' \in [Users -> PCs] /\ pc'[t] = b /\ \A u \in Users : u # t => pc'[u] = pc[u]
  BY DEF SyncOK, Moves
<1>2. osem = Sem(osem.count, osem.list) /\ osem.count \in Nat
  BY DEF SyncOK
<1>3. /\ osem' = Sem(osem'.count, osem'.list) /\ osem'.count \in Nat
      /\ Waiting(osem.list, osem'.list, t, "test", pc'[t])
  <2>1. CASE osem' = sem_wait(osem, t) /\ b = "test"
    BY <1>1, <1>2, <2>1, SemCalls DEF Waiting
  <2>2. CASE osem' = sem_notify(osem)
    BY <1>2, <2>2, SemCalls DEF Waiting
  <2> QED BY <2>1, <2>2
<1>4. isem.list' = isem.list /\ console.list' = console.list /\ log.list' = log.list
  BY DEF console, log
<1>5. WaitOK' /\ osem.list' \in Seq(Users)
  BY <1>1, <1>3, <1>4, WaitStep DEF Moves, Waiting
<1>6. SyncOK'
  BY <1>1, <1>3, <1>5 DEF SyncOK, console, log
<1> QED BY <1>5, <1>6

LEMMA IsemStep ==
    ASSUME SyncOK, WaitOK, NEW t \in Users, NEW b \in PCs, Moves(t, b),
           UNCHANGED <<osem, mutex>>,
           \/ isem' = sem_wait(isem, t) /\ b = "rtest"
           \/ isem' = sem_notify(isem)
    PROVE  SyncOK' /\ WaitOK'
<1>1. pc' \in [Users -> PCs] /\ pc'[t] = b /\ \A u \in Users : u # t => pc'[u] = pc[u]
  BY DEF SyncOK, Moves
<1>2. isem = Sem(isem.count, isem.list) /\ isem.count \in Nat
  BY DEF SyncOK
<1>3. /\ isem' = Sem(isem'.count, isem'.list) /\ isem'.count \in Nat
      /\ Waiting(isem.list, isem'.list, t, "rtest", pc'[t])
  <2>1. CASE isem' = sem_wait(isem, t) /\ b = "rtest"
    BY <1>1, <1>2, <2>1, SemCalls DEF Waiting
  <2>2. CASE isem' = sem_notify(isem)
    BY <1>2, <2>2, SemCalls DEF Waiting
  <2> QED BY <2>1, <2>2
<1>4. osem.list' = osem.list /\ console.list' = console.list /\ log.list' = log.list
  BY DEF console, log
<1>5. WaitOK' /\ isem.list' \in Seq(Users)
  BY <1>1, <1>3, <1>4, WaitStep DEF Moves, Waiting
<1>6. SyncOK'
  BY <1>1, <1>3, <1>5 DEF SyncOK, console, log
<1> QED BY <1>5, <1>6

LEMMA ConsoleStep ==
    ASSUME SyncOK, WaitOK, NEW t \in Users, NEW b \in PCs, Moves(t, b),
           UNCHANGED <<osem, isem>>,
           \/ mutex' = [mutex EXCEPT !["console"] = mutex_lock(@, t)] /\ b = "gtest"
           \/ mutex' = [mutex EXCEPT !["console"] = mutex_unlock(@)]
    PROVE  SyncOK' /\ WaitOK'
<1>1. pc' \in [Users -> PCs] /\ pc'[t] = b /\ \A u \in Users : u # t => pc'[u] = pc[u]
  BY DEF SyncOK, Moves
<1>2. /\ \/ console' = mutex_lock(console, t) /\ b = "gtest"
         \/ console' = mutex_unlock(console)
      /\ log' = log /\ mutex' = [m \in {"console", "log"} |-> mutex'[m]]
  BY DEF SyncOK, console, log
<1>3. /\ Waiting(console.list, console.list', t, "gtest", pc'[t])
      /\ console.owner' \in Users \cup {NULL}
  <2>1. console.list # <<>> => Head(console.list) \in Users
    BY DEF SyncOK
  <2>2. CASE console' = mutex_lock(console, t) /\ b = "gtest"
    BY <1>1, <2>2, MutexCalls DEF Waiting, SyncOK
  <2>3. CASE console' = mutex_unlock(console)
    BY <2>1, <2>3, MutexCalls DEF Waiting, SyncOK
  <2> QED BY <1>2, <2>2, <2>3
<1>4. osem.list' = osem.list /\ isem.list' = isem.list /\ log.list' = log.list
  BY <1>2
<1>5. WaitOK' /\ console.list' \in Seq(Users)
  BY <1>1, <1>3, <1>4, WaitStep DEF Moves, Waiting
<1>6. SyncOK'
  BY <1>1, <1>2, <1>3, <1>5 DEF SyncOK
<1> QED BY <1>5, <1>6

LEMMA LogStep ==
    ASSUME SyncOK, WaitOK, NEW t \in Users, NEW b \in PCs, Moves(t, b),
           UNCHANGED <<osem, isem>>,
           \/ mutex' = [mutex EXCEPT !["log"] = mutex_lock(@, t)] /\ b = "loop"
           \/ mutex' = [mutex EXCEPT !["log"] = mutex_unlock(@)]
    PROVE  SyncOK' /\ WaitOK'
<1>1. pc' \in [Users -> PCs] /\ pc'[t] = b /\ \A u \in Users : u # t => pc'[u] = pc[u]
  BY DEF SyncOK, Moves
<1>2. /\ \/ log' = mutex_lock(log, t) /\ b = "loop"
         \/ log' = mutex_unlock(log)
      /\ console' = console /\ mutex' = [m \in {"console", "log"} |-> mutex'[m]]
  BY DEF SyncOK, console, log
<1>3. /\ Waiting(log.list, log.list', t, "loop", pc'[t])
      /\ log.owner' \in Users \cup {NULL}
  <2>1. log.list # <<>> => Head(log.list) \in Users
    BY DEF SyncOK
  <2>2. CASE log' = mutex_lock(log, t) /\ b = "loop"
    BY <1>1, <2>2, MutexCalls DEF Waiting, SyncOK
  <2>3. CASE log' = mutex_unlock(log)
    BY <2>1, <2>3, MutexCalls DEF Waiting, SyncOK
  <2> QED BY <1>2, <2>2, <2>3
<1>4. osem.list' = osem.list /\ isem.list' = isem.list /\ console.list' = console.list
  BY <1>2
<1>5. WaitOK' /\ log.list' \in Seq(Users)
  BY <1>1, <1>3, <1>4, WaitStep DEF Moves, Waiting
<1>6. SyncOK'
  BY <1>1, <1>2, <1>3, <1>5 DEF SyncOK
<1> QED BY <1>5, <1>6

\* tty_in is no task: it moves none.
LEMMA KeyStep ==
    ASSUME SyncOK, WaitOK, NEW k, tty_in(k)
    PROVE  SyncOK' /\ WaitOK'
<1>1. /\ isem' = sem_notify(isem) /\ UNCHANGED <<osem, mutex, pc>>
      /\ isem = Sem(isem.count, isem.list) /\ isem.count \in Nat
  BY DEF tty_in, outVars, SyncOK
<1>2. /\ isem' = Sem(isem'.count, isem'.list) /\ isem'.count \in Nat
      /\ Waiting(isem.list, isem'.list, Kbd, "rtest", pc'[Kbd])
  BY <1>1, SemCalls DEF Waiting
<1>3. osem.list' = osem.list /\ console.list' = console.list /\ log.list' = log.list
  BY <1>1 DEF console, log
<1>4. ~Blocked(Kbd)
  BY HeadMember, BlockedIff, UsersAssumption DEF SyncOK
<1>5. WaitOK' /\ isem.list' \in Seq(Users)
  BY <1>1, <1>2, <1>3, <1>4, WaitStep DEF Waiting
<1>6. SyncOK'
  BY <1>1, <1>2, <1>5 DEF SyncOK, console, log
<1> QED BY <1>5, <1>6

LEMMA InitSync == Init => SyncOK /\ WaitOK
<1> SUFFICES ASSUME Init PROVE SyncOK /\ WaitOK
  OBVIOUS
<1>1. Sem(OBUF_SIZE, <<>>).count = OBUF_SIZE /\ Sem(OBUF_SIZE, <<>>).list = <<>>
  BY DEF Sem
<1>2. Sem(0, <<>>).count = 0 /\ Sem(0, <<>>).list = <<>>
  BY DEF Sem
<1>3. Mutex(NULL, <<>>).owner = NULL /\ Mutex(NULL, <<>>).list = <<>>
  BY DEF Mutex
<1>4. console.owner = NULL /\ console.list = <<>> /\ log.owner = NULL /\ log.list = <<>>
  BY <1>3 DEF Init, console, log
<1>5. Injective(<<>>) /\ Members(<<>>) = {}
  BY DEF Injective, Members
<1>6. osem.count = OBUF_SIZE /\ isem.count = 0 /\ osem.list = <<>> /\ isem.list = <<>>
  BY <1>1, <1>2 DEF Init
<1>7. WaitOK
  BY <1>4, <1>5, <1>6 DEF WaitOK, WaitsAt, AllAt
<1>8. mutex = [m \in {"console", "log"} |-> mutex[m]] /\ pc \in [Users -> PCs]
  BY DEF Init, PCs
<1>9. osem = Sem(osem.count, osem.list) /\ isem = Sem(isem.count, isem.list)
  BY <1>6 DEF Init
<1>10. SyncOK
  BY <1>4, <1>6, <1>8, <1>9, BufferAssumption DEF SyncOK
<1> QED BY <1>7, <1>10

\* Every step of a task moves that task.
LEMMA StepMoves ==
    ASSUME SyncOK, NEW t \in Users, CallWrite(t) \/ CallLog(t) \/ CallRead(t) \/ Step(t)
    PROVE  ~Blocked(t) /\ \E b \in PCs : Moves(t, b)
<1> USE DEF At, Goto, Moves, PCs
<1>1. CASE CallWrite(t) \/ CallLog(t) \/ CallRead(t)
  BY <1>1 DEF CallWrite, CallLog, CallRead
<1>2. CASE WriteNext(t) \/ WriteWait(t)
  BY <1>2 DEF WriteNext, WriteWait
<1>3. CASE WriteTest(t) \/ WritePut(t)
  BY <1>3 DEF WriteTest, WritePut
<1>4. CASE WriteDone(t)
  BY <1>4 DEF WriteDone
<1>5. CASE DrainLock(t) \/ DrainTest(t) \/ DrainGet(t)
  BY <1>5 DEF DrainLock, DrainTest, DrainGet
<1>6. CASE DrainNotify(t) \/ DrainShow(t) \/ DrainUnlock(t)
  BY <1>6 DEF DrainNotify, DrainShow, DrainUnlock
<1>7. CASE ReadWait(t)
  BY <1>7 DEF ReadWait
<1>8. CASE ReadTest(t) \/ ReadGet(t)
  BY <1>8 DEF ReadTest, ReadGet, Store
<1> QED BY <1>1, <1>2, <1>3, <1>4, <1>5, <1>6, <1>7, <1>8 DEF Step

\* The wait lists and who is on them, in every step.
LEMMA StepSync == ASSUME SyncOK, WaitOK, [Next]_vars PROVE SyncOK' /\ WaitOK'
<1>1. CASE UNCHANGED vars
  BY <1>1 DEF vars, SyncOK, WaitOK, WaitsAt, AllAt, console, log
<1>2. ASSUME NEW k, tty_in(k) PROVE SyncOK' /\ WaitOK'
  BY <1>2, KeyStep
<1>3. ASSUME NEW t \in Users, CallWrite(t) \/ CallLog(t) \/ CallRead(t) \/ Step(t)
      PROVE  SyncOK' /\ WaitOK'
  <2>1. PICK b \in PCs : Moves(t, b)
    BY <1>3, StepMoves
  <2>2. \A l : Goto(t, l) => b = l
    BY <2>1 DEF Goto, Moves, SyncOK
  <2>3. CASE UNCHANGED <<osem, isem, mutex>>
    BY <2>1, <2>3, QuietStep
  <2>4. CASE WriteWait(t)
    BY <2>1, <2>2, <2>4, OsemStep DEF WriteWait, inVars
  <2>5. CASE DrainNotify(t)
    BY <2>1, <2>5, OsemStep DEF DrainNotify, inVars
  <2>6. CASE ReadWait(t)
    BY <2>1, <2>2, <2>6, IsemStep DEF ReadWait, outVars
  <2>7. CASE CallLog(t)
    BY <2>1, <2>2, <2>7, LogStep DEF CallLog, inVars, outVars
  <2>8. CASE WriteDone(t)
    BY <2>1, <2>3, <2>8, LogStep DEF WriteDone, inVars, outVars
  <2>9. CASE DrainLock(t)
    BY <2>1, <2>2, <2>9, ConsoleStep DEF DrainLock, inVars, outVars
  <2>10. CASE DrainUnlock(t)
    BY <2>1, <2>10, ConsoleStep DEF DrainUnlock, inVars, outVars
  <2>11. CASE CallWrite(t) \/ CallRead(t) \/ WriteNext(t) \/ WriteTest(t) \/ WritePut(t)
    BY <2>3, <2>11 DEF CallWrite, CallRead, WriteNext, WriteTest, WritePut, inVars, outVars
  <2>12. CASE DrainTest(t) \/ DrainGet(t) \/ DrainShow(t)
    BY <2>3, <2>12 DEF DrainTest, DrainGet, DrainShow, inVars, outVars
  <2>13. CASE ReadTest(t) \/ ReadGet(t)
    BY <2>3, <2>13 DEF ReadTest, ReadGet, Store, inVars, outVars
  <2> QED BY <1>3, <2>4, <2>5, <2>6, <2>7, <2>8, <2>9, <2>10, <2>11, <2>12, <2>13 DEF Step
<1> QED BY <1>1, <1>2, <1>3 DEF Next

-----------------------------------------------------------------------------
(* The units of osem and isem.                                             *)

Putting   == {t \in Users : MayPut(t)}
Notifying == {t \in Users : pc[t] = "notify"}
Getting   == {t \in Users : MayGet(t)}

LEMMA Cards ==
    ASSUME NEW S \in SUBSET Users
    PROVE  /\ Cardinality(S) \in Nat
           /\ \A x \in Users \ S : Cardinality(S \cup {x}) = Cardinality(S) + 1
           /\ \A x \in S : Cardinality(S \ {x}) = Cardinality(S) - 1 /\ Cardinality(S) > 0
<1>1. IsFiniteSet(S)
  BY BufferAssumption, FS_Subset
<1>2. Cardinality(S) \in Nat
  BY <1>1, FS_CardinalityType
<1>3. \A x \in Users \ S : Cardinality(S \cup {x}) = Cardinality(S) + 1
  BY <1>1, FS_AddElement
<1>4. ASSUME NEW x \in S PROVE Cardinality(S \ {x}) = Cardinality(S) - 1 /\ Cardinality(S) > 0
  <2>1. Cardinality(S \ {x}) = Cardinality(S) - 1
    BY <1>1, FS_RemoveElement
  <2>2. Cardinality(S) # 0
    BY <1>1, FS_EmptySet
  <2> QED BY <1>2, <2>1, <2>2
<1> QED BY <1>2, <1>3, <1>4

\* Of the wait lists, only that of osem stops a task at "test", and only that of
\* isem one at "rtest".
LEMMA MayIff ==
    ASSUME SyncOK, WaitOK, SyncOK', WaitOK', NEW u \in Users
    PROVE  /\ u \in Putting <=> pc[u] \in {"test", "put"} /\ u \notin Members(osem.list)
           /\ u \in Putting' <=> pc'[u] \in {"test", "put"} /\ u \notin Members(osem'.list)
           /\ u \in Getting <=> pc[u] \in {"rtest", "rget"} /\ u \notin Members(isem.list)
           /\ u \in Getting' <=> pc'[u] \in {"rtest", "rget"} /\ u \notin Members(isem'.list)
<1>1. Blocked(u) <=> \/ u \in Members(osem.list) \/ u \in Members(isem.list)
                     \/ u \in Members(console.list) \/ u \in Members(log.list)
  BY BlockedIff
<1>2. Blocked(u)' <=> \/ u \in Members(osem'.list) \/ u \in Members(isem'.list)
                      \/ u \in Members(console'.list) \/ u \in Members(log'.list)
  <2>1. DOMAIN mutex' = {"console", "log"}
    BY DEF SyncOK
  <2> QED BY <2>1 DEF Blocked, Members, console, log
<1>3. /\ u \in Members(osem.list) => pc[u] = "test"
      /\ u \in Members(isem.list) => pc[u] = "rtest"
      /\ u \in Members(console.list) => pc[u] = "gtest"
      /\ u \in Members(log.list) => pc[u] = "loop"
  BY DEF WaitOK, WaitsAt, AllAt
<1>4. /\ u \in Members(osem'.list) => pc'[u] = "test"
      /\ u \in Members(isem'.list) => pc'[u] = "rtest"
      /\ u \in Members(console'.list) => pc'[u] = "gtest"
      /\ u \in Members(log'.list) => pc'[u] = "loop"
  BY DEF WaitOK, WaitsAt, AllAt
<1>5. /\ u \in Putting <=> pc[u] \in {"test", "put"} /\ ~Blocked(u)
      /\ u \in Putting' <=> pc'[u] \in {"test", "put"} /\ ~Blocked(u)'
      /\ u \in Getting <=> pc[u] \in {"rtest", "rget"} /\ ~Blocked(u)
      /\ u \in Getting' <=> pc'[u] \in {"rtest", "rget"} /\ ~Blocked(u)'
  BY DEF Putting, Getting, MayPut, MayGet
<1> QED BY <1>1, <1>2, <1>3, <1>4, <1>5

\* t moves to b and the wait list of osem, or of isem, stays as it is.
LEMMA UnitsKept ==
    ASSUME SyncOK, WaitOK, SyncOK', WaitOK', NEW t \in Users, NEW b, Moves(t, b)
    PROVE  /\ osem'.list = osem.list =>
                 Putting' = IF b \in {"test", "put"} THEN Putting \cup {t} ELSE Putting \ {t}
           /\ isem'.list = isem.list =>
                 Getting' = IF b \in {"rtest", "rget"} THEN Getting \cup {t} ELSE Getting \ {t}
           /\ Notifying' = IF b = "notify" THEN Notifying \cup {t} ELSE Notifying \ {t}
<1>1. /\ pc'[t] = b /\ \A u \in Users : u # t => pc'[u] = pc[u]
      /\ t \notin Members(osem.list) /\ t \notin Members(isem.list)
  BY BlockedIff DEF SyncOK, Moves
<1>2. Putting \subseteq Users /\ Putting' \subseteq Users
  BY DEF Putting
<1>3. Getting \subseteq Users /\ Getting' \subseteq Users
  BY DEF Getting
<1>4. Notifying' = IF b = "notify" THEN Notifying \cup {t} ELSE Notifying \ {t}
  BY <1>1 DEF Notifying
<1>5. ASSUME osem'.list = osem.list
      PROVE  Putting' = IF b \in {"test", "put"} THEN Putting \cup {t} ELSE Putting \ {t}
  BY <1>1, <1>2, <1>5, MayIff
<1>6. ASSUME isem'.list = isem.list
      PROVE  Getting' = IF b \in {"rtest", "rget"} THEN Getting \cup {t} ELSE Getting \ {t}
  BY <1>1, <1>3, <1>6, MayIff
<1> QED BY <1>4, <1>5, <1>6

\* The first task of a wait list is taken off it.
LEMMA TaskWoken ==
    ASSUME NEW q \in Seq(Users), Injective(q), q # <<>>
    PROVE  /\ Head(q) \in Users /\ Head(q) \in Members(q)
           /\ Members(Tail(q)) = Members(q) \ {Head(q)}
BY DeleteFirst

OutOK == ofifo.count \in Int /\ ofifo.size = OBUF_SIZE /\ OutputRoom

\* The sum of OutputRoom.
LEMMA RoomSum ==
    /\ OutputRoom <=>
          osem.count + ofifo.count + Cardinality(Putting) + Cardinality(Notifying) = OBUF_SIZE
    /\ OutputRoom' <=>
          osem'.count + ofifo'.count + Cardinality(Putting') + Cardinality(Notifying') = OBUF_SIZE
BY DEF OutputRoom, Putting, Notifying

\* A task that has passed sem_wait(osem) finds room.
LEMMA RoomToPut ==
    ASSUME SyncOK, OutOK, NEW t \in Putting
    PROVE  ofifo.count < ofifo.size
<1>1. Putting \in SUBSET Users /\ Notifying \in SUBSET Users
  BY DEF Putting, Notifying
<1>2. Cardinality(Putting) > 0 /\ Cardinality(Putting) \in Nat /\ Cardinality(Notifying) \in Nat
  BY <1>1, Cards
<1>3. osem.count + ofifo.count + Cardinality(Putting) + Cardinality(Notifying) = OBUF_SIZE
  BY RoomSum DEF OutOK
<1> QED BY <1>2, <1>3, BufferAssumption DEF SyncOK, OutOK

LEMMA OutStep ==
    ASSUME SyncOK, WaitOK, SyncOK', WaitOK', OutOK, NEW t \in Users,
           CallWrite(t) \/ CallLog(t) \/ CallRead(t) \/ Step(t)
    PROVE  OutOK'
<1>1. PICK b \in PCs : Moves(t, b)
  BY StepMoves
<1>2. pc'[t] = b /\ \A l : Goto(t, l) => b = l
  BY <1>1 DEF Goto, Moves, SyncOK
<1> DEFINE P == Cardinality(Putting)
           N == Cardinality(Notifying)
<1>3. Putting \in SUBSET Users /\ Notifying \in SUBSET Users
  BY DEF Putting, Notifying
<1>4. /\ P \in Nat /\ N \in Nat /\ osem.count \in Nat /\ osem'.count \in Nat
      /\ ofifo.count \in Int /\ OBUF_SIZE \in Nat
      /\ osem.count + ofifo.count + P + N = OBUF_SIZE
  BY <1>3, Cards, RoomSum, BufferAssumption DEF OutOK, SyncOK
<1>5. /\ osem'.list = osem.list =>
             Putting' = IF b \in {"test", "put"} THEN Putting \cup {t} ELSE Putting \ {t}
      /\ Notifying' = IF b = "notify" THEN Notifying \cup {t} ELSE Notifying \ {t}
  BY <1>1, UnitsKept
<1>6. /\ t \in Putting <=> pc[t] \in {"test", "put"}
      /\ t \in Notifying <=> pc[t] = "notify"
  <2>1. t \notin Members(osem.list)
    BY <1>1, BlockedIff DEF Moves
  <2> QED BY <2>1, MayIff DEF Notifying
<1>7. /\ t \notin Putting => Cardinality(Putting \cup {t}) = P + 1
      /\ t \in Putting => Cardinality(Putting \ {t}) = P - 1
      /\ t \notin Notifying => Cardinality(Notifying \cup {t}) = N + 1
      /\ t \in Notifying => Cardinality(Notifying \ {t}) = N - 1
  BY <1>3, Cards
<1>8. ASSUME ofifo' = ofifo, osem' = osem, Putting' = Putting, Notifying' = Notifying
      PROVE  OutOK'
  BY <1>4, <1>8, RoomSum DEF OutOK
<1>9. ASSUME ofifo' = ofifo, osem' = osem,
             pc[t] \notin {"test", "put", "notify"}, b \notin {"test", "put", "notify"}
      PROVE  OutOK'
  BY <1>5, <1>6, <1>8, <1>9
<1> HIDE DEF P, N
<1> USE DEF At
<1>10. CASE CallWrite(t) \/ CallLog(t) \/ CallRead(t)
  BY <1>2, <1>9, <1>10 DEF CallWrite, CallLog, CallRead, outVars
<1>11. CASE WriteNext(t)
  BY <1>2, <1>9, <1>11 DEF WriteNext, outVars
<1>12. CASE WriteWait(t)
  <2>1. osem' = sem_wait(osem, t) /\ b = "test" /\ pc[t] = "wait" /\ ofifo' = ofifo
    BY <1>2, <1>12 DEF WriteWait
  <2>2. osem = Sem(osem.count, osem.list)
    BY DEF SyncOK
  <2>3. Notifying' = Notifying
    BY <1>5, <1>6, <2>1
  <2>4. CASE osem'.count = osem.count - 1 /\ osem'.list = osem.list
    <3>1. Cardinality(Putting') = P + 1
      BY <1>5, <1>6, <1>7, <2>1, <2>4
    <3> QED BY <1>4, <2>1, <2>3, <2>4, <3>1, RoomSum DEF OutOK, N
  <2>5. CASE osem'.count = osem.count /\ osem'.list = Append(osem.list, t)
    <3>1. Members(osem'.list) = Members(osem.list) \cup {t}
      BY <2>5, InsertLast DEF list_insert_last, SyncOK
    <3>2. \A u \in Users : u \in Putting' <=> u \in Putting
      BY <1>1, <1>2, <2>1, <3>1, MayIff DEF Moves, SyncOK
    <3>3. Putting' = Putting
      BY <3>2 DEF Putting
    <3> QED BY <1>4, <2>1, <2>3, <2>5, <3>3, RoomSum DEF OutOK, N, P
  <2> QED BY <1>4, <2>1, <2>2, <2>4, <2>5, SemCalls
<1>13. CASE WriteTest(t)
  <2>1. pc[t] = "test" /\ ofifo' = ofifo /\ osem' = osem /\ t \in Putting
    BY <1>6, <1>13 DEF WriteTest, outVars
  <2>2. ~ (ofifo.count >= ofifo.size)
    BY <1>4, <2>1, RoomToPut DEF OutOK
  <2>3. b = "put"
    BY <1>2, <1>13, <2>2 DEF WriteTest
  <2> QED BY <1>5, <1>6, <1>8, <2>1, <2>3
<1>14. CASE WritePut(t)
  <2>1. /\ pc[t] = "put" /\ b \in {"wait", "lock"} /\ osem' = osem
        /\ ofifo' = tty_fifo_put(ofifo, Head(pend[t]))
    BY <1>2, <1>14 DEF WritePut
  <2>2. ofifo'.count = ofifo.count + 1 /\ ofifo'.size = ofifo.size
    BY <2>1 DEF tty_fifo_put
  <2>3. Cardinality(Putting') = P - 1 /\ Notifying' = Notifying
    BY <1>5, <1>6, <1>7, <2>1
  <2> QED BY <1>4, <2>1, <2>2, <2>3, RoomSum DEF OutOK, N
<1>15. CASE WriteDone(t)
  BY <1>2, <1>9, <1>15 DEF WriteDone, outVars
<1>16. CASE DrainLock(t) \/ DrainTest(t)
  BY <1>2, <1>9, <1>16 DEF DrainLock, DrainTest, outVars
<1>17. CASE DrainGet(t)
  <2>1. pc[t] = "get" /\ b = "notify" /\ osem' = osem /\ ofifo' = tty_fifo_get(ofifo)
    BY <1>2, <1>17 DEF DrainGet
  <2>2. ofifo'.count = ofifo.count - 1 /\ ofifo'.size = ofifo.size
    BY <2>1 DEF tty_fifo_get
  <2>3. Cardinality(Notifying') = N + 1 /\ Putting' = Putting
    BY <1>5, <1>6, <1>7, <2>1
  <2> QED BY <1>4, <2>1, <2>2, <2>3, RoomSum DEF OutOK, P
<1>18. CASE DrainNotify(t)
  <2>1. osem' = sem_notify(osem) /\ b = "show" /\ pc[t] = "notify" /\ ofifo' = ofifo
    BY <1>2, <1>18 DEF DrainNotify
  <2>2. osem = Sem(osem.count, osem.list)
    BY DEF SyncOK
  <2>3. Cardinality(Notifying') = N - 1
    BY <1>5, <1>6, <1>7, <2>1
  <2>4. CASE osem'.count = osem.count + 1 /\ osem'.list = osem.list
    <3>1. Putting' = Putting
      BY <1>5, <1>6, <2>1, <2>4
    <3> QED BY <1>4, <2>1, <2>3, <2>4, <3>1, RoomSum DEF OutOK, P
  <2>5. CASE osem'.count = osem.count /\ osem.list # <<>> /\ osem'.list = Tail(osem.list)
    <3> DEFINE h == Head(osem.list)
    <3>1. /\ h \in Users /\ h \in Members(osem.list)
          /\ Members(osem'.list) = Members(osem.list) \ {h}
      BY <2>5, TaskWoken DEF SyncOK, WaitOK, WaitsAt
    <3>2. pc[h] = "test" /\ h # t
      BY <2>1, <3>1 DEF WaitOK, WaitsAt, AllAt
    <3> HIDE DEF h
    <3>3. h \notin Putting /\ \A u \in Users : u \in Putting' <=> u \in Putting \/ u = h
      BY <1>1, <1>2, <2>1, <3>1, <3>2, MayIff DEF Moves, SyncOK
    <3>4. Putting' = Putting \cup {h}
      BY <3>1, <3>3 DEF Putting
    <3>5. Cardinality(Putting') = P + 1
      BY <1>3, <3>1, <3>3, <3>4, Cards DEF P
    <3> QED BY <1>4, <2>1, <2>3, <2>5, <3>5, RoomSum DEF OutOK
  <2> QED BY <1>4, <2>1, <2>2, <2>4, <2>5, SemCalls
<1>19. CASE DrainShow(t) \/ DrainUnlock(t)
  BY <1>2, <1>9, <1>19 DEF DrainShow, DrainUnlock, outVars
<1>20. CASE ReadWait(t)
  BY <1>2, <1>9, <1>20 DEF ReadWait, outVars
<1>21. CASE ReadTest(t) \/ ReadGet(t)
  BY <1>2, <1>9, <1>21 DEF ReadTest, ReadGet, Store, outVars
<1> QED BY <1>10, <1>11, <1>12, <1>13, <1>14, <1>15, <1>16, <1>17, <1>18, <1>19, <1>20, <1>21
        DEF Step

LEMMA OutKey ==
    ASSUME SyncOK, WaitOK, SyncOK', WaitOK', OutOK, NEW k, tty_in(k)
    PROVE  OutOK'
<1>1. UNCHANGED <<ofifo, osem, pc>>
  BY DEF tty_in, outVars
<1>2. \A u \in Users : u \in Putting' <=> u \in Putting
  BY <1>1, MayIff
<1>3. Putting' = Putting /\ Notifying' = Notifying
  BY <1>1, <1>2 DEF Putting, Notifying
<1> QED BY <1>1, <1>3, RoomSum DEF OutOK

InOK == ififo.count \in Int /\ ififo.size = IBUF_SIZE /\ overrun \in Int /\ InputUnits

\* The sum of InputUnits.
LEMMA UnitSum ==
    /\ InputUnits <=> isem.count + Cardinality(Getting) = ififo.count + overrun
    /\ InputUnits' <=> isem'.count + Cardinality(Getting') = ififo'.count + overrun'
BY DEF InputUnits, Getting

LEMMA InStep ==
    ASSUME SyncOK, WaitOK, SyncOK', WaitOK', InOK, NEW t \in Users,
           CallWrite(t) \/ CallLog(t) \/ CallRead(t) \/ Step(t)
    PROVE  InOK'
<1>1. PICK b \in PCs : Moves(t, b)
  BY StepMoves
<1>2. pc'[t] = b /\ \A l : Goto(t, l) => b = l
  BY <1>1 DEF Goto, Moves, SyncOK
<1> DEFINE G == Cardinality(Getting)
<1>3. Getting \in SUBSET Users
  BY DEF Getting
<1>4. /\ G \in Nat /\ isem.count \in Nat /\ isem'.count \in Nat
      /\ ififo.count \in Int /\ overrun \in Int
      /\ isem.count + G = ififo.count + overrun
  BY <1>3, Cards, UnitSum DEF InOK, SyncOK
<1>5. isem'.list = isem.list =>
          Getting' = IF b \in {"rtest", "rget"} THEN Getting \cup {t} ELSE Getting \ {t}
  BY <1>1, UnitsKept
<1>6. t \in Getting <=> pc[t] \in {"rtest", "rget"}
  <2>1. t \notin Members(isem.list)
    BY <1>1, BlockedIff DEF Moves
  <2> QED BY <2>1, MayIff
<1>7. /\ t \notin Getting => Cardinality(Getting \cup {t}) = G + 1
      /\ t \in Getting => Cardinality(Getting \ {t}) = G - 1
  BY <1>3, Cards
<1>8. ASSUME ififo' = ififo, isem' = isem, overrun' = overrun, Getting' = Getting
      PROVE  InOK'
  BY <1>4, <1>8, UnitSum DEF InOK
<1>9. ASSUME ififo' = ififo, isem' = isem, overrun' = overrun,
             pc[t] \notin {"rtest", "rget"}, b \notin {"rtest", "rget"}
      PROVE  InOK'
  BY <1>5, <1>6, <1>8, <1>9
<1> HIDE DEF G
<1> USE DEF At
<1>10. CASE CallWrite(t) \/ CallLog(t) \/ CallRead(t)
  BY <1>2, <1>9, <1>10 DEF CallWrite, CallLog, CallRead, inVars
<1>11. CASE WriteNext(t) \/ WriteWait(t) \/ WriteTest(t) \/ WritePut(t)
  BY <1>2, <1>9, <1>11 DEF WriteNext, WriteWait, WriteTest, WritePut, inVars
<1>12. CASE WriteDone(t)
  BY <1>2, <1>9, <1>12 DEF WriteDone, inVars
<1>13. CASE DrainLock(t) \/ DrainTest(t) \/ DrainGet(t)
  BY <1>2, <1>9, <1>13 DEF DrainLock, DrainTest, DrainGet, inVars
<1>14. CASE DrainNotify(t) \/ DrainShow(t) \/ DrainUnlock(t)
  BY <1>2, <1>9, <1>14 DEF DrainNotify, DrainShow, DrainUnlock, inVars
<1>15. CASE ReadWait(t)
  <2>1. /\ isem' = sem_wait(isem, t) /\ b = "rtest" /\ pc[t] = "rwait"
        /\ ififo' = ififo /\ overrun' = overrun
    BY <1>2, <1>15 DEF ReadWait
  <2>2. isem = Sem(isem.count, isem.list)
    BY DEF SyncOK
  <2>3. CASE isem'.count = isem.count - 1 /\ isem'.list = isem.list
    <3>1. Cardinality(Getting') = G + 1
      BY <1>5, <1>6, <1>7, <2>1, <2>3
    <3> QED BY <1>4, <2>1, <2>3, <3>1, UnitSum DEF InOK
  <2>4. CASE isem'.count = isem.count /\ isem'.list = Append(isem.list, t)
    <3>1. Members(isem'.list) = Members(isem.list) \cup {t}
      BY <2>4, InsertLast DEF list_insert_last, SyncOK
    <3>2. \A u \in Users : u \in Getting' <=> u \in Getting
      BY <1>1, <1>2, <2>1, <3>1, MayIff DEF Moves, SyncOK
    <3>3. Getting' = Getting
      BY <3>2 DEF Getting
    <3> QED BY <1>4, <2>1, <2>4, <3>3, UnitSum DEF InOK, G
  <2> QED BY <1>4, <2>1, <2>2, <2>3, <2>4, SemCalls
<1>16. CASE ReadTest(t)
  <2>1. pc[t] = "rtest" /\ isem' = isem /\ ififo' = ififo
    BY <1>16 DEF ReadTest, Store, inVars
  <2>2. CASE b = "loop" /\ overrun' = overrun - 1
    <3>1. Cardinality(Getting') = G - 1
      BY <1>5, <1>6, <1>7, <2>1, <2>2
    <3>2. isem'.count + Cardinality(Getting') = ififo'.count + overrun' /\ overrun' \in Int
      BY <1>4, <2>1, <2>2, <3>1
    <3> QED BY <1>4, <2>1, <3>2, UnitSum DEF InOK
  <2>3. CASE b = "rget" /\ overrun' = overrun
    BY <1>5, <1>6, <1>8, <2>1, <2>3
  <2> QED BY <1>2, <1>16, <2>2, <2>3 DEF ReadTest, Store, inVars
<1>17. CASE ReadGet(t)
  <2>1. /\ pc[t] = "rget" /\ b = "loop" /\ isem' = isem /\ ififo' = tty_fifo_get(ififo)
        /\ overrun' = overrun
    BY <1>2, <1>17 DEF ReadGet, Store
  <2>2. ififo'.count = ififo.count - 1 /\ ififo'.size = ififo.size
    BY <2>1 DEF tty_fifo_get
  <2>3. Cardinality(Getting') = G - 1
    BY <1>5, <1>6, <1>7, <2>1
  <2>4. isem'.count + Cardinality(Getting') = ififo'.count + overrun' /\ ififo'.count \in Int
    BY <1>4, <2>1, <2>2, <2>3
  <2> QED BY <1>4, <2>1, <2>2, <2>4, UnitSum DEF InOK
<1> QED BY <1>10, <1>11, <1>12, <1>13, <1>14, <1>15, <1>16, <1>17 DEF Step

LEMMA InKey ==
    ASSUME SyncOK, WaitOK, SyncOK', WaitOK', InOK, NEW k, tty_in(k)
    PROVE  InOK'
<1> DEFINE G == Cardinality(Getting)
<1>1. pc' = pc /\ isem' = sem_notify(isem)
  BY DEF tty_in
<1>2. Getting \in SUBSET Users
  BY DEF Getting
<1>3. /\ G \in Nat /\ isem.count \in Nat /\ isem'.count \in Nat
      /\ ififo.count \in Int /\ overrun \in Int
      /\ isem.count + G = ififo.count + overrun
  BY <1>2, Cards, UnitSum DEF InOK, SyncOK
<1>4. /\ ififo'.count \in Int /\ ififo'.size = IBUF_SIZE /\ overrun' \in Int
      /\ ififo'.count + overrun' = ififo.count + overrun + 1
  <2>1. CASE ififo' = ififo /\ overrun' = overrun + 1
    BY <1>3, <2>1 DEF InOK
  <2>2. CASE ififo' = tty_fifo_put(ififo, <<Kbd, k>>) /\ overrun' = overrun
    <3>1. ififo'.count = ififo.count + 1 /\ ififo'.size = ififo.size
      BY <2>2 DEF tty_fifo_put
    <3> QED BY <1>3, <2>2, <3>1 DEF InOK
  <2> QED BY <2>1, <2>2 DEF tty_in
<1> HIDE DEF G
<1>5. isem'.count + Cardinality(Getting') = isem.count + G + 1
  <2>1. isem = Sem(isem.count, isem.list)
    BY DEF SyncOK
  <2>2. CASE isem'.count = isem.count + 1 /\ isem'.list = isem.list
    <3>1. \A u \in Users : u \in Getting' <=> u \in Getting
      BY <1>1, <2>2, MayIff
    <3>2. Getting' = Getting
      BY <3>1 DEF Getting
    <3> QED BY <1>3, <2>2, <3>2 DEF G
  <2>3. CASE isem'.count = isem.count /\ isem.list # <<>> /\ isem'.list = Tail(isem.list)
    <3> DEFINE h == Head(isem.list)
    <3>1. /\ h \in Users /\ h \in Members(isem.list)
          /\ Members(isem'.list) = Members(isem.list) \ {h}
      BY <2>3, TaskWoken DEF SyncOK, WaitOK, WaitsAt
    <3>2. pc[h] = "rtest"
      BY <3>1 DEF WaitOK, WaitsAt, AllAt
    <3> HIDE DEF h
    <3>3. h \notin Getting /\ \A u \in Users : u \in Getting' <=> u \in Getting \/ u = h
      BY <1>1, <3>1, <3>2, MayIff
    <3>4. Getting' = Getting \cup {h}
      BY <3>1, <3>3 DEF Getting
    <3>5. Cardinality(Getting') = G + 1
      BY <1>2, <3>1, <3>3, <3>4, Cards DEF G
    <3> QED BY <1>3, <2>3, <3>5
  <2> QED BY <1>1, <1>3, <2>1, <2>2, <2>3, SemCalls
<1> QED BY <1>3, <1>4, <1>5, UnitSum DEF InOK

\* The invariant of the two semaphores.
UnitsOK == SyncOK /\ WaitOK /\ OutOK /\ InOK

LEMMA InitUnits == Init => UnitsOK
<1> SUFFICES ASSUME Init PROVE UnitsOK
  OBVIOUS
<1>1. SyncOK /\ WaitOK
  BY InitSync
<1>2. {t \in Users : MayPut(t)} = {} /\ {t \in Users : MayGet(t)} = {}
      /\ {t \in Users : pc[t] = "notify"} = {}
  BY DEF Init, MayPut, MayGet
<1>3. Cardinality({}) = 0
  BY FS_EmptySet
<1>4. /\ osem.count = OBUF_SIZE /\ isem.count = 0
      /\ ofifo.count = 0 /\ ofifo.size = OBUF_SIZE
      /\ ififo.count = 0 /\ ififo.size = IBUF_SIZE /\ overrun = 0
  BY DEF Init, Sem, tty_fifo_init
<1>5. OutOK
  BY <1>2, <1>3, <1>4, BufferAssumption DEF OutOK, OutputRoom
<1>6. InOK
  BY <1>2, <1>3, <1>4 DEF InOK, InputUnits
<1> QED BY <1>1, <1>5, <1>6 DEF UnitsOK

LEMMA StepUnits == ASSUME UnitsOK, [Next]_vars PROVE UnitsOK'
<1>1. SyncOK' /\ WaitOK'
  BY StepSync DEF UnitsOK
<1>2. CASE UNCHANGED vars
  BY <1>1, <1>2 DEF vars, UnitsOK, OutOK, InOK, OutputRoom, InputUnits, MayPut, MayGet, Blocked
<1>3. CASE Next
  BY <1>1, <1>3, OutStep, OutKey, InStep, InKey DEF UnitsOK, Next
<1> QED BY <1>2, <1>3

\* Every unit of osem is room in the output buffer, however the tasks are
\* interleaved: a task that has passed sem_wait(osem) finds room.
THEOREM OutputHasRoom == Spec => []OutputRoom
<1>1. UnitsOK => OutputRoom
  BY DEF UnitsOK, OutOK
<1>2. UnitsOK /\ [Next]_vars => UnitsOK'
  BY StepUnits
<1> QED BY <1>1, <1>2, InitUnits, PTL DEF Spec

\* isem counts the characters of the input buffer and those for which tty_in had no
\* room, however readers and the interrupt are interleaved.
THEOREM InputIsCounted == Spec => []InputUnits
<1>1. UnitsOK => InputUnits
  BY DEF UnitsOK, InOK
<1>2. UnitsOK /\ [Next]_vars => UnitsOK'
  BY StepUnits
<1> QED BY <1>1, <1>2, InitUnits, PTL DEF Spec

-----------------------------------------------------------------------------
(* tty_fifo_t is a queue.                                                  *)

Wrap(a, n) == IF a < n THEN a ELSE a - n

Ring(f, n) ==
    /\ f.size = n /\ DOMAIN f.buf = 0 .. n - 1
    /\ f.read \in 0 .. n - 1 /\ f.count \in 0 .. n
    /\ f.write = Wrap(f.read + f.count, n)

\* The place of the i-th character.
LEMMA Place ==
    ASSUME NEW n \in Nat \ {0}, NEW f, Ring(f, n), NEW i \in 1 .. n
    PROVE  /\ (f.read + i - 1) % f.size = Wrap(f.read + i - 1, n)
           /\ Wrap(f.read + i - 1, n) \in 0 .. n - 1
<1>1. \A a \in Nat : a < 2 * n => a % n = Wrap(a, n)
  BY DEF Wrap
<1>2. f.read + i - 1 \in Nat /\ f.read + i - 1 < 2 * n /\ f.size = n
  BY DEF Ring
<1> QED BY <1>1, <1>2 DEF Wrap

LEMMA ContentsAre ==
    ASSUME NEW n \in Nat \ {0}, NEW f, Ring(f, n)
    PROVE  Contents(f) = [i \in 1 .. f.count |-> f.buf[Wrap(f.read + i - 1, n)]]
<1>1. \A i \in 1 .. f.count : i \in 1 .. n
  BY DEF Ring
<1>2. \A i \in 1 .. f.count : (f.read + i - 1) % f.size = Wrap(f.read + i - 1, n)
  BY <1>1, Place
<1> QED BY <1>2 DEF Contents

\* tty_fifo_put with room for a character.
LEMMA RingPut ==
    ASSUME NEW n \in Nat \ {0}, NEW f, Ring(f, n), f.count < n, NEW c
    PROVE  /\ Ring(tty_fifo_put(f, c), n)
           /\ tty_fifo_put(f, c).count = f.count + 1
           /\ Contents(tty_fifo_put(f, c))
                = [i \in 1 .. f.count + 1 |-> IF i = f.count + 1 THEN c ELSE Contents(f)[i]]
<1> DEFINE g == tty_fifo_put(f, c)
           m == f.count
           a == f.read
<1>1. /\ g.buf = [f.buf EXCEPT ![f.write] = c] /\ g.size = f.size /\ g.read = f.read
      /\ g.write = (IF f.write + 1 >= f.size THEN 0 ELSE f.write + 1)
      /\ g.count = f.count + 1
  BY DEF tty_fifo_put
<1>2. /\ m \in 0 .. n - 1 /\ a \in 0 .. n - 1 /\ f.size = n /\ DOMAIN f.buf = 0 .. n - 1
      /\ f.write = Wrap(a + m, n) /\ f.write \in 0 .. n - 1
  BY DEF Ring, Wrap
<1> HIDE DEF g, m, a
<1>3. Ring(g, n)
  <2>1. g.size = n /\ DOMAIN g.buf = 0 .. n - 1 /\ g.read = a /\ g.count = m + 1
    BY <1>1, <1>2 DEF m, a
  <2>2. g.write = Wrap(a + (m + 1), n)
    BY <1>1, <1>2 DEF Wrap
  <2>3. m + 1 \in 0 .. n
    BY <1>2
  <2> QED BY <1>2, <2>1, <2>2, <2>3 DEF Ring
<1>4. g.buf[f.write] = c /\ \A j \in 0 .. n - 1 : j # f.write => g.buf[j] = f.buf[j]
  BY <1>1, <1>2
<1>5. \A i \in 1 .. m : /\ Wrap(a + i - 1, n) # f.write /\ Wrap(a + i - 1, n) \in 0 .. n - 1
  BY <1>2 DEF Wrap
<1>6. Wrap(a + (m + 1) - 1, n) = f.write
  BY <1>2 DEF Wrap
<1>7. Contents(f) = [i \in 1 .. m |-> f.buf[Wrap(a + i - 1, n)]]
  BY ContentsAre DEF m, a
<1>8. Contents(g) = [i \in 1 .. m + 1 |-> g.buf[Wrap(a + i - 1, n)]]
  <2>1. g.count = m + 1 /\ g.read = a
    BY <1>1 DEF m, a
  <2> QED BY <1>3, <2>1, ContentsAre
<1>9. ASSUME NEW i \in 1 .. m + 1
      PROVE  g.buf[Wrap(a + i - 1, n)] = IF i = m + 1 THEN c ELSE Contents(f)[i]
  <2>1. CASE i = m + 1
    BY <1>4, <1>6, <2>1
  <2>2. CASE i # m + 1
    <3>1. i \in 1 .. m
      BY <1>2, <2>2
    <3> QED BY <1>4, <1>5, <1>7, <2>2, <3>1
  <2> QED BY <2>1, <2>2
<1>10. Contents(g) = [i \in 1 .. m + 1 |-> IF i = m + 1 THEN c ELSE Contents(f)[i]]
  BY <1>8, <1>9
<1> QED BY <1>1, <1>3, <1>10 DEF g, m

\* tty_fifo_get with a character to take.
LEMMA RingGet ==
    ASSUME NEW n \in Nat \ {0}, NEW f, Ring(f, n), f.count > 0
    PROVE  /\ Ring(tty_fifo_get(f), n)
           /\ tty_fifo_get(f).count = f.count - 1
           /\ Contents(f)[1] = f.buf[f.read]
           /\ Contents(tty_fifo_get(f)) = [i \in 1 .. f.count - 1 |-> Contents(f)[i + 1]]
<1> DEFINE g == tty_fifo_get(f)
           m == f.count
           a == f.read
<1>1. /\ g.buf = f.buf /\ g.size = f.size /\ g.write = f.write
      /\ g.read = (IF f.read + 1 >= f.size THEN 0 ELSE f.read + 1)
      /\ g.count = f.count - 1
  BY DEF tty_fifo_get
<1>2. /\ m \in 1 .. n /\ a \in 0 .. n - 1 /\ f.size = n /\ DOMAIN f.buf = 0 .. n - 1
      /\ f.write = Wrap(a + m, n)
  BY DEF Ring
<1> HIDE DEF g, m, a
<1>3. g.read = Wrap(a + 1, n) /\ g.read \in 0 .. n - 1 /\ g.count = m - 1
  BY <1>1, <1>2 DEF Wrap, m, a
<1>4. Ring(g, n)
  <2>1. g.size = n /\ DOMAIN g.buf = 0 .. n - 1 /\ m - 1 \in 0 .. n
    BY <1>1, <1>2
  <2>2. Wrap(Wrap(a + 1, n) + (m - 1), n) = Wrap(a + m, n)
    BY <1>2 DEF Wrap
  <2>3. g.write = Wrap(g.read + g.count, n)
    BY <1>1, <1>2, <1>3, <2>2
  <2> QED BY <1>3, <2>1, <2>3 DEF Ring
<1>5. Contents(f) = [i \in 1 .. m |-> f.buf[Wrap(a + i - 1, n)]]
  BY ContentsAre DEF m, a
<1>6. Contents(f)[1] = f.buf[a]
  <2>1. 1 \in 1 .. m /\ Wrap(a + 1 - 1, n) = a
    BY <1>2 DEF Wrap
  <2> QED BY <1>5, <2>1
<1>7. Contents(g) = [i \in 1 .. m - 1 |-> f.buf[Wrap(g.read + i - 1, n)]]
  BY <1>1, <1>3, <1>4, ContentsAre
<1>8. ASSUME NEW i \in 1 .. m - 1
      PROVE  f.buf[Wrap(g.read + i - 1, n)] = Contents(f)[i + 1]
  <2>1. i + 1 \in 1 .. m /\ Wrap(g.read + i - 1, n) = Wrap(a + (i + 1) - 1, n)
    BY <1>2, <1>3 DEF Wrap
  <2> QED BY <1>5, <2>1
<1>9. Contents(g) = [i \in 1 .. m - 1 |-> Contents(f)[i + 1]]
  BY <1>7, <1>8
<1> QED BY <1>1, <1>4, <1>6, <1>9 DEF g, m, a

\* The same, for sequences.
LEMMA SeqPut ==
    ASSUME NEW S, NEW q \in Seq(S), NEW c \in S
    PROVE  [i \in 1 .. Len(q) + 1 |-> IF i = Len(q) + 1 THEN c ELSE q[i]] = Append(q, c)
<1> DEFINE r == Append(q, c)
<1>1. /\ Len(q) \in Nat /\ r \in Seq(S) /\ Len(r) = Len(q) + 1
      /\ r[Len(q) + 1] = c /\ \A i \in 1 .. Len(q) : r[i] = q[i]
  BY LenProperties, AppendProperties
<1>2. r = [i \in 1 .. Len(r) |-> r[i]]
  BY <1>1, LenProperties
<1> HIDE DEF r
<1>3. ASSUME NEW i \in 1 .. Len(q) + 1 PROVE r[i] = IF i = Len(q) + 1 THEN c ELSE q[i]
  BY <1>1
<1> QED BY <1>1, <1>2, <1>3 DEF r

LEMMA SeqGet ==
    ASSUME NEW S, NEW q \in Seq(S), Len(q) > 0
    PROVE  /\ [i \in 1 .. Len(q) - 1 |-> q[i + 1]] = Tail(q)
           /\ Tail(q) \in Seq(S) /\ q[1] \in S /\ Len(Tail(q)) = Len(q) - 1
<1>1. q # <<>> /\ Len(q) \in Nat /\ q[1] \in S
  <2>1. Len(q) \in Nat
    BY LenProperties
  <2>2. 1 \in 1 .. Len(q)
    BY <2>1
  <2>3. q[1] \in S
    BY <2>2, ElementOfSeq
  <2> QED BY <2>1, <2>3
<1>2. /\ Tail(q) \in Seq(S) /\ Len(Tail(q)) = Len(q) - 1
      /\ \A i \in 1 .. Len(Tail(q)) : Tail(q)[i] = q[i + 1]
  BY ONLY q \in Seq(S), <1>1, HeadTailProperties
<1>3. Tail(q) = [i \in 1 .. Len(Tail(q)) |-> Tail(q)[i]]
  BY <1>2, LenProperties
<1> QED BY <1>1, <1>2, <1>3

LEMMA ConcatAppend ==
    ASSUME NEW S, NEW p \in Seq(S), NEW q \in Seq(S), NEW c \in S
    PROVE  p \o Append(q, c) = Append(p \o q, c) /\ p \o q \in Seq(S)
<1>1. p \o q \in Seq(S) /\ <<c>> \in Seq(S)
  BY ConcatProperties
<1>2. Append(q, c) = q \o <<c>> /\ Append(p \o q, c) = (p \o q) \o <<c>>
  BY <1>1, AppendIsConcat
<1>3. (p \o q) \o <<c>> = p \o (q \o <<c>>)
  BY <1>1, ConcatAssociative
<1> QED BY <1>1, <1>2, <1>3

LEMMA ConcatTail ==
    ASSUME NEW S, NEW p \in Seq(S), NEW q \in Seq(S), Len(q) > 0
    PROVE  p \o q = Append(p, q[1]) \o Tail(q)
<1> DEFINE h == <<q[1]>>
           r == Tail(q)
<1>1. q[1] \in S /\ r \in Seq(S) /\ h \in Seq(S) /\ Len(r) = Len(q) - 1 /\ Len(h) = 1 /\ h[1] = q[1]
  BY SeqGet
<1>2. /\ h \o r \in Seq(S) /\ Len(h \o r) = 1 + Len(r)
      /\ \A i \in 1 .. 1 + Len(r) : (h \o r)[i] = IF i <= 1 THEN h[i] ELSE r[i - 1]
  BY <1>1, ConcatProperties
<1>3. \A i \in 1 .. Len(r) : r[i] = q[i + 1]
  BY HeadTailProperties
<1>4. Len(h \o r) = Len(q) /\ \A i \in 1 .. Len(h \o r) : (h \o r)[i] = q[i]
  <2>1. Len(q) \in Nat /\ Len(r) = Len(q) - 1
    BY <1>1
  <2> HIDE DEF h, r
  <2>2. ASSUME NEW i \in 1 .. Len(q) PROVE (h \o r)[i] = q[i]
    <3>1. CASE i = 1
      BY <1>1, <1>2, <2>1, <3>1
    <3>2. CASE i > 1
      <4>1. i - 1 \in 1 .. Len(r) /\ i \in 1 .. 1 + Len(r) /\ ~ (i <= 1)
        BY <2>1, <3>2
      <4>2. r[i - 1] = q[(i - 1) + 1]
        BY <1>3, <4>1
      <4> QED BY <1>2, <4>1, <4>2
    <3>3. i = 1 \/ i > 1
      BY ONLY <2>1, i \in 1 .. Len(q)
    <3> QED BY ONLY <3>1, <3>2, <3>3
  <2> QED BY <1>2, <2>1, <2>2
<1>5. q = h \o r
  BY <1>2, <1>4, SeqEqual
<1>6. Append(p, q[1]) = p \o h
  BY <1>1, AppendIsConcat
<1>7. (p \o h) \o r = p \o (h \o r)
  BY <1>1, ConcatAssociative
<1> QED BY <1>5, <1>6, <1>7

LEMMA FifoPut ==
    ASSUME NEW S, NEW n \in Nat \ {0}, NEW f, Ring(f, n), f.count < n, NEW c \in S,
           Contents(f) \in Seq(S)
    PROVE  /\ Ring(tty_fifo_put(f, c), n)
           /\ Contents(tty_fifo_put(f, c)) = Append(Contents(f), c)
           /\ Contents(tty_fifo_put(f, c)) \in Seq(S)
<1>1. Len(Contents(f)) = f.count
  BY DEF Contents, Ring
<1>2. /\ Ring(tty_fifo_put(f, c), n)
      /\ Contents(tty_fifo_put(f, c))
           = [i \in 1 .. f.count + 1 |-> IF i = f.count + 1 THEN c ELSE Contents(f)[i]]
  BY RingPut
<1>3. Contents(tty_fifo_put(f, c)) = Append(Contents(f), c)
  BY <1>1, <1>2, SeqPut
<1>4. Append(Contents(f), c) \in Seq(S)
  BY AppendProperties
<1> QED BY <1>2, <1>3, <1>4

LEMMA FifoGet ==
    ASSUME NEW S, NEW n \in Nat \ {0}, NEW f, Ring(f, n), f.count > 0, Contents(f) \in Seq(S)
    PROVE  /\ Ring(tty_fifo_get(f), n)
           /\ Len(Contents(f)) > 0 /\ Contents(f)[1] = f.buf[f.read] /\ f.buf[f.read] \in S
           /\ Contents(tty_fifo_get(f)) = Tail(Contents(f))
           /\ Contents(tty_fifo_get(f)) \in Seq(S)
<1>1. Len(Contents(f)) = f.count
  BY DEF Contents, Ring
<1>2. /\ Ring(tty_fifo_get(f), n) /\ Contents(f)[1] = f.buf[f.read]
      /\ Contents(tty_fifo_get(f)) = [i \in 1 .. f.count - 1 |-> Contents(f)[i + 1]]
  BY RingGet
<1>3. Contents(tty_fifo_get(f)) = Tail(Contents(f)) /\ Contents(f)[1] \in S
      /\ Tail(Contents(f)) \in Seq(S)
  BY <1>1, <1>2, SeqGet
<1> QED BY <1>1, <1>2, <1>3

LEMMA FifoInit ==
    ASSUME NEW n \in Nat \ {0}
    PROVE  Ring(tty_fifo_init(n), n) /\ Contents(tty_fifo_init(n)) = <<>>
<1>1. /\ tty_fifo_init(n).size = n /\ tty_fifo_init(n).count = 0
      /\ tty_fifo_init(n).read = 0 /\ tty_fifo_init(n).write = 0
      /\ DOMAIN tty_fifo_init(n).buf = 0 .. n - 1
  BY DEF tty_fifo_init
<1>2. Ring(tty_fifo_init(n), n)
  BY <1>1 DEF Ring, Wrap
<1>3. Contents(tty_fifo_init(n)) = <<>>
  BY <1>1 DEF Contents
<1> QED BY <1>2, <1>3

-----------------------------------------------------------------------------
(* What was typed.  While no put into ififo has failed, ififo is a queue   *)
(* and every unit of isem is a character in it.  When one fails, the ring  *)
(* is full of typed characters, and it stays so: what a reader then takes  *)
(* out of turn was typed at some time.                                     *)

Typed == {Kbd} \X Kinds

Faithful ==
    /\ overrun = 0 /\ Ring(ififo, IBUF_SIZE) /\ Contents(ififo) \in Seq(Typed)
    /\ received \in Seq(Typed) /\ typed = received \o Contents(ififo)
    /\ input \in [Users -> Seq(Typed)]

Overrun ==
    /\ DOMAIN ififo.buf = 0 .. IBUF_SIZE - 1
    /\ \A i \in 0 .. IBUF_SIZE - 1 : ififo.buf[i] \in Typed
    /\ ififo.read \in 0 .. IBUF_SIZE - 1 /\ ififo.write \in 0 .. IBUF_SIZE - 1

InputOK ==
    /\ keys \in Nat /\ typed \in Seq(Typed) /\ Len(typed) <= keys
    /\ keys = Len(typed) => Faithful
    /\ keys # Len(typed) => Overrun

\* A reader that has passed sem_wait(isem) finds a character.
LEMMA CharToGet ==
    ASSUME SyncOK, InOK, overrun = 0, NEW t \in Getting
    PROVE  ififo.count > 0
<1>1. Getting \in SUBSET Users
  BY DEF Getting
<1>2. Cardinality(Getting) > 0 /\ Cardinality(Getting) \in Nat
  BY <1>1, Cards
<1>3. isem.count + Cardinality(Getting) = ififo.count
  BY UnitSum DEF InOK
<1> QED BY <1>2, <1>3 DEF SyncOK, InOK

\* A full ring has a character of its contents in every place.
LEMMA FullRing ==
    ASSUME NEW S, NEW n \in Nat \ {0}, NEW f, Ring(f, n), f.count = n, Contents(f) \in Seq(S)
    PROVE  /\ \A j \in 0 .. n - 1 : f.buf[j] \in S
           /\ f.write \in 0 .. n - 1
<1>1. /\ f.read \in 0 .. n - 1 /\ f.write = Wrap(f.read + n, n)
      /\ Contents(f) = [i \in 1 .. n |-> f.buf[Wrap(f.read + i - 1, n)]]
  BY ContentsAre DEF Ring
<1>2. ASSUME NEW i \in 1 .. n PROVE Contents(f)[i] \in S
  <2>1. Len(Contents(f)) = n
    BY DEF Contents
  <2> QED BY <2>1, ElementOfSeq
<1>3. ASSUME NEW j \in 0 .. n - 1 PROVE f.buf[j] \in S
  <2> DEFINE i == IF j >= f.read THEN j - f.read + 1 ELSE j - f.read + n + 1
  <2>0. PICK a : a = f.read /\ a \in 0 .. n - 1
    BY <1>1
  <2>1. i \in 1 .. n /\ Wrap(f.read + i - 1, n) = j
    <3>1. CASE j >= a
      BY <2>0, <3>1 DEF Wrap
    <3>2. CASE j < a
      BY <2>0, <3>2 DEF Wrap
    <3> QED BY <2>0, <3>1, <3>2
  <2> HIDE DEF i
  <2>2. Contents(f)[i] = f.buf[j]
    BY <1>1, <2>1
  <2> QED BY <1>2, <2>1, <2>2
<1> QED BY <1>1, <1>3 DEF Wrap

\* The key goes into ififo, or is lost.
LEMMA InputKey ==
    ASSUME SyncOK, InOK, InputOK, NEW k \in Kinds, tty_in(k)
    PROVE  InputOK'
<1> DEFINE c == <<Kbd, k>>
<1>1. c \in Typed /\ keys' = keys + 1 /\ input' = input /\ received' = received
  BY DEF tty_in, Typed, locals
<1>2. /\ keys \in Nat /\ typed \in Seq(Typed) /\ Len(typed) \in Nat /\ Len(typed) <= keys
      /\ ififo.size = IBUF_SIZE /\ IBUF_SIZE \in Nat \ {0} /\ ififo.count \in Int
  BY BufferAssumption DEF InputOK, InOK
<1> HIDE DEF c
<1>3. CASE ififo.count >= ififo.size
  <2>1. typed' = typed /\ ififo' = ififo
    BY <1>3 DEF tty_in
  <2>2. keys' # Len(typed') /\ keys' \in Nat /\ Len(typed') <= keys'
    BY <1>1, <1>2, <2>1
  <2>3. Overrun
    <3>1. CASE keys = Len(typed)
      <4>1. Ring(ififo, IBUF_SIZE) /\ Contents(ififo) \in Seq(Typed)
        BY <3>1 DEF InputOK, Faithful
      <4>2. ififo.count = IBUF_SIZE
        BY <1>2, <1>3, <4>1 DEF Ring
      <4>3. /\ \A j \in 0 .. IBUF_SIZE - 1 : ififo.buf[j] \in Typed
            /\ ififo.write \in 0 .. IBUF_SIZE - 1
        BY <1>2, <4>1, <4>2, FullRing
      <4> QED BY <4>1, <4>3 DEF Ring, Overrun
    <3>2. CASE keys # Len(typed)
      BY <3>2 DEF InputOK
    <3> QED BY <3>1, <3>2
  <2>4. Overrun'
    BY <2>1, <2>3 DEF Overrun
  <2> QED BY <1>2, <2>1, <2>2, <2>4 DEF InputOK
<1>4. CASE ~ (ififo.count >= ififo.size)
  <2>1. typed' = Append(typed, c) /\ ififo' = tty_fifo_put(ififo, c) /\ overrun' = overrun
    BY <1>4 DEF tty_in, c
  <2>2. typed' \in Seq(Typed) /\ Len(typed') = Len(typed) + 1
    BY <1>1, <1>2, <2>1, AppendProperties
  <2>3. keys' \in Nat /\ Len(typed') <= keys' /\ (keys' = Len(typed') <=> keys = Len(typed))
    BY <1>1, <1>2, <2>2
  <2>4. ASSUME keys = Len(typed) PROVE Faithful'
    <3>1. Faithful
      BY <2>4 DEF InputOK
    <3>2. ififo.count < IBUF_SIZE
      BY <1>2, <1>4
    <3>3. /\ Ring(ififo', IBUF_SIZE) /\ Contents(ififo') = Append(Contents(ififo), c)
          /\ Contents(ififo') \in Seq(Typed)
      <4>1. PICK f : f = ififo /\ ififo' = tty_fifo_put(f, c)
        BY <2>1
      <4>2. Ring(f, IBUF_SIZE) /\ f.count < IBUF_SIZE /\ Contents(f) \in Seq(Typed)
        BY <3>1, <3>2, <4>1 DEF Faithful
      <4>3. c \in Typed /\ IBUF_SIZE \in Nat \ {0}
        BY <1>1, <1>2
      <4>4. /\ Ring(tty_fifo_put(f, c), IBUF_SIZE)
            /\ Contents(tty_fifo_put(f, c)) = Append(Contents(f), c)
            /\ Contents(tty_fifo_put(f, c)) \in Seq(Typed)
        BY ONLY <4>2, <4>3, FifoPut
      <4> QED BY <4>1, <4>4
    <3>4. received \o Append(Contents(ififo), c) = Append(received \o Contents(ififo), c)
      BY <1>1, <3>1, ConcatAppend DEF Faithful
    <3>5. typed' = received' \o Contents(ififo')
      BY <1>1, <2>1, <3>1, <3>3, <3>4 DEF Faithful
    <3> QED BY <1>1, <2>1, <3>1, <3>3, <3>5 DEF Faithful
  <2>5. ASSUME keys # Len(typed) PROVE Overrun'
    <3>1. Overrun
      BY <2>5 DEF InputOK
    <3>2. /\ ififo'.buf = [ififo.buf EXCEPT ![ififo.write] = c] /\ ififo'.read = ififo.read
          /\ ififo'.write = IF ififo.write + 1 >= IBUF_SIZE THEN 0 ELSE ififo.write + 1
      BY <1>2, <2>1 DEF tty_fifo_put
    <3>3. ififo'.write \in 0 .. IBUF_SIZE - 1
      BY <1>2, <3>1, <3>2 DEF Overrun
    <3> QED BY <1>1, <3>1, <3>2, <3>3 DEF Overrun
  <2> QED BY <2>2, <2>3, <2>4, <2>5 DEF InputOK
<1> QED BY <1>3, <1>4

\* The steps of the tasks.
LEMMA InputStep ==
    ASSUME SyncOK, WaitOK, SyncOK', WaitOK', InOK, InputOK, NEW t \in Users,
           CallWrite(t) \/ CallLog(t) \/ CallRead(t) \/ Step(t)
    PROVE  InputOK'
<1>1. ASSUME UNCHANGED <<ififo, typed, received, overrun, keys, input>> PROVE InputOK'
  BY <1>1 DEF InputOK, Faithful, Overrun
<1> USE DEF inVars, locals
<1>2. CASE CallWrite(t) \/ CallLog(t)
  BY <1>1, <1>2 DEF CallWrite, CallLog
<1>3. CASE CallRead(t)
  <2>1. /\ UNCHANGED <<ififo, typed, received, overrun, keys>>
        /\ input' = [input EXCEPT ![t] = <<>>]
    BY <1>3 DEF CallRead
  <2>2. Overrun => Overrun'
    BY <2>1 DEF Overrun
  <2>3. Faithful => Faithful'
    BY <2>1 DEF Faithful
  <2> QED BY <2>1, <2>2, <2>3 DEF InputOK
<1>4. CASE WriteNext(t) \/ WriteWait(t) \/ WriteTest(t) \/ WritePut(t) \/ WriteDone(t)
  BY <1>1, <1>4 DEF WriteNext, WriteWait, WriteTest, WritePut, WriteDone
<1>5. CASE DrainLock(t) \/ DrainTest(t) \/ DrainGet(t)
  BY <1>1, <1>5 DEF DrainLock, DrainTest, DrainGet
<1>6. CASE DrainNotify(t) \/ DrainShow(t) \/ DrainUnlock(t) \/ ReadWait(t)
  BY <1>1, <1>6 DEF DrainNotify, DrainShow, DrainUnlock, ReadWait
<1>7. ASSUME At(t, "rtest") \/ At(t, "rget"), Faithful PROVE ififo.count > 0
  <2>1. t \in Getting
    BY <1>7 DEF At, Getting, MayGet
  <2> QED BY <1>7, <2>1, CharToGet DEF Faithful
<1>8. CASE ReadTest(t)
  <2>1. CASE ififo.count > 0
    <3>1. ~ (ififo.count <= 0)
      BY <2>1 DEF InOK
    <3> QED BY <1>1, <1>8, <3>1 DEF ReadTest
  <2>2. CASE ~ (ififo.count > 0)
    <3>1. ~Faithful
      BY <1>7, <1>8, <2>2 DEF ReadTest
    <3>2. UNCHANGED <<ififo, typed, keys>>
      BY <1>8 DEF ReadTest, Store
    <3>3. Overrun => Overrun'
      BY <3>2 DEF Overrun
    <3> QED BY <3>1, <3>2, <3>3 DEF InputOK
  <2> QED BY <2>1, <2>2
<1>9. CASE ReadGet(t)
  <2> DEFINE c == ififo.buf[ififo.read]
  <2>1. /\ ififo' = tty_fifo_get(ififo) /\ received' = Append(received, c)
        /\ input' = [input EXCEPT ![t] = Append(@, c)] /\ UNCHANGED <<typed, keys, overrun>>
    BY <1>9 DEF ReadGet, Store
  <2>2. IBUF_SIZE \in Nat \ {0} /\ ififo.size = IBUF_SIZE
    BY BufferAssumption DEF InOK
  <2> HIDE DEF c
  <2>3. ASSUME Faithful PROVE Faithful'
    <3>1. ififo.count > 0
      BY <1>7, <1>9, <2>3 DEF ReadGet
    <3>2. /\ Ring(ififo', IBUF_SIZE) /\ Len(Contents(ififo)) > 0 /\ Contents(ififo)[1] = c
          /\ c \in Typed
          /\ Contents(ififo') = Tail(Contents(ififo)) /\ Contents(ififo') \in Seq(Typed)
      BY <2>1, <2>2, <2>3, <3>1, FifoGet DEF Faithful, c
    <3>3. received \o Contents(ififo) = Append(received, c) \o Tail(Contents(ififo))
      BY <2>3, <3>2, ConcatTail DEF Faithful
    <3>4. typed' = received' \o Contents(ififo') /\ received' \in Seq(Typed)
      BY <2>1, <2>3, <3>2, <3>3, AppendProperties DEF Faithful
    <3>5. input' \in [Users -> Seq(Typed)]
      <4>1. Append(input[t], c) \in Seq(Typed)
        BY <2>3, <3>2, AppendProperties DEF Faithful
      <4> QED BY <2>1, <2>3, <4>1 DEF Faithful
    <3> QED BY <2>1, <2>3, <3>2, <3>4, <3>5 DEF Faithful
  <2>4. ASSUME Overrun PROVE Overrun'
    <3>1. /\ ififo'.buf = ififo.buf /\ ififo'.write = ififo.write
          /\ ififo'.read = IF ififo.read + 1 >= IBUF_SIZE THEN 0 ELSE ififo.read + 1
      BY <2>1, <2>2 DEF tty_fifo_get
    <3> QED BY <2>2, <2>4, <3>1 DEF Overrun
  <2> QED BY <2>1, <2>3, <2>4 DEF InputOK
<1> QED BY <1>2, <1>3, <1>4, <1>5, <1>6, <1>8, <1>9 DEF Step

LEMMA InitInput == Init => InputOK
<1> SUFFICES ASSUME Init PROVE InputOK
  OBVIOUS
<1>1. Ring(ififo, IBUF_SIZE) /\ Contents(ififo) = <<>>
  BY FifoInit, BufferAssumption DEF Init
<1>2. /\ keys = 0 /\ typed = <<>> /\ received = <<>> /\ overrun = 0
      /\ input = [t \in Users |-> <<>>]
  BY DEF Init
<1>3. <<>> \in Seq(Typed) /\ <<>> \o <<>> = <<>> /\ Len(<<>>) = 0
  BY ConcatEmptySeq, EmptySeq
<1> QED BY <1>1, <1>2, <1>3 DEF InputOK, Faithful

\* As long as no put into ififo has failed, the readers get what was typed, in that
\* order, and none stores an uninitialised character, although tty_read does not
\* look at the result of tty_fifo_get.
THEOREM InputIsInOrder == Spec => []InputInOrder
<1>1. UnitsOK /\ InputOK => InputInOrder
  <2> SUFFICES ASSUME InputOK, keys = Len(typed) PROVE InputInOrder
    BY DEF InputInOrder
  <2>1. Faithful
    BY DEF InputOK
  <2>2. ASSUME NEW t \in Readers, NEW i \in DOMAIN input[t] PROVE input[t][i][1] = Kbd
    <3>1. input[t] \in Seq(Typed)
      BY <2>1 DEF Faithful, Users
    <3>2. input[t][i] \in Typed
      BY <3>1, LenProperties, ElementOfSeq
    <3> QED BY <3>2 DEF Typed
  <2> QED BY <2>1, <2>2 DEF InputInOrder, Faithful
<1>2. UnitsOK /\ InputOK /\ [Next]_vars => UnitsOK' /\ InputOK'
  <2> SUFFICES ASSUME UnitsOK, InputOK, [Next]_vars PROVE UnitsOK' /\ InputOK'
    OBVIOUS
  <2>1. UnitsOK'
    BY StepUnits
  <2>2. CASE UNCHANGED vars
    <3>1. UNCHANGED <<ififo, typed, received, overrun, keys, input>>
      BY <2>2 DEF vars
    <3>2. InputOK'
      BY <3>1 DEF InputOK, Faithful, Overrun
    <3> QED BY <2>1, <3>2
  <2>3. CASE Next
    <3>1. {"x", "nl"} \subseteq Kinds
      BY DEF Kinds
    <3> QED BY <2>1, <2>3, <3>1, InputStep, InputKey DEF UnitsOK, Next
  <2> QED BY <2>1, <2>2, <2>3
<1> QED BY <1>1, <1>2, InitUnits, InitInput, PTL DEF Spec

-----------------------------------------------------------------------------
(* The display.  Only the owner of the console's mutex takes characters    *)
(* out of ofifo, so that what it has in hand comes before the contents of  *)
(* ofifo and after what is on the screen.                                  *)

Draining == {"gtest", "get", "notify", "show", "unlock"}

HoldsConsole(t) == pc[t] \in Draining /\ t \notin Members(console.list)

ConsoleOK == \A t \in Users : HoldsConsole(t) => console.owner = t

LEMMA ConsoleHeld ==
    ASSUME SyncOK, WaitOK, SyncOK', WaitOK', ConsoleOK, NEW t \in Users,
           CallWrite(t) \/ CallLog(t) \/ CallRead(t) \/ Step(t)
    PROVE  ConsoleOK'
<1>1. PICK b \in PCs : Moves(t, b)
  BY StepMoves
<1>2. /\ pc'[t] = b /\ \A l : Goto(t, l) => b = l
      /\ \A u \in Users : u # t => pc'[u] = pc[u]
  BY <1>1 DEF Goto, Moves, SyncOK
<1>3. t \notin Members(console.list)
  BY <1>1, BlockedIff DEF Moves
<1>4. ASSUME console' = console, pc[t] \in Draining \/ b \notin Draining
      PROVE  ConsoleOK'
  BY <1>2, <1>3, <1>4 DEF ConsoleOK, HoldsConsole
<1>5. mutex' = mutex => console' = console
  BY DEF console
<1> USE DEF At, Draining
<1>6. CASE CallWrite(t) \/ CallRead(t)
  BY <1>2, <1>4, <1>5, <1>6 DEF CallWrite, CallRead
<1>7. CASE CallLog(t) \/ WriteDone(t)
  <2>1. console' = console
    BY <1>7 DEF CallLog, WriteDone, console, SyncOK
  <2>2. b \notin Draining
    BY <1>2, <1>7 DEF CallLog, WriteDone
  <2> QED BY <1>4, <2>1, <2>2
<1>8. CASE WriteNext(t) \/ WriteWait(t) \/ WriteTest(t) \/ WritePut(t)
  BY <1>2, <1>4, <1>5, <1>8 DEF WriteNext, WriteWait, WriteTest, WritePut
<1>9. CASE DrainTest(t) \/ DrainGet(t) \/ DrainNotify(t) \/ DrainShow(t)
  BY <1>4, <1>5, <1>9 DEF DrainTest, DrainGet, DrainNotify, DrainShow
<1>10. CASE ReadWait(t) \/ ReadTest(t) \/ ReadGet(t)
  <2>1. mutex' = mutex
    BY <1>10 DEF ReadWait, ReadTest, ReadGet, Store
  <2>2. b \notin Draining
    BY <1>2, <1>10 DEF ReadWait, ReadTest, ReadGet, Store
  <2> QED BY <1>4, <1>5, <2>1, <2>2
<1>11. CASE DrainLock(t)
  <2>1. console' = mutex_lock(console, t)
    BY <1>11 DEF DrainLock, console, SyncOK
  <2>2. CASE console'.owner = t /\ console.owner = NULL /\ console'.list = console.list
    BY <1>2, <2>2, UsersAssumption DEF ConsoleOK, HoldsConsole
  <2>3. CASE console'.owner = console.owner /\ console'.list = Append(console.list, t)
    <3>1. Members(console'.list) = Members(console.list) \cup {t}
      BY <2>3, InsertLast DEF list_insert_last, SyncOK
    <3> QED BY <1>2, <2>3, <3>1 DEF ConsoleOK, HoldsConsole
  <2> QED BY <2>1, <2>2, <2>3, MutexCalls
<1>12. CASE DrainUnlock(t)
  <2>1. console' = mutex_unlock(console) /\ pc[t] = "unlock" /\ b = "loop"
    BY <1>2, <1>12 DEF DrainUnlock, console, SyncOK
  <2>2. console.owner = t
    BY <1>3, <2>1 DEF ConsoleOK, HoldsConsole
  <2>3. CASE console'.list = console.list
    BY <1>2, <2>1, <2>2, <2>3 DEF ConsoleOK, HoldsConsole
  <2>4. CASE /\ console'.owner = Head(console.list) /\ console.list # <<>>
             /\ console'.list = Tail(console.list)
    <3>1. Members(console'.list) = Members(console.list) \ {Head(console.list)}
      BY <2>4, TaskWoken DEF SyncOK, WaitOK, WaitsAt
    <3> QED BY <1>2, <2>1, <2>2, <2>4, <3>1 DEF ConsoleOK, HoldsConsole
  <2> QED BY <2>1, <2>3, <2>4, MutexCalls
<1> QED BY <1>6, <1>7, <1>8, <1>9, <1>10, <1>11, <1>12 DEF Step

\* The characters a task has in its local variables.
Own(t) == {t} \X Kinds
Shown  == Users \X Kinds

LocalIs(t, l, td, pd) ==
    /\ td \in Seq(Own(t))
    /\ l \in {"wait", "test", "put"} => pd \in Seq(Own(t)) /\ pd # <<>>
    /\ l \in {"notify", "show"} => \E c \in Shown : pd = <<c>>

LocalsOK ==
    /\ todo = [t \in Users |-> todo[t]] /\ pend = [t \in Users |-> pend[t]]
    /\ \A t \in Users : LocalIs(t, pc[t], todo[t], pend[t])

LEMMA LocalsStep ==
    ASSUME SyncOK, LocalsOK, NEW t \in Users, NEW b, Moves(t, b), NEW x, NEW y,
           todo' = [todo EXCEPT ![t] = x], pend' = [pend EXCEPT ![t] = y],
           LocalIs(t, b, x, y)
    PROVE  LocalsOK'
<1>1. /\ pc'[t] = b /\ todo'[t] = x /\ pend'[t] = y
      /\ \A u \in Users : u # t => pc'[u] = pc[u] /\ todo'[u] = todo[u] /\ pend'[u] = pend[u]
  BY DEF Moves, SyncOK, LocalsOK
<1>2. todo' = [u \in Users |-> todo'[u]] /\ pend' = [u \in Users |-> pend'[u]]
  BY DEF LocalsOK
<1> QED BY <1>1, <1>2 DEF LocalsOK

RingOK ==
    /\ Ring(ofifo, OBUF_SIZE) /\ Contents(ofifo) \in Seq(Shown)
    /\ \A t \in Users : pc[t] = "get" => ofifo.count > 0

LEMMA RoomForOne == ASSUME NEW t \in Users PROVE OBUF_SIZE \in Nat \ {0}
<1>1. Cardinality(Users) \in Nat
  BY BufferAssumption, FS_CardinalityType
<1> QED BY <1>1, BufferAssumption

\* A reader takes a character that was typed.
LEMMA CharRead ==
    ASSUME SyncOK, InOK, InputOK, NEW t \in Users, At(t, "rget")
    PROVE  ififo.buf[ififo.read] \in Typed
<1>1. CASE Faithful
  <2>1. t \in Getting
    BY DEF At, Getting, MayGet
  <2>2. ififo.count > 0 /\ IBUF_SIZE \in Nat \ {0}
    BY <1>1, <2>1, CharToGet, BufferAssumption DEF Faithful
  <2>3. Ring(ififo, IBUF_SIZE) /\ Contents(ififo) \in Seq(Typed)
    BY <1>1 DEF Faithful
  <2> QED BY <2>2, <2>3, FifoGet
<1>2. CASE Overrun
  BY <1>2 DEF Overrun
<1> QED BY <1>1, <1>2 DEF InputOK

\* One character is a sequence.
LEMMA OneChar == ASSUME NEW S, NEW c \in S PROVE <<c>> \in Seq(S) /\ <<c>> # <<>>
OBVIOUS

LEMMA MessageIs == ASSUME NEW t \in Writers \cup Loggers PROVE Message(t) \in Seq(Own(t))
<1>1. MSG[t] \in Seq(Kinds)
  BY MsgAssumption
<1> DEFINE q == MSG[t]
<1>2. /\ DOMAIN q = 1 .. Len(q) /\ Len(q) \in Nat /\ \A i \in 1 .. Len(q) : q[i] \in Kinds
  BY <1>1, LenProperties, ElementOfSeq
<1> HIDE DEF q
<1>3. [i \in 1 .. Len(q) |-> <<t, q[i]>>] \in Seq(Own(t))
  BY <1>2 DEF Own
<1> QED BY <1>2, <1>3 DEF Message, q

LEMMA LocalsKept ==
    ASSUME SyncOK, WaitOK, SyncOK', WaitOK', OutOK, InOK, InputOK, LocalsOK, RingOK,
           NEW t \in Users, CallWrite(t) \/ CallLog(t) \/ CallRead(t) \/ Step(t)
    PROVE  LocalsOK'
<1>1. PICK b \in PCs : Moves(t, b)
  BY StepMoves
<1>2. pc'[t] = b /\ \A l : Goto(t, l) => b = l
  BY <1>1 DEF Goto, Moves, SyncOK
<1>3. LocalIs(t, pc[t], todo[t], pend[t])
  BY DEF LocalsOK
<1>4. ASSUME NEW x, NEW y, todo' = [todo EXCEPT ![t] = x], pend' = [pend EXCEPT ![t] = y],
             LocalIs(t, b, x, y)
      PROVE  LocalsOK'
  BY <1>1, <1>4, LocalsStep
<1>5. [todo EXCEPT ![t] = todo[t]] = todo /\ [pend EXCEPT ![t] = pend[t]] = pend
  BY DEF LocalsOK
<1>6. ASSUME UNCHANGED <<todo, pend>>, LocalIs(t, b, todo[t], pend[t]) PROVE LocalsOK'
  BY <1>4, <1>5, <1>6
<1>7. <<>> \in Seq(Own(t))
  BY EmptySeq
<1> USE DEF At, locals
<1>8. CASE CallWrite(t) \/ CallLog(t)
  <2>1. /\ b = "loop" /\ todo' = [todo EXCEPT ![t] = Message(t)] /\ pend' = pend
        /\ t \in Writers \cup Loggers
    BY <1>2, <1>8 DEF CallWrite, CallLog
  <2>2. LocalIs(t, "loop", Message(t), pend[t])
    BY <2>1, MessageIs DEF LocalIs
  <2> QED BY <1>4, <1>5, <2>1, <2>2
<1>9. CASE CallRead(t)
  BY <1>2, <1>3, <1>6, <1>9 DEF CallRead, LocalIs
<1>10. CASE WriteNext(t)
  <2> DEFINE c == Head(todo[t])
             y == IF c[2] = "nl" THEN << <<c[1], "cr">>, c >> ELSE <<c>>
  <2>1. /\ b = "wait" /\ todo[t] # <<>> /\ todo' = [todo EXCEPT ![t] = Tail(todo[t])]
        /\ pend' = [pend EXCEPT ![t] = y]
    BY <1>2, <1>10 DEF WriteNext
  <2>2. c \in Own(t) /\ Tail(todo[t]) \in Seq(Own(t))
    BY <1>3, <2>1, HeadTailProperties DEF LocalIs
  <2> HIDE DEF c
  <2>3. <<c[1], "cr">> \in Own(t)
    BY <2>2 DEF Own, Kinds
  <2>4. <<c>> \in Seq(Own(t)) /\ << <<c[1], "cr">>, c >> \in Seq(Own(t))
    <3> DEFINE d == <<c[1], "cr">>
    <3>1. d \in Own(t)
      BY <2>3
    <3> HIDE DEF d
    <3>2. <<c>> \in Seq(Own(t)) /\ <<d, c>> \in Seq(Own(t))
      BY <2>2, <3>1
    <3> QED BY <3>2 DEF d
  <2>5. y # <<>> /\ y \in Seq(Own(t))
    BY <2>4
  <2> HIDE DEF y
  <2>6. LocalIs(t, "wait", Tail(todo[t]), y)
    BY <2>2, <2>5 DEF LocalIs
  <2> QED BY <1>4, <2>1, <2>6
<1>11. CASE WriteWait(t)
  BY <1>2, <1>3, <1>6, <1>11 DEF WriteWait, LocalIs
<1>12. CASE WriteTest(t)
  <2>1. pc[t] = "test" /\ t \in Putting
    BY <1>12 DEF WriteTest, Putting, MayPut
  <2>2. ~ (ofifo.count >= ofifo.size)
    BY <2>1, RoomToPut, BufferAssumption DEF OutOK
  <2>3. b = "put" /\ UNCHANGED <<todo, pend>>
    BY <1>2, <1>12, <2>2 DEF WriteTest
  <2>4. LocalIs(t, "put", todo[t], pend[t])
    BY <1>3, <2>1 DEF LocalIs
  <2> QED BY <1>6, <2>3, <2>4
<1>13. CASE WritePut(t)
  <2>1. /\ pc[t] = "put" /\ b = (IF Len(pend[t]) > 1 THEN "wait" ELSE "lock")
        /\ todo' = todo /\ pend' = [pend EXCEPT ![t] = Tail(pend[t])]
    BY <1>2, <1>13 DEF WritePut
  <2>2. pend[t] \in Seq(Own(t)) /\ pend[t] # <<>> /\ todo[t] \in Seq(Own(t))
    BY <1>3, <2>1 DEF LocalIs
  <2>3. Tail(pend[t]) \in Seq(Own(t)) /\ Len(Tail(pend[t])) = Len(pend[t]) - 1
    BY <2>2, HeadTailProperties
  <2>4. Len(pend[t]) > 1 => Tail(pend[t]) # <<>>
    <3>1. Len(pend[t]) \in Nat /\ Len(<<>>) = 0
      BY <2>2, LenProperties, EmptySeq
    <3> DEFINE r == Tail(pend[t])
               n == Len(pend[t])
    <3>2. Len(r) = n - 1 /\ n \in Nat
      BY <2>3, <3>1
    <3> HIDE DEF r, n
    <3>3. n > 1 => r # <<>>
      BY ONLY <3>1, <3>2
    <3> QED BY <3>3 DEF r, n
  <2>5. LocalIs(t, b, todo[t], Tail(pend[t]))
    BY <2>1, <2>2, <2>3, <2>4 DEF LocalIs
  <2> QED BY <1>4, <1>5, <2>1, <2>5
<1>14. CASE WriteDone(t)
  <2>1. b \in {"start", "rwait", "done"}
    BY <1>2, <1>14 DEF WriteDone
  <2> QED BY <1>3, <1>6, <1>14, <2>1 DEF WriteDone, LocalIs
<1>15. CASE DrainLock(t) \/ DrainTest(t) \/ DrainUnlock(t)
  <2>1. b \in {"gtest", "unlock", "get", "loop"}
    BY <1>2, <1>15 DEF DrainLock, DrainTest, DrainUnlock
  <2> QED BY <1>3, <1>6, <1>15, <2>1 DEF DrainLock, DrainTest, DrainUnlock, LocalIs
<1>16. CASE DrainGet(t)
  <2> DEFINE c == ofifo.buf[ofifo.read]
  <2>1. /\ pc[t] = "get" /\ b = "notify" /\ todo' = todo /\ pend' = [pend EXCEPT ![t] = <<c>>]
    BY <1>2, <1>16 DEF DrainGet
  <2>2. c \in Shown
    BY <2>1, RoomForOne, FifoGet DEF RingOK
  <2> HIDE DEF c
  <2>3. LocalIs(t, "notify", todo[t], <<c>>)
    BY <1>3, <2>2 DEF LocalIs
  <2> QED BY <1>4, <1>5, <2>1, <2>3
<1>17. CASE DrainNotify(t)
  BY <1>2, <1>3, <1>6, <1>17 DEF DrainNotify, LocalIs
<1>18. CASE DrainShow(t)
  <2>1. b = "gtest" /\ todo' = todo /\ pend' = [pend EXCEPT ![t] = <<>>]
    BY <1>2, <1>18 DEF DrainShow
  <2>2. LocalIs(t, "gtest", todo[t], <<>>)
    BY <1>3 DEF LocalIs
  <2> QED BY <1>4, <1>5, <2>1, <2>2
<1>19. CASE ReadWait(t)
  BY <1>2, <1>3, <1>6, <1>19 DEF ReadWait, LocalIs
<1>20. ASSUME NEW c, c[2] \in Kinds, Store(t, c) PROVE LocalsOK'
  <2>1. /\ b = "loop" /\ todo' = [todo EXCEPT ![t] = << <<t, c[2]>> >>] /\ pend' = pend
    BY <1>2, <1>20 DEF Store
  <2>2. <<t, c[2]>> \in Own(t)
    BY <1>20 DEF Own
  <2>3. << <<t, c[2]>> >> \in Seq(Own(t))
    BY <2>2, OneChar
  <2>4. LocalIs(t, "loop", << <<t, c[2]>> >>, pend[t])
    BY <2>3 DEF LocalIs
  <2> QED BY <1>4, <1>5, <2>1, <2>4
<1>21. CASE ReadTest(t)
  <2>1. CASE \E k \in Kinds : Store(t, <<NULL, k>>)
    BY <1>20, <2>1
  <2>2. CASE b = "rget" /\ UNCHANGED <<todo, pend>>
    BY <1>3, <1>6, <2>2 DEF LocalIs
  <2> QED BY <1>2, <1>21, <2>1, <2>2 DEF ReadTest
<1>22. CASE ReadGet(t)
  <2> DEFINE c == ififo.buf[ififo.read]
  <2>1. Store(t, c) /\ c \in Typed
    BY <1>22, CharRead DEF ReadGet
  <2> HIDE DEF c
  <2>2. c[2] \in Kinds
    BY <2>1 DEF Typed
  <2> QED BY <1>20, <2>1, <2>2
<1> QED BY <1>8, <1>9, <1>10, <1>11, <1>12, <1>13, <1>14, <1>15, <1>16, <1>17, <1>18,
           <1>19, <1>21, <1>22 DEF Step

\* The ring of ofifo in a step of t.  Only the owner of the console finds itself at
\* "get", so nobody else has taken the character it saw.
LEMMA RingKept ==
    ASSUME SyncOK, WaitOK, SyncOK', WaitOK', OutOK, ConsoleOK, LocalsOK, RingOK,
           NEW t \in Users, CallWrite(t) \/ CallLog(t) \/ CallRead(t) \/ Step(t)
    PROVE  RingOK'
<1>1. PICK b \in PCs : Moves(t, b)
  BY StepMoves
<1>2. /\ pc'[t] = b /\ \A l : Goto(t, l) => b = l
      /\ \A u \in Users : u # t => pc'[u] = pc[u]
  BY <1>1 DEF Goto, Moves, SyncOK
<1>3. LocalIs(t, pc[t], todo[t], pend[t]) /\ OBUF_SIZE \in Nat \ {0}
  BY RoomForOne DEF LocalsOK
<1>4. ASSUME ofifo' = ofifo, b = "get" => ofifo.count > 0 PROVE RingOK'
  BY <1>2, <1>4 DEF RingOK
<1> USE DEF At, outVars
<1>5. CASE CallWrite(t) \/ CallLog(t) \/ CallRead(t)
  BY <1>2, <1>4, <1>5 DEF CallWrite, CallLog, CallRead
<1>6. CASE WriteNext(t) \/ WriteWait(t) \/ WriteTest(t)
  BY <1>2, <1>4, <1>6 DEF WriteNext, WriteWait, WriteTest
<1>7. CASE WritePut(t)
  <2> DEFINE c == Head(pend[t])
  <2>1. /\ pc[t] = "put" /\ b \in {"wait", "lock"} /\ ofifo' = tty_fifo_put(ofifo, c)
        /\ t \in Putting
    BY <1>2, <1>7 DEF WritePut, Putting, MayPut
  <2>2. c \in Own(t)
    BY <1>3, <2>1, HeadTailProperties DEF LocalIs
  <2>3. c \in Shown
    BY <2>2 DEF Own, Shown
  <2> HIDE DEF c
  <2>4. ofifo.count < OBUF_SIZE
    BY <2>1, RoomToPut DEF OutOK
  <2>5. Ring(ofifo', OBUF_SIZE) /\ Contents(ofifo') \in Seq(Shown)
    BY <1>3, <2>1, <2>3, <2>4, FifoPut DEF RingOK
  <2>6. ofifo'.count = ofifo.count + 1 /\ ofifo.count \in Int
    BY <2>1 DEF tty_fifo_put, OutOK
  <2> QED BY <1>2, <2>1, <2>5, <2>6 DEF RingOK
<1>8. CASE WriteDone(t) \/ DrainLock(t) \/ DrainUnlock(t)
  <2>1. ofifo' = ofifo
    BY <1>8 DEF WriteDone, DrainLock, DrainUnlock
  <2>2. b # "get"
    BY <1>2, <1>8 DEF WriteDone, DrainLock, DrainUnlock
  <2> QED BY <1>4, <2>1, <2>2
<1>9. CASE DrainTest(t)
  BY <1>2, <1>4, <1>9 DEF DrainTest, OutOK
<1>10. CASE DrainGet(t)
  <2>1. pc[t] = "get" /\ b = "notify" /\ ofifo' = tty_fifo_get(ofifo)
    BY <1>2, <1>10 DEF DrainGet
  <2>2. Ring(ofifo', OBUF_SIZE) /\ Contents(ofifo') \in Seq(Shown)
    BY <1>3, <2>1, FifoGet DEF RingOK
  <2>3. \A u \in Users : pc[u] = "get" => HoldsConsole(u)
    BY DEF HoldsConsole, Draining, WaitOK, WaitsAt, AllAt
  <2>4. \A u \in Users : pc[u] = "get" => u = t
    BY <2>1, <2>3 DEF ConsoleOK
  <2>5. \A u \in Users : pc'[u] # "get"
    BY <1>2, <2>1, <2>4
  <2> QED BY <2>2, <2>5 DEF RingOK
<1>11. CASE DrainNotify(t) \/ DrainShow(t)
  BY <1>2, <1>4, <1>11 DEF DrainNotify, DrainShow
<1>12. CASE ReadWait(t) \/ ReadTest(t) \/ ReadGet(t)
  <2>1. ofifo' = ofifo
    BY <1>12 DEF ReadWait, ReadTest, ReadGet, Store
  <2>2. b # "get"
    BY <1>2, <1>12 DEF ReadWait, ReadTest, ReadGet, Store
  <2> QED BY <1>4, <2>1, <2>2
<1> QED BY <1>5, <1>6, <1>7, <1>8, <1>9, <1>10, <1>11, <1>12 DEF Step

\* Who has a character in hand.
Handing == {t \in Users : pc[t] \in {"notify", "show"}}

LEMMA OneHand ==
    ASSUME WaitOK, ConsoleOK, NEW t \in Users, HoldsConsole(t)
    PROVE  Handing \subseteq {t}
<1>1. \A u \in Users : pc[u] \in {"notify", "show"} => HoldsConsole(u)
  BY DEF HoldsConsole, Draining, WaitOK, WaitsAt, AllAt
<1> QED BY <1>1 DEF ConsoleOK, Handing

LEMMA InHandIs ==
    ASSUME NEW t
    PROVE  /\ Handing = {} => InHand = <<>>
           /\ Handing = {t} => InHand = pend[t]
           /\ Handing' = {} => InHand' = <<>>
           /\ Handing' = {t} => InHand' = pend'[t]
<1>1. (CHOOSE u \in {t} : TRUE) = t
  OBVIOUS
<1>2. InHand = IF Handing = {} THEN <<>> ELSE pend[CHOOSE u \in Handing : TRUE]
  BY DEF InHand, Handing
<1>3. InHand' = IF Handing' = {} THEN <<>> ELSE pend'[CHOOSE u \in Handing' : TRUE]
  BY DEF InHand, Handing
<1> QED BY <1>1, <1>2, <1>3

LEMMA InHandKept ==
    ASSUME Handing' = Handing, \A u \in Handing : pend'[u] = pend[u]
    PROVE  InHand' = InHand
<1>1. InHand = IF Handing = {} THEN <<>> ELSE pend[CHOOSE t \in Handing : TRUE]
  BY DEF InHand, Handing
<1>2. InHand' = IF Handing' = {} THEN <<>> ELSE pend'[CHOOSE t \in Handing' : TRUE]
  BY DEF InHand, Handing
<1>3. Handing # {} => (CHOOSE t \in Handing : TRUE) \in Handing
  OBVIOUS
<1> QED BY <1>1, <1>2, <1>3

\* A character is in hand only where LocalIs says what it is.
LEMMA InHandType == ASSUME LocalsOK PROVE InHand \in Seq(Shown)
<1>1. InHand = IF Handing = {} THEN <<>> ELSE pend[CHOOSE u \in Handing : TRUE]
  BY DEF InHand, Handing
<1>2. ASSUME NEW u \in Handing PROVE pend[u] \in Seq(Shown)
  <2>1. \E c \in Shown : pend[u] = <<c>>
    BY DEF Handing, LocalsOK, LocalIs
  <2> QED BY <2>1, OneChar
<1>3. Handing # {} => (CHOOSE u \in Handing : TRUE) \in Handing
  OBVIOUS
<1> QED BY <1>1, <1>2, <1>3, EmptySeq

QueueOK == screen \in Seq(Shown) /\ sent \in Seq(Shown) /\ OutputInOrder

LEMMA QueueKept ==
    ASSUME SyncOK, WaitOK, SyncOK', WaitOK', OutOK, ConsoleOK, LocalsOK, RingOK, QueueOK,
           NEW t \in Users, CallWrite(t) \/ CallLog(t) \/ CallRead(t) \/ Step(t)
    PROVE  QueueOK'
<1>1. PICK b \in PCs : Moves(t, b)
  BY StepMoves
<1>2. /\ pc'[t] = b /\ \A l : Goto(t, l) => b = l
      /\ \A u \in Users : u # t => pc'[u] = pc[u]
  BY <1>1 DEF Goto, Moves, SyncOK
<1>3. /\ LocalIs(t, pc[t], todo[t], pend[t]) /\ OBUF_SIZE \in Nat \ {0}
      /\ InHand \in Seq(Shown)
  BY RoomForOne, InHandType DEF LocalsOK
<1>4. /\ screen \in Seq(Shown) /\ sent \in Seq(Shown) /\ Contents(ofifo) \in Seq(Shown)
      /\ sent = (screen \o InHand) \o Contents(ofifo)
  BY DEF QueueOK, RingOK, OutputInOrder
<1>5. ASSUME UNCHANGED <<ofifo, screen, sent>>, InHand' = InHand PROVE QueueOK'
  BY <1>5 DEF QueueOK, OutputInOrder
<1>6. ASSUME pc[t] \notin {"notify", "show"}, b \notin {"notify", "show"},
             \A u \in Users : u # t => pend'[u] = pend[u]
      PROVE  InHand' = InHand
  <2>1. Handing' = Handing /\ t \notin Handing
    BY <1>2, <1>6 DEF Handing
  <2>2. \A u \in Handing : pend'[u] = pend[u]
    BY <1>6, <2>1 DEF Handing
  <2> QED BY <2>1, <2>2, InHandKept
<1>7. t \notin Members(console.list)
  BY <1>1, BlockedIff DEF Moves
<1> USE DEF At, outVars
<1>8. CASE CallWrite(t) \/ CallLog(t) \/ CallRead(t)
  BY <1>2, <1>5, <1>6, <1>8 DEF CallWrite, CallLog, CallRead
<1>9. CASE WriteNext(t) \/ WriteTest(t)
  <2>1. \A u \in Users : u # t => pend'[u] = pend[u]
    BY <1>9 DEF WriteNext, WriteTest, LocalsOK
  <2> QED BY <1>2, <1>5, <1>6, <1>9, <2>1 DEF WriteNext, WriteTest
<1>10. CASE WriteWait(t) \/ WriteDone(t)
  <2>1. b \notin {"notify", "show"}
    BY <1>2, <1>10 DEF WriteWait, WriteDone
  <2> QED BY <1>5, <1>6, <1>10, <2>1 DEF WriteWait, WriteDone, locals
<1>11. CASE WritePut(t)
  <2> DEFINE c == Head(pend[t])
             h == screen \o InHand
  <2>1. /\ pc[t] = "put" /\ b \in {"wait", "lock"} /\ ofifo' = tty_fifo_put(ofifo, c)
        /\ t \in Putting /\ sent' = Append(sent, c) /\ screen' = screen
        /\ \A u \in Users : u # t => pend'[u] = pend[u]
    BY <1>2, <1>11 DEF WritePut, Putting, MayPut, LocalsOK
  <2>2. c \in Own(t)
    BY <1>3, <2>1, HeadTailProperties DEF LocalIs
  <2>3. c \in Shown
    BY <2>2 DEF Own, Shown
  <2>4. InHand' = InHand
    BY <1>6, <2>1
  <2>5. h \in Seq(Shown)
    BY <1>3, <1>4, ConcatProperties
  <2> HIDE DEF c, h
  <2>6. ofifo.count < OBUF_SIZE
    BY <2>1, RoomToPut DEF OutOK
  <2>7. Contents(ofifo') = Append(Contents(ofifo), c)
    BY <1>3, <1>4, <2>1, <2>3, <2>6, FifoPut DEF RingOK
  <2>8. h \o Append(Contents(ofifo), c) = Append(h \o Contents(ofifo), c)
    BY <1>4, <2>3, <2>5, ConcatAppend
  <2>9. sent' = (screen' \o InHand') \o Contents(ofifo')
    BY <1>4, <2>1, <2>4, <2>7, <2>8 DEF h
  <2>10. sent' \in Seq(Shown) /\ screen' \in Seq(Shown)
    BY <1>4, <2>1, <2>3, AppendProperties
  <2> QED BY <2>9, <2>10 DEF QueueOK, OutputInOrder
<1>12. CASE DrainLock(t) \/ DrainTest(t) \/ DrainUnlock(t)
  <2>1. b \notin {"notify", "show"}
    BY <1>2, <1>12 DEF DrainLock, DrainTest, DrainUnlock
  <2> QED BY <1>5, <1>6, <1>12, <2>1 DEF DrainLock, DrainTest, DrainUnlock, locals
<1>13. CASE DrainGet(t)
  <2> DEFINE c == ofifo.buf[ofifo.read]
             q == Contents(ofifo)
  <2>1. /\ pc[t] = "get" /\ b = "notify" /\ ofifo' = tty_fifo_get(ofifo)
        /\ sent' = sent /\ screen' = screen /\ pend'[t] = <<c>>
    BY <1>2, <1>13 DEF DrainGet, LocalsOK
  <2>2. HoldsConsole(t)
    BY <1>7, <2>1 DEF HoldsConsole, Draining
  <2>3. Handing = {} /\ Handing' = {t}
    BY <1>2, <2>1, <2>2, OneHand DEF Handing
  <2>4. InHand = <<>> /\ InHand' = <<c>>
    BY <2>1, <2>3, InHandIs
  <2>5. Len(q) > 0 /\ q[1] = c /\ c \in Shown /\ Contents(ofifo') = Tail(q)
    BY <1>3, <1>4, <2>1, FifoGet DEF RingOK
  <2> HIDE DEF c, q
  <2>6. sent = screen \o q
    BY <1>4, <2>4, ConcatEmptySeq DEF q
  <2>7. screen \o q = Append(screen, c) \o Tail(q)
    BY <1>4, <2>5, ConcatTail DEF q
  <2>8. Append(screen, c) = screen \o <<c>>
    BY <1>4, <2>5, AppendIsConcat
  <2> QED BY <1>4, <2>1, <2>4, <2>5, <2>6, <2>7, <2>8 DEF QueueOK, OutputInOrder
<1>14. CASE DrainNotify(t)
  <2>1. pc[t] = "notify" /\ b = "show" /\ pend' = pend /\ UNCHANGED <<ofifo, screen, sent>>
    BY <1>2, <1>14 DEF DrainNotify, locals
  <2>2. Handing' = Handing
    BY <1>2, <2>1 DEF Handing
  <2> QED BY <1>5, <2>1, <2>2, InHandKept
<1>15. CASE DrainShow(t)
  <2>1. /\ pc[t] = "show" /\ b = "gtest" /\ UNCHANGED <<ofifo, sent>>
        /\ screen' = Append(screen, Head(pend[t]))
    BY <1>2, <1>15 DEF DrainShow
  <2>2. HoldsConsole(t)
    BY <1>7, <2>1 DEF HoldsConsole, Draining
  <2>3. Handing = {t} /\ Handing' = {}
    BY <1>2, <2>1, <2>2, OneHand DEF Handing
  <2>4. InHand = pend[t] /\ InHand' = <<>>
    BY <2>3, InHandIs
  <2>5. PICK c \in Shown : pend[t] = <<c>>
    BY <1>3, <2>1 DEF LocalIs
  <2>6. screen' = screen \o InHand /\ screen' \in Seq(Shown)
    BY <1>4, <2>1, <2>4, <2>5, AppendIsConcat, AppendProperties
  <2>7. screen' \o InHand' = screen'
    BY <2>4, <2>6, ConcatEmptySeq
  <2> QED BY <1>4, <2>1, <2>6, <2>7 DEF QueueOK, OutputInOrder
<1>16. CASE ReadWait(t) \/ ReadTest(t) \/ ReadGet(t)
  <2>1. UNCHANGED <<ofifo, screen, sent>> /\ pend' = pend
    BY <1>16 DEF ReadWait, ReadTest, ReadGet, Store, locals
  <2>2. b \notin {"notify", "show"} /\ pc[t] \notin {"notify", "show"}
    BY <1>2, <1>16 DEF ReadWait, ReadTest, ReadGet, Store
  <2> QED BY <1>5, <1>6, <2>1, <2>2
<1> QED BY <1>8, <1>9, <1>10, <1>11, <1>12, <1>13, <1>14, <1>15, <1>16 DEF Step

\* The invariant of the buffers, the drain and the display.
FlowOK == UnitsOK /\ InputOK /\ ConsoleOK /\ LocalsOK /\ RingOK /\ QueueOK

\* Steps that leave the output alone.
LEMMA OutputQuiet ==
    ASSUME ConsoleOK, LocalsOK, RingOK, QueueOK,
           UNCHANGED <<ofifo, mutex, pc, todo, pend, screen, sent>>
    PROVE  ConsoleOK' /\ LocalsOK' /\ RingOK' /\ QueueOK'
<1>1. ConsoleOK'
  BY DEF ConsoleOK, HoldsConsole, console
<1>2. LocalsOK'
  BY DEF LocalsOK
<1>3. RingOK'
  BY DEF RingOK
<1>4. Handing' = Handing
  BY DEF Handing
<1>5. InHand' = InHand
  BY <1>4, InHandKept
<1>6. QueueOK'
  BY <1>5 DEF QueueOK, OutputInOrder
<1> QED BY <1>1, <1>2, <1>3, <1>6

LEMMA StepFlow == ASSUME FlowOK, [Next]_vars PROVE FlowOK'
<1>1. UnitsOK'
  BY StepUnits DEF FlowOK
<1>2. CASE UNCHANGED vars
  <2>1. UNCHANGED <<ififo, typed, received, overrun, keys, input>>
    BY <1>2 DEF vars
  <2>2. UNCHANGED <<ofifo, mutex, pc, todo, pend, screen, sent>>
    BY <1>2 DEF vars
  <2>3. InputOK'
    BY <2>1 DEF FlowOK, InputOK, Faithful, Overrun
  <2> QED BY <1>1, <2>2, <2>3, OutputQuiet DEF FlowOK
<1>3. ASSUME NEW k \in {"x", "nl"}, tty_in(k) PROVE FlowOK'
  <2>1. k \in Kinds
    BY <1>3 DEF Kinds
  <2>2. InputOK'
    BY <1>3, <2>1, InputKey DEF FlowOK, UnitsOK
  <2>3. UNCHANGED <<ofifo, mutex, pc, todo, pend, screen, sent>>
    BY <1>3 DEF tty_in, outVars, locals
  <2> QED BY <1>1, <2>2, <2>3, OutputQuiet DEF FlowOK
<1>4. ASSUME NEW t \in Users, CallWrite(t) \/ CallLog(t) \/ CallRead(t) \/ Step(t)
      PROVE  FlowOK'
  <2>1. /\ SyncOK /\ WaitOK /\ SyncOK' /\ WaitOK' /\ OutOK /\ InOK /\ InputOK /\ ConsoleOK
        /\ LocalsOK /\ RingOK /\ QueueOK
    BY <1>1 DEF FlowOK, UnitsOK
  <2>2. InputOK'
    BY <1>4, <2>1, InputStep
  <2>3. ConsoleOK'
    BY <1>4, <2>1, ConsoleHeld
  <2>4. LocalsOK'
    BY <1>4, <2>1, LocalsKept
  <2>5. RingOK'
    BY <1>4, <2>1, RingKept
  <2>6. QueueOK'
    BY <1>4, <2>1, QueueKept
  <2> QED BY <1>1, <2>2, <2>3, <2>4, <2>5, <2>6 DEF FlowOK
<1> QED BY <1>2, <1>3, <1>4 DEF Next

LEMMA InitFlow == Init => FlowOK
<1> SUFFICES ASSUME Init PROVE FlowOK
  OBVIOUS
<1>1. pc = [t \in Users |-> "start"]
  BY DEF Init
<1>2. ConsoleOK
  BY <1>1 DEF ConsoleOK, HoldsConsole, Draining
<1>3. LocalsOK
  <2>1. todo = [t \in Users |-> <<>>] /\ pend = [t \in Users |-> <<>>]
    BY DEF Init
  <2>2. \A t \in Users : <<>> \in Seq(Own(t))
    BY EmptySeq
  <2> QED BY <1>1, <2>1, <2>2 DEF LocalsOK, LocalIs
<1>4. OBUF_SIZE \in Nat \ {0}
  <2>1. Cardinality(Users) \in Nat
    BY BufferAssumption, FS_CardinalityType
  <2> QED BY <2>1, BufferAssumption
<1>5. Ring(ofifo, OBUF_SIZE) /\ Contents(ofifo) = <<>>
  BY <1>4, FifoInit DEF Init
<1>6. <<>> \in Seq(Shown) /\ <<>> \o <<>> = <<>>
  BY EmptySeq, ConcatEmptySeq
<1>7. RingOK
  BY <1>1, <1>5, <1>6 DEF RingOK
<1>8. Handing = {}
  BY <1>1 DEF Handing
<1>9. InHand = <<>>
  BY <1>8, InHandIs
<1>10. screen = <<>> /\ sent = <<>>
  BY DEF Init
<1>11. QueueOK
  BY <1>5, <1>6, <1>9, <1>10 DEF QueueOK, OutputInOrder
<1> QED BY <1>2, <1>3, <1>7, <1>11, InitUnits, InitInput DEF FlowOK

\* What the tasks put is displayed in that order, once, and nothing is lost,
\* whoever drains ofifo: tests of count outside the protected sections and all.
THEOREM OutputIsInOrder == Spec => []OutputInOrder
<1>1. FlowOK => OutputInOrder
  BY DEF FlowOK, QueueOK
<1>2. FlowOK /\ [Next]_vars => FlowOK'
  BY StepFlow
<1> QED BY <1>1, <1>2, InitFlow, PTL DEF Spec

-----------------------------------------------------------------------------
(* Log lines.  The logger that owns the mutex of klog is the only one that *)
(* puts characters; those that wait for it have put none, and those that   *)
(* have gone have put all of theirs.                                       *)

HoldsLog(t) == pc[t] \notin {"start", "done"} /\ t \notin Members(log.list)

Fresh(t) == pc[t] = "start" \/ t \in Members(log.list)

LogOwned == \A t \in Loggers : HoldsLog(t) => log.owner = t

\* No logger has put a character after one of t.
Latest(q, t) ==
    \A i, j \in DOMAIN q : i < j /\ q[i][1] = t /\ q[j][1] \in Loggers => q[j][1] = t

Silent(q, t) == \A i \in DOMAIN q : q[i][1] # t

Whole(q) ==
    \A i, j, k \in DOMAIN q :
        i < j /\ j < k /\ q[i][1] \in Loggers /\ q[k][1] = q[i][1] /\ q[j][1] \in Loggers
            => q[j][1] = q[i][1]

LinesOK ==
    /\ Whole(sent)
    /\ \A t \in Loggers : HoldsLog(t) => Latest(sent, t)
    /\ \A t \in Loggers : Fresh(t) => Silent(sent, t)

\* A character of t, the only logger that may put one.
LEMMA OneMore ==
    ASSUME NEW q \in Seq(Shown), NEW c \in Shown, Whole(q),
           c[1] \in Loggers => Latest(q, c[1])
    PROVE  /\ Whole(Append(q, c))
           /\ \A u \in Loggers : Silent(q, u) /\ u # c[1] => Silent(Append(q, c), u)
           /\ \A u \in Loggers : Latest(q, u) /\ (c[1] \in Loggers => c[1] = u)
                                    => Latest(Append(q, c), u)
<1> DEFINE r == Append(q, c)
           n == Len(q)
<1>1. /\ n \in Nat /\ DOMAIN q = 1 .. n /\ DOMAIN r = 1 .. n + 1 /\ r[n + 1] = c
      /\ \A i \in 1 .. n : r[i] = q[i]
  BY LenProperties, AppendProperties
<1> HIDE DEF r, n
<1>2. Whole(r)
  <2> SUFFICES ASSUME NEW i \in 1 .. n + 1, NEW j \in 1 .. n + 1, NEW k \in 1 .. n + 1,
                      i < j, j < k, r[i][1] \in Loggers, r[k][1] = r[i][1],
                      r[j][1] \in Loggers
               PROVE  r[j][1] = r[i][1]
    BY <1>1 DEF Whole
  <2>1. i \in 1 .. n /\ j \in 1 .. n
    BY <1>1
  <2>2. CASE k = n + 1
    BY <1>1, <2>1, <2>2 DEF Latest
  <2>3. CASE k \in 1 .. n
    BY <1>1, <2>1, <2>3 DEF Whole
  <2> QED BY <1>1, <2>2, <2>3
<1>3. \A u \in Loggers : Silent(q, u) /\ u # c[1] => Silent(r, u)
  BY <1>1 DEF Silent
<1>4. \A u \in Loggers : Latest(q, u) /\ (c[1] \in Loggers => c[1] = u) => Latest(r, u)
  BY <1>1 DEF Latest
<1> QED BY <1>2, <1>3, <1>4 DEF r

\* Who owns klog's mutex, and who comes to own it.
LEMMA LogHeld ==
    ASSUME SyncOK, WaitOK, SyncOK', WaitOK', LogOwned, NEW t \in Users,
           CallWrite(t) \/ CallLog(t) \/ CallRead(t) \/ Step(t)
    PROVE  /\ LogOwned'
           /\ \A u \in Loggers : /\ HoldsLog(u)' => HoldsLog(u) \/ Fresh(u)
                                 /\ Fresh(u)' => Fresh(u)
<1>1. PICK b \in PCs : Moves(t, b)
  BY StepMoves
<1>2. /\ pc'[t] = b /\ \A l : Goto(t, l) => b = l
      /\ \A u \in Users : u # t => pc'[u] = pc[u]
      /\ Loggers \subseteq Users
  BY <1>1 DEF Goto, Moves, SyncOK, Users
<1>3. t \notin Members(log.list)
  BY <1>1, BlockedIff DEF Moves
<1>4. pc[t] # "done"
  <2> USE DEF At
  <2>1. CASE CallWrite(t) \/ CallLog(t) \/ CallRead(t)
    BY <2>1 DEF CallWrite, CallLog, CallRead
  <2>2. CASE WriteNext(t) \/ WriteWait(t) \/ WriteTest(t) \/ WritePut(t) \/ WriteDone(t)
    BY <2>2 DEF WriteNext, WriteWait, WriteTest, WritePut, WriteDone
  <2>3. CASE DrainLock(t) \/ DrainTest(t) \/ DrainGet(t) \/ DrainNotify(t) \/ DrainShow(t)
    BY <2>3 DEF DrainLock, DrainTest, DrainGet, DrainNotify, DrainShow
  <2>4. CASE DrainUnlock(t) \/ ReadWait(t) \/ ReadTest(t) \/ ReadGet(t)
    BY <2>4 DEF DrainUnlock, ReadWait, ReadTest, ReadGet
  <2> QED BY <2>1, <2>2, <2>3, <2>4 DEF Step
<1>5. t \in Loggers => t \notin Writers /\ t \notin Readers
  BY UsersAssumption
<1>6. \A u \in Loggers : HoldsLog(u)' => HoldsLog(u) \/ Fresh(u)
  BY <1>2, <1>4 DEF HoldsLog, Fresh
<1>7. ASSUME log' = log, t \in Loggers => pc[t] # "start" /\ b # "start"
      PROVE  LogOwned' /\ \A u \in Loggers : Fresh(u)' => Fresh(u)
  BY <1>2, <1>3, <1>4, <1>7 DEF LogOwned, HoldsLog, Fresh
<1>8. mutex' = mutex => log' = log
  BY DEF log
<1> USE DEF At
<1>9. CASE CallWrite(t) \/ CallRead(t)
  BY <1>5, <1>6, <1>7, <1>8, <1>9 DEF CallWrite, CallRead
<1>10. CASE CallLog(t)
  <2>1. log' = mutex_lock(log, t) /\ pc[t] = "start" /\ b = "loop"
    BY <1>2, <1>10 DEF CallLog, log, SyncOK
  <2>2. CASE log'.owner = t /\ log.owner = NULL /\ log'.list = log.list
    BY <1>2, <1>6, <2>1, <2>2, UsersAssumption DEF LogOwned, HoldsLog, Fresh
  <2>3. CASE log'.owner = log.owner /\ log'.list = Append(log.list, t)
    <3>1. Members(log'.list) = Members(log.list) \cup {t}
      BY <2>3, InsertLast DEF list_insert_last, SyncOK
    <3> QED BY <1>2, <1>6, <2>1, <2>3, <3>1 DEF LogOwned, HoldsLog, Fresh
  <2> QED BY <2>1, <2>2, <2>3, MutexCalls
<1>11. CASE WriteNext(t) \/ WriteWait(t) \/ WriteTest(t) \/ WritePut(t)
  BY <1>2, <1>6, <1>7, <1>8, <1>11 DEF WriteNext, WriteWait, WriteTest, WritePut
<1>12. CASE WriteDone(t) /\ t \in Loggers
  <2>1. log' = mutex_unlock(log) /\ pc[t] = "loop" /\ b = "done"
    BY <1>2, <1>5, <1>12 DEF WriteDone, log, SyncOK
  <2>2. log.owner = t
    BY <1>3, <1>12, <2>1 DEF LogOwned, HoldsLog
  <2>3. CASE log'.list = log.list
    BY <1>2, <1>6, <2>1, <2>2, <2>3 DEF LogOwned, HoldsLog, Fresh
  <2>4. CASE log'.owner = Head(log.list) /\ log.list # <<>> /\ log'.list = Tail(log.list)
    <3>1. Members(log'.list) = Members(log.list) \ {Head(log.list)}
      BY <2>4, TaskWoken DEF SyncOK, WaitOK, WaitsAt
    <3>2. LogOwned'
      BY <1>2, <2>1, <2>2, <2>4, <3>1 DEF LogOwned, HoldsLog
    <3>3. \A u \in Loggers : Fresh(u)' => Fresh(u)
      BY <1>2, <2>1, <3>1 DEF Fresh
    <3> QED BY <1>6, <3>2, <3>3
  <2> QED BY <2>1, <2>3, <2>4, MutexCalls
<1>13. CASE WriteDone(t) /\ t \notin Loggers
  BY <1>6, <1>7, <1>8, <1>13 DEF WriteDone
<1>14. CASE DrainLock(t) \/ DrainUnlock(t)
  <2>1. log' = log
    BY <1>14 DEF DrainLock, DrainUnlock, log, SyncOK
  <2> QED BY <1>2, <1>6, <1>7, <1>14, <2>1 DEF DrainLock, DrainUnlock
<1>15. CASE DrainTest(t) \/ DrainGet(t) \/ DrainNotify(t) \/ DrainShow(t)
  <2>1. mutex' = mutex /\ pc[t] # "start"
    BY <1>15 DEF DrainTest, DrainGet, DrainNotify, DrainShow
  <2>2. b # "start"
    BY <1>2, <1>15 DEF DrainTest, DrainGet, DrainNotify, DrainShow
  <2> QED BY <1>6, <1>7, <1>8, <2>1, <2>2
<1>16. CASE ReadWait(t) \/ ReadTest(t) \/ ReadGet(t)
  <2>1. mutex' = mutex /\ pc[t] # "start"
    BY <1>16 DEF ReadWait, ReadTest, ReadGet, Store
  <2>2. b # "start"
    BY <1>2, <1>16 DEF ReadWait, ReadTest, ReadGet, Store
  <2> QED BY <1>6, <1>7, <1>8, <2>1, <2>2
<1> QED BY <1>9, <1>10, <1>11, <1>12, <1>13, <1>14, <1>15, <1>16 DEF Step

LEMMA LinesKept ==
    ASSUME SyncOK, WaitOK, SyncOK', WaitOK', LogOwned, LinesOK, LocalsOK, QueueOK,
           NEW t \in Users, CallWrite(t) \/ CallLog(t) \/ CallRead(t) \/ Step(t)
    PROVE  LogOwned' /\ LinesOK'
<1>1. /\ LogOwned'
      /\ \A u \in Loggers : /\ HoldsLog(u)' => HoldsLog(u) \/ Fresh(u)
                            /\ Fresh(u)' => Fresh(u)
  BY LogHeld
<1>2. \A u \in Loggers : Silent(sent, u) => Latest(sent, u)
  BY DEF Silent, Latest
<1>3. /\ \A u \in Loggers : HoldsLog(u)' => Latest(sent, u)
      /\ \A u \in Loggers : Fresh(u)' => Silent(sent, u)
  BY <1>1, <1>2 DEF LinesOK
<1>4. ASSUME sent' = sent PROVE LinesOK'
  BY <1>3, <1>4 DEF LinesOK
<1> USE DEF outVars
<1>5. CASE CallWrite(t) \/ CallLog(t) \/ CallRead(t)
  BY <1>1, <1>4, <1>5 DEF CallWrite, CallLog, CallRead
<1>6. CASE WriteNext(t) \/ WriteWait(t) \/ WriteTest(t) \/ WriteDone(t)
  BY <1>1, <1>4, <1>6 DEF WriteNext, WriteWait, WriteTest, WriteDone
<1>7. CASE DrainLock(t) \/ DrainTest(t) \/ DrainGet(t) \/ DrainNotify(t) \/ DrainShow(t)
  BY <1>1, <1>4, <1>7 DEF DrainLock, DrainTest, DrainGet, DrainNotify, DrainShow
<1>8. CASE DrainUnlock(t) \/ ReadWait(t) \/ ReadTest(t) \/ ReadGet(t)
  BY <1>1, <1>4, <1>8 DEF DrainUnlock, ReadWait, ReadTest, ReadGet, Store
<1>9. CASE WritePut(t)
  <2> DEFINE c == Head(pend[t])
  <2>1. /\ pc[t] = "put" /\ ~Blocked(t) /\ sent' = Append(sent, c) /\ mutex' = mutex
        /\ Goto(t, IF Len(pend[t]) > 1 THEN "wait" ELSE "lock")
    BY <1>9 DEF WritePut, At
  <2>2. c \in Own(t)
    BY <2>1, HeadTailProperties DEF LocalsOK, LocalIs
  <2>3. c \in Shown /\ c[1] = t /\ sent \in Seq(Shown)
    BY <2>2 DEF Own, Shown, QueueOK
  <2> HIDE DEF c
  <2>4. HoldsLog(t)
    BY <2>1, BlockedIff DEF HoldsLog
  <2>5. Whole(sent) /\ (t \in Loggers => Latest(sent, t))
    BY <2>4 DEF LinesOK
  <2>6. /\ Whole(sent')
        /\ \A u \in Loggers : Silent(sent, u) /\ u # t => Silent(sent', u)
        /\ \A u \in Loggers : Latest(sent, u) /\ (t \in Loggers => t = u) => Latest(sent', u)
    BY <2>1, <2>3, <2>5, OneMore
  <2>7. log' = log
    BY <2>1 DEF log
  <2>8. \A u \in Loggers : HoldsLog(u)' => (t \in Loggers => t = u)
    BY <1>1, <2>4, <2>7 DEF LogOwned
  <2>9. \A u \in Loggers : Fresh(u)' => u # t
    <3>1. t \notin Members(log'.list)
      BY <2>1, <2>7, BlockedIff
    <3>2. pc'[t] # "start"
      BY <2>1 DEF Goto, SyncOK
    <3> QED BY <3>1, <3>2 DEF Fresh
  <2>10. LinesOK'
    BY <1>3, <2>6, <2>8, <2>9 DEF LinesOK
  <2> QED BY <1>1, <2>10
<1> QED BY <1>5, <1>6, <1>7, <1>8, <1>9 DEF Step

\* The screen shows the beginning of what was put.
LEMMA ScreenIsPrefix ==
    ASSUME FlowOK
    PROVE  /\ DOMAIN screen \subseteq DOMAIN sent
           /\ \A i \in DOMAIN screen : screen[i] = sent[i] /\ i \in Nat
<1> DEFINE h == InHand
           q == Contents(ofifo)
<1>1. /\ screen \in Seq(Shown) /\ h \in Seq(Shown) /\ q \in Seq(Shown)
      /\ sent = (screen \o h) \o q
  BY InHandType DEF FlowOK, QueueOK, RingOK, OutputInOrder
<1> HIDE DEF h, q
<1>2. /\ screen \o h \in Seq(Shown) /\ Len(screen \o h) = Len(screen) + Len(h)
      /\ \A i \in 1 .. Len(screen) + Len(h) :
            (screen \o h)[i] = IF i <= Len(screen) THEN screen[i] ELSE h[i - Len(screen)]
  BY <1>1, ConcatProperties
<1> DEFINE p == screen \o h
<1>3. /\ p \in Seq(Shown) /\ Len(p) = Len(screen) + Len(h) /\ sent = p \o q
      /\ \A i \in 1 .. Len(screen) + Len(h) : i <= Len(screen) => p[i] = screen[i]
  BY <1>1, <1>2
<1> HIDE DEF p
<1>4. /\ p \o q \in Seq(Shown) /\ Len(p \o q) = Len(p) + Len(q)
      /\ \A i \in 1 .. Len(p) + Len(q) :
            (p \o q)[i] = IF i <= Len(p) THEN p[i] ELSE q[i - Len(p)]
  <2>1. p \in Seq(Shown) /\ q \in Seq(Shown)
    BY <1>1, <1>3
  <2> QED BY ONLY <2>1, ConcatProperties
<1>5. /\ Len(screen) \in Nat /\ Len(h) \in Nat /\ Len(q) \in Nat
      /\ DOMAIN screen = 1 .. Len(screen) /\ DOMAIN (p \o q) = 1 .. Len(p \o q)
  BY <1>1, <1>4, LenProperties
<1> DEFINE r == p \o q
           n == Len(screen)
           m == Len(p) + Len(q)
<1>6. /\ n \in Nat /\ m \in Nat /\ Len(p) \in Nat /\ n <= Len(p) /\ Len(p) <= m
      /\ DOMAIN r = 1 .. m
  BY <1>3, <1>4, <1>5
<1>7. \A i \in 1 .. m : i <= Len(p) => r[i] = p[i]
  BY <1>4
<1>8. \A i \in 1 .. Len(p) : i <= n => p[i] = screen[i]
  BY <1>3
<1> HIDE DEF r, n, m
<1>9. \A i \in 1 .. n : i \in 1 .. m /\ i \in Nat /\ r[i] = screen[i]
  BY <1>6, <1>7, <1>8
<1>10. DOMAIN screen = 1 .. n /\ sent = r
  BY <1>3, <1>5 DEF n, r
<1> QED BY <1>6, <1>9, <1>10

\* klog holds its mutex until its line is put, so that no two log lines are mixed on
\* the display, whatever other tasks write in between.
THEOREM LogIsWhole == Spec => []LogLinesWhole
<1>1. FlowOK /\ LogOwned /\ LinesOK => LogLinesWhole
  <2> SUFFICES ASSUME FlowOK, LinesOK PROVE LogLinesWhole
    OBVIOUS
  <2>1. Whole(sent)
    BY DEF LinesOK
  <2> QED BY <2>1, ScreenIsPrefix DEF LogLinesWhole, Whole
<1>2. Init => FlowOK /\ LogOwned /\ LinesOK
  <2> SUFFICES ASSUME Init PROVE FlowOK /\ LogOwned /\ LinesOK
    OBVIOUS
  <2>1. pc = [t \in Users |-> "start"] /\ DOMAIN sent = {} /\ Loggers \subseteq Users
    BY DEF Init, Users
  <2> QED BY <2>1, InitFlow DEF LogOwned, HoldsLog, LinesOK, Whole, Latest, Silent
<1>3. FlowOK /\ LogOwned /\ LinesOK /\ [Next]_vars => FlowOK' /\ LogOwned' /\ LinesOK'
  <2> SUFFICES ASSUME FlowOK, LogOwned, LinesOK, [Next]_vars
               PROVE  FlowOK' /\ LogOwned' /\ LinesOK'
    OBVIOUS
  <2>1. FlowOK'
    BY StepFlow
  <2>2. ASSUME UNCHANGED <<pc, mutex, sent>> PROVE LogOwned' /\ LinesOK'
    BY <2>2 DEF LogOwned, HoldsLog, LinesOK, Fresh, log
  <2>3. CASE UNCHANGED vars
    BY <2>1, <2>2, <2>3 DEF vars
  <2>4. ASSUME NEW k, tty_in(k) PROVE LogOwned' /\ LinesOK'
    BY <2>2, <2>4 DEF tty_in, outVars
  <2>5. ASSUME NEW t \in Users, CallWrite(t) \/ CallLog(t) \/ CallRead(t) \/ Step(t)
        PROVE  LogOwned' /\ LinesOK'
    <3>1. SyncOK /\ WaitOK /\ SyncOK' /\ WaitOK' /\ LocalsOK /\ QueueOK
      BY <2>1 DEF FlowOK, UnitsOK
    <3> QED BY <2>5, <3>1, LinesKept
  <2> QED BY <2>1, <2>3, <2>4, <2>5 DEF Next
<1> QED BY <1>1, <1>2, <1>3, PTL DEF Spec

-----------------------------------------------------------------------------
(* What a task has written.  Its characters are put one by one, a '\r'     *)
(* before its '\n', and are on the display when its drain has found ofifo  *)
(* empty.                                                                  *)

\* The places of all characters of t on q, a sequence with domain D, and of one '\r' more.
HasAt(q, D, t, n, at, cr) ==
    /\ at \in [1 .. n -> D] /\ cr \in [1 .. n -> D]
    /\ InLine(q, t, n, at, cr)
    /\ \A p \in D : q[p][1] = t => \E i \in 1 .. n : p = at[i] \/ p = cr[i]

HalfAt(q, D, t, n, at, cr, e) ==
    /\ at \in [1 .. n -> D] /\ cr \in [1 .. n -> D] /\ e \in D
    /\ InLine(q, t, n, at, cr)
    /\ q[e] = <<t, "cr">> /\ (n > 0 => at[n] < e)
    /\ \A p \in D : q[p][1] = t => p = e \/ \E i \in 1 .. n : p = at[i] \/ p = cr[i]

\* The first n characters of t's message and the '\r' of the next one.
Half(q, t, n) == \E at, cr, e : HalfAt(q, DOMAIN q, t, n, at, cr, e)

LEMMA HasIs ==
    ASSUME NEW q, NEW t, NEW n
    PROVE  Has(q, t, n) <=> \E at, cr : HasAt(q, DOMAIN q, t, n, at, cr)
BY DEF Has, HasAt

\* r is q, of length m, and the character c.
Grown(q, c, r, m) ==
    /\ m \in Nat /\ DOMAIN q = 1 .. m /\ DOMAIN r = 1 .. m + 1 /\ r[m + 1] = c
    /\ \A i \in 1 .. m : r[i] = q[i]

LEMMA GrownIs ==
    ASSUME NEW S, NEW q \in Seq(S), NEW c \in S
    PROVE  Grown(q, c, Append(q, c), Len(q))
BY LenProperties, AppendProperties DEF Grown

\* The characters in line stay where they are.
LEMMA InLineGrows ==
    ASSUME NEW q, NEW c, NEW r, NEW m, Grown(q, c, r, m), NEW t, NEW n \in Nat,
           NEW at \in [1 .. n -> 1 .. m], NEW cr \in [1 .. n -> 1 .. m],
           InLine(q, t, n, at, cr)
    PROVE  InLine(r, t, n, at, cr)
<1> SUFFICES ASSUME NEW i \in 1 .. n
             PROVE  /\ r[at[i]] = <<t, MSG[t][i]>>
                    /\ IF MSG[t][i] = "nl" THEN cr[i] < at[i] /\ r[cr[i]] = <<t, "cr">>
                                           ELSE cr[i] = at[i]
                    /\ i > 1 => at[i - 1] < cr[i]
  BY DEF InLine
<1>1. r[at[i]] = q[at[i]] /\ r[cr[i]] = q[cr[i]]
  BY DEF Grown
<1> QED BY <1>1 DEF InLine

LEMMA HasOther ==
    ASSUME NEW q, NEW c, NEW r, NEW m, Grown(q, c, r, m), NEW t, NEW n \in Nat, c[1] # t
    PROVE  (Has(q, t, n) => Has(r, t, n)) /\ (Half(q, t, n) => Half(r, t, n))
<1>1. /\ m \in Nat /\ DOMAIN q = 1 .. m /\ DOMAIN r = 1 .. m + 1 /\ r[m + 1] = c
      /\ \A p \in 1 .. m : r[p] = q[p]
  BY DEF Grown
<1>2. \A f \in [1 .. n -> 1 .. m] : f \in [1 .. n -> 1 .. m + 1]
  BY <1>1
<1>3. \A p \in 1 .. m + 1 : r[p][1] = t => p \in 1 .. m /\ q[p][1] = t
  BY <1>1
<1>4. ASSUME Has(q, t, n) PROVE Has(r, t, n)
  <2>1. PICK at, cr : HasAt(q, 1 .. m, t, n, at, cr)
    BY <1>1, <1>4, HasIs
  <2>2. InLine(r, t, n, at, cr)
    BY <2>1, InLineGrows DEF HasAt
  <2>3. HasAt(r, 1 .. m + 1, t, n, at, cr)
    BY <1>2, <1>3, <2>1, <2>2 DEF HasAt
  <2> QED BY <1>1, <2>3, HasIs
<1>5. ASSUME Half(q, t, n) PROVE Half(r, t, n)
  <2>1. PICK at, cr, e : HalfAt(q, 1 .. m, t, n, at, cr, e)
    BY <1>1, <1>5 DEF Half
  <2>2. InLine(r, t, n, at, cr)
    BY <2>1, InLineGrows DEF HalfAt
  <2>3. e \in 1 .. m + 1 /\ r[e] = <<t, "cr">>
    BY <1>1, <2>1 DEF HalfAt
  <2>4. HalfAt(r, 1 .. m + 1, t, n, at, cr, e)
    BY <1>2, <1>3, <2>1, <2>2, <2>3 DEF HalfAt
  <2> QED BY <1>1, <2>4 DEF Half
<1> QED BY <1>4, <1>5

LEMMA HalfPut ==
    ASSUME NEW q, NEW t, NEW r, NEW m, Grown(q, <<t, "cr">>, r, m), NEW n \in Nat, Has(q, t, n)
    PROVE  Half(r, t, n)
<1>1. /\ m \in Nat /\ DOMAIN q = 1 .. m /\ DOMAIN r = 1 .. m + 1 /\ r[m + 1] = <<t, "cr">>
      /\ \A p \in 1 .. m : r[p] = q[p]
  BY DEF Grown
<1>2. PICK at, cr : HasAt(q, 1 .. m, t, n, at, cr)
  BY <1>1, HasIs
<1>3. InLine(r, t, n, at, cr)
  BY <1>2, InLineGrows DEF HasAt
<1>4. at \in [1 .. n -> 1 .. m + 1] /\ cr \in [1 .. n -> 1 .. m + 1] /\ m + 1 \in 1 .. m + 1
  BY <1>1, <1>2 DEF HasAt
<1>5. n > 0 => at[n] < m + 1
  BY <1>1, <1>2 DEF HasAt
<1>6. ASSUME NEW p \in 1 .. m + 1, r[p][1] = t, p # m + 1
      PROVE  \E i \in 1 .. n : p = at[i] \/ p = cr[i]
  <2>1. p \in 1 .. m /\ q[p][1] = t
    BY <1>1, <1>6
  <2> QED BY <1>2, <2>1 DEF HasAt
<1>7. HalfAt(r, 1 .. m + 1, t, n, at, cr, m + 1)
  BY <1>1, <1>3, <1>4, <1>5, <1>6 DEF HalfAt
<1> QED BY <1>1, <1>7 DEF Half

\* The next character, at the end of r, after its '\r' at e if it is a '\n'.
NextAt(q, r, m, t, n, at, cr, e) ==
    /\ at \in [1 .. n -> 1 .. m] /\ cr \in [1 .. n -> 1 .. m] /\ e \in 1 .. m + 1
    /\ InLine(q, t, n, at, cr) /\ (n > 0 => at[n] < e)
    /\ IF MSG[t][n + 1] = "nl" THEN e < m + 1 /\ r[e] = <<t, "cr">> ELSE e = m + 1
    /\ \A p \in 1 .. m : q[p][1] = t => p = e \/ \E i \in 1 .. n : p = at[i] \/ p = cr[i]

LEMMA OneMoreInLine ==
    ASSUME NEW q, NEW c, NEW r, NEW m, Grown(q, c, r, m), NEW t, NEW n \in Nat,
           c = <<t, MSG[t][n + 1]>>, NEW at, NEW cr, NEW e, NextAt(q, r, m, t, n, at, cr, e)
    PROVE  Has(r, t, n + 1)
<1> USE DEF NextAt
<1>1. /\ m \in Nat /\ DOMAIN r = 1 .. m + 1 /\ r[m + 1] = c
      /\ \A p \in 1 .. m : r[p] = q[p]
  BY DEF Grown
<1> DEFINE at1 == [i \in 1 .. n + 1 |-> IF i = n + 1 THEN m + 1 ELSE at[i]]
           cr1 == [i \in 1 .. n + 1 |-> IF i = n + 1 THEN e ELSE cr[i]]
<1>2. at1 \in [1 .. n + 1 -> 1 .. m + 1] /\ cr1 \in [1 .. n + 1 -> 1 .. m + 1]
  BY <1>1
<1>3. /\ at1[n + 1] = m + 1 /\ cr1[n + 1] = e
      /\ \A i \in 1 .. n : i \in 1 .. n + 1 /\ at1[i] = at[i] /\ cr1[i] = cr[i]
  OBVIOUS
<1> HIDE DEF at1, cr1
<1>4. InLine(r, t, n, at, cr)
  BY InLineGrows
<1>5. InLine(r, t, n + 1, at1, cr1)
  <2> SUFFICES ASSUME NEW i \in 1 .. n + 1
               PROVE  /\ r[at1[i]] = <<t, MSG[t][i]>>
                      /\ IF MSG[t][i] = "nl" THEN cr1[i] < at1[i] /\ r[cr1[i]] = <<t, "cr">>
                                             ELSE cr1[i] = at1[i]
                      /\ i > 1 => at1[i - 1] < cr1[i]
    BY DEF InLine
  <2>1. CASE i = n + 1
    <3>1. i > 1 => at1[i - 1] = at[n] /\ n > 0
      BY <1>3, <2>1
    <3> QED BY <1>1, <1>3, <2>1, <3>1
  <2>2. CASE i \in 1 .. n
    <3>1. i > 1 => at1[i - 1] = at[i - 1]
      BY <1>3, <2>2
    <3>2. at1[i] = at[i] /\ cr1[i] = cr[i]
      BY <1>3, <2>2
    <3> QED BY <1>4, <2>2, <3>1, <3>2 DEF InLine
  <2> QED BY <2>1, <2>2
<1>6. ASSUME NEW p \in 1 .. m + 1, r[p][1] = t
      PROVE  \E i \in 1 .. n + 1 : p = at1[i] \/ p = cr1[i]
  <2>1. n + 1 \in 1 .. n + 1
    OBVIOUS
  <2>2. CASE p = m + 1 \/ p = e
    BY <1>3, <2>1, <2>2
  <2>3. CASE p \in 1 .. m /\ p # e
    <3>1. q[p][1] = t
      BY <1>1, <1>6, <2>3
    <3>2. PICK i \in 1 .. n : p = at[i] \/ p = cr[i]
      BY <2>3, <3>1
    <3> QED BY <1>3, <3>2
  <2> QED BY <1>1, <2>2, <2>3
<1>7. HasAt(r, 1 .. m + 1, t, n + 1, at1, cr1)
  BY <1>2, <1>5, <1>6 DEF HasAt
<1> QED BY <1>1, <1>7, HasIs

LEMMA HasPut ==
    ASSUME NEW q, NEW c, NEW r, NEW m, Grown(q, c, r, m), NEW t, NEW n \in Nat,
           c = <<t, MSG[t][n + 1]>>
    PROVE  /\ Has(q, t, n) /\ MSG[t][n + 1] # "nl" => Has(r, t, n + 1)
           /\ Half(q, t, n) /\ MSG[t][n + 1] = "nl" => Has(r, t, n + 1)
<1>1. m \in Nat /\ DOMAIN q = 1 .. m /\ \A p \in 1 .. m : r[p] = q[p]
  BY DEF Grown
<1>2. ASSUME Has(q, t, n), MSG[t][n + 1] # "nl" PROVE Has(r, t, n + 1)
  <2>1. PICK at, cr : HasAt(q, 1 .. m, t, n, at, cr)
    BY <1>1, <1>2, HasIs
  <2>2. PICK e \in 1 .. m + 1 : e = m + 1
    BY <1>1
  <2>3. at \in [1 .. n -> 1 .. m] /\ cr \in [1 .. n -> 1 .. m] /\ InLine(q, t, n, at, cr)
    BY <2>1 DEF HasAt
  <2>4. n > 0 => at[n] < e
    BY <1>1, <2>2, <2>3
  <2>5. IF MSG[t][n + 1] = "nl" THEN e < m + 1 /\ r[e] = <<t, "cr">> ELSE e = m + 1
    BY <1>2, <2>2
  <2>6. \A p \in 1 .. m : q[p][1] = t => p = e \/ \E i \in 1 .. n : p = at[i] \/ p = cr[i]
    BY <2>1 DEF HasAt
  <2>7. NextAt(q, r, m, t, n, at, cr, e)
    BY <2>3, <2>4, <2>5, <2>6 DEF NextAt
  <2> QED BY <2>7, OneMoreInLine
<1>3. ASSUME Half(q, t, n), MSG[t][n + 1] = "nl" PROVE Has(r, t, n + 1)
  <2>1. PICK at, cr, e : HalfAt(q, 1 .. m, t, n, at, cr, e)
    BY <1>1, <1>3 DEF Half
  <2>2. /\ at \in [1 .. n -> 1 .. m] /\ cr \in [1 .. n -> 1 .. m] /\ e \in 1 .. m
        /\ InLine(q, t, n, at, cr) /\ q[e] = <<t, "cr">> /\ (n > 0 => at[n] < e)
    BY <2>1 DEF HalfAt
  <2>3. /\ e \in 1 .. m + 1
        /\ IF MSG[t][n + 1] = "nl" THEN e < m + 1 /\ r[e] = <<t, "cr">> ELSE e = m + 1
    BY <1>1, <1>3, <2>2
  <2>4. \A p \in 1 .. m : q[p][1] = t => p = e \/ \E i \in 1 .. n : p = at[i] \/ p = cr[i]
    BY <2>1 DEF HalfAt
  <2>5. NextAt(q, r, m, t, n, at, cr, e)
    BY <2>2, <2>3, <2>4 DEF NextAt
  <2> QED BY <2>5, OneMoreInLine
<1> QED BY <1>2, <1>3

Authors == Writers \cup Loggers

\* What is left of t's message after n characters.
Left(t, n) == [i \in 1 .. Len(MSG[t]) - n |-> <<t, MSG[t][n + i]>>]

LEMMA LeftIs ==
    ASSUME NEW t \in Authors, NEW n \in 0 .. Len(MSG[t])
    PROVE  /\ Len(MSG[t]) \in Nat
           /\ Left(t, 0) = Message(t)
           /\ Left(t, n) = <<>> <=> n = Len(MSG[t])
           /\ n < Len(MSG[t]) => /\ Left(t, n) # <<>>
                                 /\ Head(Left(t, n)) = <<t, MSG[t][n + 1]>>
                                 /\ Tail(Left(t, n)) = Left(t, n + 1)
<1>1. MSG[t] \in Seq(Kinds)
  BY MsgAssumption DEF Authors
<1>2. PICK l : l = Len(MSG[t])
  OBVIOUS
<1>3. l \in Nat /\ DOMAIN MSG[t] = 1 .. l /\ n \in 0 .. l
  BY <1>1, <1>2, LenProperties
<1>4. Left(t, 0) = Message(t)
  <2>1. \A i \in 1 .. l : 0 + i = i
    BY <1>3
  <2>2. 1 .. l - 0 = 1 .. l
    BY <1>3
  <2> QED BY <1>2, <1>3, <2>1, <2>2 DEF Left, Message
<1>5. Left(t, n) = [i \in 1 .. l - n |-> <<t, MSG[t][n + i]>>]
  BY <1>2 DEF Left
<1>6. PICK k \in Nat : k = l - n
  BY <1>3
<1>7. \A i \in 1 .. k : n + i \in 1 .. l /\ MSG[t][n + i] \in Kinds
  BY <1>1, <1>2, <1>3, <1>6, ElementOfSeq
<1>8. Left(t, n) \in Seq(Own(t)) /\ Len(Left(t, n)) = k
  BY <1>5, <1>6, <1>7 DEF Own
<1>9. Left(t, n) = <<>> <=> n = l
  BY <1>3, <1>6, <1>8, EmptySeq
<1>10. ASSUME n < l PROVE Head(Left(t, n)) = <<t, MSG[t][n + 1]>>
  BY <1>3, <1>5, <1>6, <1>8, <1>10
<1>11. ASSUME n < l PROVE Tail(Left(t, n)) = Left(t, n + 1)
  <2>1. PICK s : s = Tail(Left(t, n))
    OBVIOUS
  <2>2. /\ s \in Seq(Own(t)) /\ Len(s) = k - 1
        /\ \A i \in 1 .. k - 1 : s[i] = Left(t, n)[i + 1]
    BY <1>8, <1>9, <1>11, <2>1, HeadTailProperties
  <2>3. DOMAIN s = 1 .. k - 1 /\ s = [i \in 1 .. k - 1 |-> s[i]]
    BY <2>2
  <2>4. \A i \in 1 .. k - 1 : s[i] = <<t, MSG[t][(n + 1) + i]>>
    <3> SUFFICES ASSUME NEW i \in 1 .. k - 1 PROVE s[i] = <<t, MSG[t][(n + 1) + i]>>
      OBVIOUS
    <3>1. i + 1 \in 1 .. l - n /\ n + (i + 1) = (n + 1) + i
      BY <1>3, <1>6
    <3> QED BY <1>5, <2>2, <3>1
  <2>5. Left(t, n + 1) = [i \in 1 .. k - 1 |-> <<t, MSG[t][(n + 1) + i]>>]
    <3>1. l - (n + 1) = k - 1
      BY <1>3, <1>6
    <3> QED BY <1>2, <3>1 DEF Left
  <2> QED BY <2>1, <2>3, <2>4, <2>5
<1> QED BY <1>2, <1>3, <1>4, <1>9, <1>10, <1>11

\* Between WriteNext and the last WritePut of character n + 1 of t's message.
Pending(t, n, td, pd, q) ==
    /\ td = Left(t, n + 1)
    /\ \/ MSG[t][n + 1] # "nl" /\ pd = << <<t, MSG[t][n + 1]>> >> /\ Has(q, t, n)
       \/ MSG[t][n + 1] = "nl" /\ pd = << <<t, "cr">>, <<t, "nl">> >> /\ Has(q, t, n)
       \/ MSG[t][n + 1] = "nl" /\ pd = << <<t, "nl">> >> /\ Half(q, t, n)

\* What t has put into q when it is at l.
PutOK(t, l, td, pd, q) ==
    /\ l \notin {"rwait", "rtest", "rget"}
    /\ l = "start" => Has(q, t, 0)
    /\ l \in {"wait", "test", "put"} =>
          \E n \in 0 .. Len(MSG[t]) : n < Len(MSG[t]) /\ Pending(t, n, td, pd, q)
    /\ l = "done" => Has(q, t, Len(MSG[t]))
    /\ l \notin {"start", "wait", "test", "put", "done"} =>
          \E n \in 0 .. Len(MSG[t]) : td = Left(t, n) /\ Has(q, t, n)

WrittenOK == \A t \in Authors : PutOK(t, pc[t], todo[t], pend[t], sent)

\* A character of another task.
LEMMA PutOther ==
    ASSUME NEW q, NEW c, NEW r, NEW m, Grown(q, c, r, m), NEW t \in Authors, c[1] # t,
           NEW l, NEW td, NEW pd, PutOK(t, l, td, pd, q)
    PROVE  PutOK(t, l, td, pd, r)
<1>1. \A n \in Nat : (Has(q, t, n) => Has(r, t, n)) /\ (Half(q, t, n) => Half(r, t, n))
  BY HasOther
<1>2. MSG[t] \in Seq(Kinds)
  BY MsgAssumption DEF Authors
<1>3. Len(MSG[t]) \in Nat
  BY <1>2
<1>4. ASSUME NEW n \in Nat, Pending(t, n, td, pd, q) PROVE Pending(t, n, td, pd, r)
  BY <1>1, <1>4 DEF Pending
<1> QED BY <1>1, <1>3, <1>4 DEF PutOK

LEMMA WrittenStep ==
    ASSUME SyncOK, LocalsOK, WrittenOK, NEW t \in Users, NEW b, Moves(t, b), NEW x, NEW y,
           todo' = [todo EXCEPT ![t] = x], pend' = [pend EXCEPT ![t] = y],
           \/ sent' = sent
           \/ \E c, m : c[1] = t /\ Grown(sent, c, sent', m),
           t \in Authors => PutOK(t, b, x, y, sent')
    PROVE  WrittenOK'
<1> SUFFICES ASSUME NEW u \in Authors PROVE PutOK(u, pc'[u], todo'[u], pend'[u], sent')
  BY DEF WrittenOK
<1>1. /\ pc'[t] = b /\ todo'[t] = x /\ pend'[t] = y
      /\ \A v \in Users : v # t => pc'[v] = pc[v] /\ todo'[v] = todo[v] /\ pend'[v] = pend[v]
  BY DEF Moves, SyncOK, LocalsOK
<1>2. CASE u = t
  BY <1>1, <1>2
<1>3. CASE u # t
  <2>1. pc'[u] = pc[u] /\ todo'[u] = todo[u] /\ pend'[u] = pend[u]
    BY <1>1, <1>3 DEF Authors, Users
  <2>2. PutOK(u, pc[u], todo[u], pend[u], sent)
    BY DEF WrittenOK
  <2>3. PutOK(u, pc[u], todo[u], pend[u], sent')
    BY <1>3, <2>2, PutOther
  <2> QED BY <2>1, <2>3
<1> QED BY <1>2, <1>3

\* After the last character of a message there is nothing to put.
LEMMA WrittenKept ==
    ASSUME SyncOK, OutOK, LocalsOK, QueueOK, WrittenOK, NEW t \in Users,
           CallWrite(t) \/ CallLog(t) \/ CallRead(t) \/ Step(t)
    PROVE  WrittenOK'
<1>1. PICK b \in PCs : Moves(t, b)
  BY StepMoves
<1>2. pc'[t] = b /\ ~Blocked(t) /\ \A l : Goto(t, l) => b = l
  BY <1>1 DEF Goto, Moves, SyncOK
<1>3. t \in Authors => PutOK(t, pc[t], todo[t], pend[t], sent)
  BY DEF WrittenOK
<1>4. ASSUME NEW x, NEW y, todo' = [todo EXCEPT ![t] = x], pend' = [pend EXCEPT ![t] = y],
             sent' = sent, t \in Authors => PutOK(t, b, x, y, sent)
      PROVE  WrittenOK'
  <2>1. t \in Authors => PutOK(t, b, x, y, sent')
    BY <1>4
  <2> QED BY <1>1, <1>4, <2>1, WrittenStep
<1>5. [todo EXCEPT ![t] = todo[t]] = todo /\ [pend EXCEPT ![t] = pend[t]] = pend
  BY DEF LocalsOK
<1>6. t \in Authors => t \notin Readers /\ Len(MSG[t]) \in Nat
  <2>1. t \in Authors => MSG[t] \in Seq(Kinds)
    BY MsgAssumption DEF Authors
  <2> QED BY <2>1, UsersAssumption, LenProperties DEF Authors
<1> USE DEF At, locals, outVars
<1>7. CASE CallWrite(t) \/ CallLog(t)
  <2>1. /\ pc[t] = "start" /\ b = "loop" /\ todo' = [todo EXCEPT ![t] = Message(t)]
        /\ pend' = pend /\ sent' = sent
    BY <1>2, <1>7 DEF CallWrite, CallLog
  <2>2. ASSUME t \in Authors PROVE PutOK(t, "loop", Message(t), pend[t], sent)
    <3>1. Has(sent, t, 0)
      BY <1>3, <2>1, <2>2 DEF PutOK
    <3>2. 0 \in 0 .. Len(MSG[t]) /\ Message(t) = Left(t, 0)
      BY <1>6, <2>2, LeftIs
    <3> QED BY <3>1, <3>2 DEF PutOK
  <2> QED BY <1>4, <1>5, <2>1, <2>2
<1>8. CASE CallRead(t)
  <2>1. t \in Readers /\ UNCHANGED <<todo, pend, sent>>
    BY <1>8 DEF CallRead
  <2> QED BY <1>4, <1>5, <1>6, <2>1
<1>9. CASE WriteNext(t)
  <2> DEFINE c == Head(todo[t])
             y == IF c[2] = "nl" THEN << <<c[1], "cr">>, c >> ELSE <<c>>
  <2>1. /\ pc[t] = "loop" /\ b = "wait" /\ todo[t] # <<>> /\ sent' = sent
        /\ todo' = [todo EXCEPT ![t] = Tail(todo[t])] /\ pend' = [pend EXCEPT ![t] = y]
    BY <1>2, <1>9 DEF WriteNext
  <2> HIDE DEF y
  <2>2. ASSUME t \in Authors PROVE PutOK(t, "wait", Tail(todo[t]), y, sent)
    <3>1. PICK n \in 0 .. Len(MSG[t]) : todo[t] = Left(t, n) /\ Has(sent, t, n)
      BY <1>3, <2>1, <2>2 DEF PutOK
    <3>2. n < Len(MSG[t])
      BY <1>6, <2>1, <2>2, <3>1, LeftIs
    <3>3. c = <<t, MSG[t][n + 1]>> /\ Tail(todo[t]) = Left(t, n + 1)
      BY <2>2, <3>1, <3>2, LeftIs
    <3>4. c[1] = t /\ c[2] = MSG[t][n + 1]
      BY <3>3
    <3>5. CASE MSG[t][n + 1] = "nl"
      <4>1. y = << <<t, "cr">>, <<t, "nl">> >>
        BY <3>3, <3>4, <3>5 DEF y
      <4> QED BY <3>1, <3>2, <3>3, <3>5, <4>1 DEF PutOK, Pending
    <3>6. CASE MSG[t][n + 1] # "nl"
      <4>1. y = << <<t, MSG[t][n + 1]>> >>
        BY <3>3, <3>4, <3>6 DEF y
      <4> QED BY <3>1, <3>2, <3>3, <3>6, <4>1 DEF PutOK, Pending
    <3> QED BY <3>5, <3>6
  <2> QED BY <1>4, <2>1, <2>2
<1>10. CASE WriteWait(t) \/ WriteTest(t)
  <2>1. pc[t] \in {"wait", "test"}
    BY <1>10 DEF WriteWait, WriteTest
  <2>2. CASE WriteWait(t)
    <3>1. pc[t] = "wait" /\ b = "test" /\ UNCHANGED <<todo, pend, sent>>
      BY <1>2, <2>2 DEF WriteWait
    <3>2. t \in Authors => PutOK(t, "test", todo[t], pend[t], sent)
      BY <1>3, <3>1 DEF PutOK
    <3> QED BY <1>4, <1>5, <3>1, <3>2
  <2>3. CASE WriteTest(t)
    <3>1. pc[t] = "test" /\ t \in Putting
      BY <1>2, <2>3 DEF WriteTest, Putting, MayPut
    <3>2. ofifo.count < ofifo.size /\ ofifo.count \in Int /\ ofifo.size \in Int
      BY <3>1, RoomToPut, BufferAssumption DEF OutOK
    <3>3. ~(ofifo.count >= ofifo.size)
      BY <3>2
    <3>4. b = "put" /\ UNCHANGED <<todo, pend, sent>>
      BY <1>2, <2>3, <3>3 DEF WriteTest
    <3>5. t \in Authors => PutOK(t, "put", todo[t], pend[t], sent)
      BY <1>3, <3>1 DEF PutOK
    <3> QED BY <1>4, <1>5, <3>4, <3>5
  <2> QED BY <1>10, <2>2, <2>3
<1>11. CASE WritePut(t)
  <2> DEFINE c == Head(pend[t])
  <2>1. /\ pc[t] = "put" /\ b = IF Len(pend[t]) > 1 THEN "wait" ELSE "lock"
        /\ sent' = Append(sent, c) /\ todo' = todo
        /\ pend' = [pend EXCEPT ![t] = Tail(pend[t])]
    BY <1>2, <1>11 DEF WritePut
  <2>2. c \in Own(t)
    BY <2>1, HeadTailProperties DEF LocalsOK, LocalIs
  <2>3. c \in Shown /\ c[1] = t /\ sent \in Seq(Shown)
    BY <2>2 DEF Own, Shown, QueueOK
  <2> DEFINE m == Len(sent)
  <2>4. Grown(sent, c, sent', m)
    BY <2>1, <2>3, GrownIs
  <2> HIDE DEF c, m
  <2>5. ASSUME t \in Authors PROVE PutOK(t, b, todo[t], Tail(pend[t]), sent')
    <3>1. PICK n \in 0 .. Len(MSG[t]) :
                 n < Len(MSG[t]) /\ Pending(t, n, todo[t], pend[t], sent)
      BY <1>3, <2>1, <2>5 DEF PutOK
    <3>2. /\ n \in Nat /\ n + 1 \in 0 .. Len(MSG[t]) /\ n + 1 \in Nat
          /\ todo[t] = Left(t, n + 1)
      BY <1>6, <2>5, <3>1 DEF Pending
    <3>3. CASE /\ MSG[t][n + 1] # "nl" /\ pend[t] = << <<t, MSG[t][n + 1]>> >>
               /\ Has(sent, t, n)
      <4>1. c = <<t, MSG[t][n + 1]>> /\ b = "lock"
        BY <2>1, <3>3 DEF c
      <4>2. Has(sent', t, n + 1)
        BY <2>4, <3>2, <3>3, <4>1, HasPut
      <4> QED BY <3>2, <4>1, <4>2 DEF PutOK
    <3>4. CASE /\ MSG[t][n + 1] = "nl" /\ pend[t] = << <<t, "cr">>, <<t, "nl">> >>
               /\ Has(sent, t, n)
      <4>1. c = <<t, "cr">> /\ b = "wait" /\ Tail(pend[t]) = << <<t, "nl">> >>
        BY <2>1, <3>4 DEF c
      <4>2. Half(sent', t, n)
        BY <2>4, <3>2, <3>4, <4>1, HalfPut
      <4>3. Pending(t, n, todo[t], Tail(pend[t]), sent')
        BY <3>2, <3>4, <4>1, <4>2 DEF Pending
      <4> QED BY <3>1, <4>1, <4>3 DEF PutOK
    <3>5. CASE /\ MSG[t][n + 1] = "nl" /\ pend[t] = << <<t, "nl">> >>
               /\ Half(sent, t, n)
      <4>1. c = <<t, MSG[t][n + 1]>> /\ b = "lock"
        BY <2>1, <3>5 DEF c
      <4>2. Has(sent', t, n + 1)
        BY <2>4, <3>2, <3>5, <4>1, HasPut
      <4> QED BY <3>2, <4>1, <4>2 DEF PutOK
    <3> QED BY <3>1, <3>3, <3>4, <3>5 DEF Pending
  <2> QED BY <1>1, <1>5, <2>1, <2>3, <2>4, <2>5, WrittenStep
<1>12. CASE WriteDone(t)
  <2>1. pc[t] = "loop" /\ todo[t] = <<>> /\ UNCHANGED <<todo, pend, sent>>
    BY <1>12 DEF WriteDone
  <2>2. ASSUME t \in Authors PROVE PutOK(t, b, todo[t], pend[t], sent)
    <3>1. PICK n \in 0 .. Len(MSG[t]) : todo[t] = Left(t, n) /\ Has(sent, t, n)
      BY <1>3, <2>1, <2>2 DEF PutOK
    <3>2. n = Len(MSG[t])
      BY <2>1, <2>2, <3>1, LeftIs
    <3>3. b = "done"
      BY <1>2, <1>6, <1>12, <2>2 DEF WriteDone
    <3> QED BY <3>1, <3>2, <3>3 DEF PutOK
  <2> QED BY <1>4, <1>5, <2>1, <2>2
<1>13. CASE \/ DrainLock(t) \/ DrainTest(t) \/ DrainGet(t) \/ DrainNotify(t)
            \/ DrainShow(t) \/ DrainUnlock(t)
  <2>1. /\ pc[t] \in {"lock", "gtest", "get", "notify", "show", "unlock"}
        /\ todo' = todo /\ sent' = sent
    BY <1>13 DEF DrainLock, DrainTest, DrainGet, DrainNotify, DrainShow, DrainUnlock
  <2>2. b \in {"gtest", "get", "notify", "show", "unlock", "loop"}
    BY <1>2, <1>13 DEF DrainLock, DrainTest, DrainGet, DrainNotify, DrainShow, DrainUnlock
  <2>3. \E y : pend' = [pend EXCEPT ![t] = y]
    BY <1>5, <1>13 DEF DrainLock, DrainTest, DrainGet, DrainNotify, DrainShow, DrainUnlock
  <2>4. ASSUME NEW y, t \in Authors PROVE PutOK(t, b, todo[t], y, sent)
    BY <1>3, <2>1, <2>2, <2>4 DEF PutOK
  <2> QED BY <1>4, <1>5, <2>1, <2>3, <2>4
<1>14. CASE ReadWait(t) \/ ReadTest(t) \/ ReadGet(t)
  <2>1. pc[t] \in {"rwait", "rtest", "rget"} /\ sent' = sent /\ pend' = pend
    BY <1>14 DEF ReadWait, ReadTest, ReadGet, Store
  <2>2. t \notin Authors
    BY <1>3, <2>1 DEF PutOK
  <2>3. \E x : todo' = [todo EXCEPT ![t] = x]
    BY <1>5, <1>14 DEF ReadWait, ReadTest, ReadGet, Store
  <2> QED BY <1>4, <1>5, <2>1, <2>2, <2>3
<1> QED BY <1>7, <1>8, <1>9, <1>10, <1>11, <1>12, <1>13, <1>14 DEF Step

\* Where all that a task has put is on the display.
Settled == {"start", "unlock", "loop", "done"}

Displayed(t) == \A p \in DOMAIN sent : sent[p][1] = t => p \in DOMAIN screen

ShownOK == \A t \in Authors : pc[t] \in Settled => Displayed(t)

LEMMA ShownKept ==
    ASSUME SyncOK, OutOK, ConsoleOK, LocalsOK, RingOK, QueueOK, WrittenOK, ShownOK,
           WaitOK, NEW t \in Users, CallWrite(t) \/ CallLog(t) \/ CallRead(t) \/ Step(t)
    PROVE  ShownOK'
<1>1. PICK b \in PCs : Moves(t, b)
  BY StepMoves
<1>2. /\ pc'[t] = b /\ ~Blocked(t) /\ \A l : Goto(t, l) => b = l
      /\ \A u \in Users : u # t => pc'[u] = pc[u]
      /\ Authors \subseteq Users
  BY <1>1 DEF Goto, Moves, SyncOK, Authors, Users
<1>3. t \in Authors => pc[t] \notin {"rwait", "rtest", "rget"}
  BY DEF WrittenOK, PutOK
<1>4. ASSUME sent' = sent, DOMAIN screen \subseteq DOMAIN screen',
             t \in Authors /\ b \in Settled => pc[t] \in Settled
      PROVE  ShownOK'
  BY <1>2, <1>4 DEF ShownOK, Displayed
<1>5. UNCHANGED outVars => sent' = sent /\ DOMAIN screen \subseteq DOMAIN screen'
  BY DEF outVars
<1> USE DEF At, Settled
<1>6. CASE CallWrite(t) \/ CallLog(t) \/ CallRead(t)
  BY <1>4, <1>5, <1>6 DEF CallWrite, CallLog, CallRead
<1>7. CASE WriteNext(t) \/ WriteDone(t) \/ DrainUnlock(t)
  BY <1>4, <1>5, <1>7 DEF WriteNext, WriteDone, DrainUnlock
<1>8. CASE WriteWait(t)
  BY <1>2, <1>4, <1>8 DEF WriteWait
<1>9. CASE WriteTest(t)
  <2>1. t \in Putting
    BY <1>2, <1>9 DEF WriteTest, Putting, MayPut
  <2>2. ofifo.count < ofifo.size /\ ofifo.count \in Int /\ ofifo.size \in Int
    BY <2>1, RoomToPut, BufferAssumption DEF OutOK
  <2>3. ~(ofifo.count >= ofifo.size)
    BY <2>2
  <2>4. b = "put"
    BY <1>2, <1>9, <2>3 DEF WriteTest
  <2> QED BY <1>4, <1>5, <1>9, <2>4 DEF WriteTest
<1>10. CASE WritePut(t)
  <2> DEFINE c == Head(pend[t])
  <2>1. /\ pc[t] = "put" /\ b \in {"wait", "lock"} /\ sent' = Append(sent, c)
        /\ screen' = screen
    BY <1>2, <1>10 DEF WritePut
  <2>2. c \in Own(t)
    BY <2>1, HeadTailProperties DEF LocalsOK, LocalIs
  <2>3. c \in Shown /\ c[1] = t /\ sent \in Seq(Shown)
    BY <2>2 DEF Own, Shown, QueueOK
  <2> DEFINE m == Len(sent)
  <2>4. Grown(sent, c, sent', m)
    BY <2>1, <2>3, GrownIs
  <2> HIDE DEF c, m
  <2>5. ASSUME NEW u \in Authors, pc'[u] \in Settled PROVE Displayed(u)'
    <3>1. u # t /\ pc[u] \in Settled
      BY <1>2, <2>1, <2>5
    <3>2. Displayed(u)
      BY <3>1 DEF ShownOK
    <3>3. \A p \in DOMAIN sent' : sent'[p][1] = u => p \in DOMAIN sent /\ sent[p][1] = u
      BY <2>3, <2>4, <3>1 DEF Grown
    <3> QED BY <2>1, <3>2, <3>3 DEF Displayed
  <2> QED BY <2>5 DEF ShownOK
<1>11. CASE DrainLock(t) \/ DrainGet(t) \/ DrainNotify(t)
  <2>1. sent' = sent /\ screen' = screen
    BY <1>11 DEF DrainLock, DrainGet, DrainNotify, outVars
  <2>2. b \notin Settled
    BY <1>2, <1>11 DEF DrainLock, DrainGet, DrainNotify
  <2> QED BY <1>4, <2>1, <2>2
<1>12. CASE DrainTest(t)
  <2>1. pc[t] = "gtest" /\ UNCHANGED outVars
    BY <1>12 DEF DrainTest
  <2>2. CASE ofifo.count > 0
    <3>1. b = "get"
      <4>1. ofifo.count \in Int
        BY DEF OutOK
      <4>2. ~(ofifo.count <= 0)
        BY <2>2, <4>1
      <4> QED BY <1>2, <1>12, <4>2 DEF DrainTest
    <3> QED BY <1>4, <1>5, <2>1, <3>1
  <2>3. CASE ~(ofifo.count > 0)
    <3>1. t \notin Members(console.list)
      BY <1>2, BlockedIff
    <3>2. HoldsConsole(t)
      BY <2>1, <3>1 DEF HoldsConsole, Draining
    <3>3. Handing = {}
      BY <2>1, <3>2, OneHand DEF Handing
    <3>4. InHand = <<>>
      BY <3>3, InHandIs
    <3>5. Contents(ofifo) = <<>>
      <4>1. ofifo.count \in Int
        BY DEF OutOK
      <4>2. \A i : i \notin 1 .. ofifo.count
        BY <2>3, <4>1
      <4>3. 1 .. ofifo.count = {}
        BY <4>2
      <4>4. Contents(ofifo) \in Seq(Shown) /\ DOMAIN Contents(ofifo) = {}
        BY <4>3 DEF Contents, RingOK
      <4> QED BY <4>4, LenProperties, EmptySeq
    <3>6. sent = screen
      <4>1. screen \o <<>> = screen /\ screen \in Seq(Shown)
        BY ConcatEmptySeq DEF QueueOK
      <4> QED BY <3>4, <3>5, <4>1 DEF QueueOK, OutputInOrder
    <3>7. sent' = sent /\ screen' = screen
      BY <2>1 DEF outVars
    <3> QED BY <3>6, <3>7 DEF ShownOK, Displayed
  <2> QED BY <2>2, <2>3
<1>13. CASE DrainShow(t)
  <2>1. /\ pc[t] = "show" /\ b = "gtest" /\ sent' = sent
        /\ screen' = Append(screen, Head(pend[t]))
    BY <1>2, <1>13 DEF DrainShow
  <2>2. PICK c \in Shown : pend[t] = <<c>>
    BY <2>1 DEF LocalsOK, LocalIs
  <2>3. Grown(screen, c, screen', Len(screen))
    BY <2>1, <2>2, GrownIs DEF QueueOK
  <2>4. DOMAIN screen \subseteq DOMAIN screen'
    BY <2>3 DEF Grown
  <2> QED BY <1>4, <2>1, <2>4
<1>14. CASE ReadWait(t) \/ ReadTest(t) \/ ReadGet(t)
  <2>1. pc[t] \in {"rwait", "rtest", "rget"} /\ UNCHANGED outVars
    BY <1>14 DEF ReadWait, ReadTest, ReadGet, Store
  <2> QED BY <1>3, <1>4, <1>5, <2>1
<1> QED BY <1>6, <1>7, <1>8, <1>9, <1>10, <1>11, <1>12, <1>13, <1>14 DEF Step

\* What is put and displayed is displayed in the same places.
LEMMA ShownHas ==
    ASSUME FlowOK, NEW t, NEW n \in Nat, Has(sent, t, n), Displayed(t)
    PROVE  Has(screen, t, n)
<1>1. /\ DOMAIN screen \subseteq DOMAIN sent
      /\ \A p \in DOMAIN screen : screen[p] = sent[p]
  BY ScreenIsPrefix
<1>2. PICK at, cr : HasAt(sent, DOMAIN sent, t, n, at, cr)
  BY HasIs
<1>3. ASSUME NEW i \in 1 .. n
      PROVE  /\ at[i] \in DOMAIN screen /\ cr[i] \in DOMAIN screen
             /\ screen[at[i]] = <<t, MSG[t][i]>>
             /\ IF MSG[t][i] = "nl" THEN cr[i] < at[i] /\ screen[cr[i]] = <<t, "cr">>
                                    ELSE cr[i] = at[i]
             /\ i > 1 => at[i - 1] < cr[i]
  <2>1. /\ at[i] \in DOMAIN sent /\ cr[i] \in DOMAIN sent
        /\ sent[at[i]] = <<t, MSG[t][i]>>
        /\ IF MSG[t][i] = "nl" THEN cr[i] < at[i] /\ sent[cr[i]] = <<t, "cr">>
                               ELSE cr[i] = at[i]
        /\ i > 1 => at[i - 1] < cr[i]
    BY <1>2 DEF HasAt, InLine
  <2>2. sent[at[i]][1] = t /\ sent[cr[i]][1] = t
    BY <2>1
  <2>3. at[i] \in DOMAIN screen /\ cr[i] \in DOMAIN screen
    BY <2>1, <2>2 DEF Displayed
  <2> QED BY <1>1, <2>1, <2>3
<1>4. at \in [1 .. n -> DOMAIN screen] /\ cr \in [1 .. n -> DOMAIN screen]
  BY <1>2, <1>3 DEF HasAt
<1>5. InLine(screen, t, n, at, cr)
  BY <1>3 DEF InLine
<1>6. \A p \in DOMAIN screen :
          screen[p][1] = t => \E i \in 1 .. n : p = at[i] \/ p = cr[i]
  BY <1>1, <1>2 DEF HasAt
<1>7. HasAt(screen, DOMAIN screen, t, n, at, cr)
  BY <1>4, <1>5, <1>6 DEF HasAt
<1> QED BY <1>7, HasIs

WriteInv == FlowOK /\ WrittenOK /\ ShownOK

LEMMA InitWrite == Init => WriteInv
<1> SUFFICES ASSUME Init PROVE WriteInv
  OBVIOUS
<1>1. /\ pc = [t \in Users |-> "start"] /\ sent = <<>> /\ Authors \subseteq Users
  BY DEF Init, Authors, Users
<1>2. DOMAIN sent = {}
  BY <1>1
<1>3. ASSUME NEW t PROVE Has(sent, t, 0)
  <2> DEFINE f == [i \in 1 .. 0 |-> 0]
  <2>1. \A i : i \notin 1 .. 0
    OBVIOUS
  <2>2. f \in [1 .. 0 -> DOMAIN sent]
    BY <2>1
  <2> HIDE DEF f
  <2>3. HasAt(sent, DOMAIN sent, t, 0, f, f)
    BY <1>2, <2>1, <2>2 DEF HasAt, InLine
  <2> QED BY <2>3, HasIs
<1>4. WrittenOK
  BY <1>1, <1>3 DEF WrittenOK, PutOK
<1>5. ShownOK
  BY <1>2 DEF ShownOK, Displayed
<1> QED BY <1>4, <1>5, InitFlow DEF WriteInv

LEMMA StepWrite == WriteInv /\ [Next]_vars => WriteInv'
<1> SUFFICES ASSUME WriteInv, [Next]_vars PROVE WriteInv'
  OBVIOUS
<1>1. FlowOK'
  BY StepFlow DEF WriteInv
<1>2. ASSUME UNCHANGED <<pc, todo, pend, sent, screen>> PROVE WriteInv'
  BY <1>1, <1>2 DEF WriteInv, WrittenOK, ShownOK, Displayed
<1>3. CASE UNCHANGED vars
  BY <1>2, <1>3 DEF vars
<1>4. ASSUME NEW k, tty_in(k) PROVE WriteInv'
  BY <1>2, <1>4 DEF tty_in, outVars, locals
<1>5. ASSUME NEW t \in Users, CallWrite(t) \/ CallLog(t) \/ CallRead(t) \/ Step(t)
      PROVE  WriteInv'
  <2>1. /\ SyncOK /\ WaitOK /\ OutOK /\ ConsoleOK /\ LocalsOK /\ RingOK /\ QueueOK
        /\ WrittenOK /\ ShownOK
    BY DEF WriteInv, FlowOK, UnitsOK
  <2>2. WrittenOK'
    BY <1>5, <2>1, WrittenKept
  <2>3. ShownOK'
    BY <1>5, <2>1, ShownKept
  <2> QED BY <1>1, <2>2, <2>3 DEF WriteInv
<1> QED BY <1>3, <1>4, <1>5 DEF Next

\* When tty_write has returned, all its characters are on the display, in order, each
\* '\n' after a '\r', and none twice, whichever task drained ofifo.
THEOREM WrittenIsDisplayed == Spec => []WrittenIsShown
<1>1. WriteInv => WrittenIsShown
  <2> SUFFICES ASSUME WriteInv, NEW t \in Authors, pc[t] = "done"
               PROVE  Has(screen, t, Len(MSG[t]))
    BY DEF WrittenIsShown, Authors
  <2>1. Has(sent, t, Len(MSG[t])) /\ Displayed(t)
    BY DEF WriteInv, WrittenOK, PutOK, ShownOK, Settled
  <2>2. MSG[t] \in Seq(Kinds)
    BY MsgAssumption DEF Authors
  <2>3. Len(MSG[t]) \in Nat
    BY <2>2
  <2> QED BY <2>1, <2>3, ShownHas DEF WriteInv
<1> QED BY <1>1, InitWrite, StepWrite, PTL DEF Spec
=============================================================================
