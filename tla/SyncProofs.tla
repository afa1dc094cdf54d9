----------------------------- MODULE SyncProofs -----------------------------
(* Proofs about Sched, for every set of tasks, slice and sleep time, and   *)
(* about Sync: it implements Sched, and its wait lists are sound, for      *)
(* every set of tasks, semaphores and mutexes.                             *)
EXTENDS Sync, TLAPS

-----------------------------------------------------------------------------
(* What the list operations do to the set of members, for every list.      *)

\* list_insert_last adds one member.
LEMMA InsertLast ==
    ASSUME NEW S, NEW q \in Seq(S), NEW t \in S
    PROVE  /\ list_insert_last(q, t) \in Seq(S)
           /\ Len(list_insert_last(q, t)) = Len(q) + 1
           /\ Members(list_insert_last(q, t)) = Members(q) \cup {t}
           /\ Injective(q) /\ t \notin Members(q) => Injective(list_insert_last(q, t))
           /\ list_insert_last(q, t) # <<>>
<1> DEFINE r == list_insert_last(q, t)
<1>1. /\ r \in Seq(S)
      /\ Len(r) = Len(q) + 1
      /\ \A i \in 1 .. Len(q) : r[i] = q[i]
      /\ r[Len(q) + 1] = t
  BY DEF list_insert_last
<1>2. DOMAIN q = 1 .. Len(q) /\ DOMAIN r = 1 .. Len(q) + 1 /\ Len(q) \in Nat
  BY <1>1
<1>3. Members(r) = Members(q) \cup {t}
  <2>1. \A x \in Members(r) : x \in Members(q) \cup {t}
    BY <1>1, <1>2 DEF Members
  <2>2. \A x \in Members(q) : x \in Members(r)
    BY <1>1, <1>2 DEF Members
  <2>3. t \in Members(r)
    BY <1>1, <1>2 DEF Members
  <2> QED BY <2>1, <2>2, <2>3
<1>4. Injective(q) /\ t \notin Members(q) => Injective(r)
  BY <1>1, <1>2 DEF Members, Injective
<1>5. r # <<>>
  BY <1>1, <1>2
<1> QED BY <1>1, <1>3, <1>4, <1>5

\* list_delete of a member removes just that one, and a list without
\* duplicates stays one.
LEMMA Delete ==
    ASSUME NEW S, NEW q \in Seq(S), Injective(q), NEW t \in Members(q)
    PROVE  /\ list_delete(q, t) \in Seq(S)
           /\ Len(list_delete(q, t)) = Len(q) - 1
           /\ Members(list_delete(q, t)) = Members(q) \ {t}
           /\ Injective(list_delete(q, t))
<1> DEFINE k == CHOOSE i \in DOMAIN q : q[i] = t
           r == list_delete(q, t)
<1>1. k \in 1 .. Len(q) /\ q[k] = t /\ Len(q) \in Nat /\ DOMAIN q = 1 .. Len(q)
  <2>1. \E i \in DOMAIN q : q[i] = t
    BY DEF Members
  <2> QED BY <2>1
<1>2. r = [i \in 1 .. Len(q) - 1 |-> IF i < k THEN q[i] ELSE q[i + 1]]
  BY DEF list_delete
<1> HIDE DEF k, r
<1>3. r \in Seq(S) /\ Len(r) = Len(q) - 1 /\ DOMAIN r = 1 .. Len(q) - 1
  <2>1. \A i \in 1 .. Len(q) - 1 : (IF i < k THEN q[i] ELSE q[i + 1]) \in S
    BY <1>1
  <2>2. Len(q) - 1 \in Nat
    BY <1>1
  <2> QED BY <1>2, <2>1, <2>2
<1>4. Members(r) = Members(q) \ {t}
  <2>1. \A x \in Members(r) : x \in Members(q) /\ x # t
    <3> SUFFICES ASSUME NEW i \in 1 .. Len(q) - 1
                 PROVE  r[i] \in Members(q) /\ r[i] # t
      BY <1>3 DEF Members
    <3>1. CASE i < k
      BY <1>1, <1>2, <3>1 DEF Members, Injective
    <3>2. CASE ~(i < k)
      <4>1. r[i] = q[i + 1] /\ i + 1 \in 1 .. Len(q) /\ i + 1 # k
        BY <1>1, <1>2, <3>2
      <4> QED BY <1>1, <4>1 DEF Members, Injective
    <3> QED BY <3>1, <3>2
  <2>2. \A x \in Members(q) : x # t => x \in Members(r)
    <3> SUFFICES ASSUME NEW i \in 1 .. Len(q), q[i] # t
                 PROVE  q[i] \in Members(r)
      BY <1>1 DEF Members
    <3>1. CASE i < k
      <4>1. i \in 1 .. Len(q) - 1 /\ r[i] = q[i]
        BY <1>1, <1>2, <3>1
      <4> QED BY <1>3, <4>1 DEF Members
    <3>2. CASE i > k
      <4>1. i - 1 \in 1 .. Len(q) - 1 /\ r[i - 1] = q[i]
        BY <1>1, <1>2, <3>2
      <4> QED BY <1>3, <4>1 DEF Members
    <3> QED BY <1>1, <3>1, <3>2
  <2> QED BY <2>1, <2>2
<1>5. Injective(r)
  <2> SUFFICES ASSUME NEW i \in 1 .. Len(q) - 1, NEW j \in 1 .. Len(q) - 1,
                      r[i] = r[j]
               PROVE  i = j
    BY <1>3 DEF Injective
  <2> DEFINE ii == IF i < k THEN i ELSE i + 1
             jj == IF j < k THEN j ELSE j + 1
  <2>1. r[i] = q[ii] /\ r[j] = q[jj] /\ ii \in 1 .. Len(q) /\ jj \in 1 .. Len(q)
    BY <1>1, <1>2
  <2>2. ii = jj
    BY <1>1, <2>1 DEF Injective
  <2> QED BY <1>1, <2>2
<1> QED BY <1>3, <1>4, <1>5 DEF r

\* The members of a sequence over S are elements of S, the head is one of them.
LEMMA HeadMember ==
    ASSUME NEW S, NEW q \in Seq(S)
    PROVE  /\ Members(q) \subseteq S
           /\ q # <<>> => Head(q) \in Members(q)
           /\ q = <<>> <=> Len(q) = 0
           /\ q = <<>> => Members(q) = {}
<1>1. DOMAIN q = 1 .. Len(q) /\ Len(q) \in Nat
  OBVIOUS
<1>2. \A x \in Members(q) : x \in S
  BY <1>1 DEF Members
<1>3. q = <<>> <=> Len(q) = 0
  OBVIOUS
<1>4. q # <<>> => Head(q) = q[1] /\ 1 \in DOMAIN q
  BY <1>1, <1>3
<1>5. q = <<>> => Members(q) = {}
  BY <1>1, <1>3 DEF Members
<1> QED BY <1>2, <1>3, <1>4, <1>5 DEF Members

\* Moving a member to the end of the list keeps the set of members.
LEMMA Rotate ==
    ASSUME NEW S, NEW q \in Seq(S), Injective(q), NEW t \in Members(q), t \in S
    PROVE  /\ list_insert_last(list_delete(q, t), t) \in Seq(S)
           /\ list_insert_last(list_delete(q, t), t) # <<>>
           /\ Members(list_insert_last(list_delete(q, t), t)) = Members(q)
           /\ Injective(list_insert_last(list_delete(q, t), t))
<1>1. PICK d : d = list_delete(q, t)
  OBVIOUS
<1>2. d \in Seq(S) /\ Injective(d)
  BY <1>1, Delete
<1>3. Members(d) = Members(q) \ {t}
  BY <1>1, Delete
<1>4. t \notin Members(d)
  BY <1>3
<1>5. /\ list_insert_last(d, t) \in Seq(S)
      /\ list_insert_last(d, t) # <<>>
      /\ Members(list_insert_last(d, t)) = Members(d) \cup {t}
      /\ Injective(list_insert_last(d, t))
  BY <1>2, <1>4, InsertLast
<1>6. Members(d) \cup {t} = Members(q)
  BY <1>3
<1> QED BY <1>1, <1>5, <1>6

\* list_delete_first removes the first member.
LEMMA DeleteFirst ==
    ASSUME NEW S, NEW q \in Seq(S), Injective(q), Len(q) > 0
    PROVE  /\ Head(q) \in S /\ Head(q) \in Members(q)
           /\ Tail(q) \in Seq(S) /\ Injective(Tail(q))
           /\ Members(Tail(q)) = Members(q) \ {Head(q)}
<1>1. /\ DOMAIN q = 1 .. Len(q) /\ Len(q) \in Nat /\ Head(q) = q[1]
      /\ Tail(q) \in Seq(S) /\ Len(Tail(q)) = Len(q) - 1
      /\ DOMAIN Tail(q) = 1 .. Len(q) - 1
      /\ \A i \in 1 .. Len(q) - 1 : Tail(q)[i] = q[i + 1]
  OBVIOUS
<1>2. Head(q) \in S /\ Head(q) \in Members(q)
  BY <1>1 DEF Members
<1>3. Injective(Tail(q))
  <2> SUFFICES ASSUME NEW i \in 1 .. Len(q) - 1, NEW j \in 1 .. Len(q) - 1,
                      Tail(q)[i] = Tail(q)[j]
               PROVE  i = j
    BY <1>1 DEF Injective
  <2>1. q[i + 1] = q[j + 1] /\ i + 1 \in DOMAIN q /\ j + 1 \in DOMAIN q
    BY <1>1
  <2>2. i + 1 = j + 1
    BY <2>1 DEF Injective
  <2> QED BY <2>2
<1>4. \A x : x \in Members(Tail(q)) <=> x \in Members(q) /\ x # Head(q)
  <2>1. ASSUME NEW i \in 1 .. Len(q) - 1
        PROVE  Tail(q)[i] \in Members(q) /\ Tail(q)[i] # Head(q)
    <3>1. Tail(q)[i] = q[i + 1] /\ i + 1 \in DOMAIN q /\ 1 \in DOMAIN q /\ i + 1 # 1
      BY <1>1
    <3> QED BY <1>1, <3>1 DEF Members, Injective
  <2>2. ASSUME NEW i \in 1 .. Len(q), q[i] # Head(q)
        PROVE  q[i] \in Members(Tail(q))
    <3>1. i - 1 \in DOMAIN Tail(q) /\ Tail(q)[i - 1] = q[i]
      BY <1>1, <2>2
    <3> QED BY <3>1 DEF Members
  <2> QED BY <1>1, <2>1, <2>2 DEF Members
<1> QED BY <1>1, <1>2, <1>3, <1>4

-----------------------------------------------------------------------------
(* What the list operations do to the order of the members.                *)

\* Of two members one is before the other.
LEMMA BeforeTotal ==
    ASSUME NEW S, NEW q \in Seq(S), NEW t \in Members(q), NEW u \in Members(q), t # u
    PROVE  Before(q, t, u) \/ Before(q, u, t)
<1>1. PICK i \in DOMAIN q : q[i] = t
  BY DEF Members
<1>2. PICK j \in DOMAIN q : q[j] = u
  BY DEF Members
<1>3. i \in Nat /\ j \in Nat /\ i # j
  BY <1>1, <1>2
<1> QED BY <1>1, <1>2, <1>3 DEF Before

\* list_insert_last puts the new member behind all others, whose order it keeps.
LEMMA BeforeInsertLast ==
    ASSUME NEW S, NEW q \in Seq(S), NEW n \in S
    PROVE  /\ \A t \in Members(q) : Before(list_insert_last(q, n), t, n)
           /\ \A t, u : Before(q, t, u) => Before(list_insert_last(q, n), t, u)
<1> DEFINE r == list_insert_last(q, n)
<1>1. /\ \A i \in 1 .. Len(q) : r[i] = q[i]
      /\ r[Len(q) + 1] = n
      /\ DOMAIN q = 1 .. Len(q) /\ DOMAIN r = 1 .. Len(q) + 1 /\ Len(q) \in Nat
  BY DEF list_insert_last
<1> HIDE DEF r
<1>2. \A t \in Members(q) : Before(r, t, n)
  BY <1>1 DEF Members, Before
<1>3. \A t, u : Before(q, t, u) => Before(r, t, u)
  BY <1>1 DEF Before
<1> QED BY <1>2, <1>3 DEF r

\* list_delete keeps the order of the other members.
LEMMA BeforeDelete ==
    ASSUME NEW S, NEW q \in Seq(S), NEW n \in Members(q), NEW t, NEW u,
           t # n, u # n, Before(q, t, u)
    PROVE  Before(list_delete(q, n), t, u)
<1> DEFINE k == CHOOSE i \in DOMAIN q : q[i] = n
           r == list_delete(q, n)
<1>1. k \in 1 .. Len(q) /\ q[k] = n /\ Len(q) \in Nat /\ DOMAIN q = 1 .. Len(q)
  <2>1. \E i \in DOMAIN q : q[i] = n
    BY DEF Members
  <2> QED BY <2>1
<1>2. r = [i \in 1 .. Len(q) - 1 |-> IF i < k THEN q[i] ELSE q[i + 1]]
  BY DEF list_delete
<1> HIDE DEF k, r
<1>3. PICK i \in DOMAIN q, j \in DOMAIN q : i < j /\ q[i] = t /\ q[j] = u
  BY DEF Before
<1> DEFINE ii == IF i < k THEN i ELSE i - 1
           jj == IF j < k THEN j ELSE j - 1
<1>4. i # k /\ j # k
  BY <1>1, <1>3
<1>5. /\ ii \in 1 .. Len(q) - 1 /\ jj \in 1 .. Len(q) - 1 /\ ii < jj
      /\ (IF ii < k THEN ii ELSE ii + 1) = i /\ (IF jj < k THEN jj ELSE jj + 1) = j
  BY <1>1, <1>3, <1>4
<1> HIDE DEF ii, jj
<1>6. ii \in DOMAIN r /\ jj \in DOMAIN r /\ r[ii] = q[i] /\ r[jj] = q[j]
  BY <1>2, <1>5
<1>7. Before(r, t, u)
  BY <1>3, <1>5, <1>6 DEF Before
<1> QED BY <1>7 DEF r

\* list_delete_first keeps the order of those it leaves.
LEMMA BeforeDeleteFirst ==
    ASSUME NEW S, NEW q \in Seq(S), Len(q) > 0, NEW t, NEW u,
           t # Head(q), Before(q, t, u)
    PROVE  Before(Tail(q), t, u)
<1>1. /\ DOMAIN q = 1 .. Len(q) /\ Len(q) \in Nat /\ Head(q) = q[1]
      /\ DOMAIN Tail(q) = 1 .. Len(q) - 1
      /\ \A i \in 1 .. Len(q) - 1 : Tail(q)[i] = q[i + 1]
  OBVIOUS
<1>2. PICK i \in DOMAIN q, j \in DOMAIN q : i < j /\ q[i] = t /\ q[j] = u
  BY DEF Before
<1>3. /\ i - 1 \in 1 .. Len(q) - 1 /\ j - 1 \in 1 .. Len(q) - 1 /\ i - 1 < j - 1
      /\ (i - 1) + 1 = i /\ (j - 1) + 1 = j
  BY <1>1, <1>2
<1>4. Tail(q)[i - 1] = t /\ Tail(q)[j - 1] = u
  BY <1>1, <1>2, <1>3
<1> QED BY <1>1, <1>3, <1>4 DEF Before

-----------------------------------------------------------------------------
(* Sched: the invariant.                                                   *)

IInv == TypeOK /\ SafetyInv

\* task_dispatch makes the first task of the ready list, or idle, the current one
\* and changes the state of no other task.
LEMMA Dispatch ==
    ASSUME NEW q \in Seq(Tasks), NEW st \in [AllTasks -> States],
           curr \in AllTasks, task_dispatch(q, st)
    PROVE  /\ curr' \in AllTasks
           /\ state' \in [AllTasks -> States]
           /\ \/ q = <<>> /\ curr' = Idle
              \/ q # <<>> /\ curr' = Head(q) /\ curr' \in Members(q) /\ curr' \in Tasks
           /\ \A t \in AllTasks : t # curr' => state'[t] = st[t]
           /\ state'[curr'] = IF curr' = curr THEN st[curr] ELSE "RUNNING"
<1>1. /\ Members(q) \subseteq Tasks
      /\ q # <<>> => Head(q) \in Members(q)
      /\ q = <<>> <=> Len(q) = 0
  BY HeadMember
<1>2. \/ q = <<>> /\ curr' = Idle
      \/ q # <<>> /\ curr' = Head(q) /\ curr' \in Members(q) /\ curr' \in Tasks
  BY <1>1 DEF task_dispatch, task_next_run
<1>3. curr' \in AllTasks
  BY <1>2 DEF AllTasks
<1>4. state' = IF curr' = curr THEN st ELSE [st EXCEPT ![curr'] = "RUNNING"]
  BY DEF task_dispatch
<1> QED BY <1>2, <1>3, <1>4 DEF States

\* A task that makes a system call is the first of the ready list.
LEMMA CallerIsHead ==
    ASSUME TypeOK, CurrIsHead, OneList, Calling
    PROVE  /\ curr \in Tasks
           /\ curr \in Members(ready)
           /\ ~Blocked(curr)
           /\ ~handler[curr]
<1>1. curr = Head(ready) /\ ready # <<>>
  BY DEF CurrIsHead, Calling
<1>2. curr \in Members(ready) /\ Members(ready) \subseteq Tasks
  BY <1>1, HeadMember DEF TypeOK
<1> QED BY <1>2 DEF OneList, Calling, Running

\* The first state satisfies the invariant.
LEMMA InitInv == Init => IInv
<1> SUFFICES ASSUME Init PROVE IInv
  OBVIOUS
<1> USE FirstAssumption, IdleAssumption, SliceAssumption DEF Init, AllTasks
<1>1. TypeOK
  BY DEF TypeOK, States
<1>2. Members(ready) = {First} /\ Members(sleeping) = {} /\ First # Idle
  BY DEF Members
<1>3. OneList
  BY <1>2 DEF OneList, Blocked, Injective
<1>4. CurrIsHead
  BY DEF CurrIsHead
<1>5. CountersPositive
  BY <1>2 DEF CountersPositive
<1>6. StateMatchesLists
  BY <1>2 DEF StateMatchesLists
<1>7. PutOffScanReady /\ ScanInBounds
  BY DEF PutOffScanReady, ScanInBounds
<1> QED BY <1>1, <1>3, <1>4, <1>5, <1>6, <1>7 DEF IInv, SafetyInv

\* A call that takes the current task off the ready list and dispatches, the
\* task going to the sleep list, to a wait list or to no list at all.
LEMMA BlockStep ==
    ASSUME IInv, Calling,
           NEW st \in [AllTasks -> States],
           \A t \in AllTasks : t # curr => st[t] = state[t],
           ready' = task_set_block(ready, curr),
           task_dispatch(ready', st),
           UNCHANGED <<slice_ticks, handler, scan>>
    PROVE  /\ curr \in Tasks
           /\ ready' \in Seq(Tasks) /\ curr' \in AllTasks /\ curr' # curr
           /\ state' \in [AllTasks -> States]
           /\ Members(ready') = Members(ready) \ {curr}
           /\ Injective(ready')
           /\ CurrIsHead'
           /\ PutOffScanReady'
           /\ state'[curr] = st[curr]
           /\ \A t \in AllTasks : t # curr =>
                 state'[t] = IF t = curr' THEN "RUNNING" ELSE state[t]
           /\ curr' # Idle => curr' \in Members(ready)
<1> USE DEF IInv, SafetyInv
<1>1. curr \in Tasks /\ curr \in Members(ready) /\ ~handler[curr] /\ curr # Idle
  BY CallerIsHead, IdleAssumption
<1>2. ready' = list_delete(ready, curr)
  BY <1>1 DEF task_set_block
<1>3. /\ ready' \in Seq(Tasks) /\ Members(ready') = Members(ready) \ {curr}
      /\ Injective(ready')
  BY <1>1, <1>2, Delete DEF TypeOK, OneList
<1>4. /\ curr' \in AllTasks
      /\ state' \in [AllTasks -> States]
      /\ \/ ready' = <<>> /\ curr' = Idle
         \/ ready' # <<>> /\ curr' = Head(ready') /\ curr' \in Members(ready')
            /\ curr' \in Tasks
      /\ \A t \in AllTasks : t # curr' => state'[t] = st[t]
      /\ state'[curr'] = IF curr' = curr THEN st[curr] ELSE "RUNNING"
  BY <1>3, Dispatch DEF TypeOK
<1>5. curr' # curr
  BY <1>1, <1>3, <1>4
<1>6. CurrIsHead'
  BY <1>4 DEF CurrIsHead
<1>7. PutOffScanReady'
  BY <1>1, <1>3 DEF PutOffScanReady
<1>8. state'[curr] = st[curr] /\ curr \in AllTasks
  BY <1>4, <1>5 DEF TypeOK
<1>9. \A t \in AllTasks : t # curr =>
          state'[t] = IF t = curr' THEN "RUNNING" ELSE state[t]
  BY <1>4, <1>5
<1> QED BY <1>1, <1>3, <1>4, <1>5, <1>6, <1>7, <1>8, <1>9

\* Moving the current task to the end of the ready list and dispatching:
\* sys_yield, and the end of a time slice.
LEMMA RotateStep ==
    ASSUME IInv, Calling,
           ready' = task_set_ready_list(task_set_block(ready, curr), curr),
           task_dispatch(ready', task_set_ready_state(state, curr))
    PROVE  /\ ready' \in Seq(Tasks) /\ curr' \in Tasks
           /\ state' \in [AllTasks -> States]
           /\ Members(ready') = Members(ready)
           /\ Injective(ready')
           /\ CurrIsHead'
           /\ curr \in Tasks /\ curr \in Members(ready)
           /\ curr' \in Members(ready)
           /\ \A t \in AllTasks :
                 state'[t] = IF t = curr THEN "READY"
                             ELSE IF t = curr' THEN "RUNNING" ELSE state[t]
<1> USE DEF IInv, SafetyInv
<1>1. curr \in Tasks /\ curr \in Members(ready) /\ curr # Idle
  BY CallerIsHead, IdleAssumption
<1> DEFINE st == [state EXCEPT ![curr] = "READY"]
<1>2. /\ ready' = list_insert_last(list_delete(ready, curr), curr)
      /\ task_dispatch(ready', st)
  BY <1>1 DEF task_set_block, task_set_ready_list, task_set_ready_state
<1>4. /\ ready' \in Seq(Tasks) /\ ready' # <<>>
      /\ Members(ready') = Members(ready) /\ Injective(ready')
  BY <1>1, <1>2, Rotate DEF TypeOK, OneList
<1>6. st \in [AllTasks -> States]
  BY DEF TypeOK, States
<1> HIDE DEF st
<1>7. /\ curr' \in AllTasks
      /\ state' \in [AllTasks -> States]
      /\ curr' = Head(ready') /\ curr' \in Members(ready') /\ curr' \in Tasks
      /\ \A t \in AllTasks : t # curr' => state'[t] = st[t]
      /\ state'[curr'] = IF curr' = curr THEN st[curr] ELSE "RUNNING"
  BY <1>2, <1>4, <1>6, Dispatch DEF TypeOK
<1>8. CurrIsHead'
  BY <1>4, <1>7 DEF CurrIsHead
<1>9. \A t \in AllTasks :
          state'[t] = IF t = curr THEN "READY"
                      ELSE IF t = curr' THEN "RUNNING" ELSE state[t]
  BY <1>1, <1>7 DEF st, TypeOK
<1> QED BY <1>1, <1>4, <1>7, <1>8, <1>9

\* Making a task ready that is on no list, and dispatching: sem_notify,
\* mutex_unlock.
LEMMA ReadyList ==
    ASSUME TypeOK, OneList, NEW t \in Tasks, t \notin Members(ready)
    PROVE  /\ task_set_ready_list(ready, t) \in Seq(Tasks)
           /\ task_set_ready_list(ready, t) # <<>>
           /\ Members(task_set_ready_list(ready, t)) = Members(ready) \cup {t}
           /\ Injective(task_set_ready_list(ready, t))
           /\ task_set_ready_state(state, t) = [state EXCEPT ![t] = "READY"]
           /\ task_set_ready_state(state, t) \in [AllTasks -> States]
           /\ ready # <<>> => Head(task_set_ready_list(ready, t)) = Head(ready)
<1>1. t # Idle
  BY IdleAssumption
<1>2. /\ task_set_ready_list(ready, t) = list_insert_last(ready, t)
      /\ task_set_ready_state(state, t) = [state EXCEPT ![t] = "READY"]
  BY <1>1 DEF task_set_ready_list, task_set_ready_state
<1>3. [state EXCEPT ![t] = "READY"] \in [AllTasks -> States]
  BY DEF TypeOK, States
<1>4. ready # <<>> => Head(list_insert_last(ready, t)) = Head(ready)
  BY DEF TypeOK, list_insert_last
<1> HIDE DEF list_insert_last
<1>5. ready \in Seq(Tasks) /\ Injective(ready)
  BY DEF TypeOK, OneList
<1>6. /\ list_insert_last(ready, t) \in Seq(Tasks)
      /\ list_insert_last(ready, t) # <<>>
      /\ Members(list_insert_last(ready, t)) = Members(ready) \cup {t}
      /\ Injective(list_insert_last(ready, t))
  BY <1>5, InsertLast
<1> QED BY <1>2, <1>3, <1>4, <1>6

\* The end of the slice or one tick less.
LEMMA TickInv == IInv /\ task_time_tick => IInv'
<1> SUFFICES ASSUME IInv, task_time_tick PROVE IInv'
  OBVIOUS
<1> USE DEF IInv, SafetyInv
<1>0. /\ ~handler[curr] /\ curr \in AllTasks
      /\ handler' = [handler EXCEPT ![curr] = TRUE]
      /\ sleeping' = sleeping /\ waiting' = waiting
      /\ sleep_ticks' = sleep_ticks /\ scan' = scan
  BY DEF task_time_tick, Running, TypeOK
<1>1. CASE slice_ticks[curr] # 1
  <2>1. /\ slice_ticks' = [slice_ticks EXCEPT ![curr] = @ - 1]
        /\ curr' = curr /\ ready' = ready /\ state' = state
    BY <1>1 DEF task_time_tick
  <2>2. TypeOK'
    BY <1>0, <2>1 DEF TypeOK
  <2>3. OneList' /\ StateMatchesLists'
    BY <1>0, <2>1 DEF OneList, StateMatchesLists, Blocked, Members, Injective
  <2>4. CurrIsHead'
    BY <1>0, <2>1 DEF CurrIsHead, TypeOK
  <2>5. CountersPositive'
    BY <1>0, <1>1, <2>1, SliceAssumption DEF CountersPositive, TypeOK, Members
  <2>6. PutOffScanReady' /\ ScanInBounds'
    BY <1>0, <2>1 DEF PutOffScanReady, ScanInBounds, TypeOK, Members
  <2> QED BY <2>2, <2>3, <2>4, <2>5, <2>6
<1>2. CASE slice_ticks[curr] = 1
  <2>1. /\ slice_ticks' = [slice_ticks EXCEPT ![curr] = TIME_SLICE]
        /\ ready' = task_set_ready_list(task_set_block(ready, curr), curr)
        /\ task_dispatch(ready', task_set_ready_state(state, curr))
    BY <1>2 DEF task_time_tick
  <2>2. CountersPositive'
    BY <1>0, <2>1, SliceAssumption DEF CountersPositive, TypeOK, Members
  <2>3. ScanInBounds'
    BY <1>0 DEF ScanInBounds
  <2>4. CASE curr = Idle
    <3>1. ready = <<>> /\ ready' = ready
      BY <1>0, <2>1, <2>4, HeadMember, IdleAssumption
         DEF CurrIsHead, task_set_ready_list, task_set_block, TypeOK
    <3>2. curr' = curr /\ state' = state
      BY <2>1, <2>4, <3>1
         DEF task_dispatch, task_next_run, task_set_ready_state
    <3>3. TypeOK'
      <4>1. slice_ticks' \in [AllTasks -> Int] /\ handler' \in [AllTasks -> BOOLEAN]
        BY <1>0, <2>1, SliceAssumption DEF TypeOK
      <4> QED BY <1>0, <3>1, <3>2, <4>1 DEF TypeOK
    <3>4. OneList' /\ StateMatchesLists'
      BY <1>0, <3>1, <3>2 DEF OneList, StateMatchesLists, Blocked, Members, Injective
    <3>5. CurrIsHead'
      BY <2>4, <3>1, <3>2 DEF CurrIsHead
    <3>6. PutOffScanReady'
      BY <1>0, <3>1, <3>2 DEF PutOffScanReady, TypeOK, Members
    <3> QED BY <2>2, <2>3, <3>3, <3>4, <3>5, <3>6
  <2>5. CASE curr # Idle
    <3>1. Calling
      BY <2>5 DEF Calling, task_time_tick
    <3>2. /\ ready' \in Seq(Tasks) /\ curr' \in Tasks
          /\ state' \in [AllTasks -> States]
          /\ Members(ready') = Members(ready)
          /\ Injective(ready')
          /\ CurrIsHead'
          /\ curr \in Tasks /\ curr \in Members(ready)
          /\ curr' \in Members(ready)
          /\ \A t \in AllTasks :
                state'[t] = IF t = curr THEN "READY"
                            ELSE IF t = curr' THEN "RUNNING" ELSE state[t]
      BY <2>1, <3>1, RotateStep
    <3>3. TypeOK'
      BY <1>0, <2>1, <3>2, SliceAssumption DEF TypeOK, AllTasks
    <3>4. OneList'
      BY <1>0, <3>2 DEF OneList, Blocked
    <3>5. StateMatchesLists'
      <4>1. \A t \in Tasks : t \in Members(ready) =>
                t \notin Members(sleeping) /\ state[t] \notin {"SLEEP", "CREATED", "ZOMBIE"}
        BY DEF StateMatchesLists, OneList, Blocked
      <4>2. \A t \in Tasks : t \notin Members(ready) => state'[t] = state[t]
        BY <3>2 DEF AllTasks
      <4>3. \A t \in Tasks : t \in Members(ready) =>
                state'[t] \notin {"SLEEP", "CREATED", "ZOMBIE"}
        BY <3>2, <4>1 DEF AllTasks
      <4>4. \A t \in Tasks : t \in Members(ready) /\ state'[t] = "RUNNING" => t = curr'
        BY <3>2 DEF AllTasks, StateMatchesLists
      <4>5. Members(ready) \subseteq Tasks
        BY HeadMember DEF TypeOK
      <4> QED BY <1>0, <3>2, <4>1, <4>2, <4>3, <4>4, <4>5 DEF StateMatchesLists
    <3>6. PutOffScanReady'
      BY <1>0, <3>2 DEF PutOffScanReady, TypeOK
    <3> QED BY <2>2, <2>3, <3>2, <3>3, <3>4, <3>5, <3>6
  <2> QED BY <2>4, <2>5
<1> QED BY <1>1, <1>2

\* One turn of the scan: one tick less for a sleeper, or its wake up.
LEMMA ScanInv == IInv /\ TickScan => IInv'
<1> SUFFICES ASSUME IInv, TickScan PROVE IInv'
  OBVIOUS
<1> USE DEF IInv, SafetyInv
<1> DEFINE t == sleeping[scan]
<1>0. /\ handler[curr] /\ curr' = curr /\ waiting' = waiting
      /\ slice_ticks' = slice_ticks /\ handler' = handler
      /\ sleep_ticks' = [sleep_ticks EXCEPT ![t] = @ - 1]
  BY DEF TickScan
<1>1. /\ scan \in 1 .. Len(sleeping) /\ t \in Tasks /\ t \in Members(sleeping)
      /\ t \in AllTasks
  BY DEF TickScan, TypeOK, Members, AllTasks
<1>2. /\ t \notin Members(ready) /\ t \notin waiting /\ state[t] = "SLEEP"
      /\ sleep_ticks[t] \in Int /\ sleep_ticks[t] >= 1
  BY <1>1 DEF OneList, Blocked, StateMatchesLists, CountersPositive, TypeOK
<1>3. sleep_ticks' \in [AllTasks -> Int]
  BY <1>0, <1>1, <1>2 DEF TypeOK
<1>4. \A u \in Members(sleeping) : u # t \/ sleep_ticks[t] # 1 => sleep_ticks'[u] >= 1
  <2>1. Members(sleeping) \subseteq AllTasks
    BY HeadMember DEF TypeOK, AllTasks
  <2> QED BY <1>0, <1>1, <1>2, <2>1 DEF CountersPositive, TypeOK
<1>5. CASE sleep_ticks[t] # 1
  <2>1. /\ scan' = scan + 1 /\ sleeping' = sleeping /\ ready' = ready
        /\ state' = state
    BY <1>5 DEF TickScan
  <2>2. TypeOK'
    BY <1>0, <1>3, <2>1 DEF TypeOK
  <2>3. OneList' /\ StateMatchesLists'
    BY <1>0, <2>1 DEF OneList, StateMatchesLists, Blocked
  <2>4. CurrIsHead' /\ PutOffScanReady'
    BY <1>0, <2>1 DEF CurrIsHead, PutOffScanReady
  <2>5. CountersPositive'
    BY <1>0, <1>4, <1>5, <2>1 DEF CountersPositive
  <2>6. ScanInBounds'
    BY <1>0, <1>1, <2>1 DEF ScanInBounds, TypeOK
  <2> QED BY <2>2, <2>3, <2>4, <2>5, <2>6
<1>6. CASE sleep_ticks[t] = 1
  <2>1. /\ scan' = scan
        /\ sleeping' = list_delete(sleeping, t)
        /\ ready' = task_set_ready_list(ready, t)
        /\ state' = task_set_ready_state(state, t)
    BY <1>6 DEF TickScan
  <2>2. /\ sleeping' \in Seq(Tasks) /\ Len(sleeping') = Len(sleeping) - 1
        /\ Injective(sleeping')
    BY <1>1, <2>1, Delete DEF TypeOK, OneList
  <2>3. Members(sleeping') = Members(sleeping) \ {t}
    BY <1>1, <2>1, Delete DEF TypeOK, OneList
  <2>4. /\ ready' \in Seq(Tasks) /\ ready' # <<>> /\ Injective(ready')
        /\ ready # <<>> => Head(ready') = Head(ready)
        /\ state' = [state EXCEPT ![t] = "READY"]
        /\ state' \in [AllTasks -> States]
    BY <1>1, <1>2, <2>1, ReadyList
  <2>5. Members(ready') = Members(ready) \cup {t}
    BY <1>1, <1>2, <2>1, ReadyList
  <2>6. TypeOK'
    BY <1>0, <1>3, <2>1, <2>2, <2>4 DEF TypeOK
  <2>7. OneList'
    BY <1>0, <1>2, <2>2, <2>3, <2>4, <2>5 DEF OneList, Blocked
  <2>8. CurrIsHead'
    BY <1>0, <2>4 DEF CurrIsHead
  <2>9. CountersPositive'
    BY <1>0, <1>4, <2>3 DEF CountersPositive
  <2>10. StateMatchesLists'
    <3>1. state'[t] = "READY" /\ \A u \in AllTasks : u # t => state'[u] = state[u]
      BY <1>1, <2>4 DEF TypeOK
    <3>2. Members(ready) \subseteq Tasks
      BY HeadMember DEF TypeOK
    <3>3. \A u \in Tasks : u # t => state'[u] = state[u]
      BY <3>1 DEF AllTasks
    <3>4. \A u \in Tasks : state'[u] = "SLEEP" <=> u \in Members(sleeping')
      BY <2>3, <3>1, <3>3 DEF StateMatchesLists
    <3>5. \A u \in Tasks : state'[u] \in {"CREATED", "ZOMBIE"} =>
                               u \notin Members(ready') /\ u \notin waiting'
      BY <1>0, <1>2, <2>5, <3>1, <3>3 DEF StateMatchesLists
    <3>6. \A u \in Members(ready') : state'[u] = "RUNNING" => u = curr'
      BY <1>0, <2>5, <3>1, <3>2, <3>3 DEF StateMatchesLists
    <3> QED BY <3>4, <3>5, <3>6 DEF StateMatchesLists
  <2>11. PutOffScanReady'
    BY <1>0, <2>5 DEF PutOffScanReady
  <2>12. ScanInBounds'
    BY <1>0, <1>1, <2>1, <2>2 DEF ScanInBounds, TypeOK
  <2> QED BY <2>6, <2>7, <2>8, <2>9, <2>10, <2>11, <2>12
<1> QED BY <1>5, <1>6

\* The dispatch at the end of the tick: only the idle task is switched away from.
LEMMA DoneInv == IInv /\ TickDone => IInv'
<1> SUFFICES ASSUME IInv, TickDone PROVE IInv'
  OBVIOUS
<1> USE DEF IInv, SafetyInv
<1>0. /\ handler[curr] /\ handler' = [handler EXCEPT ![curr] = FALSE]
      /\ scan' = 1 /\ task_dispatch(ready, state)
      /\ ready' = ready /\ sleeping' = sleeping /\ waiting' = waiting
      /\ slice_ticks' = slice_ticks /\ sleep_ticks' = sleep_ticks
      /\ curr \in AllTasks
  BY DEF TickDone, TypeOK
<1>1. /\ curr' \in AllTasks
      /\ state' \in [AllTasks -> States]
      /\ \/ ready = <<>> /\ curr' = Idle
         \/ ready # <<>> /\ curr' = Head(ready) /\ curr' \in Members(ready)
            /\ curr' \in Tasks
      /\ \A t \in AllTasks : t # curr' => state'[t] = state[t]
      /\ state'[curr'] = IF curr' = curr THEN state[curr] ELSE "RUNNING"
  BY <1>0, Dispatch DEF TypeOK
<1>2. TypeOK'
  <2>1. handler' \in [AllTasks -> BOOLEAN] /\ scan' \in Nat \ {0}
    BY <1>0 DEF TypeOK
  <2> QED BY <1>0, <1>1, <2>1 DEF TypeOK
<1>3. OneList' /\ CountersPositive'
  BY <1>0 DEF OneList, Blocked, CountersPositive
<1>4. CurrIsHead'
  BY <1>0, <1>1 DEF CurrIsHead
<1>5. curr' = curr \/ curr = Idle
  BY <1>0, <1>1 DEF CurrIsHead
<1>6. StateMatchesLists'
  <2>1. Members(ready) \subseteq Tasks
    BY HeadMember DEF TypeOK
  <2>2. \A t \in Tasks : t # curr' => state'[t] = state[t]
    BY <1>1 DEF AllTasks
  <2>3. curr' \in Tasks => /\ curr' \notin Members(sleeping)
                           /\ state'[curr'] \notin {"SLEEP", "CREATED", "ZOMBIE"}
    BY <1>1, IdleAssumption DEF OneList, Blocked, StateMatchesLists
  <2>4. \A t \in Tasks : state'[t] = "SLEEP" <=> t \in Members(sleeping)
    BY <2>2, <2>3 DEF StateMatchesLists
  <2>5. \A t \in Tasks : state'[t] \in {"CREATED", "ZOMBIE"} =>
                             t \notin Members(ready) /\ t \notin waiting
    BY <2>2, <2>3 DEF StateMatchesLists
  <2>6. \A t \in Members(ready) : state'[t] = "RUNNING" => t = curr'
    BY <1>5, <2>1, <2>2, IdleAssumption DEF StateMatchesLists
  <2> QED BY <1>0, <2>4, <2>5, <2>6 DEF StateMatchesLists
<1>7. PutOffScanReady'
  BY <1>0, <1>5, IdleAssumption DEF PutOffScanReady, TypeOK, AllTasks
<1>8. ScanInBounds'
  BY <1>0, HeadMember DEF ScanInBounds, TypeOK
<1> QED BY <1>2, <1>3, <1>4, <1>6, <1>7, <1>8

\* sys_fork starts a task that is on no list yet.
LEMMA StartInv == ASSUME IInv, NEW t \in Tasks, task_start(t) PROVE IInv'
<1> USE DEF IInv, SafetyInv
<1>0. /\ state[t] = "CREATED" /\ curr' = curr /\ handler' = handler /\ scan' = scan
      /\ ready' = task_set_ready_list(ready, t)
      /\ state' = task_set_ready_state(state, t)
      /\ sleeping' = sleeping /\ waiting' = waiting
      /\ slice_ticks' = slice_ticks /\ sleep_ticks' = sleep_ticks
  BY DEF task_start
<1>1. t \notin Members(ready) /\ t \notin Members(sleeping) /\ t \notin waiting
  BY <1>0 DEF StateMatchesLists
<1>2. /\ ready' \in Seq(Tasks) /\ ready' # <<>> /\ Injective(ready')
      /\ ready # <<>> => Head(ready') = Head(ready)
      /\ state' = [state EXCEPT ![t] = "READY"]
      /\ state' \in [AllTasks -> States]
  BY <1>0, <1>1, ReadyList
<1>3. Members(ready') = Members(ready) \cup {t}
  BY <1>0, <1>1, ReadyList
<1>4. TypeOK'
  BY <1>0, <1>2 DEF TypeOK
<1>5. OneList'
  BY <1>0, <1>1, <1>2, <1>3 DEF OneList, Blocked
<1>6. curr # Idle /\ CurrIsHead'
  BY <1>0, <1>2 DEF CurrIsHead, task_start, Calling
<1>7. StateMatchesLists'
  <2>1. \A u \in Tasks : state'[u] = IF u = t THEN "READY" ELSE state[u]
    BY <1>2 DEF TypeOK, AllTasks
  <2>2. Members(ready) \subseteq Tasks
    BY HeadMember DEF TypeOK
  <2>3. \A u \in Tasks : state'[u] = "SLEEP" <=> u \in Members(sleeping)
    BY <1>1, <2>1 DEF StateMatchesLists
  <2>4. \A u \in Tasks : state'[u] \in {"CREATED", "ZOMBIE"} =>
                             u \notin Members(ready') /\ u \notin waiting
    BY <1>3, <2>1 DEF StateMatchesLists
  <2>5. \A u \in Members(ready') : state'[u] = "RUNNING" => u = curr
    BY <1>3, <2>1, <2>2 DEF StateMatchesLists
  <2> QED BY <1>0, <2>3, <2>4, <2>5 DEF StateMatchesLists
<1>8. PutOffScanReady' /\ CountersPositive' /\ ScanInBounds'
  BY <1>0, <1>3 DEF PutOffScanReady, CountersPositive, ScanInBounds
<1> QED BY <1>4, <1>5, <1>6, <1>7, <1>8

\* sys_yield rotates the ready list.
LEMMA YieldInv == IInv /\ sys_yield => IInv'
<1> SUFFICES ASSUME IInv, sys_yield PROVE IInv'
  OBVIOUS
<1> USE DEF IInv, SafetyInv
<1>0. /\ Calling /\ handler' = handler /\ scan' = scan /\ ~handler[curr]
      /\ ready' = task_set_ready_list(task_set_block(ready, curr), curr)
      /\ task_dispatch(ready', task_set_ready_state(state, curr))
      /\ sleeping' = sleeping /\ waiting' = waiting
      /\ slice_ticks' = slice_ticks /\ sleep_ticks' = sleep_ticks
  BY DEF sys_yield, Calling, Running
<1>1. /\ ready' \in Seq(Tasks) /\ curr' \in Tasks
      /\ state' \in [AllTasks -> States]
      /\ Members(ready') = Members(ready)
      /\ Injective(ready')
      /\ CurrIsHead'
      /\ curr \in Tasks /\ curr \in Members(ready)
      /\ curr' \in Members(ready)
      /\ \A t \in AllTasks :
            state'[t] = IF t = curr THEN "READY"
                        ELSE IF t = curr' THEN "RUNNING" ELSE state[t]
  BY <1>0, RotateStep
<1>2. TypeOK'
  BY <1>0, <1>1 DEF TypeOK, AllTasks
<1>3. OneList' /\ CountersPositive'
  BY <1>0, <1>1 DEF OneList, Blocked, CountersPositive
<1>4. StateMatchesLists'
  <2>1. \A t \in Tasks : t \in Members(ready) =>
            t \notin Members(sleeping) /\ state[t] \notin {"SLEEP", "CREATED", "ZOMBIE"}
    BY DEF StateMatchesLists, OneList, Blocked
  <2>2. \A t \in Tasks : t \notin Members(ready) => state'[t] = state[t]
    BY <1>1 DEF AllTasks
  <2>3. \A t \in Tasks : t \in Members(ready) =>
            state'[t] \notin {"SLEEP", "CREATED", "ZOMBIE"}
    BY <1>1, <2>1 DEF AllTasks
  <2>4. \A t \in Tasks : t \in Members(ready) /\ state'[t] = "RUNNING" => t = curr'
    BY <1>1 DEF AllTasks, StateMatchesLists
  <2>5. Members(ready) \subseteq Tasks
    BY HeadMember DEF TypeOK
  <2> QED BY <1>0, <1>1, <2>1, <2>2, <2>3, <2>4, <2>5 DEF StateMatchesLists
<1>5. PutOffScanReady'
  BY <1>0, <1>1 DEF PutOffScanReady, TypeOK
<1>6. ~handler'[curr'] => scan' = 1
  BY <1>0 DEF ScanInBounds
<1>7. ScanInBounds'
  BY <1>0, <1>6 DEF ScanInBounds
<1> QED BY <1>1, <1>2, <1>3, <1>4, <1>5, <1>7

\* What remains after BlockStep: the caller's new list and its state agree.
LEMMA BlockedStates ==
    ASSUME IInv, curr \in Tasks, curr \in Members(ready), curr' # curr,
           curr' # Idle => curr' \in Members(ready),
           Members(ready') = Members(ready) \ {curr},
           \A t \in AllTasks : t # curr =>
                 state'[t] = IF t = curr' THEN "RUNNING" ELSE state[t],
           state'[curr] = "SLEEP" <=> curr \in Members(sleeping'),
           state'[curr] \in {"CREATED", "ZOMBIE"} => curr \notin waiting',
           \A t \in Tasks : t # curr => (t \in Members(sleeping') <=> t \in Members(sleeping)),
           \A t \in Tasks : t # curr => (t \in waiting' <=> t \in waiting)
    PROVE  StateMatchesLists'
<1> USE DEF IInv, SafetyInv
<1>1. Members(ready) \subseteq Tasks
  BY HeadMember DEF TypeOK
<1>2. \A t \in Tasks : t # curr =>
          state'[t] = IF t = curr' THEN "RUNNING" ELSE state[t]
  BY DEF AllTasks
<1>3. \A t \in Tasks : t = curr' =>
          t \notin Members(sleeping) /\ state[t] \notin {"SLEEP", "CREATED", "ZOMBIE"}
  BY IdleAssumption DEF StateMatchesLists, OneList, Blocked
<1>4. \A t \in Tasks : state'[t] = "SLEEP" <=> t \in Members(sleeping')
  BY <1>2, <1>3 DEF StateMatchesLists
<1>5. \A t \in Tasks : state'[t] \in {"CREATED", "ZOMBIE"} =>
                           t \notin Members(ready') /\ t \notin waiting'
  BY <1>2, <1>3 DEF StateMatchesLists
<1>6. \A t \in Members(ready') : state'[t] = "RUNNING" => t = curr'
  BY <1>1, <1>2 DEF StateMatchesLists
<1> QED BY <1>4, <1>5, <1>6 DEF StateMatchesLists

\* The conclusions of BlockStep that the three blocking calls use.
BlockFacts ==
    /\ curr \in Tasks
    /\ ready' \in Seq(Tasks) /\ curr' \in AllTasks /\ curr' # curr
    /\ state' \in [AllTasks -> States]
    /\ Members(ready') = Members(ready) \ {curr}
    /\ Injective(ready')
    /\ CurrIsHead'
    /\ PutOffScanReady'
    /\ \A t \in AllTasks : t # curr =>
          state'[t] = IF t = curr' THEN "RUNNING" ELSE state[t]
    /\ curr' # Idle => curr' \in Members(ready)

\* sys_sleep: the sleep list, or no list for less than a tick.
LEMMA SleepInv == ASSUME IInv, NEW ms \in MsValues, sys_sleep(ms) PROVE IInv'
<1> USE DEF IInv, SafetyInv
<1> DEFINE ticks == ms \div OS_TICK_MS
<1>0. /\ Calling /\ handler' = handler /\ scan' = scan /\ ~handler[curr]
      /\ ready' = task_set_block(ready, curr)
      /\ waiting' = waiting /\ slice_ticks' = slice_ticks
  BY DEF sys_sleep, Calling, Running
<1>1. ticks \in Int
  BY MsAssumption, TickAssumption
<1>2. /\ curr \in Tasks /\ curr \in Members(ready) /\ curr \in AllTasks
      /\ curr \notin Members(sleeping) /\ curr \notin waiting
      /\ state[curr] \notin {"SLEEP", "CREATED", "ZOMBIE"}
  BY <1>0, CallerIsHead DEF Blocked, StateMatchesLists, AllTasks
<1>3. Members(ready) \subseteq Tasks /\ Members(sleeping) \subseteq Tasks
  BY HeadMember DEF TypeOK
<1>4. CASE ticks <= 0
  <2>1. sleeping' = sleeping /\ sleep_ticks' = sleep_ticks /\ task_dispatch(ready', state)
    BY <1>4 DEF sys_sleep
  <2>2. BlockFacts /\ state'[curr] = state[curr]
    BY <1>0, <2>1, BlockStep DEF TypeOK, BlockFacts
  <2>3. TypeOK'
    BY <1>0, <2>1, <2>2 DEF TypeOK, BlockFacts
  <2>4. OneList'
    BY <1>0, <2>1, <2>2 DEF OneList, Blocked, BlockFacts
  <2>5. CountersPositive' /\ ScanInBounds'
    BY <1>0, <2>1 DEF CountersPositive, ScanInBounds
  <2>6. StateMatchesLists'
    BY <1>0, <1>2, <2>1, <2>2, BlockedStates DEF BlockFacts
  <2> QED BY <2>2, <2>3, <2>4, <2>5, <2>6 DEF BlockFacts
<1>5. CASE ~(ticks <= 0)
  <2> DEFINE st == [state EXCEPT ![curr] = "SLEEP"]
  <2>1. /\ sleep_ticks' = [sleep_ticks EXCEPT ![curr] = ticks]
        /\ sleeping' = list_insert_last(sleeping, curr)
        /\ task_dispatch(ready', st)
    BY <1>5 DEF sys_sleep
  <2>2. /\ st \in [AllTasks -> States] /\ st[curr] = "SLEEP"
        /\ \A t \in AllTasks : t # curr => st[t] = state[t]
    BY <1>2 DEF TypeOK, States
  <2> HIDE DEF st
  <2>3. BlockFacts /\ state'[curr] = "SLEEP"
    BY <1>0, <2>1, <2>2, BlockStep DEF BlockFacts
  <2>4. /\ sleeping \in Seq(Tasks) /\ Injective(sleeping)
        /\ curr \in Tasks /\ curr \notin Members(sleeping)
    BY <1>2 DEF TypeOK, OneList
  <2>5. /\ sleeping' \in Seq(Tasks) /\ Injective(sleeping')
        /\ Members(sleeping') = Members(sleeping) \cup {curr}
        /\ Len(sleeping') = Len(sleeping) + 1
    <3>1. PICK q, t : q = sleeping /\ t = curr /\ sleeping' = list_insert_last(q, t)
      BY <2>1
    <3>2. q \in Seq(Tasks) /\ Injective(q) /\ t \in Tasks /\ t \notin Members(q)
      BY <2>4, <3>1
    <3>3. /\ list_insert_last(q, t) \in Seq(Tasks) /\ Injective(list_insert_last(q, t))
          /\ Members(list_insert_last(q, t)) = Members(q) \cup {t}
          /\ Len(list_insert_last(q, t)) = Len(q) + 1
      BY ONLY <3>2, InsertLast
    <3> QED BY <3>1, <3>3
  <2>6. TypeOK'
    <3>1. sleep_ticks' \in [AllTasks -> Int]
      BY <1>1, <2>1 DEF TypeOK
    <3> QED BY <1>0, <2>3, <2>5, <3>1 DEF TypeOK, BlockFacts
  <2>7. OneList'
    BY <1>0, <1>2, <2>3, <2>5 DEF OneList, Blocked, BlockFacts
  <2>8. CountersPositive'
    <3>1. sleep_ticks'[curr] >= 1
      BY <1>1, <1>2, <1>5, <2>1 DEF TypeOK
    <3>2. \A t \in Members(sleeping) : sleep_ticks'[t] >= 1
      BY <1>2, <1>3, <2>1 DEF TypeOK, CountersPositive, AllTasks
    <3> QED BY <1>0, <2>5, <3>1, <3>2 DEF CountersPositive
  <2>9. ScanInBounds'
    BY <1>0, <2>4, <2>5 DEF ScanInBounds, TypeOK
  <2>10. StateMatchesLists'
    BY <1>0, <1>2, <2>3, <2>5, BlockedStates DEF BlockFacts
  <2> QED BY <2>3, <2>6, <2>7, <2>8, <2>9, <2>10 DEF BlockFacts
<1> QED BY <1>4, <1>5

\* sys_exit: off every list.
LEMMA ExitInv == IInv /\ sys_exit => IInv'
<1> SUFFICES ASSUME IInv, sys_exit PROVE IInv'
  OBVIOUS
<1> USE DEF IInv, SafetyInv
<1> DEFINE st == [state EXCEPT ![curr] = "ZOMBIE"]
<1>0. /\ Calling /\ handler' = handler /\ scan' = scan /\ ~handler[curr]
      /\ ready' = task_set_block(ready, curr) /\ task_dispatch(ready', st)
      /\ waiting' = waiting /\ slice_ticks' = slice_ticks
      /\ sleeping' = sleeping /\ sleep_ticks' = sleep_ticks
  BY DEF sys_exit, Calling, Running
<1>1. /\ curr \in Tasks /\ curr \in Members(ready) /\ curr \in AllTasks
      /\ curr \notin Members(sleeping) /\ curr \notin waiting
  BY <1>0, CallerIsHead DEF Blocked, AllTasks
<1>2. /\ st \in [AllTasks -> States] /\ st[curr] = "ZOMBIE"
      /\ \A t \in AllTasks : t # curr => st[t] = state[t]
  BY <1>1 DEF TypeOK, States
<1> HIDE DEF st
<1>3. BlockFacts /\ state'[curr] = "ZOMBIE"
  BY <1>0, <1>2, BlockStep DEF BlockFacts
<1>4. TypeOK'
  BY <1>0, <1>3 DEF TypeOK, BlockFacts
<1>5. OneList'
  BY <1>0, <1>3 DEF OneList, Blocked, BlockFacts
<1>6. CountersPositive' /\ ScanInBounds'
  BY <1>0 DEF CountersPositive, ScanInBounds
<1>7. StateMatchesLists'
  BY <1>0, <1>1, <1>3, BlockedStates DEF BlockFacts
<1> QED BY <1>3, <1>4, <1>5, <1>6, <1>7 DEF BlockFacts

\* The blocking half of sem_wait and mutex_lock.
LEMMA WaitInv == IInv /\ WaitCurr => IInv'
<1> SUFFICES ASSUME IInv, WaitCurr PROVE IInv'
  OBVIOUS
<1> USE DEF IInv, SafetyInv
<1>0. /\ Calling /\ handler' = handler /\ scan' = scan /\ ~handler[curr]
      /\ ready' = task_set_block(ready, curr) /\ task_dispatch(ready', state)
      /\ waiting' = waiting \cup {curr} /\ slice_ticks' = slice_ticks
      /\ sleeping' = sleeping /\ sleep_ticks' = sleep_ticks
  BY DEF WaitCurr, Calling, Running
<1>1. /\ curr \in Tasks /\ curr \in Members(ready) /\ curr \in AllTasks
      /\ curr \notin Members(sleeping) /\ curr \notin waiting
      /\ state[curr] \notin {"SLEEP", "CREATED", "ZOMBIE"}
  BY <1>0, CallerIsHead DEF Blocked, AllTasks, StateMatchesLists
<1>2. BlockFacts /\ state'[curr] = state[curr]
  BY <1>0, BlockStep DEF BlockFacts, TypeOK
<1>3. TypeOK'
  BY <1>0, <1>1, <1>2 DEF TypeOK, BlockFacts
<1>4. OneList'
  BY <1>0, <1>1, <1>2 DEF OneList, Blocked, BlockFacts
<1>5. CountersPositive' /\ ScanInBounds'
  BY <1>0 DEF CountersPositive, ScanInBounds
<1>6. StateMatchesLists'
  BY <1>0, <1>1, <1>2, BlockedStates DEF BlockFacts
<1> QED BY <1>2, <1>3, <1>4, <1>5, <1>6 DEF BlockFacts

\* The waking half of sem_notify and mutex_unlock.
LEMMA WakeInv == ASSUME IInv, NEW t \in waiting, WakeTask(t) PROVE IInv'
<1> USE DEF IInv, SafetyInv
<1>0. /\ handler' = handler /\ scan' = scan /\ ~handler[curr]
      /\ ready' = task_set_ready_list(ready, t)
      /\ task_dispatch(ready', task_set_ready_state(state, t))
      /\ waiting' = waiting \ {t} /\ slice_ticks' = slice_ticks
      /\ sleeping' = sleeping /\ sleep_ticks' = sleep_ticks
  BY DEF WakeTask, Running
<1>1. /\ t \in Tasks /\ t \notin Members(ready) /\ t \notin Members(sleeping)
      /\ t \in AllTasks
  BY DEF TypeOK, OneList, Blocked, AllTasks
<1> DEFINE st == task_set_ready_state(state, t)
<1>2. /\ ready' \in Seq(Tasks) /\ ready' # <<>> /\ Injective(ready')
      /\ ready # <<>> => Head(ready') = Head(ready)
      /\ st = [state EXCEPT ![t] = "READY"]
      /\ st \in [AllTasks -> States]
  BY <1>0, <1>1, ReadyList
<1>3. Members(ready') = Members(ready) \cup {t}
  BY <1>0, <1>1, ReadyList
<1>4. /\ task_dispatch(ready', st)
      /\ \A u \in AllTasks : st[u] = IF u = t THEN "READY" ELSE state[u]
  BY <1>0, <1>1, <1>2 DEF TypeOK
<1> HIDE DEF st
<1>5. /\ curr' \in AllTasks
      /\ state' \in [AllTasks -> States]
      /\ curr' = Head(ready') /\ curr' \in Members(ready') /\ curr' \in Tasks
      /\ \A u \in AllTasks : u # curr' => state'[u] = st[u]
      /\ state'[curr'] = IF curr' = curr THEN st[curr] ELSE "RUNNING"
  BY <1>2, <1>4, Dispatch DEF TypeOK
<1>6. TypeOK'
  BY <1>0, <1>2, <1>5 DEF TypeOK
<1>7. OneList'
  BY <1>0, <1>1, <1>2, <1>3 DEF OneList, Blocked
<1>8. CurrIsHead'
  BY <1>2, <1>5 DEF CurrIsHead
<1>9. curr' = curr \/ curr = Idle
  BY <1>2, <1>5 DEF CurrIsHead
<1>10. Members(ready) \subseteq Tasks
  BY HeadMember DEF TypeOK
<1>11. StateMatchesLists'
  <2>1. \A u \in Tasks : u # curr' => state'[u] = IF u = t THEN "READY" ELSE state[u]
    BY <1>4, <1>5 DEF AllTasks
  <2>2. state'[curr'] \notin {"SLEEP", "CREATED", "ZOMBIE"} /\ curr' \notin Members(sleeping)
    <3>1. CASE curr' = t
      BY <1>1, <1>4, <1>5, <3>1
    <3>2. CASE curr' # t
      BY <1>3, <1>4, <1>5, <3>2 DEF OneList, Blocked, StateMatchesLists, TypeOK
    <3> QED BY <3>1, <3>2
  <2>3. \A u \in Tasks : state'[u] = "SLEEP" <=> u \in Members(sleeping)
    BY <1>1, <2>1, <2>2 DEF StateMatchesLists
  <2>4. \A u \in Tasks : state'[u] \in {"CREATED", "ZOMBIE"} =>
                             u \notin Members(ready') /\ u \notin waiting
    BY <1>3, <2>1, <2>2 DEF StateMatchesLists
  <2>5. \A u \in Members(ready') : state'[u] = "RUNNING" => u = curr'
    BY <1>1, <1>3, <1>9, <1>10, <2>1, IdleAssumption DEF StateMatchesLists
  <2> QED BY <1>0, <2>3, <2>4, <2>5 DEF StateMatchesLists
<1>12. PutOffScanReady'
  BY <1>0, <1>3 DEF PutOffScanReady
<1>13. CountersPositive' /\ ScanInBounds'
  BY <1>0 DEF CountersPositive, ScanInBounds
<1> QED BY <1>6, <1>7, <1>8, <1>11, <1>12, <1>13

\* Every step keeps the invariant.
LEMMA StepInv == IInv /\ [Next]_schedVars => IInv'
<1> SUFFICES ASSUME IInv, [Next]_schedVars PROVE IInv'
  OBVIOUS
<1>1. CASE UNCHANGED schedVars
  BY <1>1 DEF schedVars, IInv, SafetyInv, TypeOK, OneList, Blocked, CurrIsHead,
     CountersPositive, StateMatchesLists, PutOffScanReady, ScanInBounds
<1>2. CASE Next
  BY <1>2, TickInv, ScanInv, DoneInv, StartInv, YieldInv, SleepInv, ExitInv,
     WaitInv, WakeInv DEF Next
<1> QED BY <1>1, <1>2

-----------------------------------------------------------------------------
(* The theorems.                                                           *)

\* Type correctness of the scheduler.
THEOREM TypeCorrect == Spec => []TypeOK
<1>1. IInv => TypeOK
  BY DEF IInv
<1> QED BY <1>1, InitInv, StepInv, PTL DEF Spec

\* The lists of the scheduler, curr_task, the tick counters, task->state and the
\* put-off scans stay consistent whatever the tasks do, for every number of
\* tasks, slice and sleep time.
THEOREM SchedulerSafe == Spec => []SafetyInv
<1>1. IInv => SafetyInv
  BY DEF IInv
<1> QED BY <1>1, InitInv, StepInv, PTL DEF Spec

\* A step of the scheduler loses no task, provided that sys_sleep is only called
\* with at least a tick.
LEMMA NoLostStep ==
    ASSUME SleepsWholeTicks, IInv, NoLostTask, [Next]_schedVars
    PROVE  NoLostTask'
<1> SUFFICES ASSUME NEW t \in Tasks PROVE ~Lost(t)'
  BY DEF NoLostTask
<1> USE DEF IInv, SafetyInv
<1>0. t \in AllTasks /\ ~Lost(t)
  BY DEF AllTasks, NoLostTask
<1>1. CASE UNCHANGED schedVars
  BY <1>0, <1>1 DEF schedVars, Lost, Blocked
<1>2. CASE \/ sys_yield
           \/ task_time_tick /\ slice_ticks[curr] = 1 /\ curr # Idle
  <2>1. /\ Calling
        /\ ready' = task_set_ready_list(task_set_block(ready, curr), curr)
        /\ task_dispatch(ready', task_set_ready_state(state, curr))
        /\ sleeping' = sleeping /\ waiting' = waiting
    BY <1>2 DEF sys_yield, task_time_tick, Calling
  <2>2. /\ Members(ready') = Members(ready) /\ curr \in Members(ready)
        /\ curr' \in Members(ready)
        /\ \A u \in AllTasks :
              state'[u] = IF u = curr THEN "READY"
                          ELSE IF u = curr' THEN "RUNNING" ELSE state[u]
    BY <2>1, RotateStep
  <2> QED BY <1>0, <2>1, <2>2 DEF Lost, Blocked
<1>3. CASE task_time_tick /\ (slice_ticks[curr] # 1 \/ curr = Idle)
  <2>1. CASE slice_ticks[curr] # 1
    BY <1>0, <1>3, <2>1 DEF task_time_tick, Lost, Blocked
  <2>2. CASE slice_ticks[curr] = 1 /\ curr = Idle
    <3>1. ready = <<>> /\ ready' = ready
      BY <1>3, <2>2, HeadMember, IdleAssumption
         DEF CurrIsHead, task_time_tick, Running, task_set_ready_list, task_set_block,
             TypeOK
    <3>2. state' = state
      BY <1>3, <2>2, <3>1
         DEF task_time_tick, task_dispatch, task_next_run, task_set_ready_state,
             task_set_ready_list, task_set_block
    <3> QED BY <1>0, <1>3, <3>1, <3>2 DEF task_time_tick, Lost, Blocked
  <2> QED BY <1>3, <2>1, <2>2
<1>4. CASE TickScan
  <2> DEFINE u == sleeping[scan]
  <2>1. u \in Tasks /\ u \in Members(sleeping) /\ u \notin Members(ready)
    <3>1. u \in Tasks /\ u \in Members(sleeping)
      BY <1>4 DEF TickScan, TypeOK, Members
    <3> QED BY <3>1 DEF OneList, Blocked
  <2>2. CASE sleep_ticks[u] # 1
    BY <1>0, <1>4, <2>2 DEF TickScan, Lost, Blocked
  <2>3. CASE sleep_ticks[u] = 1
    <3>1. /\ waiting' = waiting /\ sleeping' = list_delete(sleeping, u)
          /\ ready' = task_set_ready_list(ready, u)
          /\ state' = task_set_ready_state(state, u)
      BY <1>4, <2>3 DEF TickScan
    <3>2. Members(sleeping') = Members(sleeping) \ {u}
      BY <2>1, <3>1, Delete DEF TypeOK, OneList
    <3>3. Members(ready') = Members(ready) \cup {u}
      BY <2>1, <3>1, ReadyList
    <3>4. state' = [state EXCEPT ![u] = "READY"]
      BY <2>1, <3>1, ReadyList
    <3>5. t # u => state'[t] = state[t]
      BY <1>0, <3>4 DEF TypeOK
    <3> QED BY <1>0, <3>1, <3>2, <3>3, <3>5 DEF Lost, Blocked
  <2> QED BY <2>2, <2>3
<1>5. CASE TickDone
  <2>1. /\ task_dispatch(ready, state)
        /\ ready' = ready /\ sleeping' = sleeping /\ waiting' = waiting
    BY <1>5 DEF TickDone
  <2>2. /\ \A u \in AllTasks : u # curr' => state'[u] = state[u]
        /\ curr' = Idle \/ curr' \in Members(ready)
    BY <2>1, Dispatch DEF TypeOK
  <2> QED BY <1>0, <2>1, <2>2, IdleAssumption DEF Lost, Blocked
<1>6. CASE \E u \in Tasks : task_start(u)
  <2>1. PICK u \in Tasks : task_start(u)
    BY <1>6
  <2>2. /\ u \notin Members(ready)
        /\ ready' = task_set_ready_list(ready, u)
        /\ state' = task_set_ready_state(state, u)
        /\ sleeping' = sleeping /\ waiting' = waiting
    BY <2>1 DEF task_start, StateMatchesLists
  <2>3. Members(ready') = Members(ready) \cup {u}
    BY <2>2, ReadyList
  <2>4. state' = [state EXCEPT ![u] = "READY"]
    BY <2>2, ReadyList
  <2>5. t # u => state'[t] = state[t]
    BY <1>0, <2>4 DEF TypeOK
  <2> QED BY <1>0, <2>2, <2>3, <2>5 DEF Lost, Blocked
<1>7. CASE \E ms \in MsValues : sys_sleep(ms)
  <2>1. PICK ms \in MsValues : sys_sleep(ms)
    BY <1>7
  <2>2. ms \in Nat /\ ms >= OS_TICK_MS
    BY MsAssumption DEF SleepsWholeTicks
  <2>3. ~(ms \div OS_TICK_MS <= 0)
    BY <2>2, TickAssumption
  <2> DEFINE st == [state EXCEPT ![curr] = "SLEEP"]
  <2>4. /\ Calling /\ ready' = task_set_block(ready, curr)
        /\ sleeping' = list_insert_last(sleeping, curr) /\ waiting' = waiting
        /\ task_dispatch(ready', st)
        /\ slice_ticks' = slice_ticks /\ handler' = handler /\ scan' = scan
    BY <2>1, <2>3 DEF sys_sleep
  <2>5. /\ st \in [AllTasks -> States]
        /\ \A u \in AllTasks : u # curr => st[u] = state[u]
    BY DEF TypeOK, States
  <2> HIDE DEF st
  <2>6. /\ curr \in Tasks /\ Members(ready') = Members(ready) \ {curr}
        /\ \A u \in AllTasks : u # curr =>
              state'[u] = IF u = curr' THEN "RUNNING" ELSE state[u]
        /\ curr' # Idle => curr' \in Members(ready)
    BY <2>4, <2>5, BlockStep
  <2>7. Members(sleeping') = Members(sleeping) \cup {curr}
    <3>1. curr \in Tasks /\ sleeping \in Seq(Tasks)
      BY <2>6 DEF TypeOK
    <3>2. sleeping' = list_insert_last(sleeping, curr)
      BY <2>4
    <3>3. Members(list_insert_last(sleeping, curr)) = Members(sleeping) \cup {curr}
      BY ONLY <3>1, InsertLast
    <3> QED BY <3>2, <3>3
  <2> QED BY <1>0, <2>4, <2>6, <2>7, IdleAssumption DEF Lost, Blocked
<1>8. CASE sys_exit
  <2> DEFINE st == [state EXCEPT ![curr] = "ZOMBIE"]
  <2>1. /\ Calling /\ ready' = task_set_block(ready, curr)
        /\ sleeping' = sleeping /\ waiting' = waiting
        /\ task_dispatch(ready', st)
        /\ slice_ticks' = slice_ticks /\ handler' = handler /\ scan' = scan
    BY <1>8 DEF sys_exit
  <2>2. /\ st \in [AllTasks -> States] /\ st[curr] = "ZOMBIE"
        /\ \A u \in AllTasks : u # curr => st[u] = state[u]
    BY DEF TypeOK, States
  <2> HIDE DEF st
  <2>3. /\ Members(ready') = Members(ready) \ {curr} /\ state'[curr] = st[curr]
        /\ \A u \in AllTasks : u # curr =>
              state'[u] = IF u = curr' THEN "RUNNING" ELSE state[u]
        /\ curr' # Idle => curr' \in Members(ready)
    BY <2>1, <2>2, BlockStep
  <2> QED BY <1>0, <2>1, <2>2, <2>3, IdleAssumption DEF Lost, Blocked
<1>9. CASE WaitCurr
  <2>1. /\ Calling /\ ready' = task_set_block(ready, curr)
        /\ sleeping' = sleeping /\ waiting' = waiting \cup {curr}
        /\ task_dispatch(ready', state)
        /\ slice_ticks' = slice_ticks /\ handler' = handler /\ scan' = scan
    BY <1>9 DEF WaitCurr
  <2>2. /\ Members(ready') = Members(ready) \ {curr}
        /\ \A u \in AllTasks : u # curr =>
              state'[u] = IF u = curr' THEN "RUNNING" ELSE state[u]
        /\ curr' # Idle => curr' \in Members(ready)
    BY <2>1, BlockStep DEF TypeOK
  <2> QED BY <1>0, <2>1, <2>2, IdleAssumption DEF Lost, Blocked
<1>10. CASE \E u \in waiting : WakeTask(u)
  <2>1. PICK u \in waiting : WakeTask(u)
    BY <1>10
  <2>2. /\ u \in Tasks /\ u \notin Members(ready)
        /\ ready' = task_set_ready_list(ready, u)
        /\ task_dispatch(ready', task_set_ready_state(state, u))
        /\ sleeping' = sleeping /\ waiting' = waiting \ {u}
    BY <2>1 DEF WakeTask, OneList, Blocked, TypeOK
  <2>3. Members(ready') = Members(ready) \cup {u}
    BY <2>2, ReadyList
  <2>4. /\ task_set_ready_state(state, u) = [state EXCEPT ![u] = "READY"]
        /\ task_set_ready_state(state, u) \in [AllTasks -> States]
        /\ ready' \in Seq(Tasks)
    BY <2>2, ReadyList
  <2>5. /\ \A v \in AllTasks : v # curr' => state'[v] = task_set_ready_state(state, u)[v]
        /\ curr' = Idle \/ curr' \in Members(ready')
    BY <2>2, <2>4, Dispatch DEF TypeOK
  <2>6. t # u /\ t # curr' => state'[t] = state[t]
    BY <1>0, <2>4, <2>5 DEF TypeOK
  <2> QED BY <1>0, <2>2, <2>3, <2>5, <2>6, IdleAssumption DEF Lost, Blocked
<1> QED BY <1>1, <1>2, <1>3, <1>4, <1>5, <1>6, <1>7, <1>8, <1>9, <1>10 DEF Next

\* No task is ever lost by the scheduler when every sleep lasts a tick or more.
THEOREM NoTaskLost == SleepsWholeTicks => (Spec => []NoLostTask)
<1> SUFFICES ASSUME SleepsWholeTicks PROVE Spec => []NoLostTask
  OBVIOUS
<1>1. Init => NoLostTask
  BY FirstAssumption, IdleAssumption
     DEF Init, NoLostTask, Lost, Members, AllTasks, Blocked
<1>2. IInv /\ NoLostTask /\ [Next]_schedVars => NoLostTask'
  BY NoLostStep
<1> QED BY <1>1, <1>2, InitInv, StepInv, PTL DEF Spec

-----------------------------------------------------------------------------
(* What a step may never do.                                               *)

\* The four things a step can do to the ready list: nothing, append a task that is
\* not on it, take the current task off, or move it to the end.
LEMMA ReadyChange ==
    ASSUME IInv, [Next]_schedVars
    PROVE  \/ ready' = ready
           \/ \E u \in Tasks : u \notin Members(ready) /\ ready' = list_insert_last(ready, u)
           \/ /\ curr \in Tasks /\ curr \in Members(ready)
              /\ \/ ready' = list_delete(ready, curr)
                 \/ ready' = list_insert_last(list_delete(ready, curr), curr)
<1> USE DEF IInv, SafetyInv
<1>1. CASE UNCHANGED schedVars \/ TickDone
  BY <1>1 DEF schedVars, TickDone
<1>2. ASSUME Calling
      PROVE  curr \in Tasks /\ curr \in Members(ready) /\ curr # Idle
  BY <1>2, CallerIsHead, IdleAssumption
<1>3. CASE task_time_tick
  <2>1. CASE curr = Idle
    BY <1>3, <2>1 DEF task_time_tick, task_set_ready_list, task_set_block
  <2>2. CASE curr # Idle
    BY <1>2, <1>3, <2>2 DEF task_time_tick, Calling, task_set_ready_list, task_set_block
  <2> QED BY <2>1, <2>2
<1>4. CASE TickScan
  <2> DEFINE u == sleeping[scan]
  <2>1. u \in Tasks /\ u \in Members(sleeping)
    BY <1>4 DEF TickScan, TypeOK, Members
  <2>2. u \notin Members(ready) /\ u # Idle
    BY <2>1, IdleAssumption DEF OneList, Blocked
  <2> QED BY <1>4, <2>1, <2>2 DEF TickScan, task_set_ready_list
<1>5. ASSUME NEW u \in Tasks, task_start(u)
      PROVE  u \notin Members(ready) /\ ready' = list_insert_last(ready, u)
  BY <1>5, IdleAssumption DEF task_start, StateMatchesLists, task_set_ready_list
<1>6. CASE sys_yield
  BY <1>2, <1>6 DEF sys_yield, task_set_ready_list, task_set_block
<1>7. CASE (\E ms \in MsValues : sys_sleep(ms)) \/ sys_exit \/ WaitCurr
  BY <1>2, <1>7 DEF sys_sleep, sys_exit, WaitCurr, task_set_block
<1>8. ASSUME NEW u \in waiting, WakeTask(u)
      PROVE  /\ u \in Tasks /\ u \notin Members(ready)
             /\ ready' = list_insert_last(ready, u)
  BY <1>8, IdleAssumption DEF WakeTask, OneList, Blocked, TypeOK, task_set_ready_list
<1> QED BY <1>1, <1>3, <1>4, <1>5, <1>6, <1>7, <1>8 DEF Next

\* No step lets a task overtake one that waits for the CPU.
LEMMA TurnsStep == ASSUME IInv, [Next]_schedVars PROVE TurnsKept
<1> SUFFICES ASSUME NEW t \in Tasks, NEW u \in Tasks, t \in Members(ready),
                    t # curr, u # t, ~Before(ready, u, t)
             PROVE  t \in Members(ready') /\ (u \in Members(ready') => Before(ready', t, u))
  BY DEF TurnsKept
<1>0. ready \in Seq(Tasks) /\ Injective(ready)
  BY DEF IInv, TypeOK, SafetyInv, OneList
<1>1. u \in Members(ready) => Before(ready, t, u)
  BY <1>0, BeforeTotal
<1>2. CASE ready' = ready
  BY <1>1, <1>2
<1>3. ASSUME NEW n \in Tasks, n \notin Members(ready), ready' = list_insert_last(ready, n)
      PROVE  t \in Members(ready') /\ (u \in Members(ready') => Before(ready', t, u))
  <2>1. Members(ready') = Members(ready) \cup {n}
    <3>1. PICK q : q = ready /\ ready' = list_insert_last(q, n)
      BY <1>3
    <3>2. q \in Seq(Tasks) /\ n \in Tasks
      BY <1>0, <3>1
    <3>3. Members(list_insert_last(q, n)) = Members(q) \cup {n}
      BY ONLY <3>2, InsertLast
    <3> QED BY <3>1, <3>3
  <2>2. /\ Before(ready', t, n)
        /\ Before(ready, t, u) => Before(ready', t, u)
    BY <1>0, <1>3, BeforeInsertLast
  <2> QED BY <1>1, <2>1, <2>2
<1>4. ASSUME curr \in Tasks, curr \in Members(ready)
      PROVE  LET d == list_delete(ready, curr)
             IN  /\ d \in Seq(Tasks) /\ Injective(d) /\ t \in Members(d)
                 /\ Members(d) = Members(ready) \ {curr}
                 /\ u \in Members(d) => Before(d, t, u)
  <2> DEFINE d == list_delete(ready, curr)
  <2>1. d \in Seq(Tasks) /\ Injective(d) /\ Members(d) = Members(ready) \ {curr}
    BY <1>0, <1>4, Delete
  <2>2. u # curr /\ Before(ready, t, u) => Before(d, t, u)
    BY <1>0, <1>4, BeforeDelete
  <2> QED BY <1>1, <2>1, <2>2
<1>5. CASE /\ curr \in Tasks /\ curr \in Members(ready)
           /\ ready' = list_delete(ready, curr)
  BY <1>4, <1>5
<1>6. CASE /\ curr \in Tasks /\ curr \in Members(ready)
           /\ ready' = list_insert_last(list_delete(ready, curr), curr)
  <2>1. PICK d : d = list_delete(ready, curr)
    OBVIOUS
  <2>2. d \in Seq(Tasks) /\ t \in Members(d) /\ (u \in Members(d) => Before(d, t, u))
    BY <1>4, <1>6, <2>1
  <2>3. Members(ready') = Members(d) \cup {curr}
    <3>1. curr \in Tasks /\ d \in Seq(Tasks)
      BY <1>6, <2>2
    <3>2. Members(list_insert_last(d, curr)) = Members(d) \cup {curr}
      BY ONLY <3>1, InsertLast
    <3> QED BY <1>6, <2>1, <3>2
  <2>4. /\ Before(ready', t, curr)
        /\ Before(d, t, u) => Before(ready', t, u)
    BY <1>6, <2>1, <2>2, BeforeInsertLast
  <2> QED BY <2>2, <2>3, <2>4
<1> QED BY <1>2, <1>3, <1>5, <1>6, ReadyChange

\* The ready list is served in turn, for every number of tasks: a task that waits for
\* the CPU is never overtaken by a wake up, a start, a yield or the timer.
THEOREM RoundRobin == Spec => NoOvertaking
<1>1. IInv /\ [Next]_schedVars => [TurnsKept]_schedVars
  BY TurnsStep
<1> QED BY <1>1, InitInv, StepInv, PTL DEF Spec, NoOvertaking

\* No step takes the CPU from a task that can go on before its slice ends, but for
\* sys_yield.
LEMMA SwitchStep == ASSUME IInv, [Next]_schedVars PROVE SwitchDue
<1> SUFFICES ASSUME curr \in Tasks, curr' # curr, curr \in Members(ready')
             PROVE  \/ slice_ticks[curr] = 1 /\ slice_ticks'[curr] = TIME_SLICE
                    \/ /\ Members(ready') = Members(ready)
                       /\ UNCHANGED <<waiting, sleeping, slice_ticks, handler>>
  BY DEF SwitchDue
<1> USE DEF IInv, SafetyInv
<1>0. ready # <<>> /\ curr = Head(ready) /\ curr # Idle
  BY IdleAssumption DEF CurrIsHead
<1>1. CASE UNCHANGED schedVars \/ TickScan \/ (\E t \in Tasks : task_start(t))
  BY <1>1 DEF schedVars, TickScan, task_start
<1>2. CASE task_time_tick
  BY <1>2 DEF task_time_tick, TypeOK
<1>3. CASE TickDone
  BY <1>0, <1>3 DEF TickDone, task_dispatch, task_next_run, TypeOK
<1>4. CASE sys_yield
  <2>1. Members(ready') = Members(ready)
    BY <1>4, RotateStep DEF sys_yield
  <2> QED BY <1>4, <2>1 DEF sys_yield
<1>5. CASE (\E ms \in MsValues : sys_sleep(ms)) \/ sys_exit \/ WaitCurr
  <2>1. Calling /\ ready' = list_delete(ready, curr)
    BY <1>0, <1>5 DEF sys_sleep, sys_exit, WaitCurr, task_set_block
  <2>2. curr \in Members(ready)
    BY <2>1, CallerIsHead
  <2>3. curr \notin Members(ready')
    BY <2>1, <2>2, Delete DEF TypeOK, OneList
  <2> QED BY <2>3
<1>6. ASSUME NEW u \in waiting, WakeTask(u) PROVE FALSE
  <2>1. /\ u \in Tasks /\ u \notin Members(ready)
        /\ task_dispatch(task_set_ready_list(ready, u), task_set_ready_state(state, u))
    BY <1>6 DEF WakeTask, OneList, Blocked, TypeOK
  <2>2. /\ task_set_ready_list(ready, u) \in Seq(Tasks)
        /\ task_set_ready_list(ready, u) # <<>>
        /\ Head(task_set_ready_list(ready, u)) = curr
    BY <1>0, <2>1, ReadyList
  <2>3. curr' = curr
    BY <2>1, <2>2 DEF task_dispatch, task_next_run
  <2> QED BY <2>3
<1> QED BY <1>1, <1>2, <1>3, <1>4, <1>5, <1>6 DEF Next

\* Preemption comes from the time slice alone, for every slice and number of tasks.
THEOREM PreemptedInTurn == Spec => NoEarlyPreemption
<1>1. IInv /\ [Next]_schedVars => [SwitchDue]_schedVars
  BY SwitchStep
<1> QED BY <1>1, InitInv, StepInv, PTL DEF Spec, NoEarlyPreemption

\* A task that was started and is on no list.
Off(t) == state[t] # "CREATED" /\ t \notin Members(ready) /\ ~Blocked(t)

\* No step finds such a task: neither its state nor its lists change.
LEMMA OffStep ==
    ASSUME IInv, [Next]_schedVars, NEW t \in Tasks, Off(t)
    PROVE  state'[t] = state[t] /\ Off(t)'
<1> USE DEF IInv, SafetyInv
<1>0. /\ t \in AllTasks /\ t # Idle /\ t # curr
      /\ t \notin Members(ready) /\ t \notin Members(sleeping) /\ t \notin waiting
      /\ state[t] # "CREATED"
  <2>1. ready # <<>> => Head(ready) \in Members(ready)
    BY HeadMember DEF TypeOK
  <2> QED BY <2>1, IdleAssumption DEF AllTasks, Off, Blocked, CurrIsHead
<1>1. SUFFICES /\ t \notin Members(ready') /\ t \notin Members(sleeping')
               /\ t \notin waiting' /\ state'[t] = state[t]
  BY <1>0 DEF Off, Blocked
<1>2. CASE UNCHANGED schedVars
  BY <1>0, <1>2 DEF schedVars
<1>3. ASSUME NEW q \in Seq(Tasks), NEW st \in [AllTasks -> States],
             task_dispatch(q, st), t \notin Members(q), st[t] = state[t]
      PROVE  state'[t] = state[t]
  BY <1>0, <1>3, Dispatch DEF TypeOK
<1>4. CASE \/ sys_yield
           \/ task_time_tick /\ slice_ticks[curr] = 1 /\ curr # Idle
  <2>1. /\ Calling
        /\ ready' = task_set_ready_list(task_set_block(ready, curr), curr)
        /\ task_dispatch(ready', task_set_ready_state(state, curr))
        /\ sleeping' = sleeping /\ waiting' = waiting
    BY <1>4 DEF sys_yield, task_time_tick, Calling
  <2>2. /\ Members(ready') = Members(ready) /\ curr \in Members(ready)
        /\ curr' \in Members(ready)
        /\ \A u \in AllTasks :
              state'[u] = IF u = curr THEN "READY"
                          ELSE IF u = curr' THEN "RUNNING" ELSE state[u]
    BY <2>1, RotateStep
  <2> QED BY <1>0, <2>1, <2>2
<1>5. CASE task_time_tick /\ (slice_ticks[curr] # 1 \/ curr = Idle)
  <2>1. sleeping' = sleeping /\ waiting' = waiting /\ ready' = ready
    BY <1>5 DEF task_time_tick, task_set_ready_list, task_set_block
  <2>2. CASE slice_ticks[curr] # 1
    BY <1>0, <1>5, <2>1, <2>2 DEF task_time_tick
  <2>3. CASE slice_ticks[curr] = 1 /\ curr = Idle
    <3>1. task_dispatch(ready, state)
      BY <1>5, <2>3 DEF task_time_tick, task_set_ready_list, task_set_block,
         task_set_ready_state
    <3> QED BY <1>0, <1>3, <2>1, <3>1 DEF TypeOK
  <2> QED BY <1>5, <2>2, <2>3
<1>6. CASE TickScan
  <2> DEFINE u == sleeping[scan]
  <2>1. u \in Tasks /\ u \in Members(sleeping) /\ u \notin Members(ready)
    <3>1. u \in Tasks /\ u \in Members(sleeping)
      BY <1>6 DEF TickScan, TypeOK, Members
    <3> QED BY <3>1 DEF OneList, Blocked
  <2>2. CASE sleep_ticks[u] # 1
    BY <1>0, <1>6, <2>2 DEF TickScan
  <2>3. CASE sleep_ticks[u] = 1
    <3>1. /\ waiting' = waiting /\ sleeping' = list_delete(sleeping, u)
          /\ ready' = task_set_ready_list(ready, u)
          /\ state' = task_set_ready_state(state, u)
      BY <1>6, <2>3 DEF TickScan
    <3>2. Members(sleeping') = Members(sleeping) \ {u}
      BY <2>1, <3>1, Delete DEF TypeOK, OneList
    <3>3. Members(ready') = Members(ready) \cup {u}
      BY <2>1, <3>1, ReadyList
    <3>4. state' = [state EXCEPT ![u] = "READY"]
      BY <2>1, <3>1, ReadyList
    <3>5. t # u
      BY <1>0, <2>1
    <3> QED BY <1>0, <3>1, <3>2, <3>3, <3>4, <3>5 DEF TypeOK
  <2> QED BY <2>2, <2>3
<1>7. CASE TickDone
  BY <1>0, <1>3, <1>7 DEF TickDone, TypeOK
<1>8. ASSUME NEW u \in Tasks, task_start(u)
      PROVE  /\ t \notin Members(ready') /\ t \notin Members(sleeping')
             /\ t \notin waiting' /\ state'[t] = state[t]
  <2>1. /\ u \notin Members(ready) /\ u # t
        /\ ready' = task_set_ready_list(ready, u)
        /\ state' = task_set_ready_state(state, u)
        /\ sleeping' = sleeping /\ waiting' = waiting
    BY <1>0, <1>8 DEF task_start, StateMatchesLists
  <2>2. Members(ready') = Members(ready) \cup {u}
    BY <2>1, ReadyList
  <2>3. state' = [state EXCEPT ![u] = "READY"]
    BY <2>1, ReadyList
  <2> QED BY <1>0, <2>1, <2>2, <2>3 DEF TypeOK
<1>9. ASSUME Calling, ready' = task_set_block(ready, curr),
             NEW st \in [AllTasks -> States], st[t] = state[t],
             task_dispatch(ready', st)
      PROVE  t \notin Members(ready') /\ state'[t] = state[t]
  <2>1. curr \in Tasks /\ curr \in Members(ready) /\ curr # Idle
    BY <1>9, CallerIsHead, IdleAssumption
  <2>2. ready' = list_delete(ready, curr)
    BY <1>9, <2>1 DEF task_set_block
  <2>3. ready' \in Seq(Tasks) /\ Members(ready') = Members(ready) \ {curr}
    BY <2>1, <2>2, Delete DEF TypeOK, OneList
  <2>4. t \notin Members(ready')
    BY <1>0, <2>3
  <2> QED BY <1>3, <1>9, <2>3, <2>4
<1>10. ASSUME NEW ms \in MsValues, sys_sleep(ms)
       PROVE  /\ t \notin Members(ready') /\ t \notin Members(sleeping')
              /\ t \notin waiting' /\ state'[t] = state[t]
  <2>1. Calling /\ ready' = task_set_block(ready, curr) /\ waiting' = waiting
    BY <1>10 DEF sys_sleep
  <2>2. CASE ms \div OS_TICK_MS <= 0
    <3>1. task_dispatch(ready', state) /\ sleeping' = sleeping
      BY <1>10, <2>2 DEF sys_sleep
    <3>2. state \in [AllTasks -> States]
      BY DEF TypeOK
    <3> QED BY <1>0, <1>9, <2>1, <3>1, <3>2
  <2>3. CASE ~(ms \div OS_TICK_MS <= 0)
    <3> DEFINE st == [state EXCEPT ![curr] = "SLEEP"]
    <3>1. /\ task_dispatch(ready', st)
          /\ sleeping' = list_insert_last(sleeping, curr)
      BY <1>10, <2>3 DEF sys_sleep
    <3>2. st \in [AllTasks -> States] /\ st[t] = state[t]
      BY <1>0 DEF TypeOK, States
    <3> HIDE DEF st
    <3>3. t \notin Members(ready') /\ state'[t] = state[t]
      BY <1>9, <2>1, <3>1, <3>2
    <3>4. curr \in Tasks /\ sleeping \in Seq(Tasks)
      BY <2>1, CallerIsHead DEF TypeOK
    <3>5. Members(list_insert_last(sleeping, curr)) = Members(sleeping) \cup {curr}
      BY ONLY <3>4, InsertLast
    <3> QED BY <1>0, <2>1, <3>1, <3>3, <3>5
  <2> QED BY <2>2, <2>3
<1>11. CASE sys_exit
  <2> DEFINE st == [state EXCEPT ![curr] = "ZOMBIE"]
  <2>1. /\ Calling /\ ready' = task_set_block(ready, curr)
        /\ task_dispatch(ready', st) /\ waiting' = waiting /\ sleeping' = sleeping
    BY <1>11 DEF sys_exit
  <2>2. st \in [AllTasks -> States] /\ st[t] = state[t]
    BY <1>0 DEF TypeOK, States
  <2> HIDE DEF st
  <2> QED BY <1>0, <1>9, <2>1, <2>2
<1>12. CASE WaitCurr
  <2>1. /\ Calling /\ ready' = task_set_block(ready, curr) /\ task_dispatch(ready', state)
        /\ waiting' = waiting \cup {curr} /\ sleeping' = sleeping
    BY <1>12 DEF WaitCurr
  <2>2. state \in [AllTasks -> States]
    BY DEF TypeOK
  <2> QED BY <1>0, <1>9, <2>1, <2>2
<1>13. ASSUME NEW u \in waiting, WakeTask(u)
       PROVE  /\ t \notin Members(ready') /\ t \notin Members(sleeping')
              /\ t \notin waiting' /\ state'[t] = state[t]
  <2>1. /\ u \in Tasks /\ u \notin Members(ready) /\ u # t
        /\ ready' = task_set_ready_list(ready, u)
        /\ task_dispatch(ready', task_set_ready_state(state, u))
        /\ sleeping' = sleeping /\ waiting' = waiting \ {u}
    BY <1>0, <1>13 DEF WakeTask, OneList, Blocked, TypeOK
  <2>2. Members(ready') = Members(ready) \cup {u}
    BY <2>1, ReadyList
  <2>3. /\ task_set_ready_state(state, u) = [state EXCEPT ![u] = "READY"]
        /\ task_set_ready_state(state, u) \in [AllTasks -> States]
        /\ ready' \in Seq(Tasks)
    BY <2>1, ReadyList
  <2>4. task_set_ready_state(state, u)[t] = state[t]
    BY <1>0, <2>1, <2>3 DEF TypeOK
  <2> QED BY <1>0, <1>3, <2>1, <2>2, <2>3, <2>4
<1> QED BY <1>2, <1>4, <1>5, <1>6, <1>7, <1>8, <1>10, <1>11, <1>12, <1>13 DEF Next

\* An exited task stays exited and is never run again, and the task of a sleep that
\* is too short is never found again: for every number of tasks and sleep time.
THEOREM ExitIsFinal == Spec => GoneForGood
<1>1. ASSUME IInv, [Next]_schedVars PROVE StaysGone
  <2> SUFFICES ASSUME NEW t \in Tasks
               PROVE  /\ state[t] = "ZOMBIE" => state'[t] = "ZOMBIE"
                      /\ Lost(t) => Lost(t)'
    BY DEF StaysGone
  <2>1. state[t] = "ZOMBIE" => Off(t)
    BY <1>1 DEF IInv, SafetyInv, StateMatchesLists, Off, Blocked
  <2>2. Lost(t) => Off(t)
    BY DEF Lost, Off
  <2>3. Off(t) => state'[t] = state[t] /\ Off(t)'
    BY <1>1, OffStep
  <2> QED BY <2>1, <2>2, <2>3 DEF Lost, Off
<1>2. IInv /\ [Next]_schedVars => [StaysGone]_schedVars
  BY <1>1
<1> QED BY <1>2, InitInv, StepInv, PTL DEF Spec, GoneForGood

-----------------------------------------------------------------------------
(* Sync: the wait lists.                                                   *)

\* The wait lists, with the facts about Sched they need.
SyncInv == IInv /\ SyncTypeOK /\ OneWaitList /\ NoUnitUnused

\* What happens to waiting when the caller blocks.
LEMMA WaitEffect ==
    ASSUME IInv, WaitCurr
    PROVE  curr \in Tasks /\ curr \notin waiting /\ waiting' = waiting \cup {curr}
<1>1. TypeOK /\ CurrIsHead /\ OneList /\ Calling
  BY DEF IInv, SafetyInv, WaitCurr
<1>2. curr \in Tasks /\ ~Blocked(curr)
  BY <1>1, CallerIsHead
<1> QED BY <1>2 DEF Blocked, WaitCurr

\* Every step of the semaphores and mutexes is one of Sched, or leaves all of
\* Sched's variables alone.
LEMMA StepRefines ==
    ASSUME IInv, SyncTypeOK, OneWaitList, [SyncNext]_syncVars
    PROVE  [Next]_schedVars
<1>1. CASE UNCHANGED syncVars
  BY <1>1 DEF syncVars, schedVars
<1>2. ASSUME NEW s \in Sems, sem_wait(s) PROVE [Next]_schedVars
  BY <1>2 DEF sem_wait, Next
<1>3. ASSUME NEW s \in Sems, sem_notify(s) PROVE [Next]_schedVars
  <2>1. CASE Len(sem_list[s]) > 0
    <3>1. sem_list[s] \in Seq(Tasks) /\ Injective(sem_list[s])
      BY DEF SyncTypeOK, OneWaitList
    <3>2. Head(sem_list[s]) \in Tasks /\ Head(sem_list[s]) \in Members(sem_list[s])
      BY <2>1, <3>1, DeleteFirst
    <3>3. Head(sem_list[s]) \in waiting
      BY <3>2 DEF OneWaitList
    <3>4. WakeTask(Head(sem_list[s]))
      BY <1>3, <2>1 DEF sem_notify
    <3> QED BY <3>3, <3>4 DEF Next
  <2>2. CASE ~(Len(sem_list[s]) > 0)
    BY <1>3, <2>2 DEF sem_notify
  <2> QED BY <2>1, <2>2
<1>4. ASSUME NEW m \in Mutexes, mutex_lock(m) PROVE [Next]_schedVars
  BY <1>4 DEF mutex_lock, Next
<1>5. ASSUME NEW m \in Mutexes, mutex_unlock(m) PROVE [Next]_schedVars
  <2>1. CASE locked_count[m] = 1 /\ Len(mutex_list[m]) > 0
    <3>1. mutex_list[m] \in Seq(Tasks) /\ Injective(mutex_list[m])
      BY DEF SyncTypeOK, OneWaitList
    <3>2. Head(mutex_list[m]) \in Tasks /\ Head(mutex_list[m]) \in Members(mutex_list[m])
      BY <2>1, <3>1, DeleteFirst
    <3>3. Head(mutex_list[m]) \in waiting
      BY <3>2 DEF OneWaitList
    <3>4. WakeTask(Head(mutex_list[m]))
      <4>1. Len(mutex_list[m]) # 0
        BY <2>1, <3>1
      <4> QED BY <1>5, <2>1, <4>1 DEF mutex_unlock
    <3> QED BY <3>3, <3>4 DEF Next
  <2>2. CASE ~(locked_count[m] = 1 /\ Len(mutex_list[m]) > 0)
    BY <1>5, <2>2 DEF mutex_unlock
  <2> QED BY <2>1, <2>2
<1>6. CASE (Timer \/ SystemCall) /\ UNCHANGED <<semVars, mutexVars>>
  BY <1>6 DEF Timer, SystemCall, Next
<1> QED BY <1>1, <1>2, <1>3, <1>4, <1>5, <1>6 DEF SyncNext

\* The first state.
LEMMA SyncInitInv == SyncInit => SyncInv
<1> SUFFICES ASSUME SyncInit PROVE SyncInv
  OBVIOUS
<1>1. IInv
  BY InitInv DEF SyncInit
<1>2. SyncTypeOK
  BY SemInitAssumption DEF SyncInit, SyncTypeOK
<1>3. OneWaitList
  <2>1. waiting = {}
    BY DEF SyncInit, Init
  <2>2. \A s \in Sems : Members(sem_list[s]) = {} /\ Injective(sem_list[s])
    BY DEF SyncInit, Members, Injective
  <2>3. \A m \in Mutexes : Members(mutex_list[m]) = {} /\ Injective(mutex_list[m])
    BY DEF SyncInit, Members, Injective
  <2> QED BY <2>1, <2>2, <2>3 DEF OneWaitList
<1>4. NoUnitUnused
  BY DEF SyncInit, NoUnitUnused
<1> QED BY <1>1, <1>2, <1>3, <1>4 DEF SyncInv

LEMMA SemWaitInv ==
    ASSUME SyncInv, NEW s \in Sems, sem_wait(s)
    PROVE  SyncTypeOK' /\ OneWaitList' /\ NoUnitUnused'
<1> USE DEF SyncInv
<1>0. locked_count' = locked_count /\ owner' = owner /\ mutex_list' = mutex_list
  BY DEF sem_wait, mutexVars
<1>1. CASE count[s] > 0
  <2>1. /\ count' = [count EXCEPT ![s] = @ - 1] /\ sem_list' = sem_list
        /\ waiting' = waiting
    BY <1>1 DEF sem_wait, schedVars
  <2>2. count[s] \in Nat /\ count[s] - 1 \in Nat
    BY <1>1 DEF SyncTypeOK
  <2>3. SyncTypeOK'
    BY <1>0, <2>1, <2>2 DEF SyncTypeOK
  <2>4. OneWaitList'
    BY <1>0, <2>1 DEF OneWaitList
  <2>5. NoUnitUnused'
    BY <1>0, <1>1, <2>1, <2>2 DEF NoUnitUnused, SyncTypeOK
  <2> QED BY <2>3, <2>4, <2>5
<1>2. CASE ~(count[s] > 0)
  <2>1. /\ WaitCurr /\ count' = count
        /\ sem_list' = [sem_list EXCEPT ![s] = list_insert_last(@, curr)]
    BY <1>2 DEF sem_wait
  <2>2. curr \in Tasks /\ curr \notin waiting /\ waiting' = waiting \cup {curr}
    BY <2>1, WaitEffect
  <2>3. /\ sem_list[s] \in Seq(Tasks) /\ Injective(sem_list[s])
        /\ curr \notin Members(sem_list[s]) /\ curr \in Tasks
    BY <2>2 DEF SyncTypeOK, OneWaitList
  <2> DEFINE q == list_insert_last(sem_list[s], curr)
  <2>4. q \in Seq(Tasks) /\ Injective(q) /\ Members(q) = Members(sem_list[s]) \cup {curr}
    BY ONLY <2>3, InsertLast
  <2> HIDE DEF q
  <2>5. \A r \in Sems : sem_list'[r] = IF r = s THEN q ELSE sem_list[r]
    BY <2>1 DEF q, SyncTypeOK
  <2>6. sem_list' \in [Sems -> Seq(Tasks)]
    BY <2>1, <2>4 DEF q, SyncTypeOK
  <2>7. SyncTypeOK'
    BY <1>0, <2>1, <2>6 DEF SyncTypeOK
  <2>8. \A t \in Tasks, r \in Sems :
            t \in Members(sem_list'[r]) <=>
                t \in Members(sem_list[r]) \/ (r = s /\ t = curr)
    BY <2>4, <2>5
  <2>9. OneWaitList'
    <3>1. \A r \in Sems : Injective(sem_list'[r])
      BY <2>4, <2>5 DEF OneWaitList
    <3>2. \A t \in Tasks : t \in waiting' <=> t \in waiting \/ t = curr
      BY <2>2
    <3> QED BY <1>0, <2>2, <2>8, <3>1, <3>2 DEF OneWaitList
  <2>10. NoUnitUnused'
    BY <1>0, <1>2, <2>1, <2>5 DEF NoUnitUnused, SyncTypeOK
  <2> QED BY <2>7, <2>9, <2>10
<1> QED BY <1>1, <1>2

LEMMA SemNotifyInv ==
    ASSUME SyncInv, NEW s \in Sems, sem_notify(s)
    PROVE  SyncTypeOK' /\ OneWaitList' /\ NoUnitUnused'
<1> USE DEF SyncInv
<1>0. locked_count' = locked_count /\ owner' = owner /\ mutex_list' = mutex_list
  BY DEF sem_notify, mutexVars
<1>1. CASE ~(Len(sem_list[s]) > 0)
  <2>1. /\ count' = [count EXCEPT ![s] = @ + 1] /\ sem_list' = sem_list
        /\ waiting' = waiting
    BY <1>1 DEF sem_notify, schedVars
  <2>2. count[s] + 1 \in Nat /\ sem_list[s] = <<>>
    BY <1>1 DEF SyncTypeOK
  <2>3. SyncTypeOK'
    BY <1>0, <2>1, <2>2 DEF SyncTypeOK
  <2>4. OneWaitList'
    BY <1>0, <2>1 DEF OneWaitList
  <2>5. NoUnitUnused'
    BY <1>0, <2>1, <2>2 DEF NoUnitUnused, SyncTypeOK
  <2> QED BY <2>3, <2>4, <2>5
<1>2. CASE Len(sem_list[s]) > 0
  <2> DEFINE h == Head(sem_list[s])
             q == Tail(sem_list[s])
  <2>1. /\ count' = count /\ waiting' = waiting \ {h}
        /\ sem_list' = [sem_list EXCEPT ![s] = q]
    BY <1>2 DEF sem_notify, WakeTask, list_delete_first
  <2>2. sem_list[s] \in Seq(Tasks) /\ Injective(sem_list[s])
    BY DEF SyncTypeOK, OneWaitList
  <2>3. /\ h \in Tasks /\ h \in Members(sem_list[s]) /\ q \in Seq(Tasks) /\ Injective(q)
        /\ Members(q) = Members(sem_list[s]) \ {h}
    BY <1>2, <2>2, DeleteFirst
  <2>4. sem_list' \in [Sems -> Seq(Tasks)]
    BY <2>1, <2>3 DEF SyncTypeOK
  <2>5. \A r \in Sems : sem_list'[r] = IF r = s THEN q ELSE sem_list[r]
    BY <2>1 DEF SyncTypeOK
  <2>6. sem_list[s] # <<>>
    BY <1>2, <2>2
  <2> HIDE DEF h, q
  <2>7. SyncTypeOK'
    BY <1>0, <2>1, <2>4 DEF SyncTypeOK
  <2>8. \A t \in Tasks, r \in Sems :
            t \in Members(sem_list'[r]) <=>
                t \in Members(sem_list[r]) /\ ~(r = s /\ t = h)
    BY <2>3, <2>5
  <2>9. OneWaitList'
    <3>1. \A r \in Sems : Injective(sem_list'[r])
      BY <2>3, <2>5 DEF OneWaitList
    <3>2. \A t \in Tasks : t \in waiting' <=> t \in waiting /\ t # h
      BY <2>1
    <3> QED BY <1>0, <2>3, <2>8, <3>1, <3>2 DEF OneWaitList
  <2>10. NoUnitUnused'
    BY <1>0, <2>1, <2>5, <2>6 DEF NoUnitUnused, SyncTypeOK
  <2> QED BY <2>7, <2>9, <2>10
<1> QED BY <1>1, <1>2

LEMMA MutexLockInv ==
    ASSUME SyncInv, NEW m \in Mutexes, mutex_lock(m)
    PROVE  SyncTypeOK' /\ OneWaitList' /\ NoUnitUnused'
<1> USE DEF SyncInv
<1>0. count' = count /\ sem_list' = sem_list
  BY DEF mutex_lock, semVars
<1>1. curr \in Tasks /\ curr # NULL
  <2>1. TypeOK /\ CurrIsHead /\ OneList /\ Calling
    BY DEF IInv, SafetyInv, mutex_lock
  <2> QED BY <2>1, CallerIsHead, NullAssumption DEF AllTasks
<1>2. CASE locked_count[m] = 0
  <2>1. /\ locked_count' = [locked_count EXCEPT ![m] = 1]
        /\ owner' = [owner EXCEPT ![m] = curr]
        /\ mutex_list' = mutex_list /\ waiting' = waiting
    BY <1>2 DEF mutex_lock, schedVars
  <2>2. SyncTypeOK'
    BY <1>0, <1>1, <2>1 DEF SyncTypeOK
  <2>3. OneWaitList'
    BY <1>0, <2>1 DEF OneWaitList
  <2>4. NoUnitUnused'
    BY <1>0, <1>1, <2>1 DEF NoUnitUnused, SyncTypeOK
  <2> QED BY <2>2, <2>3, <2>4
<1>3. CASE locked_count[m] # 0 /\ owner[m] = curr
  <2>1. /\ locked_count' = [locked_count EXCEPT ![m] = @ + 1]
        /\ owner' = owner /\ mutex_list' = mutex_list /\ waiting' = waiting
    BY <1>3 DEF mutex_lock, schedVars
  <2>2. locked_count[m] \in Nat /\ locked_count[m] + 1 \in Nat /\ locked_count[m] + 1 # 0
    BY DEF SyncTypeOK
  <2>3. SyncTypeOK'
    BY <1>0, <2>1, <2>2 DEF SyncTypeOK
  <2>4. OneWaitList'
    BY <1>0, <2>1 DEF OneWaitList
  <2>5. NoUnitUnused'
    BY <1>0, <1>1, <1>3, <2>1, <2>2 DEF NoUnitUnused, SyncTypeOK
  <2> QED BY <2>3, <2>4, <2>5
<1>4. CASE locked_count[m] # 0 /\ owner[m] # curr
  <2>1. /\ WaitCurr /\ locked_count' = locked_count /\ owner' = owner
        /\ mutex_list' = [mutex_list EXCEPT ![m] = list_insert_last(@, curr)]
    BY <1>4 DEF mutex_lock
  <2>2. curr \in Tasks /\ curr \notin waiting /\ waiting' = waiting \cup {curr}
    BY <2>1, WaitEffect
  <2>3. /\ mutex_list[m] \in Seq(Tasks) /\ Injective(mutex_list[m])
        /\ curr \notin Members(mutex_list[m]) /\ curr \in Tasks
    BY <2>2 DEF SyncTypeOK, OneWaitList
  <2> DEFINE q == list_insert_last(mutex_list[m], curr)
  <2>4. q \in Seq(Tasks) /\ Injective(q) /\ Members(q) = Members(mutex_list[m]) \cup {curr}
    BY ONLY <2>3, InsertLast
  <2> HIDE DEF q
  <2>5. \A n \in Mutexes : mutex_list'[n] = IF n = m THEN q ELSE mutex_list[n]
    BY <2>1 DEF q, SyncTypeOK
  <2>6. mutex_list' \in [Mutexes -> Seq(Tasks)]
    BY <2>1, <2>4 DEF q, SyncTypeOK
  <2>7. SyncTypeOK'
    BY <1>0, <2>1, <2>6 DEF SyncTypeOK
  <2>8. \A t \in Tasks, n \in Mutexes :
            t \in Members(mutex_list'[n]) <=>
                t \in Members(mutex_list[n]) \/ (n = m /\ t = curr)
    BY <2>4, <2>5
  <2>9. OneWaitList'
    <3>1. \A n \in Mutexes : Injective(mutex_list'[n])
      BY <2>4, <2>5 DEF OneWaitList
    <3>2. \A t \in Tasks : t \in waiting' <=> t \in waiting \/ t = curr
      BY <2>2
    <3> QED BY <1>0, <2>2, <2>8, <3>1, <3>2 DEF OneWaitList
  <2>10. NoUnitUnused'
    <3>1. locked_count[m] > 0
      BY <1>4 DEF SyncTypeOK
    <3> QED BY <1>0, <2>1, <2>5, <3>1 DEF NoUnitUnused
  <2> QED BY <2>7, <2>9, <2>10
<1> QED BY <1>2, <1>3, <1>4

LEMMA MutexUnlockInv ==
    ASSUME SyncInv, NEW m \in Mutexes, mutex_unlock(m)
    PROVE  SyncTypeOK' /\ OneWaitList' /\ NoUnitUnused'
<1> USE DEF SyncInv
<1>0. count' = count /\ sem_list' = sem_list /\ owner[m] = curr
  BY DEF mutex_unlock, semVars
<1>1. curr \in Tasks /\ curr # NULL /\ locked_count[m] \in Nat /\ locked_count[m] # 0
  <2>1. TypeOK /\ CurrIsHead /\ OneList /\ Calling
    BY DEF IInv, SafetyInv, mutex_unlock
  <2>2. curr \in Tasks /\ curr # NULL
    BY <2>1, CallerIsHead, NullAssumption DEF AllTasks
  <2> QED BY <1>0, <2>2 DEF SyncTypeOK, NoUnitUnused
<1>2. mutex_list[m] \in Seq(Tasks) /\ Injective(mutex_list[m])
  BY DEF SyncTypeOK, OneWaitList
<1>3. CASE locked_count[m] # 1
  <2>1. /\ locked_count' = [locked_count EXCEPT ![m] = @ - 1]
        /\ owner' = owner /\ mutex_list' = mutex_list /\ waiting' = waiting
    BY <1>3 DEF mutex_unlock, schedVars
  <2>2. locked_count[m] - 1 \in Nat /\ locked_count[m] - 1 # 0
    BY <1>1, <1>3
  <2>3. SyncTypeOK'
    BY <1>0, <2>1, <2>2 DEF SyncTypeOK
  <2>4. OneWaitList'
    BY <1>0, <2>1 DEF OneWaitList
  <2>5. NoUnitUnused'
    BY <1>0, <1>1, <2>1, <2>2 DEF NoUnitUnused, SyncTypeOK
  <2> QED BY <2>3, <2>4, <2>5
<1>4. CASE locked_count[m] = 1 /\ Len(mutex_list[m]) = 0
  <2>1. /\ locked_count' = [locked_count EXCEPT ![m] = 0]
        /\ owner' = [owner EXCEPT ![m] = NULL]
        /\ mutex_list' = mutex_list /\ waiting' = waiting
    BY <1>4 DEF mutex_unlock, schedVars
  <2>2. mutex_list[m] = <<>>
    BY <1>2, <1>4
  <2>3. SyncTypeOK'
    BY <1>0, <2>1 DEF SyncTypeOK
  <2>4. OneWaitList'
    BY <1>0, <2>1 DEF OneWaitList
  <2>5. NoUnitUnused'
    BY <1>0, <2>1, <2>2 DEF NoUnitUnused, SyncTypeOK
  <2> QED BY <2>3, <2>4, <2>5
<1>5. CASE locked_count[m] = 1 /\ Len(mutex_list[m]) > 0
  <2> DEFINE h == Head(mutex_list[m])
             q == Tail(mutex_list[m])
  <2>1. /\ locked_count' = locked_count /\ waiting' = waiting \ {h}
        /\ owner' = [owner EXCEPT ![m] = h]
        /\ mutex_list' = [mutex_list EXCEPT ![m] = q]
    <3>1. Len(mutex_list[m]) # 0
      BY <1>2, <1>5
    <3> QED BY <1>5, <3>1 DEF mutex_unlock, WakeTask, list_delete_first
  <2>2. /\ h \in Tasks /\ h \in Members(mutex_list[m]) /\ q \in Seq(Tasks)
        /\ Injective(q) /\ Members(q) = Members(mutex_list[m]) \ {h}
    BY <1>2, <1>5, DeleteFirst
  <2> HIDE DEF h, q
  <2>3. \A n \in Mutexes : mutex_list'[n] = IF n = m THEN q ELSE mutex_list[n]
    BY <2>1 DEF SyncTypeOK
  <2>4. SyncTypeOK'
    BY <1>0, <2>1, <2>2 DEF SyncTypeOK
  <2>5. \A t \in Tasks, n \in Mutexes :
            t \in Members(mutex_list'[n]) <=>
                t \in Members(mutex_list[n]) /\ ~(n = m /\ t = h)
    BY <2>2, <2>3
  <2>6. OneWaitList'
    <3>1. \A n \in Mutexes : Injective(mutex_list'[n])
      BY <2>2, <2>3 DEF OneWaitList
    <3>2. \A t \in Tasks : t \in waiting' <=> t \in waiting /\ t # h
      BY <2>1
    <3> QED BY <1>0, <2>2, <2>5, <3>1, <3>2 DEF OneWaitList
  <2>7. NoUnitUnused'
    <3>1. h # NULL
      BY <2>2, NullAssumption DEF AllTasks
    <3> QED BY <1>0, <1>5, <2>1, <2>3, <3>1 DEF NoUnitUnused, SyncTypeOK
  <2> QED BY <2>4, <2>6, <2>7
<1> QED BY <1>1, <1>2, <1>3, <1>4, <1>5

\* Every step keeps the invariant of the wait lists.
LEMMA SyncStepInv == SyncInv /\ [SyncNext]_syncVars => SyncInv' /\ [Next]_schedVars
<1> SUFFICES ASSUME SyncInv, [SyncNext]_syncVars
             PROVE  SyncInv' /\ [Next]_schedVars
  OBVIOUS
<1>1. [Next]_schedVars
  BY StepRefines DEF SyncInv
<1>2. IInv'
  BY <1>1, StepInv DEF SyncInv
<1>3. SyncTypeOK' /\ OneWaitList' /\ NoUnitUnused'
  <2>1. CASE \/ UNCHANGED syncVars
             \/ (Timer \/ SystemCall) /\ UNCHANGED <<semVars, mutexVars>>
    <3>1. /\ count' = count /\ sem_list' = sem_list /\ locked_count' = locked_count
          /\ owner' = owner /\ mutex_list' = mutex_list
      BY <2>1 DEF syncVars, semVars, mutexVars
    <3>2. waiting' = waiting
      BY <2>1 DEF syncVars, schedVars, Timer, SystemCall, task_time_tick, TickScan,
         TickDone, task_start, sys_yield, sys_sleep, sys_exit
    <3> QED BY <3>1, <3>2 DEF SyncInv, SyncTypeOK, OneWaitList, NoUnitUnused
  <2> QED BY <2>1, SemWaitInv, SemNotifyInv, MutexLockInv, MutexUnlockInv DEF SyncNext
<1> QED BY <1>1, <1>2, <1>3 DEF SyncInv

-----------------------------------------------------------------------------
(* The theorems.                                                           *)

\* The semaphores and mutexes implement the blocking and waking steps of Sched,
\* and nothing else of the scheduler is touched by them.
THEOREM SyncImplementsSched == SyncSpec => SchedSpec
<1>1. SyncInit => Init
  BY DEF SyncInit
<1> QED BY <1>1, SyncInitInv, SyncStepInv, PTL DEF SyncSpec, SchedSpec, Spec

\* No task is ever on two wait lists, and waiting is what the lists say.
THEOREM WaitListsSound == SyncSpec => []OneWaitList
<1>1. SyncInv => OneWaitList
  BY DEF SyncInv
<1> QED BY <1>1, SyncInitInv, SyncStepInv, PTL DEF SyncSpec

\* No task waits for a semaphore or mutex that is to be had.
THEOREM NoUnitLeftUnused == SyncSpec => []NoUnitUnused
<1>1. SyncInv => NoUnitUnused
  BY DEF SyncInv
<1> QED BY <1>1, SyncInitInv, SyncStepInv, PTL DEF SyncSpec

-----------------------------------------------------------------------------
(* The owners of the mutexes.                                              *)

\* No step takes a task other than the current one off the ready list.
LEMMA OthersStayReady ==
    ASSUME IInv, [Next]_schedVars
    PROVE  Members(ready) \ {curr} \subseteq Members(ready')
<1>0. ready \in Seq(Tasks) /\ Injective(ready)
  BY DEF IInv, TypeOK, SafetyInv, OneList
<1>1. ASSUME NEW n \in Tasks, ready' = list_insert_last(ready, n)
      PROVE  Members(ready') = Members(ready) \cup {n}
  <2>1. Members(list_insert_last(ready, n)) = Members(ready) \cup {n}
    BY ONLY <1>0, n \in Tasks, InsertLast
  <2> QED BY <1>1, <2>1
<1>2. ASSUME curr \in Members(ready), ready' = list_delete(ready, curr)
      PROVE  Members(ready') = Members(ready) \ {curr}
  BY <1>0, <1>2, Delete
<1>3. ASSUME curr \in Tasks, curr \in Members(ready),
             ready' = list_insert_last(list_delete(ready, curr), curr)
      PROVE  Members(ready') = Members(ready)
  BY <1>0, <1>3, Rotate
<1> QED BY <1>1, <1>2, <1>3, ReadyChange

\* The timer takes no task off the ready list.
LEMMA TimerKeepsReady ==
    ASSUME IInv, Timer
    PROVE  Members(ready) \subseteq Members(ready') /\ waiting' = waiting
<1> USE DEF IInv, SafetyInv
<1>1. CASE TickDone \/ (task_time_tick /\ (slice_ticks[curr] # 1 \/ curr = Idle))
  BY <1>1 DEF TickDone, task_time_tick, task_set_ready_list, task_set_block
<1>2. CASE task_time_tick /\ slice_ticks[curr] = 1 /\ curr # Idle
  <2>1. Members(ready') = Members(ready)
    BY <1>2, RotateStep DEF task_time_tick, Calling
  <2> QED BY <1>2, <2>1 DEF task_time_tick
<1>3. CASE TickScan
  <2>1. CASE sleep_ticks[sleeping[scan]] # 1
    BY <1>3, <2>1 DEF TickScan
  <2>2. CASE sleep_ticks[sleeping[scan]] = 1
    <3>1. sleeping[scan] \in Tasks /\ sleeping[scan] \in Members(sleeping)
      BY <1>3 DEF TickScan, TypeOK, Members
    <3>2. sleeping[scan] \notin Members(ready)
      BY <3>1 DEF OneList, Blocked
    <3>3. Members(ready') = Members(ready) \cup {sleeping[scan]}
      BY <1>3, <2>2, <3>1, <3>2, ReadyList DEF TickScan
    <3> QED BY <1>3, <3>3 DEF TickScan
  <2> QED BY <2>1, <2>2
<1> QED BY <1>1, <1>2, <1>3 DEF Timer

\* The first waiter of a list goes to the ready list.
LEMMA WakeEffect ==
    ASSUME IInv, NEW t \in waiting, WakeTask(t)
    PROVE  t \in Tasks /\ Members(ready') = Members(ready) \cup {t} /\ waiting' = waiting \ {t}
<1>1. /\ t \in Tasks /\ t \notin Members(ready) /\ TypeOK /\ OneList
      /\ ready' = task_set_ready_list(ready, t) /\ waiting' = waiting \ {t}
  BY DEF IInv, SafetyInv, WakeTask, OneList, Blocked, TypeOK
<1>2. Members(ready') = Members(ready) \cup {t}
  BY <1>1, ReadyList
<1> QED BY <1>1, <1>2

\* A step leaves every owner of a mutex able to release it.
LEMMA OwnerStep ==
    ASSUME SyncInv, OwnerCanRelease, [SyncNext]_syncVars
    PROVE  OwnerCanRelease'
<1> USE DEF SyncInv
<1>0. [Next]_schedVars /\ SyncInv'
  BY SyncStepInv
<1>1. Members(ready) \ {curr} \subseteq Members(ready')
  BY <1>0, OthersStayReady
<1>2. CASE UNCHANGED syncVars
  BY <1>2 DEF syncVars, schedVars, semVars, mutexVars, OwnerCanRelease
<1>3. ASSUME NEW s \in Sems, sem_wait(s) PROVE OwnerCanRelease'
  <2>1. owner' = owner /\ mutex_list' = mutex_list /\ Held(curr) \subseteq HeldOverWait
    BY <1>3 DEF sem_wait, mutexVars
  <2>2. CASE count[s] > 0
    BY <1>3, <2>1, <2>2 DEF sem_wait, schedVars, OwnerCanRelease
  <2>3. CASE ~(count[s] > 0)
    <3>1. WaitCurr /\ sem_list' = [sem_list EXCEPT ![s] = list_insert_last(@, curr)]
      BY <1>3, <2>3 DEF sem_wait
    <3>2. curr \in Tasks /\ waiting' = waiting \cup {curr}
      BY <3>1, WaitEffect
    <3>3. Members(list_insert_last(sem_list[s], curr)) = Members(sem_list[s]) \cup {curr}
      <4>1. sem_list[s] \in Seq(Tasks) /\ curr \in Tasks
        BY <3>2 DEF SyncTypeOK
      <4> QED BY ONLY <4>1, InsertLast
    <3> SUFFICES ASSUME NEW m \in Mutexes, owner[m] # NULL
                 PROVE  /\ owner[m] \in Members(ready') \/ owner[m] \in waiting'
                        /\ owner[m] \notin Members(mutex_list[m])
                        /\ \A r \in Sems :
                              owner[m] \in Members(sem_list'[r]) => m \in HeldOverWait
      BY <2>1 DEF OwnerCanRelease
    <3>4. owner[m] \in Members(ready') \/ owner[m] \in waiting'
      BY <1>1, <3>2 DEF OwnerCanRelease
    <3>5. owner[m] \notin Members(mutex_list[m])
      BY DEF OwnerCanRelease
    <3>6. ASSUME NEW r \in Sems, owner[m] \in Members(sem_list'[r])
          PROVE  m \in HeldOverWait
      <4>1. CASE owner[m] = curr
        BY <2>1, <4>1 DEF Held
      <4>2. CASE owner[m] # curr
        <5>1. owner[m] \in Members(sem_list[r])
          <6>1. CASE r = s
            <7>1. sem_list'[r] = list_insert_last(sem_list[s], curr)
              BY <3>1, <6>1 DEF SyncTypeOK
            <7> QED BY <3>3, <3>6, <4>2, <6>1, <7>1
          <6>2. CASE r # s
            BY <3>1, <3>6, <6>2 DEF SyncTypeOK
          <6> QED BY <6>1, <6>2
        <5> QED BY <5>1 DEF OwnerCanRelease
      <4> QED BY <4>1, <4>2
    <3> QED BY <3>4, <3>5, <3>6
  <2> QED BY <2>2, <2>3
<1>4. ASSUME NEW s \in Sems, sem_notify(s) PROVE OwnerCanRelease'
  <2>1. owner' = owner /\ mutex_list' = mutex_list
    BY <1>4 DEF sem_notify, mutexVars
  <2>2. CASE ~(Len(sem_list[s]) > 0)
    BY <1>4, <2>1, <2>2 DEF sem_notify, schedVars, OwnerCanRelease
  <2>3. CASE Len(sem_list[s]) > 0
    <3> DEFINE h == Head(sem_list[s])
    <3>1. WakeTask(h) /\ sem_list' = [sem_list EXCEPT ![s] = Tail(@)]
      BY <1>4, <2>3 DEF sem_notify, list_delete_first
    <3>2. sem_list[s] \in Seq(Tasks) /\ Injective(sem_list[s])
      BY DEF SyncTypeOK, OneWaitList
    <3>3. /\ h \in Members(sem_list[s]) /\ h \in Tasks
          /\ Members(Tail(sem_list[s])) = Members(sem_list[s]) \ {h}
      BY <2>3, <3>2, DeleteFirst
    <3>4. h \in waiting
      BY <3>3 DEF OneWaitList
    <3>5. Members(ready') = Members(ready) \cup {h} /\ waiting' = waiting \ {h}
      BY <3>1, <3>4, WakeEffect
    <3> HIDE DEF h
    <3>6. \A r \in Sems : Members(sem_list'[r]) \subseteq Members(sem_list[r])
      BY <3>1, <3>3 DEF SyncTypeOK
    <3> QED BY <2>1, <3>5, <3>6 DEF OwnerCanRelease
  <2> QED BY <2>2, <2>3
<1>5. ASSUME NEW m \in Mutexes, mutex_lock(m) PROVE OwnerCanRelease'
  <2>1. sem_list' = sem_list /\ Calling
    BY <1>5 DEF mutex_lock, semVars
  <2>2. curr \in Tasks /\ curr \in Members(ready) /\ curr \notin waiting
    BY <2>1, CallerIsHead DEF IInv, SafetyInv, Blocked
  <2>3. CASE locked_count[m] = 0
    <3>1. /\ owner' = [owner EXCEPT ![m] = curr] /\ mutex_list' = mutex_list
          /\ ready' = ready /\ waiting' = waiting
      BY <1>5, <2>3 DEF mutex_lock, schedVars
    <3>2. curr \notin Members(mutex_list[m])
      BY <2>2 DEF OneWaitList
    <3>3. \A s \in Sems : curr \notin Members(sem_list[s])
      BY <2>2 DEF OneWaitList
    <3> QED BY <2>1, <2>2, <3>1, <3>2, <3>3 DEF OwnerCanRelease, SyncTypeOK
  <2>4. CASE locked_count[m] # 0 /\ owner[m] = curr
    BY <1>5, <2>1, <2>4 DEF mutex_lock, schedVars, OwnerCanRelease
  <2>5. CASE locked_count[m] # 0 /\ owner[m] # curr
    <3>1. /\ WaitCurr /\ owner' = owner
          /\ mutex_list' = [mutex_list EXCEPT ![m] = list_insert_last(@, curr)]
      BY <1>5, <2>5 DEF mutex_lock
    <3>2. waiting' = waiting \cup {curr}
      BY <3>1, WaitEffect
    <3>3. Members(list_insert_last(mutex_list[m], curr)) = Members(mutex_list[m]) \cup {curr}
      <4>1. mutex_list[m] \in Seq(Tasks) /\ curr \in Tasks
        BY <2>2 DEF SyncTypeOK
      <4> QED BY ONLY <4>1, InsertLast
    <3>4. ASSUME NEW n \in Mutexes, owner[n] # NULL
          PROVE  owner[n] \notin Members(mutex_list'[n])
      <4>1. CASE n = m
        <5>1. mutex_list'[n] = list_insert_last(mutex_list[m], curr)
          BY <3>1, <4>1 DEF SyncTypeOK
        <5> QED BY <2>5, <3>3, <3>4, <4>1, <5>1 DEF OwnerCanRelease
      <4>2. CASE n # m
        BY <3>1, <3>4, <4>2 DEF OwnerCanRelease, SyncTypeOK
      <4> QED BY <4>1, <4>2
    <3>5. ASSUME NEW n \in Mutexes, owner[n] # NULL
          PROVE  owner[n] \in Members(ready') \/ owner[n] \in waiting'
      BY <1>1, <3>2, <3>5 DEF OwnerCanRelease
    <3> QED BY <2>1, <3>1, <3>4, <3>5 DEF OwnerCanRelease
  <2> QED BY <2>3, <2>4, <2>5
<1>6. ASSUME NEW m \in Mutexes, mutex_unlock(m) PROVE OwnerCanRelease'
  <2>1. sem_list' = sem_list
    BY <1>6 DEF mutex_unlock, semVars
  <2>2. CASE locked_count[m] # 1
    BY <1>6, <2>1, <2>2 DEF mutex_unlock, schedVars, OwnerCanRelease
  <2>3. mutex_list[m] \in Seq(Tasks) /\ Injective(mutex_list[m]) /\ Len(mutex_list[m]) \in Nat
    BY DEF SyncTypeOK, OneWaitList
  <2>4. CASE locked_count[m] = 1 /\ Len(mutex_list[m]) = 0
    <3>1. /\ owner' = [owner EXCEPT ![m] = NULL] /\ mutex_list' = mutex_list
          /\ ready' = ready /\ waiting' = waiting
      BY <1>6, <2>4 DEF mutex_unlock, schedVars
    <3>2. \A n \in Mutexes : owner'[n] # NULL => owner'[n] = owner[n]
      BY <3>1 DEF SyncTypeOK
    <3> QED BY <2>1, <3>1, <3>2 DEF OwnerCanRelease
  <2>5. CASE locked_count[m] = 1 /\ Len(mutex_list[m]) > 0
    <3> DEFINE h == Head(mutex_list[m])
    <3>1. /\ WakeTask(h) /\ owner' = [owner EXCEPT ![m] = h]
          /\ mutex_list' = [mutex_list EXCEPT ![m] = Tail(@)]
      <4>1. Len(mutex_list[m]) # 0
        BY <2>3, <2>5
      <4> QED BY <1>6, <2>5, <4>1 DEF mutex_unlock, list_delete_first
    <3>2. /\ h \in Members(mutex_list[m]) /\ h \in Tasks
          /\ Members(Tail(mutex_list[m])) = Members(mutex_list[m]) \ {h}
      BY <2>3, <2>5, DeleteFirst
    <3>3. h \in waiting /\ \A s \in Sems : h \notin Members(sem_list[s])
      BY <3>2 DEF OneWaitList
    <3>4. Members(ready') = Members(ready) \cup {h} /\ waiting' = waiting \ {h}
      BY <3>1, <3>3, WakeEffect
    <3> HIDE DEF h
    <3>5. ASSUME NEW n \in Mutexes, owner'[n] # NULL
          PROVE  owner'[n] \notin Members(mutex_list'[n])
      <4>1. CASE n = m
        BY <3>1, <3>2, <4>1 DEF SyncTypeOK
      <4>2. CASE n # m
        BY <3>1, <3>5, <4>2 DEF OwnerCanRelease, SyncTypeOK
      <4> QED BY <4>1, <4>2
    <3>6. ASSUME NEW n \in Mutexes, owner'[n] # NULL
          PROVE  /\ owner'[n] \in Members(ready') \/ owner'[n] \in waiting'
                 /\ \A s \in Sems : owner'[n] \in Members(sem_list'[s]) => n \in HeldOverWait
      BY <2>1, <3>1, <3>3, <3>4, <3>6 DEF OwnerCanRelease, SyncTypeOK
    <3> QED BY <3>5, <3>6 DEF OwnerCanRelease
  <2> QED BY <2>2, <2>3, <2>4, <2>5
<1>7. CASE Timer /\ UNCHANGED <<semVars, mutexVars>>
  BY <1>7, TimerKeepsReady DEF semVars, mutexVars, OwnerCanRelease
<1>8. CASE SystemCall /\ UNCHANGED <<semVars, mutexVars>>
  <2>1. waiting' = waiting /\ \A m \in Mutexes : owner[m] # curr
    BY <1>8 DEF SystemCall, Held, task_start, sys_yield, sys_sleep, sys_exit
  <2> QED BY <1>1, <1>8, <2>1 DEF semVars, mutexVars, OwnerCanRelease
<1> QED BY <1>2, <1>3, <1>4, <1>5, <1>6, <1>7, <1>8 DEF SyncNext

\* Whatever the tasks do with any number of mutexes and semaphores, the owner of a
\* locked mutex is on the ready list or waits for something else.
THEOREM OwnersCanRelease == SyncSpec => []OwnerCanRelease
<1>1. SyncInit => OwnerCanRelease
  BY DEF SyncInit, OwnerCanRelease
<1>2. SyncInv /\ OwnerCanRelease /\ [SyncNext]_syncVars => OwnerCanRelease'
  BY OwnerStep
<1> QED BY <1>1, <1>2, SyncInitInv, SyncStepInv, PTL DEF SyncSpec

-----------------------------------------------------------------------------
(* The order on the wait lists.                                            *)

\* A step serves the wait lists in turn.
LEMMA TurnStep == ASSUME SyncInv, [SyncNext]_syncVars PROVE ServedInTurn
<1> USE DEF SyncInv
<1>0. /\ \A s \in Sems : sem_list[s] \in Seq(Tasks) /\ Injective(sem_list[s])
      /\ \A m \in Mutexes : mutex_list[m] \in Seq(Tasks) /\ Injective(mutex_list[m])
  BY DEF SyncTypeOK, OneWaitList
<1>1. ASSUME NEW q \in Seq(Tasks), Injective(q), NEW t \in Tasks, NEW u \in Tasks,
             Before(q, t, u), Len(q) > 0, t \in Members(Tail(q))
      PROVE  Before(Tail(q), t, u)
  BY <1>1, DeleteFirst, BeforeDeleteFirst
<1>2. ASSUME NEW q \in Seq(Tasks), NEW n \in Tasks, NEW t \in Tasks, NEW u \in Tasks,
             Before(q, t, u)
      PROVE  Before(list_insert_last(q, n), t, u)
  BY <1>2, BeforeInsertLast
<1>3. CASE UNCHANGED <<semVars, mutexVars>>
  BY <1>3 DEF semVars, mutexVars, ServedInTurn
<1>4. ASSUME NEW s \in Sems, sem_wait(s) PROVE ServedInTurn
  <2>1. owner' = owner /\ mutex_list' = mutex_list
    BY <1>4 DEF sem_wait, mutexVars
  <2>2. CASE sem_list' = sem_list
    BY <2>1, <2>2 DEF ServedInTurn
  <2>3. CASE WaitCurr /\ sem_list' = [sem_list EXCEPT ![s] = list_insert_last(@, curr)]
    <3>1. curr \in Tasks
      BY <2>3, WaitEffect
    <3>2. ASSUME NEW r \in Sems, NEW t \in Tasks, NEW u \in Tasks, Before(sem_list[r], t, u)
          PROVE  Before(sem_list'[r], t, u)
      <4>1. CASE r = s
        <5>1. sem_list'[r] = list_insert_last(sem_list[s], curr)
          BY <2>3, <4>1 DEF SyncTypeOK
        <5> QED BY <1>0, <1>2, <3>1, <3>2, <4>1, <5>1
      <4>2. CASE r # s
        BY <2>3, <3>2, <4>2 DEF SyncTypeOK
      <4> QED BY <4>1, <4>2
    <3> QED BY <2>1, <3>2 DEF ServedInTurn
  <2> QED BY <1>4, <2>2, <2>3 DEF sem_wait
<1>5. ASSUME NEW s \in Sems, sem_notify(s) PROVE ServedInTurn
  <2>1. owner' = owner /\ mutex_list' = mutex_list
    BY <1>5 DEF sem_notify, mutexVars
  <2>2. CASE sem_list' = sem_list
    BY <2>1, <2>2 DEF ServedInTurn
  <2>3. CASE Len(sem_list[s]) > 0 /\ sem_list' = [sem_list EXCEPT ![s] = Tail(@)]
    <3>1. ASSUME NEW r \in Sems, NEW t \in Tasks, NEW u \in Tasks,
                 Before(sem_list[r], t, u), t \in Members(sem_list'[r])
          PROVE  Before(sem_list'[r], t, u)
      <4>1. CASE r = s
        <5>1. sem_list'[r] = Tail(sem_list[s])
          BY <2>3, <4>1 DEF SyncTypeOK
        <5> QED BY <1>0, <1>1, <2>3, <3>1, <4>1, <5>1
      <4>2. CASE r # s
        BY <2>3, <3>1, <4>2 DEF SyncTypeOK
      <4> QED BY <4>1, <4>2
    <3> QED BY <2>1, <3>1 DEF ServedInTurn
  <2> QED BY <1>5, <2>2, <2>3 DEF sem_notify, list_delete_first
<1>6. ASSUME NEW m \in Mutexes, mutex_lock(m) PROVE ServedInTurn
  <2>1. sem_list' = sem_list
    BY <1>6 DEF mutex_lock, semVars
  <2>2. CASE locked_count[m] = 0
    <3>1. mutex_list[m] = <<>>
      BY <2>2 DEF NoUnitUnused, SyncTypeOK
    <3>2. owner' = [owner EXCEPT ![m] = curr] /\ mutex_list' = mutex_list
      BY <1>6, <2>2 DEF mutex_lock
    <3> QED BY <2>1, <3>1, <3>2 DEF ServedInTurn, SyncTypeOK
  <2>3. CASE locked_count[m] # 0 /\ owner[m] = curr
    BY <1>6, <2>1, <2>3 DEF mutex_lock, ServedInTurn
  <2>4. CASE locked_count[m] # 0 /\ owner[m] # curr
    <3>1. /\ WaitCurr /\ owner' = owner
          /\ mutex_list' = [mutex_list EXCEPT ![m] = list_insert_last(@, curr)]
      BY <1>6, <2>4 DEF mutex_lock
    <3>2. curr \in Tasks
      BY <3>1, WaitEffect
    <3>3. ASSUME NEW n \in Mutexes, NEW t \in Tasks, NEW u \in Tasks,
                 Before(mutex_list[n], t, u)
          PROVE  Before(mutex_list'[n], t, u)
      <4>1. CASE n = m
        <5>1. mutex_list'[n] = list_insert_last(mutex_list[m], curr)
          BY <3>1, <4>1 DEF SyncTypeOK
        <5> QED BY <1>0, <1>2, <3>2, <3>3, <4>1, <5>1
      <4>2. CASE n # m
        BY <3>1, <3>3, <4>2 DEF SyncTypeOK
      <4> QED BY <4>1, <4>2
    <3> QED BY <2>1, <3>1, <3>3 DEF ServedInTurn
  <2> QED BY <2>2, <2>3, <2>4
<1>7. ASSUME NEW m \in Mutexes, mutex_unlock(m) PROVE ServedInTurn
  <2>1. sem_list' = sem_list
    BY <1>7 DEF mutex_unlock, semVars
  <2>2. CASE locked_count[m] # 1
    BY <1>7, <2>1, <2>2 DEF mutex_unlock, ServedInTurn
  <2>3. CASE locked_count[m] = 1 /\ Len(mutex_list[m]) = 0
    <3>1. mutex_list[m] = <<>>
      BY <1>0, <2>3
    <3>2. owner' = [owner EXCEPT ![m] = NULL] /\ mutex_list' = mutex_list
      BY <1>7, <2>3 DEF mutex_unlock
    <3> QED BY <2>1, <3>1, <3>2 DEF ServedInTurn, SyncTypeOK
  <2>4. CASE locked_count[m] = 1 /\ Len(mutex_list[m]) > 0
    <3>1. /\ owner' = [owner EXCEPT ![m] = Head(mutex_list[m])]
          /\ mutex_list' = [mutex_list EXCEPT ![m] = Tail(@)]
      <4>1. Len(mutex_list[m]) # 0
        BY <1>0, <2>4
      <4> QED BY <1>7, <2>4, <4>1 DEF mutex_unlock, list_delete_first
    <3>2. ASSUME NEW n \in Mutexes, NEW t \in Tasks, NEW u \in Tasks,
                 Before(mutex_list[n], t, u), t \in Members(mutex_list'[n])
          PROVE  Before(mutex_list'[n], t, u)
      <4>1. CASE n = m
        <5>1. mutex_list'[n] = Tail(mutex_list[m])
          BY <3>1, <4>1 DEF SyncTypeOK
        <5> QED BY <1>0, <1>1, <2>4, <3>2, <4>1, <5>1
      <4>2. CASE n # m
        BY <3>1, <3>2, <4>2 DEF SyncTypeOK
      <4> QED BY <4>1, <4>2
    <3>3. ASSUME NEW n \in Mutexes, owner'[n] # owner[n]
          PROVE  owner'[n] = Head(mutex_list[n]) /\ mutex_list'[n] = Tail(mutex_list[n])
      BY <3>1, <3>3 DEF SyncTypeOK
    <3> QED BY <2>1, <3>2, <3>3 DEF ServedInTurn
  <2> QED BY <1>0, <2>2, <2>3, <2>4
<1> QED BY <1>3, <1>4, <1>5, <1>6, <1>7 DEF SyncNext, syncVars

\* Mutexes and semaphores are handed on in the order of the calls, for every number
\* of tasks: no task barges in.
THEOREM InTurn == SyncSpec => FirstComeFirstServed
<1>1. SyncInv /\ [SyncNext]_syncVars => [ServedInTurn]_syncVars
  BY TurnStep
<1> QED BY <1>1, SyncInitInv, SyncStepInv, PTL DEF SyncSpec, FirstComeFirstServed

=============================================================================
