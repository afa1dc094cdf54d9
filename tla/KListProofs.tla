---------------------------- MODULE KListProofs ----------------------------
(* list.c implements the operations of ListOps, for every number of nodes  *)
(* and lists.                                                              *)
EXTENDS KList, TLAPS

\* list_insert_last adds one member.
LEMMA InsertLast ==
    ASSUME NEW S, NEW q \in Seq(S), NEW t \in S
    PROVE  /\ list_insert_last(q, t) \in Seq(S)
           /\ Len(list_insert_last(q, t)) = Len(q) + 1
           /\ Members(list_insert_last(q, t)) = Members(q) \cup {t}
           /\ Injective(q) /\ t \notin Members(q) => Injective(list_insert_last(q, t))
           /\ list_insert_last(q, t) # <<>>
<1> DEFINE r == list_insert_last(q, t)
<1>1. /\ r \in Seq(S)
      /\ Len(r) = Len(q) + 1
      /\ \A i \in 1 .. Len(q) : r[i] = q[i]
      /\ r[Len(q) + 1] = t
  BY DEF list_insert_last
<1>2. DOMAIN q = 1 .. Len(q) /\ DOMAIN r = 1 .. Len(q) + 1 /\ Len(q) \in Nat
  BY <1>1
<1>3. Members(r) = Members(q) \cup {t}
  <2>1. \A x \in Members(r) : x \in Members(q) \cup {t}
    BY <1>1, <1>2 DEF Members
  <2>2. \A x \in Members(q) : x \in Members(r)
    BY <1>1, <1>2 DEF Members
  <2>3. t \in Members(r)
    BY <1>1, <1>2 DEF Members
  <2> QED BY <2>1, <2>2, <2>3
<1>4. Injective(q) /\ t \notin Members(q) => Injective(r)
  BY <1>1, <1>2 DEF Members, Injective
<1>5. r # <<>>
  BY <1>1, <1>2
<1> QED BY <1>1, <1>3, <1>4, <1>5

\* list_delete of a member removes just that one, and a list without
\* duplicates stays one.
LEMMA Delete ==
    ASSUME NEW S, NEW q \in Seq(S), Injective(q), NEW t \in Members(q)
    PROVE  /\ list_delete(q, t) \in Seq(S)
           /\ Len(list_delete(q, t)) = Len(q) - 1
           /\ Members(list_delete(q, t)) = Members(q) \ {t}
           /\ Injective(list_delete(q, t))
<1> DEFINE k == CHOOSE i \in DOMAIN q : q[i] = t
           r == list_delete(q, t)
<1>1. k \in 1 .. Len(q) /\ q[k] = t /\ Len(q) \in Nat /\ DOMAIN q = 1 .. Len(q)
  <2>1. \E i \in DOMAIN q : q[i] = t
    BY DEF Members
  <2> QED BY <2>1
<1>2. r = [i \in 1 .. Len(q) - 1 |-> IF i < k THEN q[i] ELSE q[i + 1]]
  BY DEF list_delete
<1> HIDE DEF k, r
<1>3. r \in Seq(S) /\ Len(r) = Len(q) - 1 /\ DOMAIN r = 1 .. Len(q) - 1
  <2>1. \A i \in 1 .. Len(q) - 1 : (IF i < k THEN q[i] ELSE q[i + 1]) \in S
    BY <1>1
  <2>2. Len(q) - 1 \in Nat
    BY <1>1
  <2> QED BY <1>2, <2>1, <2>2
<1>4. Members(r) = Members(q) \ {t}
  <2>1. \A x \in Members(r) : x \in Members(q) /\ x # t
    <3> SUFFICES ASSUME NEW i \in 1 .. Len(q) - 1
                 PROVE  r[i] \in Members(q) /\ r[i] # t
      BY <1>3 DEF Members
    <3>1. CASE i < k
      BY <1>1, <1>2, <3>1 DEF Members, Injective
    <3>2. CASE ~(i < k)
      <4>1. r[i] = q[i + 1] /\ i + 1 \in 1 .. Len(q) /\ i + 1 # k
        BY <1>1, <1>2, <3>2
      <4> QED BY <1>1, <4>1 DEF Members, Injective
    <3> QED BY <3>1, <3>2
  <2>2. \A x \in Members(q) : x # t => x \in Members(r)
    <3> SUFFICES ASSUME NEW i \in 1 .. Len(q), q[i] # t
                 PROVE  q[i] \in Members(r)
      BY <1>1 DEF Members
    <3>1. CASE i < k
      <4>1. i \in 1 .. Len(q) - 1 /\ r[i] = q[i]
        BY <1>1, <1>2, <3>1
      <4> QED BY <1>3, <4>1 DEF Members
    <3>2. CASE i > k
      <4>1. i - 1 \in 1 .. Len(q) - 1 /\ r[i - 1] = q[i]
        BY <1>1, <1>2, <3>2
      <4> QED BY <1>3, <4>1 DEF Members
    <3> QED BY <1>1, <3>1, <3>2
  <2> QED BY <2>1, <2>2
<1>5. Injective(r)
  <2> SUFFICES ASSUME NEW i \in 1 .. Len(q) - 1, NEW j \in 1 .. Len(q) - 1,
                      r[i] = r[j]
               PROVE  i = j
    BY <1>3 DEF Injective
  <2> DEFINE ii == IF i < k THEN i ELSE i + 1
             jj == IF j < k THEN j ELSE j + 1
  <2>1. r[i] = q[ii] /\ r[j] = q[jj] /\ ii \in 1 .. Len(q) /\ jj \in 1 .. Len(q)
    BY <1>1, <1>2
  <2>2. ii = jj
    BY <1>1, <2>1 DEF Injective
  <2> QED BY <1>1, <2>2
<1> QED BY <1>3, <1>4, <1>5 DEF r

\* The members of a sequence over S are elements of S, the head is one of them.
LEMMA HeadMember ==
    ASSUME NEW S, NEW q \in Seq(S)
    PROVE  /\ Members(q) \subseteq S
           /\ q # <<>> => Head(q) \in Members(q)
           /\ q = <<>> <=> Len(q) = 0
           /\ q = <<>> => Members(q) = {}
<1>1. DOMAIN q = 1 .. Len(q) /\ Len(q) \in Nat
  OBVIOUS
<1>2. \A x \in Members(q) : x \in S
  BY <1>1 DEF Members
<1>3. q = <<>> <=> Len(q) = 0
  OBVIOUS
<1>4. q # <<>> => Head(q) = q[1] /\ 1 \in DOMAIN q
  BY <1>1, <1>3
<1>5. q = <<>> => Members(q) = {}
  BY <1>1, <1>3 DEF Members
<1> QED BY <1>2, <1>3, <1>4, <1>5 DEF Members

-----------------------------------------------------------------------------
\* A node is on one list at a time, once.
Disjoint ==
    /\ \A l \in Lists : Injective(val[l])
    /\ \A l, m \in Lists : \A n \in Nodes :
          n \in Members(val[l]) /\ n \in Members(val[m]) => l = m

\* The invariant: Linked alone is not inductive, since an operation on one list would
\* change the links of another one that shared its nodes.
Inv == TypeOK /\ Disjoint /\ Linked

\* list_insert_first adds one member.
LEMMA InsertFirst ==
    ASSUME NEW S, NEW q \in Seq(S), NEW t \in S
    PROVE  /\ list_insert_first(q, t) \in Seq(S)
           /\ Len(list_insert_first(q, t)) = Len(q) + 1
           /\ list_insert_first(q, t)[1] = t
           /\ \A i \in 1 .. Len(q) : list_insert_first(q, t)[i + 1] = q[i]
           /\ Members(list_insert_first(q, t)) = Members(q) \cup {t}
           /\ Injective(q) /\ t \notin Members(q) => Injective(list_insert_first(q, t))
<1> DEFINE r == list_insert_first(q, t)
<1>1. /\ r \in Seq(S) /\ Len(r) = Len(q) + 1 /\ r[1] = t
      /\ \A i \in 1 .. Len(q) : r[i + 1] = q[i]
      /\ \A i \in 2 .. Len(q) + 1 : r[i] = q[i - 1]
  BY DEF list_insert_first
<1>2. DOMAIN q = 1 .. Len(q) /\ DOMAIN r = 1 .. Len(q) + 1 /\ Len(q) \in Nat
  BY <1>1
<1> HIDE DEF r
<1>3. \A x : x \in Members(r) <=> x \in Members(q) \/ x = t
  <2>1. ASSUME NEW i \in 1 .. Len(q) + 1 PROVE r[i] \in Members(q) \/ r[i] = t
    <3>1. CASE i = 1
      BY <1>1, <3>1
    <3>2. CASE i # 1
      <4>1. r[i] = q[i - 1] /\ i - 1 \in DOMAIN q
        BY <1>1, <1>2, <3>2
      <4> QED BY <4>1 DEF Members
    <3> QED BY <3>1, <3>2
  <2>2. ASSUME NEW i \in 1 .. Len(q) PROVE q[i] \in Members(r)
    <3>1. r[i + 1] = q[i] /\ i + 1 \in DOMAIN r
      BY <1>1, <1>2
    <3> QED BY <3>1 DEF Members
  <2>3. t \in Members(r)
    BY <1>1, <1>2 DEF Members
  <2> QED BY <1>2, <2>1, <2>2, <2>3 DEF Members
<1>4. ASSUME Injective(q), t \notin Members(q) PROVE Injective(r)
  <2> SUFFICES ASSUME NEW i \in 1 .. Len(q) + 1, NEW j \in 1 .. Len(q) + 1, r[i] = r[j]
               PROVE  i = j
    BY <1>2 DEF Injective
  <2>1. ASSUME NEW h \in 2 .. Len(q) + 1 PROVE r[h] \in Members(q)
    <3>1. r[h] = q[h - 1] /\ h - 1 \in DOMAIN q
      BY <1>1, <1>2
    <3> QED BY <3>1 DEF Members
  <2>2. CASE i = 1 \/ j = 1
    BY <1>1, <1>2, <1>4, <2>1, <2>2
  <2>3. CASE i # 1 /\ j # 1
    <3>1. q[i - 1] = q[j - 1] /\ i - 1 \in DOMAIN q /\ j - 1 \in DOMAIN q
      BY <1>1, <1>2, <2>3
    <3>2. i - 1 = j - 1
      BY <1>4, <3>1 DEF Injective
    <3> QED BY <3>2
  <2> QED BY <2>2, <2>3
<1> QED BY <1>1, <1>3, <1>4 DEF r

\* A list whose fields and nodes a step leaves alone is still linked.
LEMMA Frame ==
    ASSUME Linked, TypeOK, NEW m \in Lists,
           first'[m] = first[m], last'[m] = last[m], count'[m] = count[m],
           val'[m] = val[m],
           \A x \in Members(val[m]) : next'[x] = next[x] /\ pre'[x] = pre[x]
    PROVE  Represents(m, val[m])'
<1>1. \A i \in 1 .. Len(val[m]) : val[m][i] \in Members(val[m])
  BY DEF TypeOK, Members
<1>2. Represents(m, val[m])
  BY DEF Linked
<1> QED BY <1>1, <1>2 DEF Represents

\* The ends of a list, and the neighbours of its nodes, are members of it.
LEMMA Neighbours ==
    ASSUME TypeOK, Linked, NEW l \in Lists
    PROVE  /\ val[l] \in Seq(Nodes) /\ Len(val[l]) \in Nat
           /\ DOMAIN val[l] = 1 .. Len(val[l])
           /\ count[l] = Len(val[l])
           /\ Members(val[l]) \subseteq Nodes
           /\ first[l] # NULL => first[l] \in Members(val[l])
           /\ last[l] # NULL => last[l] \in Members(val[l])
           /\ Len(val[l]) # 0 => first[l] # NULL /\ last[l] # NULL
           /\ \A n \in Members(val[l]) :
                 /\ next[n] # NULL => next[n] \in Members(val[l])
                 /\ pre[n] # NULL => pre[n] \in Members(val[l])
<1>1. /\ val[l] \in Seq(Nodes) /\ Len(val[l]) \in Nat
      /\ DOMAIN val[l] = 1 .. Len(val[l])
  BY DEF TypeOK
<1>2. Represents(l, val[l])
  BY DEF Linked
<1>3. Members(val[l]) \subseteq Nodes
  BY <1>1, HeadMember
<1>4. \A i \in 1 .. Len(val[l]) : val[l][i] \in Members(val[l]) /\ val[l][i] \in Nodes
  BY <1>1 DEF Members
<1>5. /\ count[l] = Len(val[l])
      /\ first[l] # NULL => first[l] \in Members(val[l])
      /\ last[l] # NULL => last[l] \in Members(val[l])
      /\ Len(val[l]) # 0 => first[l] # NULL /\ last[l] # NULL
  BY <1>1, <1>2, <1>4, NullAssumption DEF Represents
<1>6. ASSUME NEW i \in 1 .. Len(val[l])
      PROVE  /\ next[val[l][i]] # NULL => next[val[l][i]] \in Members(val[l])
             /\ pre[val[l][i]] # NULL => pre[val[l][i]] \in Members(val[l])
  BY <1>1, <1>2, <1>4 DEF Represents
<1>7. \A n \in Members(val[l]) :
          /\ next[n] # NULL => next[n] \in Members(val[l])
          /\ pre[n] # NULL => pre[n] \in Members(val[l])
  BY <1>1, <1>6 DEF Members
<1> QED BY <1>1, <1>3, <1>5, <1>7

\* The first state.
LEMMA InitLinked == Init => Inv
<1> SUFFICES ASSUME Init PROVE Inv
  OBVIOUS
<1>1. TypeOK
  BY DEF Init, TypeOK
<1>2. \A l \in Lists : Members(val[l]) = {} /\ Injective(val[l])
  BY DEF Init, Members, Injective
<1>3. Linked
  BY DEF Init, Linked, Represents
<1> QED BY <1>1, <1>2, <1>3 DEF Inv, Disjoint

\* One list l changes to q; the nodes whose links change are members of l
\* before or after, so the other lists are left alone.
LEMMA OneListChanges ==
    ASSUME Inv, NEW l \in Lists,
           val' = [val EXCEPT ![l] = val'[l]],
           val'[l] \in Seq(Nodes),
           Injective(val'[l]),
           \A m \in Lists : m # l => first'[m] = first[m] /\ last'[m] = last[m]
                                     /\ count'[m] = count[m],
           \A n \in Members(val'[l]) : n \in Members(val[l]) \/ OnNoList(n),
           \A n \in Nodes : n \notin Members(val[l]) /\ n \notin Members(val'[l]) =>
               next'[n] = next[n] /\ pre'[n] = pre[n],
           \A n \in Members(val[l]) : n \notin Members(val'[l]) =>
               next'[n] = NULL /\ pre'[n] = NULL,
           Represents(l, val[l])'
    PROVE  Disjoint' /\ Linked' /\ val' \in [Lists -> Seq(Nodes)]
<1> USE DEF Inv
<1>1. \A m \in Lists : m # l => val'[m] = val[m]
  BY DEF TypeOK
<1>2. val' \in [Lists -> Seq(Nodes)]
  BY DEF TypeOK
<1>3. Disjoint'
  <2>1. \A m \in Lists : Injective(val'[m])
    BY <1>1 DEF Disjoint
  <2>2. ASSUME NEW i \in Lists, NEW m \in Lists, NEW n \in Nodes,
               n \in Members(val'[i]), n \in Members(val'[m])
        PROVE  i = m
    BY <1>1, <2>2 DEF Disjoint, OnNoList
  <2> QED BY <2>1, <2>2 DEF Disjoint
<1>4. ASSUME NEW m \in Lists, m # l PROVE Represents(m, val[m])'
  <2>1. Members(val[m]) \subseteq Nodes
    BY Neighbours
  <2>2. \A n \in Members(val[m]) : n \notin Members(val[l]) /\ n \notin Members(val'[l])
    BY <1>4, <2>1 DEF Disjoint, OnNoList
  <2>3. \A n \in Members(val[m]) : next'[n] = next[n] /\ pre'[n] = pre[n]
    BY <2>1, <2>2
  <2> QED BY <1>1, <1>4, <2>3, Frame
<1>5. ASSUME NEW n \in Nodes, OnNoList(n)' PROVE pre'[n] = NULL /\ next'[n] = NULL
  <2>1. n \notin Members(val'[l]) /\ \A m \in Lists : m # l => n \notin Members(val[m])
    BY <1>1, <1>5 DEF OnNoList
  <2>2. CASE n \in Members(val[l])
    BY <2>1, <2>2
  <2>3. CASE n \notin Members(val[l])
    <3>1. OnNoList(n)
      BY <2>1, <2>3 DEF OnNoList
    <3> QED BY <2>1, <2>3, <3>1 DEF Linked
  <2> QED BY <2>2, <2>3
<1>6. Linked'
  BY <1>4, <1>5 DEF Linked
<1> QED BY <1>2, <1>3, <1>6

-----------------------------------------------------------------------------
(* The links of one list, apart from everything else: the nodes q[1], ..., *)
(* q[N] are linked by nx and pr, from the first one f to the last one e.   *)

Chain(q, N, f, e, nx, pr) ==
    /\ f = IF N = 0 THEN NULL ELSE q[1]
    /\ e = IF N = 0 THEN NULL ELSE q[N]
    /\ \A i \in 1 .. N : /\ nx[q[i]] = IF i = N THEN NULL ELSE q[i + 1]
                         /\ pr[q[i]] = IF i = 1 THEN NULL ELSE q[i - 1]

\* N different nodes.
Apart(q, N) ==
    /\ \A i \in 1 .. N : q[i] \in Nodes
    /\ \A i, j \in 1 .. N : q[i] = q[j] => i = j

\* A node n behind the last one.
Appended(n, q, N, f, e, nx, pr, r, f1, e1, nx1, pr1) ==
    /\ \A i \in 1 .. N : q[i] # n
    /\ \A i \in 1 .. N : r[i] = q[i]
    /\ r[N + 1] = n
    /\ f1 = (IF N = 0 THEN n ELSE f) /\ e1 = n /\ nx1[n] = NULL /\ pr1[n] = e
    /\ \A x \in Nodes : x # n => /\ nx1[x] = (IF x = e THEN n ELSE nx[x])
                                  /\ pr1[x] = pr[x]

LEMMA ChainAppend ==
    ASSUME NEW N \in Nat, NEW q, NEW r, NEW n \in Nodes, NEW f, NEW e,
           NEW nx, NEW pr, NEW f1, NEW e1, NEW nx1, NEW pr1,
           Chain(q, N, f, e, nx, pr), Apart(q, N),
           Appended(n, q, N, f, e, nx, pr, r, f1, e1, nx1, pr1)
    PROVE  Chain(r, N + 1, f1, e1, nx1, pr1)
<1> USE DEF Appended
<1>1. \A i \in 1 .. N : q[i] = e <=> i = N
  BY NullAssumption DEF Chain, Apart
<1>2. \A i \in 1 .. N : /\ nx1[q[i]] = IF i = N THEN n ELSE nx[q[i]]
                        /\ pr1[q[i]] = pr[q[i]]
  BY <1>1 DEF Apart
<1>3. \A i \in 1 .. N : /\ nx[q[i]] = IF i = N THEN NULL ELSE q[i + 1]
                        /\ pr[q[i]] = IF i = 1 THEN NULL ELSE q[i - 1]
  BY DEF Chain
<1>4. ASSUME NEW i \in 1 .. N
      PROVE  /\ nx1[r[i]] = r[i + 1]
             /\ pr1[r[i]] = IF i = 1 THEN NULL ELSE r[i - 1]
  BY <1>2, <1>3
<1>5. pr1[n] = IF N + 1 = 1 THEN NULL ELSE r[N]
  BY DEF Chain
<1>6. f1 = r[1]
  BY DEF Chain
<1> QED BY <1>4, <1>5, <1>6 DEF Chain

\* A node n before the first one.
Prepended(n, q, N, f, e, nx, pr, r, f1, e1, nx1, pr1) ==
    /\ \A i \in 1 .. N : q[i] # n
    /\ \A i \in 1 .. N : r[i + 1] = q[i]
    /\ r[1] = n
    /\ f1 = n /\ e1 = (IF N = 0 THEN n ELSE e) /\ nx1[n] = f /\ pr1[n] = NULL
    /\ \A x \in Nodes : x # n => /\ nx1[x] = nx[x]
                                  /\ pr1[x] = (IF x = f THEN n ELSE pr[x])

LEMMA ChainPrepend ==
    ASSUME NEW N \in Nat, NEW q, NEW r, NEW n \in Nodes, NEW f, NEW e,
           NEW nx, NEW pr, NEW f1, NEW e1, NEW nx1, NEW pr1,
           Chain(q, N, f, e, nx, pr), Apart(q, N),
           Prepended(n, q, N, f, e, nx, pr, r, f1, e1, nx1, pr1)
    PROVE  Chain(r, N + 1, f1, e1, nx1, pr1)
<1> USE DEF Prepended
<1>1. \A i \in 1 .. N : q[i] = f <=> i = 1
  BY NullAssumption DEF Chain, Apart
<1>2. \A i \in 1 .. N : /\ nx1[q[i]] = nx[q[i]]
                        /\ pr1[q[i]] = IF i = 1 THEN n ELSE pr[q[i]]
  BY <1>1 DEF Apart
<1>3. \A i \in 1 .. N : /\ nx[q[i]] = IF i = N THEN NULL ELSE q[i + 1]
                        /\ pr[q[i]] = IF i = 1 THEN NULL ELSE q[i - 1]
  BY DEF Chain
<1>4. ASSUME NEW i \in 2 .. N + 1
      PROVE  /\ nx1[r[i]] = IF i = N + 1 THEN NULL ELSE r[i + 1]
             /\ pr1[r[i]] = r[i - 1]
  <2>1. i - 1 \in 1 .. N /\ r[i] = q[i - 1]
    <3>1. i - 1 \in 1 .. N /\ (i - 1) + 1 = i
      OBVIOUS
    <3> QED BY <3>1
  <2>2. i # N + 1 => r[i + 1] = q[i]
    OBVIOUS
  <2>3. i # 2 => r[i - 1] = q[i - 2]
    <3>1. i # 2 => i - 2 \in 1 .. N /\ (i - 2) + 1 = i - 1
      OBVIOUS
    <3> QED BY <3>1
  <2>4. /\ nx[q[i - 1]] = IF i - 1 = N THEN NULL ELSE q[i]
        /\ pr[q[i - 1]] = IF i - 1 = 1 THEN NULL ELSE q[i - 2]
    BY <1>3, <2>1
  <2> QED BY <1>2, <2>1, <2>2, <2>3, <2>4
<1>5. nx1[r[1]] = IF N + 1 = 1 THEN NULL ELSE r[2]
  BY DEF Chain
<1>6. e1 = r[N + 1]
  BY DEF Chain
<1> QED BY <1>4, <1>5, <1>6 DEF Chain

\* The k-th node is taken out.
Removed(k, n, q, N, f, e, nx, pr, r, f1, e1, nx1, pr1) ==
    /\ n = q[k]
    /\ f1 = (IF n = f THEN nx[n] ELSE f)
    /\ e1 = (IF n = e THEN pr[n] ELSE e)
    /\ \A i \in 1 .. N - 1 : r[i] = IF i < k THEN q[i] ELSE q[i + 1]
    /\ \A x \in Nodes : x # n => /\ nx1[x] = (IF x = pr[n] THEN nx[n] ELSE nx[x])
                                  /\ pr1[x] = (IF x = nx[n] THEN pr[n] ELSE pr[x])

LEMMA ChainCut ==
    ASSUME NEW N \in Nat, NEW k \in 1 .. N, NEW q, NEW r, NEW n, NEW f, NEW e,
           NEW nx, NEW pr, NEW f1, NEW e1, NEW nx1, NEW pr1,
           Chain(q, N, f, e, nx, pr), Apart(q, N),
           Removed(k, n, q, N, f, e, nx, pr, r, f1, e1, nx1, pr1)
    PROVE  Chain(r, N - 1, f1, e1, nx1, pr1)
<1> USE DEF Removed
<1>1. /\ nx[n] = IF k = N THEN NULL ELSE q[k + 1]
      /\ pr[n] = IF k = 1 THEN NULL ELSE q[k - 1]
      /\ n = f <=> k = 1
      /\ n = e <=> k = N
      /\ f = q[1] /\ e = q[N]
  BY DEF Chain, Apart
<1>2. \A i \in 1 .. N : q[i] \in Nodes /\ q[i] # NULL /\ (i # k => q[i] # n)
  BY NullAssumption DEF Apart
<1>3. \A i \in 1 .. N : /\ nx[q[i]] = IF i = N THEN NULL ELSE q[i + 1]
                        /\ pr[q[i]] = IF i = 1 THEN NULL ELSE q[i - 1]
  BY DEF Chain
<1>4. \A i \in 1 .. N : /\ q[i] = pr[n] <=> i = k - 1
                        /\ q[i] = nx[n] <=> i = k + 1
  BY <1>1, <1>2 DEF Apart
<1>5. \A i \in 1 .. N : i # k =>
          /\ nx1[q[i]] = IF i = k - 1 THEN nx[n] ELSE nx[q[i]]
          /\ pr1[q[i]] = IF i = k + 1 THEN pr[n] ELSE pr[q[i]]
  BY <1>2, <1>4
<1>6. ASSUME NEW i \in 1 .. N - 1
      PROVE  /\ nx1[r[i]] = IF i = N - 1 THEN NULL ELSE r[i + 1]
             /\ pr1[r[i]] = IF i = 1 THEN NULL ELSE r[i - 1]
  <2>1. nx1[r[i]] = IF i = N - 1 THEN NULL ELSE r[i + 1]
    BY <1>1, <1>3, <1>5
  <2>2. pr1[r[i]] = IF i = 1 THEN NULL ELSE r[i - 1]
    BY <1>1, <1>3, <1>5
  <2> QED BY <2>1, <2>2
<1>7. f1 = IF N - 1 = 0 THEN NULL ELSE r[1]
  BY <1>1
<1>8. e1 = IF N - 1 = 0 THEN NULL ELSE r[N - 1]
  BY <1>1
<1> QED BY <1>6, <1>7, <1>8 DEF Chain

-----------------------------------------------------------------------------
(* The operations.                                                         *)

\* What the invariant says of one list.
LEMMA ChainOf ==
    ASSUME Inv, NEW l \in Lists
    PROVE  LET q == val[l]
           IN  /\ Len(q) \in Nat /\ count[l] = Len(q) /\ DOMAIN q = 1 .. Len(q)
               /\ q \in Seq(Nodes) /\ Injective(q)
               /\ Chain(q, Len(q), first[l], last[l], next, pre)
               /\ Apart(q, Len(q))
<1>1. /\ val[l] \in Seq(Nodes) /\ Len(val[l]) \in Nat
      /\ DOMAIN val[l] = 1 .. Len(val[l]) /\ Injective(val[l])
  BY DEF Inv, TypeOK, Disjoint
<1>2. Represents(l, val[l])
  BY DEF Inv, Linked
<1>3. Apart(val[l], Len(val[l]))
  BY <1>1 DEF Apart, Injective
<1>4. Chain(val[l], Len(val[l]), first[l], last[l], next, pre) /\ count[l] = Len(val[l])
  BY <1>2 DEF Represents, Chain
<1> QED BY <1>1, <1>3, <1>4

\* list_insert_last, and what it does to the links.
LEMMA InsertLastInv == ASSUME Inv, NEW l \in Lists, NEW n \in Nodes, insert_last(l, n)
                       PROVE  Inv'
<1> DEFINE q == val[l]
           r == list_insert_last(q, n)
           N == Len(q)
<1>1. /\ N \in Nat /\ count[l] = N /\ DOMAIN q = 1 .. N /\ q \in Seq(Nodes) /\ Injective(q)
      /\ Chain(q, N, first[l], last[l], next, pre) /\ Apart(q, N)
  BY ChainOf
<1>2. n \notin Members(q) /\ \A i \in 1 .. N : q[i] # n
  BY <1>1 DEF insert_last, OnNoList, Members
<1>3. /\ r \in Seq(Nodes) /\ Len(r) = N + 1 /\ Members(r) = Members(q) \cup {n}
      /\ Injective(r)
  BY ONLY <1>1, <1>2, n \in Nodes, InsertLast
<1>4. r[N + 1] = n /\ \A i \in 1 .. N : r[i] = q[i]
  BY <1>1 DEF list_insert_last
<1>5. val' = [val EXCEPT ![l] = r] /\ val'[l] = r
  BY DEF insert_last, Inv, TypeOK
<1> HIDE DEF r
<1>6. /\ count' = [count EXCEPT ![l] = N + 1] /\ last' = [last EXCEPT ![l] = n]
      /\ pre' = [pre EXCEPT ![n] = last[l]]
      /\ N = 0 => /\ first' = [first EXCEPT ![l] = n]
                  /\ next' = [next EXCEPT ![n] = NULL]
      /\ N # 0 => /\ first' = first
                  /\ next' = [next EXCEPT ![n] = NULL, ![last[l]] = n]
  BY <1>1 DEF insert_last, list_is_empty
<1>7. N = 0 => last[l] = NULL
  BY <1>1 DEF Chain
<1>8. N # 0 => last[l] # n /\ last[l] \in Nodes
  BY <1>1, <1>2 DEF Chain, Apart
<1>9. /\ first'[l] = (IF N = 0 THEN n ELSE first[l]) /\ last'[l] = n /\ count'[l] = N + 1
      /\ next'[n] = NULL /\ pre'[n] = last[l]
      /\ \A x \in Nodes : x # n =>
            next'[x] = (IF x = last[l] THEN n ELSE next[x]) /\ pre'[x] = pre[x]
  BY <1>6, <1>7, <1>8, NullAssumption DEF Inv, TypeOK
<1> HIDE DEF q, N
<1>10. Chain(r, N + 1, first'[l], last'[l], next', pre')
  <2>1. Appended(n, q, N, first[l], last[l], next, pre, r, first'[l], last'[l], next', pre')
    BY <1>2, <1>4, <1>9 DEF Appended
  <2> QED BY ONLY <1>1, n \in Nodes, <2>1, ChainAppend
<1>11. Represents(l, val[l])'
  BY <1>3, <1>5, <1>9, <1>10 DEF Represents, Chain
<1>12. /\ first' \in [Lists -> Nodes \cup {NULL}] /\ last' \in [Lists -> Nodes \cup {NULL}]
       /\ count' \in [Lists -> Int]
  <2>1. N + 1 \in Int
    BY <1>1
  <2>2. count' \in [Lists -> Int]
    BY <1>6, <2>1 DEF Inv, TypeOK
  <2> QED BY <1>6, <2>2 DEF Inv, TypeOK
<1>13. pre' \in [Nodes -> Nodes \cup {NULL}] /\ next' \in [Nodes -> Nodes \cup {NULL}]
  BY <1>6 DEF Inv, TypeOK
<1>14. ASSUME NEW x \in Nodes, x \notin Members(val[l]), x \notin Members(val'[l])
       PROVE  next'[x] = next[x] /\ pre'[x] = pre[x]
  <2>1. x # n
    BY <1>3, <1>5, <1>14
  <2>2. x # last[l]
    BY <1>14, Neighbours, NullAssumption DEF Inv
  <2> QED BY <1>9, <2>1, <2>2
<1>15. /\ \A x \in Members(val'[l]) : x \in Members(val[l]) \/ OnNoList(x)
       /\ \A x \in Members(val[l]) : x \in Members(val'[l])
  BY <1>3, <1>5 DEF insert_last, q
<1>16. \A m \in Lists : m # l =>
           first'[m] = first[m] /\ last'[m] = last[m] /\ count'[m] = count[m]
  BY <1>6 DEF Inv, TypeOK
<1>17. val' = [val EXCEPT ![l] = val'[l]] /\ val'[l] \in Seq(Nodes) /\ Injective(val'[l])
  BY <1>3, <1>5
<1>18. Disjoint' /\ Linked' /\ val' \in [Lists -> Seq(Nodes)]
  BY <1>11, <1>14, <1>15, <1>16, <1>17, OneListChanges
<1> QED BY <1>12, <1>13, <1>18 DEF Inv, TypeOK

\* list_insert_first, and what it does to the links.
LEMMA InsertFirstInv == ASSUME Inv, NEW l \in Lists, NEW n \in Nodes, insert_first(l, n)
                        PROVE  Inv'
<1> DEFINE q == val[l]
           r == list_insert_first(q, n)
           N == Len(q)
<1>1. /\ N \in Nat /\ count[l] = N /\ DOMAIN q = 1 .. N /\ q \in Seq(Nodes) /\ Injective(q)
      /\ Chain(q, N, first[l], last[l], next, pre) /\ Apart(q, N)
  BY ChainOf
<1>2. n \notin Members(q) /\ \A i \in 1 .. N : q[i] # n
  BY <1>1 DEF insert_first, OnNoList, Members
<1>3. /\ r \in Seq(Nodes) /\ Len(r) = N + 1 /\ Members(r) = Members(q) \cup {n}
      /\ Injective(r)
  <2>1. q \in Seq(Nodes) /\ n \in Nodes /\ Injective(q) /\ n \notin Members(q)
    BY <1>1, <1>2
  <2> HIDE DEF q
  <2>2. r \in Seq(Nodes) /\ Len(r) = N + 1 /\ Members(r) = Members(q) \cup {n}
    BY ONLY <2>1, InsertFirst
  <2>3. Injective(r)
    BY ONLY <2>1, InsertFirst
  <2> QED BY <2>2, <2>3
<1>4. r[1] = n /\ \A i \in 1 .. N : r[i + 1] = q[i]
  <2>1. q \in Seq(Nodes) /\ n \in Nodes
    BY <1>1
  <2> HIDE DEF q
  <2> QED BY ONLY <2>1, InsertFirst
<1>5. val' = [val EXCEPT ![l] = r] /\ val'[l] = r
  BY DEF insert_first, Inv, TypeOK
<1> HIDE DEF r
<1>6. /\ count' = [count EXCEPT ![l] = N + 1] /\ first' = [first EXCEPT ![l] = n]
      /\ next' = [next EXCEPT ![n] = first[l]]
      /\ N = 0 => /\ last' = [last EXCEPT ![l] = n]
                  /\ pre' = [pre EXCEPT ![n] = NULL]
      /\ N # 0 => /\ last' = last
                  /\ pre' = [pre EXCEPT ![n] = NULL, ![first[l]] = n]
  BY <1>1 DEF insert_first, list_is_empty
<1>7. N = 0 => first[l] = NULL
  BY <1>1 DEF Chain
<1>8. N # 0 => first[l] # n /\ first[l] \in Nodes
  BY <1>1, <1>2 DEF Chain, Apart
<1>9. /\ last'[l] = (IF N = 0 THEN n ELSE last[l]) /\ first'[l] = n /\ count'[l] = N + 1
      /\ next'[n] = first[l] /\ pre'[n] = NULL
      /\ \A x \in Nodes : x # n =>
            next'[x] = next[x] /\ pre'[x] = (IF x = first[l] THEN n ELSE pre[x])
  BY <1>6, <1>7, <1>8, NullAssumption DEF Inv, TypeOK
<1> HIDE DEF q, N
<1>10. Chain(r, N + 1, first'[l], last'[l], next', pre')
  <2>1. Prepended(n, q, N, first[l], last[l], next, pre, r, first'[l], last'[l], next', pre')
    BY <1>2, <1>4, <1>9 DEF Prepended
  <2> QED BY ONLY <1>1, n \in Nodes, <2>1, ChainPrepend
<1>11. Represents(l, val[l])'
  BY <1>3, <1>5, <1>9, <1>10 DEF Represents, Chain
<1>12. /\ first' \in [Lists -> Nodes \cup {NULL}] /\ last' \in [Lists -> Nodes \cup {NULL}]
       /\ count' \in [Lists -> Int]
  <2>1. N + 1 \in Int
    BY <1>1
  <2>2. count' \in [Lists -> Int]
    BY <1>6, <2>1 DEF Inv, TypeOK
  <2>3. first' \in [Lists -> Nodes \cup {NULL}]
    BY <1>6 DEF Inv, TypeOK
  <2>4. last' = last \/ last' = [last EXCEPT ![l] = n]
    BY <1>6
  <2>5. last' \in [Lists -> Nodes \cup {NULL}]
    BY <2>4 DEF Inv, TypeOK
  <2> QED BY <2>2, <2>3, <2>5
<1>13. pre' \in [Nodes -> Nodes \cup {NULL}] /\ next' \in [Nodes -> Nodes \cup {NULL}]
  <2>1. first[l] \in Nodes \cup {NULL}
    BY DEF Inv, TypeOK
  <2>2. next' \in [Nodes -> Nodes \cup {NULL}]
    BY <1>6, <2>1 DEF Inv, TypeOK
  <2>3. pre' = [pre EXCEPT ![n] = NULL] \/ pre' = [pre EXCEPT ![n] = NULL, ![first[l]] = n]
    BY <1>6
  <2>4. pre' \in [Nodes -> Nodes \cup {NULL}]
    BY <2>3 DEF Inv, TypeOK
  <2> QED BY <2>2, <2>4
<1>14. ASSUME NEW x \in Nodes, x \notin Members(val[l]), x \notin Members(val'[l])
       PROVE  next'[x] = next[x] /\ pre'[x] = pre[x]
  <2>1. x # n
    BY <1>3, <1>5, <1>14
  <2>2. x # first[l]
    BY <1>14, Neighbours, NullAssumption DEF Inv
  <2> QED BY <1>9, <2>1, <2>2
<1>15. /\ \A x \in Members(val'[l]) : x \in Members(val[l]) \/ OnNoList(x)
       /\ \A x \in Members(val[l]) : x \in Members(val'[l])
  BY <1>3, <1>5 DEF insert_first, q
<1>16. \A m \in Lists : m # l =>
           first'[m] = first[m] /\ last'[m] = last[m] /\ count'[m] = count[m]
  BY <1>6 DEF Inv, TypeOK
<1>17. val' = [val EXCEPT ![l] = val'[l]] /\ val'[l] \in Seq(Nodes) /\ Injective(val'[l])
  BY <1>3, <1>5
<1>18. Disjoint' /\ Linked' /\ val' \in [Lists -> Seq(Nodes)]
  BY <1>11, <1>14, <1>15, <1>16, <1>17, OneListChanges
<1> QED BY <1>12, <1>13, <1>18 DEF Inv, TypeOK

\* list_delete of a member: the links go round it, wherever in the list it is.
LEMMA DeleteInv == ASSUME Inv, NEW l \in Lists, NEW n \in Nodes, delete(l, n)
                   PROVE  Inv'
<1> DEFINE q == val[l]
           r == list_delete(q, n)
           N == Len(q)
<1>1. /\ N \in Nat /\ count[l] = N /\ DOMAIN q = 1 .. N /\ q \in Seq(Nodes) /\ Injective(q)
      /\ Chain(q, N, first[l], last[l], next, pre) /\ Apart(q, N)
  BY ChainOf
<1>2. n \in Members(q) /\ n # NULL
  BY NullAssumption DEF delete
<1>3. r \in Seq(Nodes) /\ Len(r) = N - 1 /\ Members(r) = Members(q) \ {n} /\ Injective(r)
  BY <1>1, <1>2, Delete
<1>4. PICK k \in 1 .. N : /\ q[k] = n
                          /\ \A i \in 1 .. N - 1 : r[i] = IF i < k THEN q[i] ELSE q[i + 1]
  <2> DEFINE k == CHOOSE i \in DOMAIN q : q[i] = n
  <2>1. k \in 1 .. N /\ q[k] = n
    <3>1. \E i \in DOMAIN q : q[i] = n
      BY <1>2 DEF Members
    <3> QED BY <1>1, <3>1
  <2>2. r = [i \in 1 .. N - 1 |-> IF i < k THEN q[i] ELSE q[i + 1]]
    BY DEF list_delete
  <2> HIDE DEF k, r, q
  <2> QED BY <2>1, <2>2
<1>5. val' = [val EXCEPT ![l] = r] /\ val'[l] = r
  BY DEF delete, Inv, TypeOK
<1> HIDE DEF r
<1>6. /\ count' = [count EXCEPT ![l] = N - 1]
      /\ first' = IF n = first[l] THEN [first EXCEPT ![l] = next[n]] ELSE first
      /\ last' = IF n = last[l] THEN [last EXCEPT ![l] = pre[n]] ELSE last
      /\ next' = [Set(next, pre[n], next[n]) EXCEPT ![n] = NULL]
      /\ pre' = [Set(pre, next[n], pre[n]) EXCEPT ![n] = NULL]
  BY <1>1 DEF delete
<1>7. next[n] \in Nodes \cup {NULL} /\ pre[n] \in Nodes \cup {NULL}
  BY DEF Inv, TypeOK
<1>8. /\ Set(next, pre[n], next[n]) \in [Nodes -> Nodes \cup {NULL}]
      /\ Set(pre, next[n], pre[n]) \in [Nodes -> Nodes \cup {NULL}]
      /\ \A x \in Nodes :
            /\ Set(next, pre[n], next[n])[x] = IF x = pre[n] THEN next[n] ELSE next[x]
            /\ Set(pre, next[n], pre[n])[x] = IF x = next[n] THEN pre[n] ELSE pre[x]
  BY <1>7, NullAssumption DEF Inv, TypeOK, Set
<1>9. /\ next' \in [Nodes -> Nodes \cup {NULL}] /\ pre' \in [Nodes -> Nodes \cup {NULL}]
      /\ next'[n] = NULL /\ pre'[n] = NULL
      /\ \A x \in Nodes : x # n =>
            /\ next'[x] = (IF x = pre[n] THEN next[n] ELSE next[x])
            /\ pre'[x] = (IF x = next[n] THEN pre[n] ELSE pre[x])
  BY <1>6, <1>8
<1>10. /\ first'[l] = (IF n = first[l] THEN next[n] ELSE first[l])
       /\ last'[l] = (IF n = last[l] THEN pre[n] ELSE last[l])
       /\ count'[l] = N - 1
  BY <1>6 DEF Inv, TypeOK
<1> HIDE DEF q, N
<1>11. Chain(r, N - 1, first'[l], last'[l], next', pre')
  <2>1. Removed(k, n, q, N, first[l], last[l], next, pre, r, first'[l], last'[l], next', pre')
    BY <1>4, <1>9, <1>10 DEF Removed
  <2> QED BY ONLY <1>1, k \in 1 .. N, <2>1, ChainCut
<1>12. Represents(l, val[l])'
  <2>1. count'[l] = Len(r) /\ Chain(r, Len(r), first'[l], last'[l], next', pre')
    BY <1>3, <1>10, <1>11
  <2> QED BY <1>5, <2>1 DEF Represents, Chain
<1>13. /\ first' \in [Lists -> Nodes \cup {NULL}] /\ last' \in [Lists -> Nodes \cup {NULL}]
       /\ count' \in [Lists -> Int]
  BY <1>1, <1>6, <1>7 DEF Inv, TypeOK
<1>14. ASSUME NEW x \in Nodes, x \notin Members(val[l]), x \notin Members(val'[l])
       PROVE  next'[x] = next[x] /\ pre'[x] = pre[x]
  <2>1. x # n /\ n \in Members(val[l])
    BY <1>2, <1>14 DEF q
  <2>2. x # pre[n] /\ x # next[n]
    BY <1>14, <2>1, Neighbours, NullAssumption DEF Inv
  <2> QED BY <1>9, <2>1, <2>2
<1>15. /\ \A x \in Members(val'[l]) : x \in Members(val[l]) \/ OnNoList(x)
       /\ \A x \in Members(val[l]) : x \notin Members(val'[l]) =>
             next'[x] = NULL /\ pre'[x] = NULL
  BY <1>3, <1>5, <1>9 DEF q
<1>16. \A m \in Lists : m # l =>
           first'[m] = first[m] /\ last'[m] = last[m] /\ count'[m] = count[m]
  BY <1>6 DEF Inv, TypeOK
<1>17. val' = [val EXCEPT ![l] = val'[l]] /\ val'[l] \in Seq(Nodes) /\ Injective(val'[l])
  BY <1>3, <1>5
<1>18. Disjoint' /\ Linked' /\ val' \in [Lists -> Seq(Nodes)]
  BY <1>12, <1>14, <1>15, <1>16, <1>17, OneListChanges
<1> QED BY <1>9, <1>13, <1>18 DEF Inv, TypeOK

\* The first node has no predecessor, and no successor if it is the last one.
LEMMA ChainHead ==
    ASSUME NEW N \in Nat, N # 0, NEW q, NEW f, NEW e, NEW nx, NEW pr,
           Chain(q, N, f, e, nx, pr), Apart(q, N)
    PROVE  /\ f = q[1] /\ pr[q[1]] = NULL
           /\ q[1] = e <=> nx[q[1]] = NULL
<1>1. 1 \in 1 .. N /\ N \in 1 .. N /\ (N # 1 => 2 \in 1 .. N)
  OBVIOUS
<1>2. /\ f = q[1] /\ e = q[N] /\ pr[q[1]] = NULL
      /\ nx[q[1]] = IF N = 1 THEN NULL ELSE q[2]
  BY <1>1 DEF Chain
<1>3. N # 1 => q[2] # NULL /\ q[1] # q[N]
  BY <1>1, NullAssumption DEF Apart
<1> QED BY <1>2, <1>3

\* list_delete_first is list_delete of the first node.
LEMMA FirstIsDelete ==
    ASSUME Inv, NEW l \in Lists, delete_first(l)
    PROVE  first[l] \in Nodes /\ delete(l, first[l])
<1> DEFINE q == val[l]
           N == Len(q)
<1>1. /\ N \in Nat /\ count[l] = N /\ DOMAIN q = 1 .. N /\ q \in Seq(Nodes) /\ Injective(q)
      /\ Chain(q, N, first[l], last[l], next, pre) /\ Apart(q, N)
  BY ChainOf
<1>2. N # 0
  BY <1>1 DEF delete_first, list_is_empty
<1>3. PICK n \in Nodes : n = q[1]
  BY <1>1, <1>2 DEF Apart
<1>4. /\ first[l] = n /\ pre[n] = NULL
      /\ n = last[l] <=> next[n] = NULL
  BY ONLY <1>1, <1>2, <1>3, n \in Nodes, ChainHead
<1>6. n \in Members(val[l])
  BY <1>1, <1>2, <1>3 DEF Members
<1>7. list_delete(q, n) = Tail(q)
  <2> DEFINE k == CHOOSE i \in DOMAIN q : q[i] = n
  <2>1. k = 1
    <3>1. 1 \in DOMAIN q /\ \E i \in DOMAIN q : q[i] = n
      BY <1>1, <1>2, <1>3
    <3>2. k \in DOMAIN q /\ q[k] = n
      BY <3>1
    <3> QED BY <1>1, <1>3, <3>1, <3>2 DEF Injective
  <2>2. list_delete(q, n) = [i \in 1 .. N - 1 |-> IF i < k THEN q[i] ELSE q[i + 1]]
    BY DEF list_delete
  <2> HIDE DEF k
  <2>3. list_delete(q, n) = [i \in 1 .. N - 1 |-> q[i + 1]]
    BY <1>1, <2>1, <2>2
  <2>4. Tail(q) = [i \in 1 .. N - 1 |-> q[i + 1]]
    BY <1>1, <1>2
  <2> QED BY <2>3, <2>4
<1>8. /\ first' = [first EXCEPT ![l] = next[n]]
      /\ next' = [next EXCEPT ![n] = NULL]
      /\ next[n] = NULL => /\ last' = [last EXCEPT ![l] = NULL]
                           /\ pre' = [pre EXCEPT ![n] = NULL]
      /\ next[n] # NULL => /\ pre' = [pre EXCEPT ![next[n]] = NULL, ![n] = NULL]
                           /\ last' = last
      /\ count' = [count EXCEPT ![l] = @ - 1]
      /\ val' = [val EXCEPT ![l] = Tail(@)]
  BY <1>4 DEF delete_first, list_delete_first
<1>9. /\ last' = IF n = last[l] THEN [last EXCEPT ![l] = pre[n]] ELSE last
      /\ next' = [Set(next, pre[n], next[n]) EXCEPT ![n] = NULL]
      /\ pre' = [Set(pre, next[n], pre[n]) EXCEPT ![n] = NULL]
  BY <1>4, <1>8 DEF Set
<1>10. val' = [val EXCEPT ![l] = list_delete(@, n)]
  BY <1>7, <1>8
<1> QED BY <1>4, <1>6, <1>8, <1>9, <1>10 DEF delete

\* Every call of list.c keeps the invariant.
LEMMA StepLinked == Inv /\ [Next]_vars => Inv'
<1> SUFFICES ASSUME Inv, [Next]_vars PROVE Inv'
  OBVIOUS
<1>1. CASE UNCHANGED vars
  BY <1>1 DEF vars, Inv, TypeOK, Disjoint, Linked, Represents, OnNoList
<1>2. ASSUME NEW l \in Lists, delete_first(l) PROVE Inv'
  BY <1>2, FirstIsDelete, DeleteInv
<1> QED BY <1>1, <1>2, InsertFirstInv, InsertLastInv, DeleteInv DEF Next

\* The pointers of list.c always form the lists that Sched and Sync are written
\* with, for every number of nodes and of lists that share them.
THEOREM ListsLinked == Spec => []Linked
<1>1. Inv => Linked
  BY DEF Inv
<1> QED BY <1>1, InitLinked, StepLinked, PTL DEF Spec

=============================================================================
