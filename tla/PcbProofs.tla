------------------------------ MODULE PcbProofs -----------------------------
(***************************************************************************)
(* Lemmas about the walks and the queues of Pcb, for any finite set of     *)
(* PCBs.                                                                   *)
(***************************************************************************)
EXTENDS Pcb, Sequences, SequenceTheorems, FiniteSetTheorems, TLAPS

\* A set of numbers that is not empty has a smallest one.
LEMMA Smallest ==
  ASSUME NEW T, T \subseteq Nat, T # {}
  PROVE  \E m \in T : \A n \in T : m <= n
<1> DEFINE R == {ss \in Nat \X Nat : ss[1] < ss[2]}
<1>1. IsWellFoundedOn(R, Nat)
  BY NatLessThanWellFounded DEF OpToRel
<1>2. PICK m \in T : \A n \in T : ~(<<n, m>> \in R)
  BY <1>1, WFMin
<1>3. ASSUME NEW n \in T PROVE m <= n
  <2>1. n \in Nat /\ m \in Nat
    OBVIOUS
  <2>2. n < m => <<n, m>> \in R
    BY <2>1
  <2> QED  BY <2>1, <2>2, <1>2
<1> QED  BY <1>3

\* Counting up, as a statement about a set.
LEMMA CountUp ==
  ASSUME NEW n \in Nat, NEW S, 0 \in S,
         \A i \in 0 .. n - 1 : i \in S => i + 1 \in S
  PROVE  \A i \in 0 .. n : i \in S
<1> SUFFICES ASSUME NEW i \in 0 .. n, i \notin S PROVE FALSE
  OBVIOUS
<1> DEFINE T == {j \in 0 .. n : j \notin S}
<1>1. PICK m \in T : \A j \in T : m <= j
  <2>1. T \subseteq Nat /\ T # {}
    OBVIOUS
  <2> QED  BY <2>1, Smallest
<1>2. m # 0 /\ m - 1 \in 0 .. n - 1 /\ m - 1 \notin T
  BY <1>1
<1> QED  BY <1>1, <1>2
-----------------------------------------------------------------------------
(***************************************************************************)
(* Walks.                                                                  *)
(***************************************************************************)
N == Cardinality(Pcbs)

\* One step of a walk.
Follow(q, p) == IF p = NULL THEN NULL ELSE q.next[p]

IsWalk(q, h, n, w) == w[0] = h /\ \A i \in 1 .. n : w[i] = Follow(q, w[i - 1])

\* The number of PCBs is a number.
LEMMA NType == N \in Nat
  BY PcbAssumption, FS_CardinalityType DEF N

\* For every number of steps there is a walk, and it stays in a set that the
\* links do not lead out of.
LEMMA WalkExists ==
  ASSUME NEW n \in Nat, NEW q, NEW S, NEW h \in S,
         \A p \in S : Follow(q, p) \in S
  PROVE  \E w \in [0 .. n -> S] : IsWalk(q, h, n, w)
<1> DEFINE Good(k, w) == IsWalk(q, h, k, w)
           K == {k \in 0 .. n : \E w \in [0 .. k -> S] : Good(k, w)}
<1>1. 0 \in K
  <2>1. [i \in 0 .. 0 |-> h] \in [0 .. 0 -> S] /\ Good(0, [i \in 0 .. 0 |-> h])
    BY DEF IsWalk
  <2>2. 0 \in 0 .. n
    OBVIOUS
  <2> QED  BY <2>1, <2>2
<1>2. ASSUME NEW k \in 0 .. n - 1, k \in K PROVE k + 1 \in K
  <2>1. PICK w \in [0 .. k -> S] : Good(k, w)
    BY <1>2
  <2> DEFINE v == [i \in 0 .. k + 1 |-> IF i <= k THEN w[i] ELSE Follow(q, w[k])]
  <2>2. v \in [0 .. k + 1 -> S]
    <3>1. w[k] \in S
      OBVIOUS
    <3>2. \A i \in 0 .. k + 1 : (IF i <= k THEN w[i] ELSE Follow(q, w[k])) \in S
      BY <3>1
    <3> QED  BY <3>2
  <2>3. Good(k + 1, v)
    <3>1. v[0] = h
      BY <2>1 DEF IsWalk
    <3>2. ASSUME NEW i \in 1 .. k + 1 PROVE v[i] = Follow(q, v[i - 1])
      <4>1. CASE i <= k
        BY <4>1, <2>1 DEF IsWalk
      <4>2. CASE i = k + 1
        BY <4>2
      <4> QED  BY <4>1, <4>2
    <3> QED  BY <3>1, <3>2 DEF IsWalk
  <2>4. k + 1 \in 0 .. n
    OBVIOUS
  <2> HIDE DEF v, Good
  <2> QED  BY <2>2, <2>3, <2>4
<1>3. n \in 0 .. n
  OBVIOUS
<1> HIDE DEF K
<1>4. n \in K
  BY <1>1, <1>2, <1>3, CountUp
<1> QED  BY <1>4 DEF K

\* What Walk returns: the recursive function is well defined.
LEMMA WalkDef ==
  ASSUME NEW q, NEW S, NEW h \in S, \A p \in S : Follow(q, p) \in S
  PROVE  /\ Walk(q, h) \in [0 .. N -> S]
         /\ Walk(q, h)[0] = h
         /\ \A i \in 1 .. N : Walk(q, h)[i] = Follow(q, Walk(q, h)[i - 1])
<1> DEFINE Body(w) == [i \in 0 .. N |->
              IF i = 0 THEN h
              ELSE LET p == w[i - 1] IN IF p = NULL THEN NULL ELSE q.next[p]]
<1>0. N \in Nat
  BY NType
<1>1. PICK w \in [0 .. N -> S] : IsWalk(q, h, N, w)
  BY <1>0, WalkExists
<1>2. w = Body(w)
  BY <1>0, <1>1 DEF Follow, IsWalk
<1>3. Walk(q, h) = CHOOSE u : u = Body(u)
  BY DEF Walk, N
<1> DEFINE u == Walk(q, h)
<1>4. u = Body(u)
  <2> HIDE DEF Body
  <2> QED  BY <1>2, <1>3
<1> HIDE DEF u
<1>5. u[0] = h /\ \A i \in 1 .. N : u[i] = Follow(q, u[i - 1])
  <2>1. ASSUME NEW i \in 0 .. N PROVE u[i] = Body(u)[i]
    BY <1>4
  <2>2. u[0] = h
    BY <1>0, <2>1
  <2>3. ASSUME NEW i \in 1 .. N PROVE u[i] = Follow(q, u[i - 1])
    <3>1. i \in 0 .. N /\ i # 0
      OBVIOUS
    <3> QED  BY <2>1, <3>1 DEF Follow
  <2> QED  BY <2>2, <2>3
<1>6. \A i \in 0 .. N : u[i] \in S
  <2> DEFINE I == {i \in 0 .. N : u[i] \in S}
  <2>1. 0 \in I
    BY <1>0, <1>5
  <2>2. ASSUME NEW i \in 0 .. N - 1, i \in I PROVE i + 1 \in I
    <3>1. i + 1 \in 1 .. N /\ (i + 1) - 1 = i
      BY <1>0
    <3> QED  BY <1>5, <2>2, <3>1
  <2> HIDE DEF I
  <2>3. \A i \in 0 .. N : i \in I
    BY <1>0, <2>1, <2>2, CountUp
  <2> QED  BY <2>3 DEF I
<1>7. u \in [0 .. N -> S]
  <2>1. u = [i \in 0 .. N |-> u[i]]
    BY <1>4
  <2> QED  BY <2>1, <1>6
<1> QED  BY <1>5, <1>7 DEF u
-----------------------------------------------------------------------------
(***************************************************************************)
(* Lists.  List(q, h, s): following the links from h one meets the PCBs of *)
(* the sequence s, each once, and then the end.                            *)
(***************************************************************************)
At(s, i) == IF i \in 1 .. Len(s) THEN s[i] ELSE NULL

List(q, h, s) ==
  /\ s \in Seq(Pcbs)
  /\ \A i, j \in 1 .. Len(s) : s[i] = s[j] => i = j
  /\ h = At(s, 1)
  /\ \A i \in 1 .. Len(s) : q.next[s[i]] = At(s, i + 1)

Elems(s) == {s[i] : i \in 1 .. Len(s)}

\* The sequence with p behind its first i elements, and the sequence without its
\* i-th element.
Put(s, i, p) ==
  [j \in 1 .. Len(s) + 1 |-> IF j <= i THEN s[j] ELSE IF j = i + 1 THEN p ELSE s[j - 1]]

Drop(s, i) == [j \in 1 .. Len(s) - 1 |-> IF j < i THEN s[j] ELSE s[j + 1]]

\* A store that the queue operations work on.
Links(q) == q.next \in [Pcbs -> PcbOrNull]

\* Functions on an initial part of the numbers are sequences.
LEMMA FcnIsSeq ==
  ASSUME NEW n \in Nat, NEW S, NEW f \in [1 .. n -> S]
  PROVE  f \in Seq(S) /\ Len(f) = n
<1>1. f \in Seq(S)
  BY SeqDef
<1> QED  BY <1>1

\* Put gives a sequence that is one longer and has the new element.
LEMMA PutSeq ==
  ASSUME NEW s \in Seq(Pcbs), NEW p \in Pcbs, NEW i \in 0 .. Len(s)
  PROVE  /\ Put(s, i, p) \in Seq(Pcbs)
         /\ Len(Put(s, i, p)) = Len(s) + 1
         /\ Elems(Put(s, i, p)) = Elems(s) \cup {p}
<1>1. Len(s) \in Nat /\ Len(s) + 1 \in Nat /\ \A j \in 1 .. Len(s) : s[j] \in Pcbs
  OBVIOUS
<1>2. Put(s, i, p) \in [1 .. Len(s) + 1 -> Pcbs]
  BY <1>1 DEF Put
<1>3. Put(s, i, p) \in Seq(Pcbs) /\ Len(Put(s, i, p)) = Len(s) + 1
  BY <1>1, <1>2, FcnIsSeq
<1>4. Elems(Put(s, i, p)) \subseteq Elems(s) \cup {p}
  BY <1>1, <1>3 DEF Elems, Put
<1>5. ASSUME NEW j \in 1 .. Len(s) PROVE s[j] \in Elems(Put(s, i, p))
  <2>1. CASE j <= i
    <3>1. j \in 1 .. Len(s) + 1 /\ Put(s, i, p)[j] = s[j]
      BY <2>1, <1>1 DEF Put
    <3> QED  BY <3>1, <1>3 DEF Elems
  <2>2. CASE j > i
    <3>1. j + 1 \in 1 .. Len(s) + 1 /\ Put(s, i, p)[j + 1] = s[j]
      BY <2>2, <1>1 DEF Put
    <3> QED  BY <3>1, <1>3 DEF Elems
  <2> QED  BY <2>1, <2>2
<1>6. p \in Elems(Put(s, i, p))
  <2>1. i + 1 \in 1 .. Len(s) + 1 /\ Put(s, i, p)[i + 1] = p
    BY <1>1 DEF Put
  <2> QED  BY <2>1, <1>3 DEF Elems
<1>7. Elems(s) \subseteq Elems(Put(s, i, p))
  BY <1>5 DEF Elems
<1> QED  BY <1>3, <1>4, <1>6, <1>7

\* Drop gives a sequence that is one shorter and lacks the element.
LEMMA DropSeq ==
  ASSUME NEW s \in Seq(Pcbs), NEW i \in 1 .. Len(s),
         \A a, b \in 1 .. Len(s) : s[a] = s[b] => a = b
  PROVE  /\ Drop(s, i) \in Seq(Pcbs)
         /\ Len(Drop(s, i)) = Len(s) - 1
         /\ Elems(Drop(s, i)) = Elems(s) \ {s[i]}
<1>1. Len(s) \in Nat /\ Len(s) - 1 \in Nat /\ \A j \in 1 .. Len(s) : s[j] \in Pcbs
  OBVIOUS
<1>2. Drop(s, i) \in [1 .. Len(s) - 1 -> Pcbs]
  BY <1>1 DEF Drop
<1>3. Drop(s, i) \in Seq(Pcbs) /\ Len(Drop(s, i)) = Len(s) - 1
  BY <1>1, <1>2, FcnIsSeq
<1>4. Elems(Drop(s, i)) \subseteq Elems(s) \ {s[i]}
  <2> SUFFICES ASSUME NEW j \in 1 .. Len(s) - 1 PROVE Drop(s, i)[j] \in Elems(s) \ {s[i]}
    BY <1>3 DEF Elems
  <2>1. CASE j < i
    BY <2>1, <1>1 DEF Drop, Elems
  <2>2. CASE j >= i
    <3>1. j + 1 \in 1 .. Len(s) /\ j + 1 # i /\ Drop(s, i)[j] = s[j + 1]
      BY <2>2, <1>1 DEF Drop
    <3> QED  BY <3>1 DEF Elems
  <2> QED  BY <2>1, <2>2
<1>5. ASSUME NEW j \in 1 .. Len(s), j # i PROVE s[j] \in Elems(Drop(s, i))
  <2>1. CASE j < i
    <3>1. j \in 1 .. Len(s) - 1 /\ Drop(s, i)[j] = s[j]
      BY <2>1, <1>1 DEF Drop
    <3> QED  BY <3>1, <1>3 DEF Elems
  <2>2. CASE j > i
    <3>1. j - 1 \in 1 .. Len(s) - 1 /\ Drop(s, i)[j - 1] = s[j]
      BY <2>2, <1>1 DEF Drop
    <3> QED  BY <3>1, <1>3 DEF Elems
  <2> QED  BY <1>5, <2>1, <2>2
<1>6. Elems(s) \ {s[i]} \subseteq Elems(Drop(s, i))
  BY <1>5 DEF Elems
<1> QED  BY <1>3, <1>4, <1>6

\* A walk along a list meets its elements in order and then stays at the end.
LEMMA ListWalk ==
  ASSUME NEW q, NEW h, NEW s, Links(q), List(q, h, s)
  PROVE  /\ Walk(q, h) \in [0 .. N -> PcbOrNull]
         /\ \A i \in 0 .. N : Walk(q, h)[i] = At(s, i + 1)
<1> DEFINE w == Walk(q, h)
<1>0. N \in Nat /\ Len(s) \in Nat /\ \A j \in 1 .. Len(s) : s[j] \in Pcbs
  BY NType DEF List
<1>1. h \in PcbOrNull
  BY <1>0 DEF List, At, PcbOrNull
<1>2. \A p \in PcbOrNull : Follow(q, p) \in PcbOrNull
  BY DEF Follow, Links, PcbOrNull
<1>3. /\ w \in [0 .. N -> PcbOrNull] /\ w[0] = h
      /\ \A i \in 1 .. N : w[i] = Follow(q, w[i - 1])
  BY <1>1, <1>2, WalkDef
<1> HIDE DEF w
<1> DEFINE I == {i \in 0 .. N : w[i] = At(s, i + 1)}
<1>4. 0 \in I
  BY <1>0, <1>3 DEF List
<1>5. ASSUME NEW i \in 0 .. N - 1, i \in I PROVE i + 1 \in I
  <2>1. i + 1 \in 1 .. N /\ i + 1 \in 0 .. N /\ (i + 1) - 1 = i
    BY <1>0
  <2>2. w[i + 1] = Follow(q, w[i]) /\ w[i] = At(s, i + 1)
    BY <1>3, <1>5, <2>1
  <2>3. Follow(q, At(s, i + 1)) = At(s, i + 2)
    <3>1. CASE i + 1 \in 1 .. Len(s)
      <4>1. At(s, i + 1) = s[i + 1] /\ s[i + 1] # NULL
        BY <3>1, <1>0, PcbAssumption DEF At
      <4>2. q.next[s[i + 1]] = At(s, i + 2)
        BY <3>1, <1>0 DEF List
      <4> QED  BY <4>1, <4>2 DEF Follow
    <3>2. CASE i + 1 \notin 1 .. Len(s)
      <4>1. i + 2 \notin 1 .. Len(s)
        BY <3>2, <1>0
      <4> QED  BY <3>2, <4>1 DEF Follow, At
    <3> QED  BY <3>1, <3>2
  <2> QED  BY <2>1, <2>2, <2>3
<1> HIDE DEF I
<1>6. \A i \in 0 .. N : i \in I
  BY <1>0, <1>4, <1>5, CountUp
<1> QED  BY <1>3, <1>6 DEF I, w

\* A list is no longer than there are PCBs, so that the walk shows its end.
LEMMA ListShort ==
  ASSUME NEW q, NEW h, NEW s, List(q, h, s)
  PROVE  Len(s) \in 0 .. N
<1>1. s \in Seq(Pcbs) /\ Len(s) \in Nat /\ N \in Nat
  BY NType DEF List
<1>2. s \in Injection(1 .. Len(s), Pcbs)
  BY <1>1 DEF List, Injection, IsInjective
<1>3. Cardinality(1 .. Len(s)) <= N
  BY <1>2, PcbAssumption, FS_Injection DEF N
<1>4. Cardinality(1 .. Len(s)) = Len(s)
  <2>1. 1 \in Int /\ Len(s) \in Int
    BY <1>1
  <2>2. Cardinality(1 .. Len(s)) = IF 1 > Len(s) THEN 0 ELSE Len(s) - 1 + 1
    BY <2>1, FS_Interval
  <2> QED  BY <2>2, <1>1
<1> QED  BY <1>1, <1>3, <1>4
-----------------------------------------------------------------------------
(***************************************************************************)
(* What the queue operations do to a list.                                 *)
(***************************************************************************)
Queues == {"ready", "blocked", "suspended"}

\* The store with p linked in behind the first i elements of the list s, and
\* the store with its i-th element linked out.
LinkIn(q, p, k, s, i) ==
  IF i = 0 THEN [q EXCEPT !.next[p] = q.head[k], !.head[k] = p]
           ELSE LinkAfter(q, s[i], p)

LinkOut(q, k, s, i) ==
  IF i = 1 THEN [q EXCEPT !.head[k] = q.next[s[1]]]
           ELSE [q EXCEPT !.next[s[i - 1]] = q.next[s[i]]]

\* Min picks the smallest element.
LEMMA MinIs ==
  ASSUME NEW T, T \subseteq Int, NEW m \in T, \A n \in T : m <= n
  PROVE  Min(T) = m
<1> DEFINE c == CHOOSE x \in T : \A y \in T : x =< y
<1>1. c \in T /\ \A y \in T : c =< y
  OBVIOUS
<1> HIDE DEF c
<1>2. c <= m /\ m <= c /\ c \in Int /\ m \in Int
  BY <1>1
<1>3. c = m
  BY <1>2
<1> QED  BY <1>3 DEF Min, c

\* The fields of a store.
LEMMA StoreFields ==
  ASSUME NEW q \in Store
  PROVE  /\ q.head \in [Queues -> PcbOrNull] /\ q.next \in [Pcbs -> PcbOrNull]
         /\ q.state \in [Pcbs -> -1 .. 3] /\ q.priority \in [Pcbs -> -1 .. 9]
         /\ q.name \in [Pcbs -> Names \cup {NULL}] /\ q.hung \in BOOLEAN
         /\ Links(q)
  BY DEF Store, Queues, Links

\* pcb_insert into a list puts p behind the first elements that are as good as
\* p, up to one that is worse.
LEMMA InsertInList ==
  ASSUME NEW q \in Store, NEW p \in Pcbs, NEW k \in Queues, NEW s,
         ~q.hung, QueueOf(q.state[p]) = k, List(q, q.head[k], s)
  PROVE  \E i \in 0 .. Len(s) :
           /\ pcb_insert(q, p) = LinkIn(q, p, k, s, i)
           /\ \A j \in 1 .. i : q.priority[s[j]] <= q.priority[p]
           /\ i < Len(s) => q.priority[p] < q.priority[s[i + 1]]
<1> DEFINE w == Walk(q, q.head[k])
           Last(i) == /\ w[i] # NULL
                      /\ \/ q.next[w[i]] = NULL
                         \/ q.priority[p] < q.priority[q.next[w[i]]]
           hits == {i \in DOMAIN w : Last(i)}
<1>0. /\ s \in Seq(Pcbs) /\ Len(s) \in Nat /\ Len(s) \in 0 .. N /\ N \in Nat
      /\ \A j \in 1 .. Len(s) : s[j] \in Pcbs /\ s[j] # NULL
  <2>1. Len(s) \in 0 .. N
    BY ListShort
  <2> QED  BY <2>1, NType, PcbAssumption DEF List
<1>1. q.head[k] = At(s, 1) /\ k # "none"
  BY DEF List, Queues
<1>2. \A a \in Pcbs : q.priority[a] \in Int
  BY StoreFields
<1>3. CASE q.head[k] = NULL \/ q.priority[p] < q.priority[q.head[k]]
  <2>1. pcb_insert(q, p) = LinkIn(q, p, k, s, 0)
    BY <1>1, <1>3 DEF pcb_insert, LinkIn
  <2>2. 0 < Len(s) => q.priority[p] < q.priority[s[0 + 1]]
    BY <1>0, <1>1, <1>3 DEF At
  <2>3. 0 \in 0 .. Len(s) /\ \A j \in 1 .. 0 : q.priority[s[j]] <= q.priority[p]
    BY <1>0
  <2> QED  BY <2>1, <2>2, <2>3
<1>4. CASE ~(q.head[k] = NULL \/ q.priority[p] < q.priority[q.head[k]])
  <2>1. Len(s) >= 1 /\ q.head[k] = s[1] /\ q.priority[s[1]] <= q.priority[p]
    BY <1>0, <1>1, <1>2, <1>4 DEF At
  <2>2. pcb_insert(q, p) = InsertBehind(q, p, k)
    BY <1>1, <1>4 DEF pcb_insert
  <2>3. DOMAIN w = 0 .. N /\ \A i \in 0 .. N : w[i] = At(s, i + 1)
    BY ListWalk, StoreFields
  <2>4. InsertBehind(q, p, k) =
          IF hits = {} THEN [q EXCEPT !.hung = TRUE] ELSE LinkAfter(q, w[Min(hits)], p)
    <3>1. \A y : (CHOOSE i \in {y} : TRUE) = y
      OBVIOUS
    <3>2. \A y : {y} # {}
      OBVIOUS
    <3> DEFINE at == StopsAt(w, Last)
    <3>3. at = IF hits = {} THEN {} ELSE {Min(hits)}
      BY DEF StopsAt
    <3>4. InsertBehind(q, p, k) = IF at = {} THEN [q EXCEPT !.hung = TRUE]
                                  ELSE LinkAfter(q, w[CHOOSE i \in at : TRUE], p)
      BY DEF InsertBehind
    <3> HIDE DEF at, w, hits
    <3>5. CASE hits = {}
      BY <3>3, <3>4, <3>5
    <3>6. CASE hits # {}
      <4>1. at = {Min(hits)} /\ at # {}
        BY <3>2, <3>3, <3>6
      <4>2. (CHOOSE i \in at : TRUE) = Min(hits)
        BY <3>1, <4>1
      <4> QED  BY <3>4, <3>6, <4>1, <4>2
    <3> QED  BY <3>5, <3>6
  <2>5. ASSUME NEW i \in 0 .. N
        PROVE  Last(i) <=> /\ i < Len(s)
                           /\ i + 2 <= Len(s) => q.priority[p] < q.priority[s[i + 2]]
    <3>1. w[i] = At(s, i + 1)
      BY <2>3
    <3>2. CASE i >= Len(s)
      BY <3>1, <3>2, <1>0 DEF At
    <3>3. CASE i < Len(s)
      <4>1. w[i] = s[i + 1] /\ w[i] # NULL
        BY <3>1, <3>3, <1>0 DEF At
      <4>2. q.next[w[i]] = At(s, i + 2)
        BY <4>1, <3>3, <1>0 DEF List
      <4>3. CASE i + 2 <= Len(s)
        BY <4>1, <4>2, <4>3, <3>3, <1>0 DEF At
      <4>4. CASE ~(i + 2 <= Len(s))
        BY <4>1, <4>2, <4>4, <3>3, <1>0 DEF At
      <4> QED  BY <4>3, <4>4
    <3> QED  BY <3>2, <3>3, <1>0
  <2> HIDE DEF w, Last
  <2>6. Len(s) - 1 \in hits /\ hits \subseteq Nat /\ hits \subseteq 0 .. N
    <3>1. Len(s) - 1 \in 0 .. N
      BY <1>0, <2>1
    <3>2. Last(Len(s) - 1)
      BY <3>1, <2>5, <1>0
    <3> QED  BY <3>1, <3>2, <2>3
  <2>7. PICK m \in hits : \A n \in hits : m <= n
    BY <2>6, Smallest
  <2>8. Min(hits) = m
    <3>1. hits \subseteq Int
      BY <2>6
    <3> HIDE DEF hits
    <3> QED  BY <2>7, <3>1, MinIs
  <2>9. m \in 0 .. N /\ Last(m) /\ m < Len(s)
    BY <2>6, <2>5
  <2>10. pcb_insert(q, p) = LinkIn(q, p, k, s, m + 1)
    <3>1. w[m] = s[m + 1]
      BY <2>3, <2>9, <1>0 DEF At
    <3> QED  BY <2>2, <2>4, <2>6, <2>8, <2>9, <3>1 DEF LinkIn
  <2>11. \A j \in 1 .. m + 1 : q.priority[s[j]] <= q.priority[p]
    <3> SUFFICES ASSUME NEW j \in 1 .. m + 1 PROVE q.priority[s[j]] <= q.priority[p]
      OBVIOUS
    <3>1. CASE j = 1
      BY <3>1, <2>1
    <3>2. CASE j # 1
      <4>1. j - 2 \in 0 .. N /\ j - 2 < m /\ j \in 1 .. Len(s)
        BY <3>2, <2>9, <1>0
      <4>2. j - 2 \notin hits
        BY <4>1, <2>7, <2>9
      <4>3. ~Last(j - 2)
        BY <4>1, <4>2, <2>3
      <4>4. (j - 2) + 2 = j
        OBVIOUS
      <4>5. ~(q.priority[p] < q.priority[s[j]])
        BY <4>1, <4>3, <4>4, <2>5, <2>9, <1>0
      <4>6. s[j] \in Pcbs
        BY <4>1, <1>0
      <4> QED  BY <4>5, <4>6, <1>2
    <3> QED  BY <3>1, <3>2
  <2>12. m + 1 < Len(s) => q.priority[p] < q.priority[s[(m + 1) + 1]]
    <3>1. (m + 1) + 1 = m + 2
      BY <2>9
    <3> QED  BY <2>5, <2>9, <3>1, <1>0
  <2>13. m + 1 \in 0 .. Len(s)
    BY <2>9, <1>0
  <2> QED  BY <2>10, <2>11, <2>12, <2>13
<1> QED  BY <1>3, <1>4

\* Linking p in makes the list with p in its place, and touches only the links
\* of p and of the element before it.
LEMMA LinkInList ==
  ASSUME NEW q \in Store, NEW p \in Pcbs, NEW k \in Queues, NEW s,
         List(q, q.head[k], s), p \notin Elems(s), NEW i \in 0 .. Len(s)
  PROVE  LET r == LinkIn(q, p, k, s, i)
         IN  /\ r \in Store
             /\ List(r, r.head[k], Put(s, i, p))
             /\ r.state = q.state /\ r.priority = q.priority /\ r.name = q.name
             /\ r.hung = q.hung
             /\ \A j \in Queues \ {k} : r.head[j] = q.head[j]
<1> DEFINE r == LinkIn(q, p, k, s, i)
           t == Put(s, i, p)
<1>0. /\ s \in Seq(Pcbs) /\ Len(s) \in Nat
      /\ \A j \in 1 .. Len(s) : s[j] \in Pcbs /\ s[j] # p
  BY DEF List, Elems
<1>1. /\ q.head \in [Queues -> PcbOrNull] /\ q.next \in [Pcbs -> PcbOrNull]
      /\ p \in PcbOrNull
  BY StoreFields DEF PcbOrNull
<1>2. r \in Store
  <2>1. CASE i = 0
    BY <2>1, <1>1 DEF LinkIn, Store, Queues
  <2>2. CASE i # 0
    <3>1. s[i] \in Pcbs
      BY <2>2, <1>0
    <3> QED  BY <2>2, <3>1, <1>1 DEF LinkIn, LinkAfter, Store
  <2> QED  BY <2>1, <2>2
<1>3. /\ r.state = q.state /\ r.priority = q.priority /\ r.name = q.name
      /\ r.hung = q.hung
      /\ \A j \in Queues \ {k} : r.head[j] = q.head[j]
  BY DEF LinkIn, LinkAfter, Store, Queues
<1>4. /\ r.head[k] = IF i = 0 THEN p ELSE q.head[k]
      /\ r.next[p] = At(s, i + 1)
      /\ \A j \in 1 .. Len(s) : r.next[s[j]] = IF j = i THEN p ELSE q.next[s[j]]
  <2>1. CASE i = 0
    BY <2>1, <1>0, <1>1 DEF LinkIn, List, Store, Queues
  <2>2. CASE i # 0
    <3>1. i \in 1 .. Len(s) /\ s[i] \in Pcbs /\ s[i] # p
      BY <2>2, <1>0
    <3>2. \A j \in 1 .. Len(s) : s[j] = s[i] => j = i
      BY <3>1 DEF List
    <3>3. q.next[s[i]] = At(s, i + 1)
      BY <3>1 DEF List
    <3>4. r.next = [q.next EXCEPT ![p] = q.next[s[i]], ![s[i]] = p] /\ r.head = q.head
      BY <2>2 DEF LinkIn, LinkAfter, Store
    <3> QED  BY <2>2, <3>1, <3>2, <3>3, <3>4, <1>0, <1>1
  <2> QED  BY <2>1, <2>2
<1> HIDE DEF r
<1>5. t \in Seq(Pcbs) /\ Len(t) = Len(s) + 1
  BY <1>0, PutSeq
<1>6. \A j \in 1 .. Len(s) + 1 :
        t[j] = IF j <= i THEN s[j] ELSE IF j = i + 1 THEN p ELSE s[j - 1]
  BY DEF Put
<1> HIDE DEF t
<1>7. ASSUME NEW a \in 1 .. Len(t), NEW b \in 1 .. Len(t), t[a] = t[b]
      PROVE  a = b
  <2>1. \A j, l \in 1 .. Len(s) : s[j] = s[l] => j = l
    BY DEF List
  <2>2. ASSUME NEW j \in 1 .. Len(t)
        PROVE  \/ j <= i /\ j \in 1 .. Len(s) /\ t[j] = s[j]
               \/ j = i + 1 /\ t[j] = p
               \/ j > i + 1 /\ j - 1 \in 1 .. Len(s) /\ t[j] = s[j - 1]
    BY <1>0, <1>5, <1>6
  <2>3. CASE a <= i
    <3>1. a \in 1 .. Len(s) /\ t[a] = s[a]
      BY <2>2, <2>3
    <3>2. CASE b <= i
      <4>1. b \in 1 .. Len(s) /\ t[b] = s[b]
        BY <2>2, <3>2
      <4> QED  BY <2>1, <3>1, <4>1, <1>7
    <3>3. CASE b > i
      <4>1. t[b] # p
        BY <3>1, <1>0, <1>7
      <4>2. b > i + 1 /\ b - 1 \in 1 .. Len(s) /\ t[b] = s[b - 1]
        BY <2>2, <3>3, <4>1
      <4>3. a = b - 1
        BY <2>1, <3>1, <4>2, <1>7
      <4> QED  BY <4>2, <4>3, <2>3
    <3> QED  BY <3>2, <3>3
  <2>4. CASE a = i + 1
    <3>1. t[b] = p
      BY <2>2, <2>4, <1>7
    <3> QED  BY <2>2, <2>4, <3>1, <1>0
  <2>5. CASE a > i + 1
    <3>1. a - 1 \in 1 .. Len(s) /\ t[a] = s[a - 1]
      BY <2>2, <2>5
    <3>2. CASE b <= i
      <4>1. b \in 1 .. Len(s) /\ t[b] = s[b]
        BY <2>2, <3>2
      <4>2. a - 1 = b
        BY <2>1, <3>1, <4>1, <1>7
      <4> QED  BY <4>2, <3>2, <2>5
    <3>3. CASE b > i
      <4>1. t[b] # p
        BY <3>1, <1>0, <1>7
      <4>2. b > i + 1 /\ b - 1 \in 1 .. Len(s) /\ t[b] = s[b - 1]
        BY <2>2, <3>3, <4>1
      <4>3. a - 1 = b - 1
        BY <2>1, <3>1, <4>2, <1>7
      <4> QED  BY <4>3
    <3> QED  BY <3>2, <3>3
  <2> QED  BY <2>3, <2>4, <2>5
<1>8. r.head[k] = At(t, 1)
  <2>1. 1 \in 1 .. Len(t) /\ At(t, 1) = t[1]
    BY <1>0, <1>5 DEF At
  <2>2. q.head[k] = At(s, 1)
    BY DEF List
  <2>3. CASE i = 0
    BY <2>1, <2>3, <1>4, <1>5, <1>6
  <2>4. CASE i # 0
    BY <2>1, <2>2, <2>4, <1>0, <1>4, <1>5, <1>6 DEF At
  <2> QED  BY <2>3, <2>4
<1>9. ASSUME NEW j \in 1 .. Len(t) PROVE r.next[t[j]] = At(t, j + 1)
  <2>0. \A l \in 1 .. Len(s) : q.next[s[l]] = At(s, l + 1)
    BY DEF List
  <2>1. CASE j < i
    <3>1. t[j] = s[j] /\ j \in 1 .. Len(s) /\ j # i /\ t[j + 1] = s[j + 1]
      BY <2>1, <1>0, <1>5, <1>6
    <3>2. At(t, j + 1) = s[j + 1] /\ At(s, j + 1) = s[j + 1]
      BY <2>1, <3>1, <1>0, <1>5 DEF At
    <3> QED  BY <3>1, <3>2, <2>0, <1>4
  <2>2. CASE j = i
    <3>1. t[j] = s[j] /\ j \in 1 .. Len(s) /\ t[j + 1] = p
      BY <2>2, <1>0, <1>5, <1>6
    <3>2. At(t, j + 1) = p
      BY <2>2, <3>1, <1>0, <1>5 DEF At
    <3> QED  BY <2>2, <3>1, <3>2, <1>4
  <2>3. CASE j = i + 1
    <3>1. t[j] = p
      BY <2>3, <1>0, <1>5, <1>6
    <3>2. At(t, j + 1) = At(s, i + 1)
      <4>1. CASE i < Len(s)
        <5>1. j + 1 \in 1 .. Len(t) /\ t[j + 1] = s[i + 1] /\ i + 1 \in 1 .. Len(s)
          BY <4>1, <2>3, <1>0, <1>5, <1>6
        <5> QED  BY <5>1 DEF At
      <4>2. CASE i = Len(s)
        BY <4>2, <2>3, <1>0, <1>5 DEF At
      <4> QED  BY <4>1, <4>2, <1>0
    <3> QED  BY <3>1, <3>2, <1>4
  <2>4. CASE j > i + 1
    <3>1. t[j] = s[j - 1] /\ j - 1 \in 1 .. Len(s) /\ j - 1 # i
      BY <2>4, <1>0, <1>5, <1>6
    <3>2. (j - 1) + 1 = j
      OBVIOUS
    <3>3. q.next[s[j - 1]] = At(s, j)
      BY <3>1, <3>2, <2>0
    <3>4. At(t, j + 1) = At(s, j)
      <4>1. CASE j < Len(t)
        <5>1. j + 1 \in 1 .. Len(t) /\ t[j + 1] = s[j] /\ j \in 1 .. Len(s)
          BY <4>1, <2>4, <1>0, <1>5, <1>6
        <5> QED  BY <5>1 DEF At
      <4>2. CASE j = Len(t)
        BY <4>2, <2>4, <1>0, <1>5 DEF At
      <4> QED  BY <4>1, <4>2, <1>5, <1>0
    <3> QED  BY <3>1, <3>3, <3>4, <1>4
  <2> QED  BY <2>1, <2>2, <2>3, <2>4
<1>10. List(r, r.head[k], t)
  BY <1>5, <1>7, <1>8, <1>9 DEF List
<1> QED  BY <1>2, <1>3, <1>10 DEF r, t

\* Linking an element out makes the list without it.
LEMMA LinkOutList ==
  ASSUME NEW q \in Store, NEW k \in Queues, NEW s,
         List(q, q.head[k], s), NEW i \in 1 .. Len(s)
  PROVE  LET r == LinkOut(q, k, s, i)
         IN  /\ r \in Store
             /\ List(r, r.head[k], Drop(s, i))
             /\ r.state = q.state /\ r.priority = q.priority /\ r.name = q.name
             /\ r.hung = q.hung
             /\ \A j \in Queues \ {k} : r.head[j] = q.head[j]
<1> DEFINE r == LinkOut(q, k, s, i)
           t == Drop(s, i)
<1>0. /\ s \in Seq(Pcbs) /\ Len(s) \in Nat
      /\ \A j \in 1 .. Len(s) : s[j] \in Pcbs
      /\ \A j, l \in 1 .. Len(s) : s[j] = s[l] => j = l
      /\ q.head[k] = At(s, 1)
      /\ \A l \in 1 .. Len(s) : q.next[s[l]] = At(s, l + 1)
  BY DEF List
<1>1. q.head \in [Queues -> PcbOrNull] /\ q.next \in [Pcbs -> PcbOrNull]
  BY StoreFields
<1>2. r \in Store
  <2>1. CASE i = 1
    <3>1. q.next[s[1]] \in PcbOrNull
      BY <2>1, <1>0, <1>1
    <3> QED  BY <2>1, <3>1, <1>1 DEF LinkOut, Store, Queues
  <2>2. CASE i # 1
    <3>1. s[i - 1] \in Pcbs /\ q.next[s[i]] \in PcbOrNull
      BY <2>2, <1>0, <1>1
    <3> QED  BY <2>2, <3>1, <1>1 DEF LinkOut, Store
  <2> QED  BY <2>1, <2>2
<1>3. /\ r.state = q.state /\ r.priority = q.priority /\ r.name = q.name
      /\ r.hung = q.hung
      /\ \A j \in Queues \ {k} : r.head[j] = q.head[j]
  BY DEF LinkOut, Store, Queues
<1>4. /\ r.head[k] = IF i = 1 THEN At(s, 2) ELSE q.head[k]
      /\ \A j \in 1 .. Len(s) :
           r.next[s[j]] = IF i # 1 /\ j = i - 1 THEN At(s, i + 1) ELSE q.next[s[j]]
  <2>1. CASE i = 1
    BY <2>1, <1>0, <1>1 DEF LinkOut, Store, Queues
  <2>2. CASE i # 1
    <3>1. i - 1 \in 1 .. Len(s) /\ s[i - 1] \in Pcbs
      BY <2>2, <1>0
    <3>2. \A j \in 1 .. Len(s) : s[j] = s[i - 1] => j = i - 1
      BY <3>1, <1>0
    <3>3. r.next = [q.next EXCEPT ![s[i - 1]] = q.next[s[i]]] /\ r.head = q.head
      BY <2>2 DEF LinkOut, Store
    <3>4. q.next[s[i]] = At(s, i + 1)
      BY <1>0
    <3> QED  BY <2>2, <3>1, <3>2, <3>3, <3>4, <1>0, <1>1
  <2> QED  BY <2>1, <2>2
<1> HIDE DEF r
<1>5. t \in Seq(Pcbs) /\ Len(t) = Len(s) - 1
  BY <1>0, DropSeq
<1>6. \A j \in 1 .. Len(s) - 1 : t[j] = IF j < i THEN s[j] ELSE s[j + 1]
  BY DEF Drop
<1> HIDE DEF t
<1>7. ASSUME NEW a \in 1 .. Len(t), NEW b \in 1 .. Len(t), t[a] = t[b]
      PROVE  a = b
  <2>1. ASSUME NEW j \in 1 .. Len(t)
        PROVE  \/ j < i /\ j \in 1 .. Len(s) /\ t[j] = s[j]
               \/ j >= i /\ j + 1 \in 1 .. Len(s) /\ t[j] = s[j + 1]
    BY <1>0, <1>5, <1>6
  <2>2. CASE a < i /\ b < i
    <3>1. a \in 1 .. Len(s) /\ t[a] = s[a]
      BY <2>1, <2>2
    <3>2. b \in 1 .. Len(s) /\ t[b] = s[b]
      BY <2>1, <2>2
    <3> QED  BY <3>1, <3>2, <1>0, <1>7
  <2>3. CASE a < i /\ b >= i
    <3>1. a = b + 1
      <4>1. a \in 1 .. Len(s) /\ t[a] = s[a]
        BY <2>1, <2>3
      <4>2. b + 1 \in 1 .. Len(s) /\ t[b] = s[b + 1]
        BY <2>1, <2>3
      <4> QED  BY <4>1, <4>2, <1>0, <1>7
    <3> QED  BY <3>1, <2>3
  <2>4. CASE a >= i /\ b < i
    <3>1. a + 1 = b
      <4>1. a + 1 \in 1 .. Len(s) /\ t[a] = s[a + 1]
        BY <2>1, <2>4
      <4>2. b \in 1 .. Len(s) /\ t[b] = s[b]
        BY <2>1, <2>4
      <4> QED  BY <4>1, <4>2, <1>0, <1>7
    <3> QED  BY <3>1, <2>4
  <2>5. CASE a >= i /\ b >= i
    <3>1. a + 1 = b + 1
      <4>1. a + 1 \in 1 .. Len(s) /\ t[a] = s[a + 1]
        BY <2>1, <2>5
      <4>2. b + 1 \in 1 .. Len(s) /\ t[b] = s[b + 1]
        BY <2>1, <2>5
      <4> QED  BY <4>1, <4>2, <1>0, <1>7
    <3> QED  BY <3>1
  <2> QED  BY <2>2, <2>3, <2>4, <2>5
<1>8. \A j \in Nat : j >= 1 => At(t, j) = IF j < i THEN At(s, j) ELSE At(s, j + 1)
  <2> SUFFICES ASSUME NEW j \in Nat, j >= 1
               PROVE  At(t, j) = IF j < i THEN At(s, j) ELSE At(s, j + 1)
    OBVIOUS
  <2>1. CASE j \in 1 .. Len(t)
    <3>1. j \in 1 .. Len(s) /\ j + 1 \in 1 .. Len(s) /\ j \in 1 .. Len(s) - 1
      BY <2>1, <1>0, <1>5
    <3>2. t[j] = IF j < i THEN s[j] ELSE s[j + 1]
      BY <3>1, <1>6
    <3>3. At(t, j) = t[j] /\ At(s, j) = s[j] /\ At(s, j + 1) = s[j + 1]
      BY <2>1, <3>1 DEF At
    <3> QED  BY <3>2, <3>3
  <2>2. CASE j \notin 1 .. Len(t)
    BY <2>2, <1>0, <1>5 DEF At
  <2> QED  BY <2>1, <2>2
<1>9. r.head[k] = At(t, 1)
  BY <1>0, <1>4, <1>8
<1>10. ASSUME NEW j \in 1 .. Len(t) PROVE r.next[t[j]] = At(t, j + 1)
  <2>0. j + 1 \in Nat /\ j + 1 >= 1
    BY <1>0, <1>5
  <2>1. CASE j < i - 1
    <3>1. t[j] = s[j] /\ j \in 1 .. Len(s) /\ j # i - 1 /\ j + 1 < i
      BY <2>1, <1>0, <1>5, <1>6
    <3> QED  BY <3>1, <2>0, <1>0, <1>4, <1>8
  <2>2. CASE j = i - 1
    <3>1. t[j] = s[j] /\ j \in 1 .. Len(s) /\ i # 1 /\ ~(j + 1 < i) /\ j + 1 = i
      BY <2>2, <1>0, <1>5, <1>6
    <3> QED  BY <3>1, <2>0, <2>2, <1>0, <1>4, <1>8
  <2>3. CASE j >= i
    <3>1. t[j] = s[j + 1] /\ j + 1 \in 1 .. Len(s) /\ j + 1 # i - 1 /\ ~(j + 1 < i)
      BY <2>3, <1>0, <1>5, <1>6
    <3>2. r.next[s[j + 1]] = q.next[s[j + 1]]
      BY <3>1, <1>4
    <3>3. q.next[s[j + 1]] = At(s, (j + 1) + 1)
      BY <3>1, <1>0
    <3>4. At(t, j + 1) = At(s, (j + 1) + 1)
      BY <3>1, <2>0, <1>8
    <3> QED  BY <3>1, <3>2, <3>3, <3>4
  <2> QED  BY <2>1, <2>2, <2>3, <1>5, <1>0
<1>11. List(r, r.head[k], t)
  BY <1>5, <1>7, <1>9, <1>10 DEF List
<1> QED  BY <1>2, <1>3, <1>11 DEF r, t

\* Where a loop that stops at a place in T stops: at the first such place.
LEMMA FirstStop ==
  ASSUME NEW T \in SUBSET Nat
  PROVE  LET at == IF T = {} THEN {} ELSE {Min(T)}
         IN  /\ at = {} <=> T = {}
             /\ T # {} => /\ (CHOOSE i \in at : TRUE) = Min(T)
                          /\ at = {Min(T)}
                          /\ Min(T) \in T /\ \A n \in T : Min(T) <= n
<1>1. \A y : (CHOOSE i \in {y} : TRUE) = y /\ {y} # {}
  OBVIOUS
<1>2. ASSUME T # {} PROVE Min(T) \in T /\ \A n \in T : Min(T) <= n
  <2>1. PICK m \in T : \A n \in T : m <= n
    BY <1>2, Smallest
  <2>2. T \subseteq Int
    OBVIOUS
  <2>3. Min(T) = m
    BY <2>1, <2>2, MinIs
  <2> QED  BY <2>1, <2>3
<1>3. CASE T = {}
  BY <1>3
<1>4. CASE T # {}
  BY <1>1, <1>2, <1>4
<1> QED  BY <1>3, <1>4

\* pcb_remove of an element of the queue that its state names links it out.
LEMMA RemoveFromList ==
  ASSUME NEW q \in Store, NEW k \in Queues, NEW s, NEW i \in 1 .. Len(s),
         ~q.hung, SearchedFor(q.state[s[i]]) = k, List(q, q.head[k], s)
  PROVE  /\ pcb_remove(q, s[i]) = LinkOut(q, k, s, i)
         /\ Removable(q, s[i])
<1> DEFINE p == s[i]
           w == Walk(q, q.head[k])
           Before(j) == w[j] = NULL \/ q.next[w[j]] = p
           T == {j \in DOMAIN w : Before(j)}
           at == IF T = {} THEN {} ELSE {Min(T)}
<1>0. /\ s \in Seq(Pcbs) /\ Len(s) \in Nat /\ Len(s) \in 0 .. N /\ N \in Nat
      /\ \A j \in 1 .. Len(s) : s[j] \in Pcbs /\ s[j] # NULL
      /\ \A j, l \in 1 .. Len(s) : s[j] = s[l] => j = l
      /\ q.head[k] = At(s, 1)
      /\ \A l \in 1 .. Len(s) : q.next[s[l]] = At(s, l + 1)
  <2>1. Len(s) \in 0 .. N
    BY ListShort
  <2> QED  BY <2>1, NType, PcbAssumption DEF List
<1>1. DOMAIN w = 0 .. N /\ \A j \in 0 .. N : w[j] = At(s, j + 1)
  BY ListWalk, StoreFields
<1>2. k # "none"
  BY DEF Queues
<1>3. pcb_remove(q, p) =
        IF q.head[k] = p THEN [q EXCEPT !.head[k] = q.next[p]]
        ELSE IF at = {} THEN [q EXCEPT !.hung = TRUE]
        ELSE LET prev == w[CHOOSE j \in at : TRUE]
             IN  IF prev = NULL THEN q ELSE [q EXCEPT !.next[prev] = q.next[p]]
  BY <1>2 DEF pcb_remove, StopsAt
<1>5. q.head[k] = p <=> i = 1
  BY <1>0 DEF At
<1>6. ASSUME i = 1 PROVE pcb_remove(q, p) = LinkOut(q, k, s, i)
  BY <1>3, <1>5, <1>6 DEF LinkOut
<1>7. ASSUME i # 1 PROVE pcb_remove(q, p) = LinkOut(q, k, s, i)
  <2>1. ASSUME NEW j \in 0 .. Len(s) - 1 PROVE Before(j) <=> j = i - 2
    <3>1. j + 1 \in 1 .. Len(s) /\ j \in 0 .. N /\ (j + 1) + 1 = j + 2
      BY <1>0
    <3>2. w[j] = s[j + 1] /\ w[j] # NULL
      BY <3>1, <1>0, <1>1 DEF At
    <3>3. q.next[w[j]] = At(s, j + 2)
      BY <3>1, <3>2, <1>0
    <3>4. At(s, j + 2) = s[i] <=> j + 2 = i
      <4>1. CASE j + 2 \in 1 .. Len(s)
        BY <4>1, <1>0 DEF At
      <4>2. CASE j + 2 \notin 1 .. Len(s)
        BY <4>2, <1>0 DEF At
      <4> QED  BY <4>1, <4>2
    <3>5. j + 2 = i <=> j = i - 2
      BY <1>0
    <3> QED  BY <3>2, <3>3, <3>4, <3>5
  <2>2. i - 2 \in 0 .. Len(s) - 1 /\ i - 2 \in 0 .. N
    BY <1>0, <1>7
  <2>3. i - 2 \in T /\ T \in SUBSET Nat
    <3>1. Before(i - 2)
      BY <2>1, <2>2
    <3> HIDE DEF Before, w
    <3> QED  BY <2>2, <3>1, <1>1
  <2>4. /\ at # {} /\ (CHOOSE j \in at : TRUE) = Min(T)
        /\ Min(T) \in T /\ \A n \in T : Min(T) <= n
    <3>1. T # {}
      BY <2>3
    <3> HIDE DEF T
    <3> QED  BY <2>3, <3>1, FirstStop DEF at
  <2>5. Min(T) <= i - 2 /\ Min(T) \in 0 .. N /\ Before(Min(T))
    <3>1. Min(T) <= i - 2
      BY <2>3, <2>4
    <3> DEFINE m == Min(T)
    <3>2. m \in T
      BY <2>4
    <3> HIDE DEF m, w, Before
    <3>3. m \in 0 .. N /\ Before(m)
      BY <3>2, <1>1
    <3> QED  BY <3>1, <3>3 DEF m
  <2>6. Min(T) = i - 2
    <3> DEFINE m == Min(T)
    <3>1. m <= i - 2 /\ m \in 0 .. N /\ Before(m)
      BY <2>5
    <3> HIDE DEF m, w, Before
    <3>2. m \in 0 .. Len(s) - 1
      BY <3>1, <1>0
    <3>3. m = i - 2
      BY <3>1, <3>2, <2>1
    <3> QED  BY <3>3 DEF m
  <2>7. w[i - 2] = s[i - 1] /\ s[i - 1] # NULL
    <3>1. (i - 2) + 1 = i - 1 /\ i - 1 \in 1 .. Len(s)
      BY <1>0, <1>7
    <3> QED  BY <2>2, <3>1, <1>0, <1>1 DEF At
  <2> HIDE DEF w, T, at, Before
  <2>8. pcb_remove(q, p) = [q EXCEPT !.next[s[i - 1]] = q.next[s[i]]]
    BY <2>4, <2>6, <2>7, <1>3, <1>5, <1>7
  <2> QED  BY <2>8, <1>7 DEF LinkOut
<1>9. Removable(q, p)
  <2>1. i - 1 \in 0 .. N /\ w[i - 1] = p
    <3>1. i - 1 \in 0 .. N /\ (i - 1) + 1 = i
      BY <1>0
    <3> QED  BY <3>1, <1>0, <1>1 DEF At
  <2> QED  BY <2>1, <1>2 DEF Removable, N
<1> QED  BY <1>6, <1>7, <1>9

\* A loop of pcb_find over a list finds an element with the name, or that there
\* is none.
LEMMA SearchList ==
  ASSUME NEW q \in Store, NEW k \in Queues, NEW s, List(q, q.head[k], s), NEW n
  PROVE  \/ /\ Search(q, k, n) = {NULL}
            /\ \A i \in 1 .. Len(s) : q.name[s[i]] # n
         \/ \E i \in 1 .. Len(s) : Search(q, k, n) = {s[i]} /\ q.name[s[i]] = n
<1> DEFINE w == Walk(q, q.head[k])
           Found(i) == w[i] = NULL \/ q.name[w[i]] = n
           T == {i \in DOMAIN w : Found(i)}
           at == IF T = {} THEN {} ELSE {Min(T)}
<1>0. /\ s \in Seq(Pcbs) /\ Len(s) \in Nat /\ Len(s) \in 0 .. N /\ N \in Nat
      /\ \A j \in 1 .. Len(s) : s[j] \in Pcbs /\ s[j] # NULL
  <2>1. Len(s) \in 0 .. N
    BY ListShort
  <2> QED  BY <2>1, NType, PcbAssumption DEF List
<1>1. DOMAIN w = 0 .. N /\ \A j \in 0 .. N : w[j] = At(s, j + 1)
  BY ListWalk, StoreFields
<1>2. Search(q, k, n) = {w[i] : i \in at}
  BY DEF Search, StopsAt
<1>3. w[Len(s)] = NULL
  BY <1>0, <1>1 DEF At
<1> HIDE DEF w
<1>4. Len(s) \in T /\ T \in SUBSET Nat /\ T \subseteq 0 .. N
  BY <1>0, <1>1, <1>3
<1>5. at = {Min(T)} /\ Min(T) \in T /\ \A j \in T : Min(T) <= j
  <2>1. T # {}
    BY <1>4
  <2> HIDE DEF T
  <2> QED  BY <1>4, <2>1, FirstStop
<1> DEFINE m == Min(T)
<1>6. m \in T /\ m <= Len(s) /\ \A j \in T : m <= j
  BY <1>4, <1>5
<1>7. Search(q, k, n) = {w[m]}
  BY <1>2, <1>5
<1> HIDE DEF m, at
<1>8. m \in 0 .. Len(s) /\ Found(m)
  BY <1>4, <1>6
<1>9. CASE m = Len(s)
  <2>1. ASSUME NEW i \in 1 .. Len(s) PROVE q.name[s[i]] # n
    <3>1. i - 1 \in 0 .. N /\ i - 1 < m /\ (i - 1) + 1 = i
      BY <1>0, <1>9
    <3>2. i - 1 \notin T
      BY <1>4, <1>6, <1>8, <3>1
    <3>3. w[i - 1] = s[i]
      BY <3>1, <1>1 DEF At
    <3> QED  BY <3>1, <3>2, <3>3, <1>1
  <2> QED  BY <2>1, <1>3, <1>7, <1>9
<1>10. CASE m < Len(s)
  <2>1. m \in 0 .. N /\ m + 1 \in 1 .. Len(s) /\ w[m] = s[m + 1] /\ w[m] # NULL
    BY <1>0, <1>1, <1>8, <1>10 DEF At
  <2>2. q.name[s[m + 1]] = n
    BY <1>8, <2>1
  <2> QED  BY <1>7, <2>1, <2>2
<1> QED  BY <1>0, <1>8, <1>9, <1>10

\* The empty list.
LEMMA EmptyList ==
  ASSUME NEW q, NEW s, List(q, NULL, s)
  PROVE  s = << >>
<1>1. s \in Seq(Pcbs) /\ NULL = At(s, 1)
  BY DEF List
<1>2. Len(s) \in Nat /\ \A j \in 1 .. Len(s) : s[j] # NULL
  BY <1>1, PcbAssumption
<1>3. Len(s) = 0
  BY <1>1, <1>2 DEF At
<1> QED  BY <1>1, <1>3

\* The empty list.
LEMMA NoList ==
  ASSUME NEW q
  PROVE  List(q, NULL, << >>)
<1>1. << >> \in Seq(Pcbs) /\ Len(<< >>) = 0
  OBVIOUS
<1> QED  BY <1>1 DEF List, At

\* A list stays one while the links of its elements do.
LEMMA SameList ==
  ASSUME NEW q, NEW r, NEW h, NEW s, List(q, h, s),
         \A p \in Elems(s) : r.next[p] = q.next[p]
  PROVE  List(r, h, s)
<1>1. \A i \in 1 .. Len(s) : s[i] \in Elems(s)
  BY DEF Elems
<1> QED  BY <1>1 DEF List

\* READY_STATE and the other states are states.
LEMMA StateTypes ==
  {READY_STATE, BLOCKED_STATE, SUSPENDED_STATE, SUSPEND_STATE, RESUME_STATE}
    \subseteq -1 .. 3
  BY DEF READY_STATE, BLOCKED_STATE, SUSPENDED_STATE, SUSPEND_STATE, RESUME_STATE

\* pcb_insert of a PCB that the ready queue does not hold.
LEMMA ReadyInsert ==
  ASSUME NEW q \in Store, NEW p \in Pcbs, NEW s, ~q.hung,
         q.state[p] = READY_STATE, List(q, q.head["ready"], s), p \notin Elems(s)
  PROVE  LET r == pcb_insert(q, p)
         IN  /\ r \in Store /\ ~r.hung
             /\ r.state = q.state /\ r.priority = q.priority /\ r.name = q.name
             /\ r.head["suspended"] = q.head["suspended"]
             /\ \E i \in 0 .. Len(s) :
                  /\ List(r, r.head["ready"], Put(s, i, p))
                  /\ \A j \in 1 .. i : q.priority[s[j]] <= q.priority[p]
                  /\ i < Len(s) => q.priority[p] < q.priority[s[i + 1]]
<1>1. QueueOf(q.state[p]) = "ready" /\ "ready" \in Queues /\ "suspended" \in Queues \ {"ready"}
  BY DEF QueueOf, Queues, READY_STATE, RESUME_STATE, SUSPENDED_STATE, BLOCKED_STATE
<1>2. PICK i \in 0 .. Len(s) :
        /\ pcb_insert(q, p) = LinkIn(q, p, "ready", s, i)
        /\ \A j \in 1 .. i : q.priority[s[j]] <= q.priority[p]
        /\ i < Len(s) => q.priority[p] < q.priority[s[i + 1]]
  BY <1>1, InsertInList
<1> DEFINE r == LinkIn(q, p, "ready", s, i)
<1>3. /\ r \in Store
      /\ List(r, r.head["ready"], Put(s, i, p))
      /\ r.state = q.state /\ r.priority = q.priority /\ r.name = q.name
      /\ r.hung = q.hung
      /\ \A j \in Queues \ {"ready"} : r.head[j] = q.head[j]
  BY <1>1, LinkInList
<1> HIDE DEF r
<1>4. pcb_insert(q, p) = r
  BY <1>2 DEF r
<1> QED  BY <1>1, <1>2, <1>3, <1>4

\* pcb_remove of an element of the ready queue.
LEMMA ReadyRemove ==
  ASSUME NEW q \in Store, NEW s, NEW i \in 1 .. Len(s), ~q.hung,
         q.state[s[i]] = READY_STATE, List(q, q.head["ready"], s)
  PROVE  LET r == pcb_remove(q, s[i])
         IN  /\ r \in Store /\ ~r.hung /\ Removable(q, s[i])
             /\ r.state = q.state /\ r.priority = q.priority /\ r.name = q.name
             /\ r.head["suspended"] = q.head["suspended"]
             /\ List(r, r.head["ready"], Drop(s, i))
<1>1. SearchedFor(q.state[s[i]]) = "ready" /\ "ready" \in Queues /\ "suspended" \in Queues \ {"ready"}
  BY DEF SearchedFor, Queues, READY_STATE, RESUME_STATE, SUSPENDED_STATE, BLOCKED_STATE
<1> DEFINE r == LinkOut(q, "ready", s, i)
<1>2. pcb_remove(q, s[i]) = r /\ Removable(q, s[i])
  BY <1>1, RemoveFromList
<1>3. /\ r \in Store
      /\ List(r, r.head["ready"], Drop(s, i))
      /\ r.state = q.state /\ r.priority = q.priority /\ r.name = q.name
      /\ r.hung = q.hung
      /\ \A j \in Queues \ {"ready"} : r.head[j] = q.head[j]
  BY <1>1, LinkOutList
<1> HIDE DEF r
<1> QED  BY <1>1, <1>2, <1>3

\* pcb_remove of a PCB that the ready queue does not hold, as EXIT of the running
\* process, reaches the end of the list.
LEMMA RemoveAbsent ==
  ASSUME NEW a \in Store, NEW s, List(a, a.head["ready"], s), ~a.hung, NEW p \in Pcbs,
         p \notin Elems(s), a.state[p] = READY_STATE
  PROVE  ~pcb_remove(a, p).hung
<1> DEFINE w == Walk(a, a.head["ready"])
           Before(j) == w[j] = NULL \/ a.next[w[j]] = p
           T == {j \in DOMAIN w : Before(j)}
           at == IF T = {} THEN {} ELSE {Min(T)}
<1>1. SearchedFor(a.state[p]) = "ready" /\ "ready" \in Queues
  BY DEF SearchedFor, Queues, READY_STATE, RESUME_STATE, SUSPENDED_STATE, BLOCKED_STATE
<1>2. Len(s) \in 0 .. N /\ N \in Nat
  BY ListShort, NType
<1>3. DOMAIN w = 0 .. N /\ \A j \in 0 .. N : w[j] = At(s, j + 1)
  BY ListWalk, StoreFields
<1>4. Len(s) \in T
  BY <1>2, <1>3 DEF At
<1>5. pcb_remove(a, p) =
        IF a.head["ready"] = p THEN [a EXCEPT !.head["ready"] = a.next[p]]
        ELSE IF at = {} THEN [a EXCEPT !.hung = TRUE]
        ELSE LET prev == w[CHOOSE j \in at : TRUE]
             IN  IF prev = NULL THEN a ELSE [a EXCEPT !.next[prev] = a.next[p]]
  BY <1>1 DEF pcb_remove, StopsAt
<1>6. at # {}
  BY <1>4
<1> DEFINE b == w[CHOOSE j \in at : TRUE]
<1>7. pcb_remove(a, p) \in {[a EXCEPT !.head["ready"] = a.next[p]], a,
                           [a EXCEPT !.next[b] = a.next[p]]}
  BY <1>5, <1>6
<1> HIDE DEF b
<1> QED  BY <1>7 DEF Store

\* Taking the old head out behind or in front of what was put in meanwhile.
LEMMA PutDrop ==
  ASSUME NEW s \in Seq(Pcbs), Len(s) >= 1, NEW p \in Pcbs
  PROVE  /\ Drop(Put(s, 0, p), 2) = Put(Drop(s, 1), 0, p)
         /\ \A i \in 1 .. Len(s) : Drop(Put(s, i, p), 1) = Put(Drop(s, 1), i - 1, p)
<1>0. Len(s) \in Nat
  OBVIOUS
<1>1. ASSUME NEW i \in 0 .. Len(s) PROVE DOMAIN Put(s, i, p) = 1 .. Len(s) + 1 /\ Len(Put(s, i, p)) = Len(s) + 1
  BY PutSeq DEF Put
<1>2. Drop(s, 1) = [j \in 1 .. Len(s) - 1 |-> s[j + 1]] /\ Len(Drop(s, 1)) = Len(s) - 1
  <2>1. Drop(s, 1) = [j \in 1 .. Len(s) - 1 |-> s[j + 1]]
    BY <1>0 DEF Drop
  <2>2. Drop(s, 1) \in [1 .. Len(s) - 1 -> Pcbs] /\ Len(s) - 1 \in Nat
    BY <1>0, <2>1
  <2> QED  BY <2>1, <2>2, FcnIsSeq
<1> DEFINE d == Drop(s, 1)
<1> HIDE DEF d
<1>3. d = [j \in 1 .. Len(s) - 1 |-> s[j + 1]] /\ Len(d) = Len(s) - 1
  BY <1>2 DEF d
<1>4. Drop(Put(s, 0, p), 2) = Put(d, 0, p)
  <2> DEFINE u == Put(s, 0, p)
  <2>1. 0 \in 0 .. Len(s)
    BY <1>0
  <2>2. Len(u) = Len(s) + 1 /\ u[1] = p /\ \A j \in 2 .. Len(s) + 1 : u[j] = s[j - 1]
    BY <1>0, <1>1, <2>1 DEF Put
  <2> HIDE DEF u
  <2>3. Drop(u, 2) = [j \in 1 .. Len(s) |-> IF j < 2 THEN u[j] ELSE u[j + 1]]
    <3>1. (Len(s) + 1) - 1 = Len(s)
      BY <1>0
    <3> QED  BY <2>2, <3>1 DEF Drop
  <2>4. Put(d, 0, p) = [j \in 1 .. Len(s) |-> IF j <= 0 THEN d[j] ELSE IF j = 0 + 1 THEN p ELSE d[j - 1]]
    <3>1. (Len(s) - 1) + 1 = Len(s)
      BY <1>0
    <3> QED  BY <1>3, <3>1 DEF Put
  <2>5. ASSUME NEW j \in 1 .. Len(s)
        PROVE  (IF j < 2 THEN u[j] ELSE u[j + 1]) = (IF j <= 0 THEN d[j] ELSE IF j = 0 + 1 THEN p ELSE d[j - 1])
    <3>1. CASE j = 1
      BY <2>2, <3>1
    <3>2. CASE j # 1
      <4>1. j + 1 \in 2 .. Len(s) + 1 /\ (j + 1) - 1 = j /\ j - 1 \in 1 .. Len(s) - 1 /\ (j - 1) + 1 = j
        BY <1>0, <3>2
      <4>2. u[j + 1] = s[j] /\ d[j - 1] = s[j]
        BY <2>2, <1>3, <4>1
      <4> QED  BY <4>2, <3>2
    <3> QED  BY <3>1, <3>2
  <2>6. Drop(u, 2) = Put(d, 0, p)
    BY <2>3, <2>4, <2>5
  <2> QED  BY <2>6 DEF u
<1>5. ASSUME NEW i \in 1 .. Len(s) PROVE Drop(Put(s, i, p), 1) = Put(d, i - 1, p)
  <2> DEFINE u == Put(s, i, p)
  <2>1. i \in 0 .. Len(s)
    BY <1>0
  <2>2. /\ Len(u) = Len(s) + 1
        /\ \A j \in 1 .. Len(s) + 1 : u[j] = IF j <= i THEN s[j] ELSE IF j = i + 1 THEN p ELSE s[j - 1]
    BY <1>0, <1>1, <2>1 DEF Put
  <2> HIDE DEF u
  <2>3. Drop(u, 1) = [j \in 1 .. Len(s) |-> IF j < 1 THEN u[j] ELSE u[j + 1]]
    <3>1. (Len(s) + 1) - 1 = Len(s)
      BY <1>0
    <3> QED  BY <2>2, <3>1 DEF Drop
  <2>4. Put(d, i - 1, p) = [j \in 1 .. Len(s) |-> IF j <= i - 1 THEN d[j] ELSE IF j = (i - 1) + 1 THEN p ELSE d[j - 1]]
    <3>1. (Len(s) - 1) + 1 = Len(s)
      BY <1>0
    <3> QED  BY <1>3, <3>1 DEF Put
  <2>5. ASSUME NEW j \in 1 .. Len(s)
        PROVE  (IF j < 1 THEN u[j] ELSE u[j + 1]) = (IF j <= i - 1 THEN d[j] ELSE IF j = (i - 1) + 1 THEN p ELSE d[j - 1])
    <3>0. j + 1 \in 1 .. Len(s) + 1 /\ ~(j < 1) /\ (i - 1) + 1 = i
      BY <1>0
    <3>1. CASE j <= i - 1
      <4>1. j + 1 <= i /\ j \in 1 .. Len(s) - 1
        BY <1>0, <3>1
      <4>2. u[j + 1] = s[j + 1] /\ d[j] = s[j + 1]
        BY <2>2, <1>3, <3>0, <4>1
      <4> QED  BY <3>0, <3>1, <4>2
    <3>2. CASE j = i
      <4>1. ~(j + 1 <= i) /\ j + 1 = i + 1 /\ ~(j <= i - 1)
        BY <1>0, <3>2
      <4>2. u[j + 1] = p
        BY <2>2, <3>0, <4>1
      <4> QED  BY <3>0, <3>2, <4>1, <4>2
    <3>3. CASE j > i
      <4>1. /\ ~(j + 1 <= i) /\ j + 1 # i + 1 /\ ~(j <= i - 1) /\ j # i /\ (j + 1) - 1 = j
            /\ j - 1 \in 1 .. Len(s) - 1 /\ (j - 1) + 1 = j
        BY <1>0, <3>3
      <4>2. u[j + 1] = s[j] /\ d[j - 1] = s[j]
        BY <2>2, <1>3, <3>0, <4>1
      <4> QED  BY <3>0, <4>1, <4>2
    <3> QED  BY <1>0, <3>1, <3>2, <3>3
  <2>6. Drop(u, 1) = Put(d, i - 1, p)
    BY <2>3, <2>4, <2>5
  <2> QED  BY <2>6 DEF u
<1> QED  BY <1>4, <1>5 DEF d
-----------------------------------------------------------------------------
(***************************************************************************)
(* Order.  r gives every PCB its priority.                                 *)
(***************************************************************************)
Sorted(r, s) == \A i, j \in 1 .. Len(s) : i < j => r[s[i]] <= r[s[j]]

\* Behind the first i elements of s is p's place.
Place(r, s, i, p) ==
  /\ \A j \in 1 .. i : r[s[j]] <= r[p]
  /\ \A j \in i + 1 .. Len(s) : r[p] < r[s[j]]

\* In a sorted sequence the next element decides for all that follow.
LEMMA PlaceFound ==
  ASSUME NEW r \in [Pcbs -> Int], NEW s \in Seq(Pcbs), Sorted(r, s), NEW p \in Pcbs,
         NEW i \in 0 .. Len(s), \A j \in 1 .. i : r[s[j]] <= r[p],
         i < Len(s) => r[p] < r[s[i + 1]]
  PROVE  Place(r, s, i, p)
<1>0. Len(s) \in Nat /\ \A j \in 1 .. Len(s) : s[j] \in Pcbs /\ r[s[j]] \in Int
  OBVIOUS
<1>1. ASSUME NEW j \in i + 1 .. Len(s) PROVE r[p] < r[s[j]]
  <2>1. i + 1 \in 1 .. Len(s) /\ j \in 1 .. Len(s) /\ i < Len(s)
    BY <1>0
  <2>2. r[p] < r[s[i + 1]] /\ r[s[i + 1]] <= r[s[j]]
    BY <2>1, <1>0 DEF Sorted
  <2> QED  BY <2>1, <2>2, <1>0
<1> QED  BY <1>1 DEF Place

\* A process put in its place leaves the sequence sorted.
LEMMA SortedPut ==
  ASSUME NEW r \in [Pcbs -> Int], NEW s \in Seq(Pcbs), Sorted(r, s), NEW p \in Pcbs,
         NEW i \in 0 .. Len(s), Place(r, s, i, p)
  PROVE  Sorted(r, Put(s, i, p))
<1>0. Len(s) \in Nat /\ \A j \in 1 .. Len(s) : s[j] \in Pcbs /\ r[s[j]] \in Int
  OBVIOUS
<1> DEFINE u == Put(s, i, p)
<1>1. /\ Len(u) = Len(s) + 1
      /\ \A j \in 1 .. Len(s) + 1 : u[j] = IF j <= i THEN s[j] ELSE IF j = i + 1 THEN p ELSE s[j - 1]
  BY <1>0, PutSeq DEF Put
<1> HIDE DEF u
<1>2. ASSUME NEW a \in 1 .. Len(s) + 1, NEW b \in 1 .. Len(s) + 1, a < b
      PROVE  r[u[a]] <= r[u[b]]
  <2>1. CASE b <= i
    <3>1. u[a] = s[a] /\ u[b] = s[b] /\ a \in 1 .. Len(s) /\ b \in 1 .. Len(s)
      BY <1>0, <1>1, <1>2, <2>1
    <3> QED  BY <1>2, <3>1 DEF Sorted
  <2>2. CASE b = i + 1
    <3>1. u[a] = s[a] /\ u[b] = p /\ a \in 1 .. i
      BY <1>0, <1>1, <1>2, <2>2
    <3> QED  BY <3>1 DEF Place
  <2>3. CASE b > i + 1 /\ a <= i
    <3>1. u[a] = s[a] /\ u[b] = s[b - 1] /\ a \in 1 .. Len(s) /\ b - 1 \in 1 .. Len(s) /\ a < b - 1
      BY <1>0, <1>1, <1>2, <2>3
    <3> QED  BY <3>1 DEF Sorted
  <2>4. CASE b > i + 1 /\ a = i + 1
    <3>1. u[a] = p /\ u[b] = s[b - 1] /\ b - 1 \in i + 1 .. Len(s) /\ b - 1 \in 1 .. Len(s)
      BY <1>0, <1>1, <1>2, <2>4
    <3>2. r[p] < r[s[b - 1]] /\ r[s[b - 1]] \in Int /\ r[p] \in Int
      BY <1>0, <3>1 DEF Place
    <3> QED  BY <3>1, <3>2
  <2>5. CASE b > i + 1 /\ a > i + 1
    <3>1. /\ u[a] = s[a - 1] /\ u[b] = s[b - 1] /\ b - 1 \in 1 .. Len(s)
          /\ a - 1 \in 1 .. Len(s) /\ a - 1 < b - 1
      BY <1>0, <1>1, <1>2, <2>5
    <3> QED  BY <3>1 DEF Sorted
  <2> QED  BY <1>2, <2>1, <2>2, <2>3, <2>4, <2>5
<1> QED  BY <1>1, <1>2 DEF Sorted, u

\* Taking one out leaves it sorted, and a place where it was.
LEMMA SortedDrop ==
  ASSUME NEW r \in [Pcbs -> Int], NEW s \in Seq(Pcbs), Sorted(r, s), NEW i \in 1 .. Len(s)
  PROVE  Sorted(r, Drop(s, i))
<1>0. Len(s) \in Nat /\ Len(s) - 1 \in Nat /\ \A j \in 1 .. Len(s) : s[j] \in Pcbs
  OBVIOUS
<1> DEFINE u == Drop(s, i)
<1>1. \A j \in 1 .. Len(s) - 1 : u[j] = IF j < i THEN s[j] ELSE s[j + 1]
  BY DEF Drop
<1>2. Len(u) = Len(s) - 1
  <2>1. u \in [1 .. Len(s) - 1 -> Pcbs]
    BY <1>0 DEF Drop
  <2> QED  BY <1>0, <2>1, FcnIsSeq
<1> HIDE DEF u
<1>3. ASSUME NEW a \in 1 .. Len(s) - 1, NEW b \in 1 .. Len(s) - 1, a < b
      PROVE  r[u[a]] <= r[u[b]]
  <2>1. PICK c \in 1 .. Len(s) : u[a] = s[c] /\ c = IF a < i THEN a ELSE a + 1
    BY <1>0, <1>1
  <2>2. PICK d \in 1 .. Len(s) : u[b] = s[d] /\ d = IF b < i THEN b ELSE b + 1
    BY <1>0, <1>1
  <2>3. c < d
    BY <1>0, <1>3, <2>1, <2>2
  <2> QED  BY <2>1, <2>2, <2>3 DEF Sorted
<1> QED  BY <1>2, <1>3 DEF Sorted, u

\* A new process: the fields that pcb_setup writes, and pcb_insert.
LEMMA SetUpList ==
  ASSUME NEW q \in Store, ~q.hung, NEW s, List(q, q.head["ready"], s),
         NEW p \in Pcbs, p \notin Elems(s), NEW n \in Names, NEW v \in 0 .. 9
  PROVE  LET r == pcb_insert(Prepare(q, p, n, v), p)
         IN  /\ r \in Store /\ ~r.hung
             /\ r.state = [q.state EXCEPT ![p] = READY_STATE]
             /\ r.name = [q.name EXCEPT ![p] = n]
             /\ r.priority = [q.priority EXCEPT ![p] = v]
             /\ r.head["suspended"] = q.head["suspended"]
             /\ \E i \in 0 .. Len(s) :
                  /\ List(r, r.head["ready"], Put(s, i, p))
                  /\ Sorted(q.priority, s) => Place(r.priority, s, i, p)
<1> DEFINE a == Prepare(q, p, n, v)
           r == pcb_insert(a, p)
<1>0. /\ s \in Seq(Pcbs) /\ Len(s) \in Nat
      /\ \A i \in 1 .. Len(s) : s[i] \in Elems(s) /\ s[i] \in Pcbs
  BY DEF List, Elems
<1>3. /\ a \in Store /\ a.hung = q.hung /\ a.head = q.head
      /\ a.state = [q.state EXCEPT ![p] = READY_STATE]
      /\ a.name = [q.name EXCEPT ![p] = n]
      /\ a.priority = [q.priority EXCEPT ![p] = v]
      /\ a.next = [q.next EXCEPT ![p] = NULL]
  <2>1. v \in -1 .. 9 /\ READY_STATE \in -1 .. 3 /\ NULL \in PcbOrNull /\ p \in Pcbs
    BY StateTypes DEF PcbOrNull
  <2> QED  BY <1>0, <2>1 DEF Store, Prepare
<1>4. a.state[p] = READY_STATE
  BY <1>3, StoreFields
<1> HIDE DEF a
<1>5. List(a, a.head["ready"], s)
  <2>1. \A x \in Elems(s) : a.next[x] = q.next[x]
    <3>1. Elems(s) \subseteq Pcbs
      BY <1>0 DEF Elems
    <3> QED  BY <1>0, <1>3, <3>1, StoreFields
  <2> QED  BY <1>0, <1>3, <2>1, SameList
<1>6. /\ r \in Store /\ ~r.hung
      /\ r.state = a.state /\ r.priority = a.priority /\ r.name = a.name
      /\ r.head["suspended"] = a.head["suspended"]
      /\ \E i \in 0 .. Len(s) :
           /\ List(r, r.head["ready"], Put(s, i, p))
           /\ \A j \in 1 .. i : a.priority[s[j]] <= a.priority[p]
           /\ i < Len(s) => a.priority[p] < a.priority[s[i + 1]]
  BY <1>3, <1>4, <1>5, ReadyInsert
<1> HIDE DEF r
<1>7. PICK i \in 0 .. Len(s) :
           /\ List(r, r.head["ready"], Put(s, i, p))
           /\ \A j \in 1 .. i : a.priority[s[j]] <= a.priority[p]
           /\ i < Len(s) => a.priority[p] < a.priority[s[i + 1]]
  BY <1>6
<1>8. ASSUME Sorted(q.priority, s) PROVE Place(r.priority, s, i, p)
  <2>1. a.priority \in [Pcbs -> Int] /\ q.priority \in [Pcbs -> Int]
    <3>1. a.priority \in [Pcbs -> -1 .. 9] /\ q.priority \in [Pcbs -> -1 .. 9]
      BY <1>0, <1>3, StoreFields
    <3> QED  BY <3>1
  <2>2. \A j \in 1 .. Len(s) : a.priority[s[j]] = q.priority[s[j]]
    BY <1>0, <1>3, <2>1
  <2>3. Sorted(a.priority, s)
    BY <1>8, <2>2 DEF Sorted
  <2>4. Place(a.priority, s, i, p)
    BY <1>0, <1>7, <2>1, <2>3, PlaceFound
  <2> QED  BY <1>6, <2>4
<1> QED  BY <1>3, <1>6, <1>7, <1>8 DEF r, a
-----------------------------------------------------------------------------
(***************************************************************************)
(* Stores in any state, lists or not: the queue operations keep their      *)
(* types, and link only what is linked or handed to them.                  *)
(***************************************************************************)

\* All heads and links lead to PCBs in H.
Closed(q, H) ==
  /\ q \in Store
  /\ \A k \in Queues : q.head[k] \in H \cup {NULL}
  /\ \A p \in Pcbs : q.next[p] \in H \cup {NULL}

\* A walk stays inside.
LEMMA WalkClosed ==
  ASSUME NEW H \in SUBSET Pcbs, NEW q, Closed(q, H), NEW k \in Queues
  PROVE  Walk(q, q.head[k]) \in [0 .. N -> H \cup {NULL}]
<1>1. q.head[k] \in H \cup {NULL}
  BY DEF Closed
<1>2. \A p \in H \cup {NULL} : Follow(q, p) \in H \cup {NULL}
  BY DEF Closed, Follow
<1> QED  BY <1>1, <1>2, WalkDef

\* Setting a head or a link to a PCB in H, or to NULL.
LEMMA HeadClosed ==
  ASSUME NEW H \in SUBSET Pcbs, NEW q, Closed(q, H), NEW k \in Queues,
         NEW p \in H \cup {NULL}
  PROVE  Closed([q EXCEPT !.head[k] = p], H)
<1>1. p \in PcbOrNull
  BY DEF PcbOrNull
<1> QED  BY <1>1 DEF Closed, Store, Queues

\* A link to a PCB in H leaves H closed.
LEMMA NextClosed ==
  ASSUME NEW H \in SUBSET Pcbs, NEW q, Closed(q, H), NEW a \in Pcbs,
         NEW p \in H \cup {NULL}
  PROVE  Closed([q EXCEPT !.next[a] = p], H)
<1>1. p \in PcbOrNull
  BY DEF PcbOrNull
<1> QED  BY <1>1 DEF Closed, Store, Queues

\* So does an endless walk.
LEMMA HungClosed ==
  ASSUME NEW H \in SUBSET Pcbs, NEW q, Closed(q, H)
  PROVE  Closed([q EXCEPT !.hung = TRUE], H)
  BY DEF Closed, Store, Queues

\* So does a change of state.
LEMMA StateClosed ==
  ASSUME NEW H \in SUBSET Pcbs, NEW q, Closed(q, H), NEW p \in Pcbs, NEW v \in -1 .. 3
  PROVE  Closed(SetState(q, p, v), H)
  BY DEF Closed, Store, Queues, SetState

\* pcb_insert of a PCB in H, into whatever the queue may be.
LEMMA InsertClosed ==
  ASSUME NEW H \in SUBSET Pcbs, NEW q, Closed(q, H), NEW p \in H
  PROVE  Closed(pcb_insert(q, p), H)
<1> DEFINE k == QueueOf(q.state[p])
           w == Walk(q, q.head[k])
           Last(i) == /\ w[i] # NULL
                      /\ \/ q.next[w[i]] = NULL
                         \/ q.priority[p] < q.priority[q.next[w[i]]]
           T == {i \in DOMAIN w : Last(i)}
           at == IF T = {} THEN {} ELSE {Min(T)}
<1>0. p \in Pcbs /\ N \in Nat
  BY NType
<1>1. CASE q.hung \/ k = "none"
  BY <1>1 DEF pcb_insert
<1>2. CASE ~(q.hung \/ k = "none")
  <2>1. k \in Queues
    BY <1>2 DEF QueueOf, Queues
  <2>2. q.head[k] \in H \cup {NULL}
    BY <2>1 DEF Closed
  <2>3. pcb_insert(q, p) =
          IF q.head[k] = NULL \/ q.priority[p] < q.priority[q.head[k]]
          THEN [q EXCEPT !.next[p] = q.head[k], !.head[k] = p]
          ELSE IF at = {} THEN [q EXCEPT !.hung = TRUE]
               ELSE LinkAfter(q, w[CHOOSE i \in at : TRUE], p)
    BY <1>2 DEF pcb_insert, InsertBehind, StopsAt
  <2>4. w \in [0 .. N -> H \cup {NULL}]
    BY <2>1, WalkClosed
  <2> HIDE DEF k, w
  <2>5. Closed([q EXCEPT !.next[p] = q.head[k], !.head[k] = p], H)
    <3>1. Closed([q EXCEPT !.next[p] = q.head[k]], H)
      BY <1>0, <2>2, NextClosed
    <3>2. Closed([[q EXCEPT !.next[p] = q.head[k]] EXCEPT !.head[k] = p], H)
      BY <2>1, <3>1, HeadClosed
    <3>3. [[q EXCEPT !.next[p] = q.head[k]] EXCEPT !.head[k] = p]
            = [q EXCEPT !.next[p] = q.head[k], !.head[k] = p]
      BY DEF Closed, Store
    <3> QED  BY <3>2, <3>3
  <2>6. ASSUME T # {} PROVE Closed(LinkAfter(q, w[CHOOSE i \in at : TRUE], p), H)
    <3>1. T \in SUBSET Nat
      BY <2>4, <1>0
    <3> DEFINE a == w[CHOOSE i \in at : TRUE]
    <3>2. \E i \in T : a = w[i]
      <4> HIDE DEF T
      <4> QED  BY <2>6, <3>1, FirstStop
    <3>3. a \in H
      BY <3>2, <2>4
    <3> HIDE DEF a
    <3>4. a \in Pcbs /\ q.next[a] \in H \cup {NULL}
      BY <3>3 DEF Closed
    <3>5. Closed([q EXCEPT !.next[p] = q.next[a]], H)
      BY <1>0, <3>4, NextClosed
    <3>6. Closed([[q EXCEPT !.next[p] = q.next[a]] EXCEPT !.next[a] = p], H)
      BY <3>4, <3>5, NextClosed
    <3>7. [[q EXCEPT !.next[p] = q.next[a]] EXCEPT !.next[a] = p] = LinkAfter(q, a, p)
      BY DEF Closed, Store, LinkAfter
    <3> QED  BY <3>6, <3>7 DEF a
  <2>7. T = {} <=> at = {}
    OBVIOUS
  <2> HIDE DEF T, at
  <2>8. Closed([q EXCEPT !.hung = TRUE], H)
    BY HungClosed
  <2> QED  BY <2>3, <2>5, <2>6, <2>7, <2>8
<1> QED  BY <1>1, <1>2

\* pcb_remove, whether it finds p or not.
LEMMA RemoveClosed ==
  ASSUME NEW H \in SUBSET Pcbs, NEW q, Closed(q, H), NEW p \in Pcbs
  PROVE  Closed(pcb_remove(q, p), H)
<1> DEFINE k == SearchedFor(q.state[p])
           w == Walk(q, q.head[k])
           Before(i) == w[i] = NULL \/ q.next[w[i]] = p
           T == {i \in DOMAIN w : Before(i)}
           at == IF T = {} THEN {} ELSE {Min(T)}
<1>0. N \in Nat /\ q.next[p] \in H \cup {NULL}
  BY NType DEF Closed
<1>1. CASE q.hung \/ k = "none"
  BY <1>1 DEF pcb_remove
<1>2. CASE ~(q.hung \/ k = "none")
  <2>1. k \in Queues
    BY <1>2 DEF SearchedFor, Queues
  <2>2. pcb_remove(q, p) =
          IF q.head[k] = p THEN [q EXCEPT !.head[k] = q.next[p]]
          ELSE IF at = {} THEN [q EXCEPT !.hung = TRUE]
          ELSE LET prev == w[CHOOSE i \in at : TRUE]
               IN  IF prev = NULL THEN q ELSE [q EXCEPT !.next[prev] = q.next[p]]
    BY <1>2 DEF pcb_remove, StopsAt
  <2>3. w \in [0 .. N -> H \cup {NULL}]
    BY <2>1, WalkClosed
  <2> HIDE DEF k, w
  <2>4. Closed([q EXCEPT !.head[k] = q.next[p]], H)
    BY <1>0, <2>1, HeadClosed
  <2> DEFINE a == w[CHOOSE i \in at : TRUE]
  <2>5. ASSUME T # {}, a # NULL PROVE Closed([q EXCEPT !.next[a] = q.next[p]], H)
    <3>1. T \in SUBSET Nat
      BY <2>3, <1>0
    <3>2. \E i \in T : a = w[i]
      <4> HIDE DEF T
      <4> QED  BY <2>5, <3>1, FirstStop
    <3>3. a \in H
      BY <3>2, <2>3, <2>5
    <3> HIDE DEF a
    <3> QED  BY <3>3, <1>0, NextClosed
  <2>6. T = {} <=> at = {}
    OBVIOUS
  <2>7. Closed([q EXCEPT !.hung = TRUE], H)
    BY HungClosed
  <2> HIDE DEF T
  <2>8. pcb_remove(q, p) =
          IF q.head[k] = p THEN [q EXCEPT !.head[k] = q.next[p]]
          ELSE IF at = {} THEN [q EXCEPT !.hung = TRUE]
          ELSE IF a = NULL THEN q ELSE [q EXCEPT !.next[a] = q.next[p]]
    BY <2>2
  <2> HIDE DEF at, a
  <2> QED  BY <2>4, <2>5, <2>6, <2>7, <2>8
<1> QED  BY <1>1, <1>2

\* A larger set, and the fields that pcb_setup writes.
LEMMA PrepareClosed ==
  ASSUME NEW H \in SUBSET Pcbs, NEW q, Closed(q, H), NEW p \in Pcbs,
         NEW n \in Names, NEW v \in 0 .. 9
  PROVE  Closed(Prepare(q, p, n, v), H \cup {p})
<1>1. 1 \in -1 .. 3 /\ v \in -1 .. 9 /\ NULL \in PcbOrNull
  BY DEF PcbOrNull
<1> QED  BY <1>1 DEF Closed, Store, Queues, Prepare, READY_STATE

\* What pcb_find returns is NULL or a PCB in H.
LEMMA FindClosed ==
  ASSUME NEW H \in SUBSET Pcbs, NEW q, Closed(q, H), NEW n
  PROVE  pcb_find(q, n) \subseteq H \cup {NULL}
<1>0. "ready" \in Queues /\ "suspended" \in Queues
  BY DEF Queues
<1>1. ASSUME NEW k \in Queues PROVE Search(q, k, n) \subseteq H \cup {NULL}
  <2> DEFINE w == Walk(q, q.head[k])
             Found(i) == w[i] = NULL \/ q.name[w[i]] = n
             T == {i \in DOMAIN w : Found(i)}
             at == IF T = {} THEN {} ELSE {Min(T)}
  <2>1. Search(q, k, n) = {w[i] : i \in at}
    BY DEF Search, StopsAt
  <2>2. w \in [0 .. N -> H \cup {NULL}] /\ N \in Nat
    BY WalkClosed, NType
  <2> HIDE DEF w
  <2>3. T \in SUBSET Nat /\ T \subseteq 0 .. N
    BY <2>2
  <2>4. at \subseteq T
    <3> HIDE DEF T
    <3> QED  BY <2>3, FirstStop
  <2> HIDE DEF T, at
  <2> QED  BY <2>1, <2>2, <2>3, <2>4
<1> QED  BY <1>0, <1>1 DEF pcb_find

=============================================================================
