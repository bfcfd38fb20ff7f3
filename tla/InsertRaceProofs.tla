-------------------------- MODULE InsertRaceProofs --------------------------
(***************************************************************************)
(* The race of a command with the interrupt handler on the ready queue,    *)
(* for every queue, every number of processes that the handler unblocks    *)
(* and every order of their priorities.                                    *)
(***************************************************************************)
EXTENDS InsertRace, PcbProofs

(***************************************************************************)
(* The inductive invariant.  s is the ready queue; m, n and k are places   *)
(* in it.                                                                  *)
(***************************************************************************)

\* The processes that the command must not lose.
Others == InQueue(before) \ {x}

\* What the interrupt has put between the places m and k may get lost.
Between(s, m, k) == \A j \in m + 1 .. k - 1 : s[j] \notin Others

\* Up to place m the queue is at least as good as x, and then it is worse.
Good(s, m) == \A j \in 1 .. m : before.priority[s[j]] <= before.priority[x]
Worse(s, m) == m < Len(s) => before.priority[x] < before.priority[s[m + 1]]

\* The place m, behind which the command is going to write, is the head (m = 0)
\* or prev.
Behind(s, m, front) == IF front THEN m = 0 ELSE m >= 1 /\ prev = s[m]

\* pcb_insert looks for the place of x.
Looking(s) ==
  /\ op = "insert" /\ x \notin Elems(s)
  /\ \E m \in 1 .. Len(s) :
       /\ prev = s[m]
       /\ at = "advance" => m < Len(s)
       /\ alone => /\ Good(s, m)
                   /\ at = "advance" => Good(s, m + 1)
                   /\ at = "link" => Worse(s, m)

\* x points into the queue and nothing points to x yet.
Joining(s) ==
  /\ op = "insert" /\ x \notin Elems(s)
  /\ \E m \in 0 .. Len(s), k \in 1 .. Len(s) + 1 :
       /\ m < k /\ Behind(s, m, at = "set_head") /\ Between(s, m, k)
       /\ q.next[x] = At(s, k)
       /\ alone => k = m + 1 /\ Good(s, m) /\ Worse(s, m)

\* pcb_remove looks for x, which is behind prev.
Searching(s) ==
  /\ op = "remove"
  /\ \E m, n \in 1 .. Len(s) :
       /\ prev = s[m] /\ x = s[n] /\ m < n
       /\ at = "step" => m + 1 < n

\* It has found the place before x.
Found(s) ==
  /\ op = "remove"
  /\ \E m \in 0 .. Len(s), n \in 1 .. Len(s) :
       /\ m < n /\ x = s[n] /\ Behind(s, m, prev = x) /\ Between(s, m, n)
       /\ alone => n = m + 1

\* It has read what comes behind x.
Leaving(s) ==
  /\ op = "remove"
  /\ \E m \in 0 .. Len(s), n \in 1 .. Len(s), k \in 1 .. Len(s) + 1 :
       /\ m < n /\ n < k /\ x = s[n] /\ reg = At(s, k)
       /\ Behind(s, m, at = "set_head") /\ Between(s, m, k)
       /\ alone => n = m + 1 /\ k = n + 1

Where(s) ==
  \/ at = "begin" /\ (x \in Elems(s) <=> op = "remove")
  \/ /\ at = "link_head" /\ op = "insert" /\ x \notin Elems(s)
     /\ alone => Worse(s, 0)
  \/ at \in {"find_place", "advance", "link"} /\ Looking(s)
  \/ at \in {"set_head", "link_prev"} /\ Joining(s)
  \/ at \in {"search", "step"} /\ Searching(s)
  \/ at = "read_next" /\ Found(s)
  \/ at \in {"set_head", "unlink"} /\ Leaving(s)
  \/ at = "done" /\ (x \in Elems(s) <=> op = "insert")

\* While no interrupt has come, the store is the one that the command found, but
\* for the link of x; in the end it is what Pcb says.
Undisturbed(s) ==
  /\ at # "done" =>
       /\ List(before, before.head["ready"], s)
       /\ \/ q = before
          \/ /\ op = "insert" /\ at \in {"set_head", "link_prev"}
             /\ q = [before EXCEPT !.next[x] = q.next[x]]
  /\ at = "done" =>
       q = IF op = "insert" THEN pcb_insert(before, x) ELSE pcb_remove(before, x)

Stores ==
  /\ q \in Store /\ ~q.hung /\ before \in Store /\ ~before.hung
  /\ q.priority = before.priority
  /\ \A p \in Pcbs : q.state[p] = READY_STATE /\ before.state[p] = READY_STATE
  /\ op \in {"insert", "remove"} /\ alone \in BOOLEAN

Race(s) ==
  /\ List(q, ready_head, s) /\ Others \subseteq Elems(s)
  /\ Where(s)
  /\ alone => Undisturbed(s)

RaceInv == Stores /\ \E s : Race(s)

\* What holds in every state: nothing more once a register in use was changed.
IInv == at = "lost" \/ RaceInv
-----------------------------------------------------------------------------
(***************************************************************************)
(* Places in a queue into which the handler puts a process.                *)
(***************************************************************************)
Shift(j, i) == IF j <= i THEN j ELSE j + 1

\* Where the elements of s are once y is behind its first i elements.
LEMMA PutPlaces ==
  ASSUME NEW s \in Seq(Pcbs), NEW y \in Pcbs, NEW i \in 0 .. Len(s)
  PROVE  /\ \A j \in 1 .. Len(s) : /\ Shift(j, i) \in 1 .. Len(s) + 1
                                   /\ Put(s, i, y)[Shift(j, i)] = s[j]
         /\ \A k \in 1 .. Len(s) + 1 : /\ Shift(k, i) \in 1 .. Len(s) + 2
                                       /\ At(Put(s, i, y), Shift(k, i)) = At(s, k)
<1> DEFINE t == Put(s, i, y)
<1>0. Len(s) \in Nat
  OBVIOUS
<1>1. Len(t) = Len(s) + 1
  BY PutSeq
<1>2. ASSUME NEW j \in 1 .. Len(s)
      PROVE  Shift(j, i) \in 1 .. Len(s) + 1 /\ t[Shift(j, i)] = s[j]
  <2>1. Shift(j, i) \in 1 .. Len(s) + 1
    BY <1>0 DEF Shift
  <2>2. t[Shift(j, i)] = s[j]
    BY <1>0, <2>1 DEF Shift, Put
  <2> QED  BY <2>1, <2>2
<1> HIDE DEF t
<1>3. ASSUME NEW k \in 1 .. Len(s) + 1
      PROVE  Shift(k, i) \in 1 .. Len(s) + 2 /\ At(t, Shift(k, i)) = At(s, k)
  <2>1. CASE k \in 1 .. Len(s)
    BY <2>1, <1>0, <1>1, <1>2 DEF At
  <2>2. CASE k = Len(s) + 1
    <3>1. Shift(k, i) = Len(s) + 2
      BY <2>2, <1>0 DEF Shift
    <3> QED  BY <2>2, <3>1, <1>0, <1>1 DEF At
  <2> QED  BY <2>1, <2>2, <1>0
<1> QED  BY <1>2, <1>3 DEF t

\* If y may get lost, then what is between two places may get lost afterwards too.
LEMMA PutBetween ==
  ASSUME NEW s \in Seq(Pcbs), NEW y \in Pcbs, NEW i \in 0 .. Len(s), y \notin Others,
         NEW m \in 0 .. Len(s), NEW k \in 1 .. Len(s) + 1, m < k, Between(s, m, k)
  PROVE  /\ Between(Put(s, i, y), Shift(m, i), Shift(k, i))
         /\ Shift(m, i) < Shift(k, i)
         /\ Shift(m, i) \in 0 .. Len(s) + 1 /\ (m = 0 => Shift(m, i) = 0)
<1>0. Len(s) \in Nat
  OBVIOUS
<1>1. Shift(m, i) < Shift(k, i) /\ Shift(m, i) \in 0 .. Len(s) + 1 /\ (m = 0 => Shift(m, i) = 0)
  BY <1>0 DEF Shift
<1>2. ASSUME NEW j \in Shift(m, i) + 1 .. Shift(k, i) - 1 PROVE Put(s, i, y)[j] \notin Others
  <2>0. j \in 1 .. Len(s) + 1
    BY <1>0 DEF Shift
  <2>1. Put(s, i, y)[j] = IF j <= i THEN s[j] ELSE IF j = i + 1 THEN y ELSE s[j - 1]
    BY <2>0 DEF Put
  <2>2. CASE j <= i
    <3>1. j \in m + 1 .. k - 1
      BY <2>2, <1>0 DEF Shift
    <3> QED  BY <2>1, <2>2, <3>1 DEF Between
  <2>3. CASE j = i + 1
    BY <2>1, <2>3, <1>0
  <2>4. CASE j > i + 1
    <3>1. j - 1 \in m + 1 .. k - 1
      BY <2>4, <1>0 DEF Shift
    <3>2. Put(s, i, y)[j] = s[j - 1]
      BY <2>0, <2>1, <2>4, <1>0
    <3> QED  BY <3>1, <3>2 DEF Between
  <2> QED  BY <2>0, <2>2, <2>3, <2>4, <1>0
<1> QED  BY <1>1, <1>2 DEF Between
-----------------------------------------------------------------------------
(***************************************************************************)
(* What one assignment of the command makes of the queue.                  *)
(***************************************************************************)

\* The queue without what lies between the places m and k.
Cut(s, m, k) ==
  [j \in 1 .. m + Len(s) + 1 - k |-> IF j <= m THEN s[j] ELSE s[j + k - m - 1]]

\* The head, or the link at place m, is set to p.
Pointed(r, s, m, p) ==
  IF m = 0 THEN [r EXCEPT !.head["ready"] = p] ELSE [r EXCEPT !.next[s[m]] = p]

\* What is in the queue after a cut.
LEMMA CutSeq ==
  ASSUME NEW s \in Seq(Pcbs), NEW m \in 0 .. Len(s), NEW k \in 1 .. Len(s) + 1, m < k
  PROVE  /\ Cut(s, m, k) \in Seq(Pcbs) /\ Len(Cut(s, m, k)) = m + Len(s) + 1 - k
         /\ Elems(Cut(s, m, k)) = {s[j] : j \in (1 .. m) \cup (k .. Len(s))}
<1>0. Len(s) \in Nat /\ m + Len(s) + 1 - k \in Nat
  OBVIOUS
<1> DEFINE t == Cut(s, m, k)
<1>1. t \in [1 .. m + Len(s) + 1 - k -> Pcbs]
  <2>1. ASSUME NEW j \in 1 .. m + Len(s) + 1 - k
        PROVE  (IF j <= m THEN s[j] ELSE s[j + k - m - 1]) \in Pcbs
    <3>1. CASE j <= m
      BY <3>1, <1>0
    <3>2. CASE j > m
      <4>1. j + k - m - 1 \in 1 .. Len(s)
        BY <3>2, <1>0
      <4> QED  BY <3>2, <4>1
    <3> QED  BY <3>1, <3>2
  <2> QED  BY <2>1 DEF Cut
<1>2. t \in Seq(Pcbs) /\ Len(t) = m + Len(s) + 1 - k
  BY <1>0, <1>1, FcnIsSeq
<1>3. ASSUME NEW j \in 1 .. m + Len(s) + 1 - k
      PROVE  t[j] = IF j <= m THEN s[j] ELSE s[j + k - m - 1]
  BY DEF Cut
<1> HIDE DEF t
<1>4. ASSUME NEW j \in 1 .. Len(t)
      PROVE  \E l \in (1 .. m) \cup (k .. Len(s)) : t[j] = s[l]
  <2>1. CASE j <= m
    <3>1. j \in 1 .. m /\ t[j] = s[j]
      BY <2>1, <1>2, <1>3, <1>0
    <3> QED  BY <3>1
  <2>2. CASE j > m
    <3>1. j + k - m - 1 \in k .. Len(s) /\ t[j] = s[j + k - m - 1]
      BY <2>2, <1>2, <1>3, <1>0
    <3> QED  BY <3>1
  <2> QED  BY <2>1, <2>2, <1>2, <1>0
<1>5. ASSUME NEW l \in (1 .. m) \cup (k .. Len(s))
      PROVE  \E j \in 1 .. Len(t) : t[j] = s[l]
  <2>1. CASE l \in 1 .. m
    <3>1. l \in 1 .. Len(t) /\ t[l] = s[l]
      BY <2>1, <1>2, <1>3, <1>0
    <3> QED  BY <3>1
  <2>2. CASE l \in k .. Len(s)
    <3>1. l + m + 1 - k \in 1 .. Len(t) /\ l + m + 1 - k > m
      BY <2>2, <1>2, <1>0
    <3>2. t[l + m + 1 - k] = s[l]
      <4>1. (l + m + 1 - k) + k - m - 1 = l
        BY <2>2, <1>0
      <4> QED  BY <3>1, <4>1, <1>2, <1>3
    <3> QED  BY <3>1, <3>2
  <2> QED  BY <2>1, <2>2
<1> DEFINE J == (1 .. m) \cup (k .. Len(s))
<1>6. Elems(t) = {s[j] : j \in J}
  <2>1. ASSUME NEW p \in Elems(t) PROVE p \in {s[j] : j \in J}
    BY <1>4 DEF Elems
  <2>2. ASSUME NEW l \in J PROVE s[l] \in Elems(t)
    BY <1>5 DEF Elems
  <2> QED  BY <2>1, <2>2
<1> QED  BY <1>2, <1>6 DEF t

\* Pointing from place m to place k cuts out what is between.
LEMMA CutList ==
  ASSUME NEW r \in Store, NEW s, List(r, r.head["ready"], s),
         NEW m \in 0 .. Len(s), NEW k \in 1 .. Len(s) + 1, m < k
  PROVE  LET u == Pointed(r, s, m, At(s, k))
         IN  u \in Store /\ List(u, u.head["ready"], Cut(s, m, k))
<1> DEFINE u == Pointed(r, s, m, At(s, k))
           t == Cut(s, m, k)
           L == m + Len(s) + 1 - k
<1>0. /\ s \in Seq(Pcbs) /\ Len(s) \in Nat /\ L \in Nat
      /\ \A j \in 1 .. Len(s) : s[j] \in Pcbs
      /\ \A i, j \in 1 .. Len(s) : s[i] = s[j] => i = j
      /\ r.head["ready"] = At(s, 1)
      /\ \A j \in 1 .. Len(s) : r.next[s[j]] = At(s, j + 1)
  BY DEF List
<1>1. At(s, k) \in PcbOrNull
  BY <1>0 DEF At, PcbOrNull
<1>2. t \in Seq(Pcbs) /\ Len(t) = L
  BY <1>0, CutSeq
<1>3. \A j \in 1 .. L : t[j] = IF j <= m THEN s[j] ELSE s[j + k - m - 1]
  BY DEF Cut
<1>4. u \in Store
  <2>1. m # 0 => s[m] \in Pcbs
    BY <1>0
  <2> QED  BY <1>1, <2>1 DEF Pointed, Store
<1>5. u.head["ready"] = IF m = 0 THEN At(s, k) ELSE At(s, 1)
  BY <1>0 DEF Pointed, Store
<1>6. ASSUME NEW j \in 1 .. Len(s)
      PROVE  u.next[s[j]] = IF j = m THEN At(s, k) ELSE At(s, j + 1)
  <2>1. CASE m = 0
    BY <2>1, <1>0 DEF Pointed
  <2>2. CASE m # 0
    <3>1. m \in 1 .. Len(s) /\ s[j] \in Pcbs /\ s[m] \in Pcbs
      BY <2>2, <1>0
    <3>2. u.next[s[j]] = IF s[j] = s[m] THEN At(s, k) ELSE r.next[s[j]]
      BY <2>2, <3>1 DEF Pointed, Store
    <3> QED  BY <3>1, <3>2, <1>0
  <2> QED  BY <2>1, <2>2
<1> HIDE DEF u, t
<1>7. ASSUME NEW i \in 1 .. L, NEW j \in 1 .. L, t[i] = t[j] PROVE i = j
  <2> DEFINE P(a) == IF a <= m THEN a ELSE a + k - m - 1
  <2>1. P(i) \in 1 .. Len(s) /\ P(j) \in 1 .. Len(s)
    BY <1>0
  <2>2. t[i] = s[P(i)] /\ t[j] = s[P(j)]
    BY <1>3
  <2>3. P(i) = P(j)
    BY <2>1, <2>2, <1>0, <1>7
  <2> QED  BY <2>3, <1>0
<1>8. u.head["ready"] = At(t, 1)
  <2>1. CASE m = 0
    <3>1. L >= 1 => t[1] = s[k]
      BY <2>1, <1>3, <1>0
    <3> QED  BY <2>1, <3>1, <1>5, <1>2, <1>0 DEF At
  <2>2. CASE m # 0
    <3>1. L >= 1 /\ t[1] = s[1] /\ 1 \in 1 .. Len(s)
      BY <2>2, <1>3, <1>0
    <3> QED  BY <2>2, <3>1, <1>5, <1>2, <1>0 DEF At
  <2> QED  BY <2>1, <2>2
<1>9. ASSUME NEW j \in 1 .. L PROVE u.next[t[j]] = At(t, j + 1)
  <2>1. CASE j < m
    <3>1. t[j] = s[j] /\ j \in 1 .. Len(s) /\ j + 1 \in 1 .. L /\ j + 1 \in 1 .. Len(s)
          /\ t[j + 1] = s[j + 1]
      BY <2>1, <1>3, <1>0
    <3> QED  BY <2>1, <3>1, <1>6, <1>2 DEF At
  <2>2. CASE j = m
    <3>1. t[j] = s[j] /\ j \in 1 .. Len(s)
      BY <2>2, <1>3, <1>0
    <3>2. u.next[t[j]] = At(s, k)
      BY <3>1, <2>2, <1>6
    <3>3. CASE k \in 1 .. Len(s)
      <4>1. j + 1 \in 1 .. L /\ t[j + 1] = s[k]
        BY <2>2, <3>3, <1>3, <1>0
      <4> QED  BY <3>2, <3>3, <4>1, <1>2 DEF At
    <3>4. CASE k = Len(s) + 1
      <4>1. j + 1 \notin 1 .. L
        BY <2>2, <3>4, <1>0
      <4> QED  BY <3>2, <3>4, <4>1, <1>2, <1>0 DEF At
    <3>5. k \in 1 .. Len(s) \/ k = Len(s) + 1
      <4>1. Len(s) \in Nat
        BY <1>0
      <4> QED  BY <4>1
    <3> QED  BY <3>3, <3>4, <3>5
  <2>3. CASE j > m
    <3> DEFINE l == j + k - m - 1
    <3>1. l \in 1 .. Len(s) /\ l # m /\ t[j] = s[l]
      BY <2>3, <1>3, <1>0
    <3>2. u.next[t[j]] = At(s, l + 1)
      BY <3>1, <1>6
    <3>3. CASE l < Len(s)
      <4>0. Len(s) \in Nat /\ l \in 1 .. Len(s)
        BY <1>0, <3>1
      <4>1. j + 1 \in 1 .. L /\ j + 1 > m /\ (j + 1) + k - m - 1 = l + 1 /\ l + 1 \in 1 .. Len(s)
        BY <2>3, <3>3, <4>0
      <4>2. t[j + 1] = s[l + 1]
        BY <4>1, <1>3
      <4> QED  BY <3>2, <4>1, <4>2, <1>2 DEF At
    <3>4. CASE l = Len(s)
      <4>1. j + 1 \notin 1 .. L /\ l + 1 \notin 1 .. Len(s)
        BY <2>3, <3>4, <1>0
      <4> QED  BY <3>2, <4>1, <1>2 DEF At
    <3>5. l < Len(s) \/ l = Len(s)
      <4>1. Len(s) \in Nat
        BY <1>0
      <4> QED  BY <3>1, <4>1
    <3> QED  BY <3>3, <3>4, <3>5
  <2> QED  BY <2>1, <2>2, <2>3, <1>0
<1>10. List(u, u.head["ready"], t)
  BY <1>2, <1>7, <1>8, <1>9 DEF List
<1> QED  BY <1>4, <1>10 DEF u, t

\* If p points to place k already, pointing from place m to p puts p in between.
LEMMA JoinList ==
  ASSUME NEW r \in Store, NEW s, List(r, r.head["ready"], s), NEW p \in Pcbs,
         p \notin Elems(s), NEW m \in 0 .. Len(s), NEW k \in 1 .. Len(s) + 1, m < k,
         r.next[p] = At(s, k)
  PROVE  LET u == Pointed(r, s, m, p)
         IN  u \in Store /\ List(u, u.head["ready"], Put(Cut(s, m, k), m, p))
<1> DEFINE c == Pointed(r, s, m, At(s, k))
           t == Cut(s, m, k)
           u == Pointed(r, s, m, p)
<1>0. s \in Seq(Pcbs) /\ Len(s) \in Nat /\ \A j \in 1 .. Len(s) : s[j] \in Pcbs
  BY DEF List
<1>1. c \in Store /\ List(c, c.head["ready"], t)
  BY CutList
<1>2. t \in Seq(Pcbs) /\ Len(t) = m + Len(s) + 1 - k
      /\ Elems(t) = {s[j] : j \in (1 .. m) \cup (k .. Len(s))}
  BY <1>0, CutSeq
<1>3. p \notin Elems(t) /\ m \in 0 .. Len(t)
  <2>1. \A j \in (1 .. m) \cup (k .. Len(s)) : j \in 1 .. Len(s)
    BY <1>0
  <2>2. p \notin Elems(t)
    BY <1>2, <2>1 DEF Elems
  <2>3. m \in 0 .. Len(t)
    BY <1>0, <1>2
  <2> QED  BY <2>2, <2>3
<1>4. m # 0 => t[m] = s[m] /\ s[m] \in Pcbs /\ s[m] # p
  BY <1>0 DEF Cut, Elems
<1>5. "ready" \in Queues
  BY DEF Queues
<1>6. LinkIn(c, p, "ready", t, m) \in Store
      /\ List(LinkIn(c, p, "ready", t, m), LinkIn(c, p, "ready", t, m).head["ready"], Put(t, m, p))
  <2> HIDE DEF c, t
  <2> QED  BY <1>1, <1>3, <1>5, LinkInList
<1>7. LinkIn(c, p, "ready", t, m) = u
  <2>0. /\ r.head \in [Queues -> PcbOrNull] /\ r.next \in [Pcbs -> PcbOrNull]
        /\ r = [head |-> r.head, next |-> r.next, state |-> r.state,
                priority |-> r.priority, name |-> r.name, hung |-> r.hung]
    BY DEF Store, Queues
  <2>1. CASE m = 0
    <3>1. c = [r EXCEPT !.head["ready"] = At(s, k)]
      BY <2>1 DEF Pointed
    <3>2. c.head["ready"] = At(s, k) /\ c.head = [r.head EXCEPT !["ready"] = At(s, k)]
          /\ c.next = r.next
      BY <3>1, <2>0, <1>5
    <3>3. LinkIn(c, p, "ready", t, m)
            = [c EXCEPT !.next = [r.next EXCEPT ![p] = At(s, k)],
                        !.head = [c.head EXCEPT !["ready"] = p]]
      BY <2>1, <3>2 DEF LinkIn
    <3>4. [r.next EXCEPT ![p] = At(s, k)] = r.next
      BY <2>0
    <3>5. [c.head EXCEPT !["ready"] = p] = [r.head EXCEPT !["ready"] = p]
      BY <3>2, <2>0
    <3>6. u = [r EXCEPT !.head = [r.head EXCEPT !["ready"] = p]]
      BY <2>1 DEF Pointed
    <3>7. LinkIn(c, p, "ready", t, m)
            = [c EXCEPT !.next = r.next, !.head = [r.head EXCEPT !["ready"] = p]]
      BY <3>3, <3>4, <3>5
    <3> HIDE DEF c, u, t
    <3> QED  BY <3>1, <3>6, <3>7, <2>0
  <2>2. CASE m # 0
    <3> DEFINE a == s[m]
    <3>0. a \in Pcbs /\ a # p /\ t[m] = a
      BY <2>2, <1>4
    <3>1. c = [r EXCEPT !.next[a] = At(s, k)]
      BY <2>2 DEF Pointed
    <3> HIDE DEF a
    <3>2. c.next = [r.next EXCEPT ![a] = At(s, k)] /\ c.next[a] = At(s, k)
      BY <3>0, <3>1, <2>0
    <3>3. LinkIn(c, p, "ready", t, m)
            = [c EXCEPT !.next = [[c.next EXCEPT ![p] = At(s, k)] EXCEPT ![a] = p]]
      BY <2>2, <3>0, <3>2 DEF LinkIn, LinkAfter
    <3>4. [[c.next EXCEPT ![p] = At(s, k)] EXCEPT ![a] = p] = [r.next EXCEPT ![a] = p]
      BY <3>0, <3>2, <2>0
    <3>5. u = [r EXCEPT !.next = [r.next EXCEPT ![a] = p]]
      BY <2>2 DEF Pointed, a
    <3> QED  BY <3>1, <3>3, <3>4, <3>5, <2>0
  <2> QED  BY <2>1, <2>2
<1> QED  BY <1>6, <1>7

\* What the walk along the ready queue meets.
LEMMA QueueElems ==
  ASSUME NEW r \in Store, NEW s, List(r, r.head["ready"], s)
  PROVE  InQueue(r) = Elems(s) /\ Walk(r, r.head["ready"])[N] = NULL
<1> DEFINE w == Walk(r, r.head["ready"])
<1>0. s \in Seq(Pcbs) /\ Len(s) \in 0 .. N /\ N \in Nat /\ Len(s) \in Nat
      /\ \A j \in 1 .. Len(s) : s[j] # NULL
  <2>1. s \in Seq(Pcbs)
    BY DEF List
  <2>2. Len(s) \in 0 .. N /\ N \in Nat
    BY ListShort, NType
  <2> QED  BY <2>1, <2>2, PcbAssumption
<1>1. \A i \in 0 .. N : w[i] = At(s, i + 1)
  BY ListWalk, StoreFields
<1>2. InQueue(r) = {w[i] : i \in 0 .. N} \ {NULL}
  BY DEF InQueue, N
<1> HIDE DEF w
<1>3. ASSUME NEW i \in 0 .. N, w[i] # NULL PROVE w[i] \in Elems(s)
  <2>1. i + 1 \in 1 .. Len(s) /\ w[i] = s[i + 1]
    BY <1>0, <1>1, <1>3 DEF At
  <2> QED  BY <2>1 DEF Elems
<1>4. ASSUME NEW j \in 1 .. Len(s) PROVE s[j] \in InQueue(r)
  <2>1. j - 1 \in 0 .. N /\ (j - 1) + 1 = j
    BY <1>0
  <2>2. w[j - 1] = s[j]
    BY <2>1, <1>1 DEF At
  <2> QED  BY <2>1, <2>2, <1>0, <1>2
<1>5. w[N] = NULL
  <2>1. N \in 0 .. N /\ N + 1 \notin 1 .. Len(s)
    BY <1>0
  <2> QED  BY <2>1, <1>1 DEF At
<1>6. InQueue(r) \subseteq Elems(s)
  BY <1>2, <1>3
<1>7. Elems(s) \subseteq InQueue(r)
  BY <1>4 DEF Elems
<1> QED  BY <1>5, <1>6, <1>7 DEF w
-----------------------------------------------------------------------------
(***************************************************************************)
(* The queue at the beginning.                                             *)
(***************************************************************************)

\* Inserting the processes of seq one after the other gives a queue of them.
LEMMA QueuedIs ==
  ASSUME NEW prio \in [Pcbs -> Priorities], NEW seq \in Seq(Pcbs),
         \A i, j \in 1 .. Len(seq) : seq[i] = seq[j] => i = j
  PROVE  LET r == Queued(prio, seq)
         IN  /\ r \in Store /\ ~r.hung
             /\ \A p \in Pcbs : r.state[p] = READY_STATE
             /\ \E s : List(r, r.head["ready"], s) /\ Elems(s) = Elems(seq)
<1> DEFINE L == Len(seq)
           First == Ready(prio)
           Body(f) == [n \in 0 .. L |-> IF n = 0 THEN First ELSE pcb_insert(f[n - 1], seq[n])]
           Steps(k, f) == /\ f[0] = First
                          /\ \A i \in 1 .. k : f[i] = pcb_insert(f[i - 1], seq[i])
           K == {k \in 0 .. L : \E f \in [0 .. k -> Store] : Steps(k, f)}
<1>0. L \in Nat /\ \A i \in 1 .. L : seq[i] \in Pcbs
  OBVIOUS
<1>1. /\ First \in Store /\ ~First.hung /\ First.head["ready"] = NULL
      /\ First.state = [p \in Pcbs |-> READY_STATE]
  <2>1. prio \in [Pcbs -> -1 .. 9]
    <3>1. Priorities \subseteq -1 .. 9
      BY InsertRaceAssumption
    <3> QED  BY <3>1
  <2>2. [p \in Pcbs |-> READY_STATE] \in [Pcbs -> -1 .. 3]
    BY DEF READY_STATE
  <2> QED  BY <2>1, <2>2 DEF Ready, NoPcbs, Store, PcbOrNull
<1>2. ASSUME NEW r \in Store, NEW p \in Pcbs PROVE pcb_insert(r, p) \in Store
  <2>1. Closed(r, Pcbs)
    BY DEF Closed, Store, PcbOrNull, Queues
  <2>2. Pcbs \in SUBSET Pcbs
    OBVIOUS
  <2>3. Closed(pcb_insert(r, p), Pcbs)
    BY <2>1, <2>2, InsertClosed
  <2> QED  BY <2>3 DEF Closed
<1> HIDE DEF First
<1>3. 0 \in K
  <2>1. [i \in 0 .. 0 |-> First] \in [0 .. 0 -> Store] /\ Steps(0, [i \in 0 .. 0 |-> First])
    BY <1>1
  <2>2. 0 \in 0 .. L
    BY <1>0
  <2> QED  BY <2>1, <2>2
<1>4. ASSUME NEW k \in 0 .. L - 1, k \in K PROVE k + 1 \in K
  <2>1. PICK f \in [0 .. k -> Store] : Steps(k, f)
    BY <1>4
  <2> DEFINE z == pcb_insert(f[k], seq[k + 1])
             g == [i \in 0 .. k + 1 |-> IF i <= k THEN f[i] ELSE z]
  <2>2. z \in Store
    <3>1. f[k] \in Store /\ seq[k + 1] \in Pcbs
      BY <1>0
    <3> QED  BY <3>1, <1>2
  <2>3. g \in [0 .. k + 1 -> Store]
    <3> HIDE DEF z
    <3>1. \A i \in 0 .. k + 1 : (IF i <= k THEN f[i] ELSE z) \in Store
      BY <2>2
    <3> QED  BY <3>1
  <2>4. Steps(k + 1, g)
    <3>1. g[0] = First
      BY <2>1
    <3>2. ASSUME NEW i \in 1 .. k + 1 PROVE g[i] = pcb_insert(g[i - 1], seq[i])
      <4>1. CASE i <= k
        <5>1. g[i] = f[i] /\ g[i - 1] = f[i - 1] /\ i \in 1 .. k
          BY <4>1
        <5> QED  BY <5>1, <2>1
      <4>2. CASE i = k + 1
        <5>1. g[i] = z /\ g[i - 1] = f[k]
          BY <4>2
        <5> QED  BY <5>1, <4>2
      <4> QED  BY <4>1, <4>2
    <3> QED  BY <3>1, <3>2
  <2>5. k + 1 \in 0 .. L
    BY <1>0
  <2> HIDE DEF g, Steps
  <2> QED  BY <2>3, <2>4, <2>5
<1>5. L \in K
  <2>1. L \in 0 .. L
    BY <1>0
  <2> HIDE DEF K
  <2> QED  BY <1>0, <1>3, <1>4, <2>1, CountUp
<1>6. PICK f \in [0 .. L -> Store] : Steps(L, f)
  BY <1>5
<1>7. f = Body(f)
  BY <1>0, <1>6
<1> DEFINE ins == CHOOSE u : u = Body(u)
<1>8. Queued(prio, seq) = ins[L]
  BY DEF Queued, First
<1>9. ins = Body(ins)
  <2> HIDE DEF Body
  <2> QED  BY <1>7
<1> HIDE DEF ins
<1>10. ins[0] = First /\ \A i \in 1 .. L : ins[i] = pcb_insert(ins[i - 1], seq[i])
  <2>1. ASSUME NEW i \in 0 .. L PROVE ins[i] = Body(ins)[i]
    BY <1>9
  <2>2. ins[0] = First
    BY <1>0, <2>1
  <2>3. ASSUME NEW i \in 1 .. L PROVE ins[i] = pcb_insert(ins[i - 1], seq[i])
    <3>1. i \in 0 .. L /\ i # 0
      OBVIOUS
    <3> QED  BY <2>1, <3>1
  <2> QED  BY <2>2, <2>3
<1> DEFINE Upto(i) == {seq[j] : j \in 1 .. i}
           Fine(i, r, s) == /\ r \in Store /\ ~r.hung
                            /\ \A p \in Pcbs : r.state[p] = READY_STATE
                            /\ List(r, r.head["ready"], s) /\ Elems(s) = Upto(i)
           I == {i \in 0 .. L : \E s : Fine(i, ins[i], s)}
<1>11. 0 \in I
  <2>1. List(First, NULL, << >>)
    BY NoList
  <2>2. Elems(<< >>) = Upto(0)
    BY DEF Elems
  <2>3. Fine(0, First, << >>)
    BY <1>1, <2>1, <2>2
  <2>4. 0 \in 0 .. L
    BY <1>0
  <2> HIDE DEF Fine
  <2> QED  BY <2>3, <2>4, <1>10
<1>12. ASSUME NEW i \in 0 .. L - 1, i \in I PROVE i + 1 \in I
  <2> DEFINE r == ins[i]
             p == seq[i + 1]
             z == pcb_insert(r, p)
  <2>1. PICK s : Fine(i, r, s)
    BY <1>12
  <2>2. i + 1 \in 1 .. L /\ i + 1 \in 0 .. L /\ (i + 1) - 1 = i
    BY <1>0
  <2>3. p \in Pcbs /\ ins[i + 1] = z
    BY <2>2, <1>0, <1>10
  <2>4. p \notin Elems(s)
    <3>1. \A j \in 1 .. i : j \in 1 .. L /\ j # i + 1
      BY <1>0
    <3>2. \A j \in 1 .. i : seq[j] # p
      BY <3>1, <2>2
    <3> QED  BY <3>2, <2>1
  <2>5. r \in Store /\ ~r.hung /\ r.state[p] = READY_STATE /\ List(r, r.head["ready"], s)
    BY <2>1, <2>3
  <2> HIDE DEF r, p
  <2>6. /\ z \in Store /\ ~z.hung /\ z.state = r.state
        /\ \E l \in 0 .. Len(s) : List(z, z.head["ready"], Put(s, l, p))
    BY <2>3, <2>4, <2>5, ReadyInsert
  <2>7. PICK l \in 0 .. Len(s) : List(z, z.head["ready"], Put(s, l, p))
    BY <2>6
  <2>8. Elems(Put(s, l, p)) = Elems(s) \cup {p}
    <3>1. s \in Seq(Pcbs)
      BY <2>5 DEF List
    <3> QED  BY <3>1, <2>3, PutSeq
  <2>9. Upto(i + 1) = Upto(i) \cup {p}
    <3>1. \A j \in 1 .. i + 1 : j \in 1 .. i \/ j = i + 1
      BY <1>0
    <3>2. (1 .. i) \cup {i + 1} \subseteq 1 .. i + 1
      BY <1>0
    <3> QED  BY <3>1, <3>2 DEF p
  <2>10. Fine(i + 1, z, Put(s, l, p))
    <3>1. Elems(s) = Upto(i) /\ \A pp \in Pcbs : r.state[pp] = READY_STATE
      BY <2>1
    <3> QED  BY <2>6, <2>7, <2>8, <2>9, <3>1
  <2> HIDE DEF Fine, z
  <2> QED  BY <2>2, <2>3, <2>10
<1>13. L \in I
  <2>1. L \in 0 .. L
    BY <1>0
  <2> HIDE DEF I
  <2> QED  BY <1>0, <1>11, <1>12, <2>1, CountUp
<1>14. PICK s : Fine(L, ins[L], s)
  BY <1>13
<1>15. Upto(L) = Elems(seq)
  BY DEF Elems
<1> QED  BY <1>8, <1>14, <1>15

\* Before the first step the queue is a list.
LEMMA RaceInit == Init => RaceInv
<1> SUFFICES ASSUME Init PROVE RaceInv
  OBVIOUS
<1>0. /\ Old \in Seq(Pcbs) /\ x \in Pcbs /\ Len(Old) \in Nat /\ DOMAIN Old = 1 .. Len(Old)
      /\ \A i, j \in 1 .. Len(Old) : Old[i] = Old[j] => i = j
      /\ \A i \in 1 .. Len(Old) : Old[i] \in Pcbs /\ Old[i] # x
  <2>1. Old \in Seq(Pcbs)
    BY InsertRaceAssumption
  <2>2. DOMAIN Old = 1 .. Len(Old) /\ Len(Old) \in Nat
    BY <2>1
  <2> QED  BY <2>1, <2>2, InsertRaceAssumption
<1>1. PICK prio \in [Pcbs -> Priorities] :
        IF op = "insert"
        THEN \E n \in 0 .. Len(Old) : q = Queued(prio, SubSeq(Old, 1, n))
        ELSE q = Queued(prio, Append(Old, x))
  BY DEF Init
<1>2. \E seq \in Seq(Pcbs) : /\ q = Queued(prio, seq)
                             /\ \A i, j \in 1 .. Len(seq) : seq[i] = seq[j] => i = j
                             /\ x \in Elems(seq) <=> op = "remove"
  <2>1. CASE op = "insert"
    <3>1. PICK n \in 0 .. Len(Old) : q = Queued(prio, SubSeq(Old, 1, n))
      BY <1>1, <2>1
    <3> DEFINE seq == SubSeq(Old, 1, n)
    <3>2. seq \in Seq(Pcbs) /\ Len(seq) = n /\ \A i \in 1 .. n : seq[i] = Old[i]
      <4>1. seq \in Seq(Pcbs) /\ Len(seq) = n
        BY <1>0
      <4>2. \A i \in 1 .. n : seq[i] = Old[i]
        BY <1>0
      <4> QED  BY <4>1, <4>2
    <3> HIDE DEF seq
    <3>3. \A i \in 1 .. n : i \in 1 .. Len(Old)
      BY <1>0
    <3>4. \A i, j \in 1 .. Len(seq) : seq[i] = seq[j] => i = j
      BY <1>0, <3>2, <3>3
    <3>5. x \notin Elems(seq)
      BY <1>0, <3>2, <3>3 DEF Elems
    <3> QED  BY <2>1, <3>1, <3>2, <3>4, <3>5 DEF seq
  <2>2. CASE op # "insert"
    <3> DEFINE seq == Append(Old, x)
    <3>1. q = Queued(prio, seq) /\ op = "remove"
      BY <1>1, <2>2 DEF Init
    <3>2. /\ seq \in Seq(Pcbs) /\ Len(seq) = Len(Old) + 1
          /\ \A i \in 1 .. Len(Old) : seq[i] = Old[i]
          /\ seq[Len(Old) + 1] = x
      BY <1>0
    <3> HIDE DEF seq
    <3>3. ASSUME NEW i \in 1 .. Len(seq), NEW j \in 1 .. Len(seq), seq[i] = seq[j]
          PROVE  i = j
      <4>1. i \in 1 .. Len(Old) \/ i = Len(Old) + 1
        BY <1>0, <3>2
      <4>2. j \in 1 .. Len(Old) \/ j = Len(Old) + 1
        BY <1>0, <3>2
      <4> QED  BY <4>1, <4>2, <3>2, <3>3, <1>0
    <3>4. x \in Elems(seq)
      <4>1. Len(Old) + 1 \in 1 .. Len(seq)
        BY <1>0, <3>2
      <4> QED  BY <4>1, <3>2 DEF Elems
    <3> QED  BY <3>1, <3>2, <3>3, <3>4
  <2> QED  BY <2>1, <2>2
<1>3. PICK seq \in Seq(Pcbs) : /\ q = Queued(prio, seq)
                               /\ \A i, j \in 1 .. Len(seq) : seq[i] = seq[j] => i = j
                               /\ x \in Elems(seq) <=> op = "remove"
  BY <1>2
<1>4. /\ q \in Store /\ ~q.hung /\ \A p \in Pcbs : q.state[p] = READY_STATE
      /\ \E s : List(q, q.head["ready"], s) /\ Elems(s) = Elems(seq)
  BY <1>3, QueuedIs
<1>5. PICK s : List(q, q.head["ready"], s) /\ Elems(s) = Elems(seq)
  BY <1>4
<1>6. before = q /\ alone = TRUE /\ at = "begin" /\ op \in {"insert", "remove"}
  BY DEF Init
<1>7. Stores
  BY <1>4, <1>6 DEF Stores
<1>8. Others \subseteq Elems(s)
  BY <1>4, <1>5, <1>6, QueueElems DEF Others
<1>9. Where(s)
  BY <1>3, <1>5, <1>6 DEF Where
<1>10. Undisturbed(s)
  BY <1>5, <1>6 DEF Undisturbed
<1>11. Race(s)
  BY <1>5, <1>8, <1>9, <1>10 DEF Race, ready_head
<1> QED  BY <1>7, <1>11 DEF RaceInv
-----------------------------------------------------------------------------
(***************************************************************************)
(* The steps of the command that only read.                                *)
(***************************************************************************)

\* What the list gives to every step.
LEMMA RaceFacts ==
  ASSUME Stores, NEW s, Race(s)
  PROVE  /\ s \in Seq(Pcbs) /\ Len(s) \in Nat /\ x \in Pcbs
         /\ \A j \in 1 .. Len(s) : s[j] \in Pcbs /\ s[j] # NULL /\ s[j] \in Elems(s)
         /\ \A i, j \in 1 .. Len(s) : s[i] = s[j] => i = j
         /\ ready_head = At(s, 1)
         /\ \A j \in 1 .. Len(s) : q.next[s[j]] = At(s, j + 1)
         /\ \A p \in Pcbs : before.priority[p] \in Int /\ q.priority[p] = before.priority[p]
         /\ List(q, q.head["ready"], s)
<1>1. List(q, ready_head, s)
  BY DEF Race
<1>2. s \in Seq(Pcbs) /\ Len(s) \in Nat /\ \A j \in 1 .. Len(s) : s[j] \in Pcbs
  BY <1>1 DEF List
<1>3. /\ \A i, j \in 1 .. Len(s) : s[i] = s[j] => i = j
      /\ ready_head = At(s, 1)
      /\ \A j \in 1 .. Len(s) : q.next[s[j]] = At(s, j + 1)
  BY <1>1 DEF List
<1>4. x \in Pcbs
  BY InsertRaceAssumption
<1>5. \A p \in Pcbs : before.priority[p] \in Int /\ q.priority[p] = before.priority[p]
  <2>1. before.priority \in [Pcbs -> -1 .. 9]
    BY StoreFields DEF Stores
  <2> QED  BY <2>1 DEF Stores
<1>6. \A j \in 1 .. Len(s) : s[j] \in Elems(s)
  BY DEF Elems
<1> QED  BY <1>1, <1>2, <1>3, <1>4, <1>5, <1>6, PcbAssumption DEF ready_head

\* A step that leaves the store alone only has to show where the command is.
LEMMA QuietStep ==
  ASSUME Stores, NEW s, Race(s), UNCHANGED <<q, op, before, alone>>,
         at # "done", at' # "done",
         ~(op = "insert" /\ at \in {"set_head", "link_prev"}), Where(s)'
  PROVE  Stores' /\ Race(s)'
<1>1. Stores'
  BY DEF Stores
<1>2. Others' = Others
  BY DEF Others, InQueue
<1>3. List(q, ready_head, s)'
  BY DEF Race, ready_head, List
<1>4. ASSUME alone' PROVE Undisturbed(s)'
  <2>1. alone
    BY <1>4
  <2>2. List(before, before.head["ready"], s) /\ q = before
    BY <2>1 DEF Race, Undisturbed
  <2>3. List(before, before.head["ready"], s)'
    BY <2>2 DEF List
  <2> QED  BY <2>2, <2>3 DEF Undisturbed
<1> QED  BY <1>1, <1>2, <1>3, <1>4 DEF Race

\* pcb_insert begins: x goes to the front, or the head is the first prev.
LEMMA RaceInsertBegin ==
  ASSUME Stores, NEW s, Race(s), InsertBegin PROVE Stores' /\ Race(s)'
<1>0. UNCHANGED <<q, op, before, alone>> /\ at = "begin" /\ op = "insert"
  BY DEF InsertBegin
<1>1. x \notin Elems(s)
  BY <1>0 DEF Race, Where
<1>2. CASE Frontmost
  <2>1. at' = "link_head"
    BY <1>2 DEF InsertBegin
  <2>2. Worse(s, 0)
    BY <1>2, RaceFacts DEF Worse, Frontmost, At
  <2>3. Worse(s, 0)'
    BY <2>2, <1>0 DEF Worse
  <2>4. Where(s)'
    BY <1>0, <1>1, <2>1, <2>3 DEF Where
  <2> QED  BY <1>0, <2>1, <2>4, QuietStep
<1>3. CASE ~Frontmost
  <2>1. at' = "find_place" /\ prev' = ready_head
    BY <1>3 DEF InsertBegin
  <2>2. 1 \in 1 .. Len(s) /\ ready_head = s[1]
    BY <1>3, RaceFacts DEF Frontmost, At
  <2>3. Good(s, 1)
    <3>1. s[1] \in Pcbs /\ ~(q.priority[x] < q.priority[s[1]])
      BY <1>3, <2>2, RaceFacts DEF Frontmost
    <3>2. before.priority[s[1]] <= before.priority[x]
      BY <3>1, RaceFacts
    <3> QED  BY <3>2 DEF Good
  <2>4. Good(s, 1)'
    BY <2>3, <1>0 DEF Good
  <2>5. Looking(s)'
    BY <1>0, <1>1, <2>1, <2>2, <2>4 DEF Looking
  <2>6. Where(s)'
    BY <2>1, <2>5 DEF Where
  <2> QED  BY <1>0, <2>1, <2>6, QuietStep
<1> QED  BY <1>2, <1>3

\* The test of pcb_insert's loop.
LEMMA RaceFindPlace ==
  ASSUME Stores, NEW s, Race(s), FindPlace PROVE Stores' /\ Race(s)'
<1>0. UNCHANGED <<q, op, before, alone, prev>> /\ at = "find_place"
      /\ at' = IF GoesOn THEN "advance" ELSE "link"
  BY DEF FindPlace
<1>1. Looking(s)
  BY <1>0 DEF Race, Where
<1>2. PICK m \in 1 .. Len(s) : prev = s[m] /\ (alone => Good(s, m))
  BY <1>1 DEF Looking
<1>3. q.next[prev] = At(s, m + 1) /\ Len(s) \in Nat
  BY <1>2, RaceFacts
<1>4. op = "insert" /\ x \notin Elems(s)
  BY <1>1 DEF Looking
<1>5. (alone => Good(s, m))'
  BY <1>0, <1>2 DEF Good
<1>6. CASE GoesOn
  <2>1. m < Len(s) /\ m + 1 \in 1 .. Len(s) /\ q.next[prev] = s[m + 1]
    BY <1>3, <1>6 DEF GoesOn, At
  <2>2. before.priority[s[m + 1]] <= before.priority[x]
    <3>1. q.priority[x] >= q.priority[s[m + 1]] /\ s[m + 1] \in Pcbs
      BY <1>6, <2>1, RaceFacts DEF GoesOn
    <3> QED  BY <3>1, RaceFacts
  <2>3. alone => Good(s, m + 1)
    <3>1. \A j \in 1 .. m + 1 : j \in 1 .. m \/ j = m + 1
      BY <1>3
    <3> QED  BY <1>2, <2>2, <3>1 DEF Good
  <2>4. (alone => Good(s, m + 1))'
    BY <1>0, <2>3 DEF Good
  <2>5. Looking(s)'
    BY <1>0, <1>2, <1>4, <1>5, <1>6, <2>1, <2>4 DEF Looking
  <2>6. Where(s)'
    BY <1>0, <1>6, <2>5 DEF Where
  <2> QED  BY <1>0, <1>6, <2>6, QuietStep
<1>7. CASE ~GoesOn
  <2>1. Worse(s, m)
    <3> SUFFICES ASSUME m < Len(s) PROVE before.priority[x] < before.priority[s[m + 1]]
      BY DEF Worse
    <3>1. m + 1 \in 1 .. Len(s) /\ q.next[prev] = s[m + 1]
      BY <1>3 DEF At
    <3>2. s[m + 1] # NULL /\ s[m + 1] \in Pcbs
      BY <3>1, RaceFacts
    <3>3. ~(q.priority[x] >= q.priority[s[m + 1]])
      BY <1>7, <3>1, <3>2 DEF GoesOn
    <3> QED  BY <3>2, <3>3, RaceFacts
  <2>2. Worse(s, m)'
    BY <1>0, <2>1 DEF Worse
  <2>3. Looking(s)'
    BY <1>0, <1>2, <1>4, <1>5, <1>7, <2>2 DEF Looking
  <2>4. Where(s)'
    BY <1>0, <1>7, <2>3 DEF Where
  <2> QED  BY <1>0, <1>7, <2>4, QuietStep
<1> QED  BY <1>6, <1>7

\* The interrupt can only have put more behind prev, so there is a next one.
LEMMA RaceAdvance ==
  ASSUME Stores, NEW s, Race(s), Advance PROVE Stores' /\ Race(s)'
<1>0. UNCHANGED <<q, op, before, alone>> /\ at = "advance" /\ at' = "find_place"
      /\ prev' = q.next[prev]
  BY DEF Advance, NextOf
<1>1. Looking(s)
  BY <1>0 DEF Race, Where
<1>2. PICK m \in 1 .. Len(s) : prev = s[m] /\ m < Len(s) /\ (alone => Good(s, m + 1))
  BY <1>0, <1>1 DEF Looking
<1>3. q.next[prev] = At(s, m + 1) /\ Len(s) \in Nat
  BY <1>2, RaceFacts
<1>4. m + 1 \in 1 .. Len(s) /\ prev' = s[m + 1]
  BY <1>0, <1>2, <1>3 DEF At
<1>5. (alone => Good(s, m + 1))'
  BY <1>0, <1>2 DEF Good
<1>6. op = "insert" /\ x \notin Elems(s)
  BY <1>1 DEF Looking
<1>7. Looking(s)'
  BY <1>0, <1>4, <1>5, <1>6 DEF Looking
<1>8. Where(s)'
  BY <1>0, <1>7 DEF Where
<1> QED  BY <1>0, <1>8, QuietStep

\* pcb_remove begins: x is the head, or behind it.
LEMMA RaceRemoveBegin ==
  ASSUME Stores, NEW s, Race(s), RemoveBegin PROVE Stores' /\ Race(s)'
<1>0. UNCHANGED <<q, op, before, alone>> /\ at = "begin" /\ op = "remove"
      /\ prev' = ready_head /\ at' = IF ready_head = x THEN "read_next" ELSE "search"
  BY DEF RemoveBegin
<1>1. x \in Elems(s)
  BY <1>0 DEF Race, Where
<1>2. PICK n \in 1 .. Len(s) : x = s[n]
  BY <1>1 DEF Elems
<1>3. 1 \in 1 .. Len(s) /\ ready_head = s[1] /\ Len(s) \in Nat
  BY <1>2, RaceFacts DEF At
<1>4. CASE ready_head = x
  <2>1. n = 1
    BY <1>2, <1>3, <1>4, RaceFacts
  <2>2. Between(s, 0, 1)'
    BY DEF Between
  <2>3. Behind(s, 0, prev = x)'
    BY <1>0, <1>4 DEF Behind
  <2>4. 0 \in 0 .. Len(s) /\ 0 < 1 /\ 1 = 0 + 1
    BY <1>3
  <2>5. Found(s)'
    BY <1>0, <1>2, <1>3, <2>1, <2>2, <2>3, <2>4 DEF Found
  <2>6. Where(s)'
    BY <1>0, <1>4, <2>5 DEF Where
  <2> QED  BY <1>0, <1>4, <2>6, QuietStep
<1>5. CASE ready_head # x
  <2>1. 1 < n
    BY <1>2, <1>3, <1>5
  <2>2. Searching(s)'
    BY <1>0, <1>2, <1>3, <1>5, <2>1 DEF Searching
  <2>3. Where(s)'
    BY <1>0, <1>5, <2>2 DEF Where
  <2> QED  BY <1>0, <1>5, <2>3, QuietStep
<1> QED  BY <1>4, <1>5

\* The test of pcb_remove's loop.
LEMMA RaceFindBefore ==
  ASSUME Stores, NEW s, Race(s), FindBefore PROVE Stores' /\ Race(s)'
<1>0. UNCHANGED <<q, op, before, alone, prev>> /\ at = "search"
      /\ at' = IF q.next[prev] # x THEN "step" ELSE "read_next"
  BY DEF FindBefore
<1>1. Searching(s)
  BY <1>0 DEF Race, Where
<1>2. PICK m \in 1 .. Len(s), n \in 1 .. Len(s) : prev = s[m] /\ x = s[n] /\ m < n
  BY <1>1 DEF Searching
<1>3. Len(s) \in Nat /\ m + 1 \in 1 .. Len(s) /\ q.next[prev] = s[m + 1] /\ op = "remove"
  BY <1>1, <1>2, RaceFacts DEF At, Searching
<1>4. CASE q.next[prev] # x
  <2>1. m + 1 < n
    BY <1>2, <1>3, <1>4
  <2>2. Searching(s)'
    BY <1>0, <1>2, <1>3, <1>4, <2>1 DEF Searching
  <2>3. Where(s)'
    BY <1>0, <1>4, <2>2 DEF Where
  <2> QED  BY <1>0, <1>4, <2>3, QuietStep
<1>5. CASE q.next[prev] = x
  <2>1. n = m + 1
    BY <1>2, <1>3, <1>5, RaceFacts
  <2>2. Between(s, m, n)'
    BY <2>1, <1>3 DEF Between
  <2>3. prev # x
    BY <1>2, RaceFacts
  <2>4. Behind(s, m, prev = x)'
    BY <1>0, <1>2, <1>3, <2>3 DEF Behind
  <2>5. m \in 0 .. Len(s)
    BY <1>3
  <2>6. Found(s)'
    BY <1>0, <1>2, <1>3, <2>1, <2>2, <2>4, <2>5 DEF Found
  <2>7. Where(s)'
    BY <1>0, <1>5, <2>6 DEF Where
  <2> QED  BY <1>0, <1>5, <2>7, QuietStep
<1> QED  BY <1>4, <1>5

\* x was not next to prev and cannot have come closer.
LEMMA RaceStep ==
  ASSUME Stores, NEW s, Race(s), Step PROVE Stores' /\ Race(s)'
<1>0. UNCHANGED <<q, op, before, alone>> /\ at = "step" /\ at' = "search"
      /\ prev' = q.next[prev]
  BY DEF Step
<1>1. Searching(s)
  BY <1>0 DEF Race, Where
<1>2. PICK m \in 1 .. Len(s), n \in 1 .. Len(s) :
        prev = s[m] /\ x = s[n] /\ m < n /\ m + 1 < n
  BY <1>0, <1>1 DEF Searching
<1>3. Len(s) \in Nat /\ m + 1 \in 1 .. Len(s) /\ q.next[prev] = s[m + 1] /\ op = "remove"
  BY <1>1, <1>2, RaceFacts DEF At, Searching
<1>4. Searching(s)'
  BY <1>0, <1>2, <1>3 DEF Searching
<1>5. Where(s)'
  BY <1>0, <1>4 DEF Where
<1> QED  BY <1>0, <1>5, QuietStep

\* What comes behind x is read.
LEMMA RaceReadNext ==
  ASSUME Stores, NEW s, Race(s), ReadNext PROVE Stores' /\ Race(s)'
<1>0. UNCHANGED <<q, op, before, alone, prev>> /\ at = "read_next"
      /\ reg' = q.next[x] /\ at' = IF prev = x THEN "set_head" ELSE "unlink"
  BY DEF ReadNext
<1>1. Found(s)
  BY <1>0 DEF Race, Where
<1>2. PICK m \in 0 .. Len(s), n \in 1 .. Len(s) :
        /\ m < n /\ x = s[n] /\ Behind(s, m, prev = x) /\ Between(s, m, n)
        /\ alone => n = m + 1
  BY <1>1 DEF Found
<1>3. Len(s) \in Nat /\ n + 1 \in 1 .. Len(s) + 1 /\ q.next[x] = At(s, n + 1)
      /\ op = "remove"
  BY <1>1, <1>2, RaceFacts DEF Found
<1>4. Between(s, m, n + 1)
  <2>1. \A j \in m + 1 .. n : j \in m + 1 .. n - 1 \/ j = n
    BY <1>3
  <2>2. (n + 1) - 1 = n
    BY <1>3
  <2>3. x \notin Others
    BY DEF Others
  <2> QED  BY <1>2, <2>1, <2>2, <2>3 DEF Between
<1>5. Between(s, m, n + 1)'
  <2>1. Others' = Others
    BY <1>0 DEF Others, InQueue
  <2> QED  BY <1>4, <2>1 DEF Between
<1>6. Behind(s, m, at = "set_head")'
  BY <1>0, <1>2 DEF Behind
<1>7. n < n + 1
  BY <1>3
<1>8. Leaving(s)'
  BY <1>0, <1>2, <1>3, <1>5, <1>6, <1>7 DEF Leaving
<1>9. Where(s)' /\ at' # "done"
  BY <1>0, <1>8 DEF Where
<1> QED  BY <1>0, <1>9, QuietStep
-----------------------------------------------------------------------------
(***************************************************************************)
(* The steps of the command that write.                                    *)
(***************************************************************************)

\* Writing the link of a process that is not in the queue.
LEMMA LinkOfX ==
  ASSUME Stores, NEW s, Race(s), x \notin Elems(s), NEW v \in PcbOrNull,
         q' = [q EXCEPT !.next[x] = v], UNCHANGED <<op, before, alone>>
  PROVE  /\ Stores' /\ List(q, ready_head, s)' /\ Others' = Others
         /\ q'.next[x] = v
         /\ q = before => q' = [before EXCEPT !.next[x] = q'.next[x]]
<1>0. /\ q \in Store /\ q.next \in [Pcbs -> PcbOrNull] /\ x \in Pcbs
  BY RaceFacts, StoreFields DEF Stores
<1>1. /\ q' \in Store /\ q'.next = [q.next EXCEPT ![x] = v] /\ q'.head = q.head
      /\ q'.state = q.state /\ q'.priority = q.priority /\ q'.hung = q.hung
  BY <1>0 DEF Store
<1>2. Stores'
  BY <1>1 DEF Stores
<1>3. q'.next[x] = v /\ \A p \in Elems(s) : q'.next[p] = q.next[p]
  <2>1. Elems(s) \subseteq Pcbs
    BY RaceFacts DEF Elems
  <2>2. \A p \in Pcbs : q'.next[p] = IF p = x THEN v ELSE q.next[p]
    BY <1>0, <1>1
  <2> QED  BY <1>0, <2>1, <2>2
<1>4. List(q', q.head["ready"], s)
  BY <1>3, RaceFacts, SameList
<1>5. Others' = Others
  BY DEF Others, InQueue
<1>6. q = before => q' = [before EXCEPT !.next[x] = q'.next[x]]
  BY <1>3
<1> QED  BY <1>1, <1>2, <1>3, <1>4, <1>5, <1>6 DEF ready_head, List

\* The link of x is set to the place k behind the place m.
LEMMA XLinked ==
  ASSUME Stores, NEW s, Race(s), op = "insert", x \notin Elems(s),
         NEW m \in 0 .. Len(s), at \in {"link_head", "link"},
         q' = [q EXCEPT !.next[x] = At(s, m + 1)], UNCHANGED <<op, before, alone, prev>>,
         at' = IF m = 0 THEN "set_head" ELSE "link_prev", m # 0 => prev = s[m],
         alone => Good(s, m) /\ Worse(s, m)
  PROVE  Stores' /\ Race(s)'
<1>0. Len(s) \in Nat /\ At(s, m + 1) \in PcbOrNull
  BY RaceFacts DEF At, PcbOrNull
<1>1. /\ Stores' /\ List(q, ready_head, s)' /\ Others' = Others
      /\ q'.next[x] = At(s, m + 1)
      /\ q = before => q' = [before EXCEPT !.next[x] = q'.next[x]]
  BY <1>0, LinkOfX
<1>2. Between(s, m, m + 1)'
  BY <1>0 DEF Between
<1>3. Behind(s, m, at = "set_head")'
  BY <1>0 DEF Behind
<1>4. (alone => Good(s, m) /\ Worse(s, m))'
  BY DEF Good, Worse
<1>5. m + 1 \in 1 .. Len(s) + 1 /\ m < m + 1
  BY <1>0
<1>6. Joining(s)'
  BY <1>1, <1>2, <1>3, <1>4, <1>5 DEF Joining
<1>7. Where(s)'
  BY <1>6 DEF Where
<1>8. ASSUME alone' PROVE Undisturbed(s)'
  <2>1. List(before, before.head["ready"], s) /\ q = before
    BY <1>8 DEF Race, Undisturbed
  <2>2. List(before, before.head["ready"], s)'
    BY <2>1 DEF List
  <2>3. q' = [before' EXCEPT !.next[x] = q'.next[x]]
    BY <2>1, <1>1
  <2> QED  BY <2>2, <2>3 DEF Undisturbed
<1>9. Others \subseteq Elems(s)
  BY DEF Race
<1> QED  BY <1>1, <1>7, <1>8, <1>9 DEF Race

\* x is linked to the head.
LEMMA RaceLinkHead ==
  ASSUME Stores, NEW s, Race(s), LinkHead PROVE Stores' /\ Race(s)'
<1>1. /\ at = "link_head" /\ at' = "set_head" /\ UNCHANGED <<op, before, alone, prev>>
      /\ q' = [q EXCEPT !.next[x] = ready_head]
  BY DEF LinkHead, SetNext
<1>2. op = "insert" /\ x \notin Elems(s) /\ (alone => Worse(s, 0))
  BY <1>1 DEF Race, Where
<1>3. ready_head = At(s, 0 + 1) /\ 0 \in 0 .. Len(s)
  BY RaceFacts
<1>4. Good(s, 0)
  BY DEF Good
<1> QED  BY <1>1, <1>2, <1>3, <1>4, XLinked

\* x is linked to what is behind prev.
LEMMA RaceLink ==
  ASSUME Stores, NEW s, Race(s), Link PROVE Stores' /\ Race(s)'
<1>1. /\ at = "link" /\ at' = "link_prev" /\ UNCHANGED <<op, before, alone, prev>>
      /\ q' = [q EXCEPT !.next[x] = q.next[prev]]
  BY DEF Link, SetNext
<1>2. Looking(s)
  BY <1>1 DEF Race, Where
<1>3. PICK m \in 1 .. Len(s) : prev = s[m] /\ (alone => Good(s, m) /\ Worse(s, m))
  BY <1>1, <1>2 DEF Looking
<1>4. q.next[prev] = At(s, m + 1) /\ m \in 0 .. Len(s) /\ m # 0
  BY <1>3, RaceFacts
<1>5. op = "insert" /\ x \notin Elems(s)
  BY <1>2 DEF Looking
<1> QED  BY <1>1, <1>3, <1>4, <1>5, XLinked

\* Nothing that was in the queue before is between the places m and k.
LEMMA OthersKept ==
  ASSUME NEW s \in Seq(Pcbs), Others \subseteq Elems(s), NEW m \in 0 .. Len(s),
         NEW k \in 1 .. Len(s) + 1, m < k, Between(s, m, k)
  PROVE  Others \subseteq Elems(Cut(s, m, k))
<1>1. SUFFICES ASSUME NEW p \in Others PROVE p \in Elems(Cut(s, m, k))
  OBVIOUS
<1>2. PICK j \in 1 .. Len(s) : p = s[j]
  BY DEF Elems
<1>3. j \notin m + 1 .. k - 1
  BY <1>2 DEF Between
<1>4. j \in (1 .. m) \cup (k .. Len(s))
  BY <1>3
<1> QED  BY <1>2, <1>4, CutSeq

\* Pointing from the place m at a process or to the end.
LEMMA PointedStore ==
  ASSUME Stores, NEW s \in Seq(Pcbs), NEW m \in 0 .. Len(s), NEW v \in PcbOrNull,
         q' = Pointed(q, s, m, v), UNCHANGED <<op, before, alone>>
  PROVE  Stores' /\ Others' = Others
<1>1. m # 0 => s[m] \in Pcbs
  OBVIOUS
<1>2. /\ q' \in Store /\ q'.state = q.state /\ q'.priority = q.priority /\ q'.hung = q.hung
  BY <1>1 DEF Pointed, Store, Stores
<1> QED  BY <1>2 DEF Stores, Others, InQueue

\* The last write of pcb_insert puts x into the queue.
LEMMA XJoins ==
  ASSUME Stores, NEW s, Race(s), Joining(s), at \in {"set_head", "link_prev"},
         q' = Pointed(q, s, IF at = "set_head" THEN 0 ELSE CHOOSE m \in 1 .. Len(s) : s[m] = prev, x),
         UNCHANGED <<op, before, alone>>, at' = "done"
  PROVE  Stores' /\ \E t : Race(t)'
<1>0. /\ s \in Seq(Pcbs) /\ Len(s) \in Nat /\ x \in Pcbs
      /\ \A i, j \in 1 .. Len(s) : s[i] = s[j] => i = j
      /\ List(q, q.head["ready"], s) /\ q \in Store
  BY RaceFacts DEF Stores
<1>1. op = "insert" /\ x \notin Elems(s)
  BY DEF Joining
<1>2. PICK m \in 0 .. Len(s), k \in 1 .. Len(s) + 1 :
        /\ m < k /\ Behind(s, m, at = "set_head") /\ Between(s, m, k)
        /\ q.next[x] = At(s, k)
        /\ alone => k = m + 1 /\ Good(s, m) /\ Worse(s, m)
  BY DEF Joining
<1>3. q' = Pointed(q, s, m, x)
  <2>1. CASE at = "set_head"
    BY <2>1, <1>2 DEF Behind
  <2>2. CASE at # "set_head"
    <3>1. m \in 1 .. Len(s) /\ s[m] = prev
      BY <2>2, <1>2, <1>0 DEF Behind
    <3>2. (CHOOSE j \in 1 .. Len(s) : s[j] = prev) = m
      BY <3>1, <1>0
    <3> QED  BY <2>2, <3>2
  <2> QED  BY <2>1, <2>2
<1> DEFINE c == Cut(s, m, k)
           t == Put(c, m, x)
<1>4. Stores' /\ Others' = Others
  BY <1>0, <1>3, PointedStore DEF PcbOrNull
<1>5. List(q', q'.head["ready"], t)
  BY <1>0, <1>1, <1>2, <1>3, JoinList
<1>6. Elems(t) = Elems(c) \cup {x}
  <2>1. c \in Seq(Pcbs) /\ Len(c) = m + Len(s) + 1 - k
    BY <1>0, <1>2, CutSeq
  <2>2. m \in 0 .. Len(c)
    BY <2>1, <1>0
  <2> HIDE DEF c
  <2> QED  BY <2>1, <2>2, <1>0, PutSeq
<1>7. Others \subseteq Elems(t)
  <2>1. Others \subseteq Elems(s)
    BY DEF Race
  <2> QED  BY <2>1, <1>0, <1>2, <1>6, OthersKept
<1> HIDE DEF t
<1>8. Where(t)'
  BY <1>1, <1>6 DEF Where
<1>9. ASSUME alone PROVE q' = pcb_insert(before, x)
  <2>1. List(before, before.head["ready"], s)
    BY <1>9 DEF Race, Undisturbed
  <2>2. /\ before \in Store /\ ~before.hung /\ before.state[x] = READY_STATE
        /\ before.head \in [Queues -> PcbOrNull] /\ before.next \in [Pcbs -> PcbOrNull]
    BY <1>0, StoreFields DEF Stores
  <2>3. QueueOf(before.state[x]) = "ready" /\ "ready" \in Queues
    BY <2>2 DEF QueueOf, Queues, READY_STATE, RESUME_STATE, SUSPENDED_STATE, BLOCKED_STATE
  <2>4. PICK i \in 0 .. Len(s) :
          /\ pcb_insert(before, x) = LinkIn(before, x, "ready", s, i)
          /\ \A j \in 1 .. i : before.priority[s[j]] <= before.priority[x]
          /\ i < Len(s) => before.priority[x] < before.priority[s[i + 1]]
    BY <2>1, <2>2, <2>3, <1>0, InsertInList
  <2>5. Good(s, m) /\ Worse(s, m) /\ k = m + 1
    BY <1>2, <1>9
  <2>6. i = m
    <3>0. \A j \in 1 .. Len(s) : before.priority[s[j]] \in Int /\ before.priority[x] \in Int
      BY RaceFacts
    <3>1. ~(i < m)
      <4> SUFFICES ASSUME i < m PROVE FALSE
        OBVIOUS
      <4>1. i + 1 \in 1 .. m /\ i + 1 \in 1 .. Len(s) /\ i < Len(s)
        BY <1>0
      <4> QED  BY <4>1, <3>0, <2>4, <2>5 DEF Good
    <3>2. ~(m < i)
      <4> SUFFICES ASSUME m < i PROVE FALSE
        OBVIOUS
      <4>1. m + 1 \in 1 .. i /\ m + 1 \in 1 .. Len(s) /\ m < Len(s)
        BY <1>0
      <4> QED  BY <4>1, <3>0, <2>4, <2>5 DEF Worse
    <3> QED  BY <3>1, <3>2, <1>0
  <2>7. q = [before EXCEPT !.next[x] = At(s, m + 1)]
    <3>1. q = before \/ q = [before EXCEPT !.next[x] = q.next[x]]
      BY <1>9 DEF Race, Undisturbed
    <3>2. q.next[x] = At(s, m + 1)
      BY <1>2, <2>5
    <3>3. q = before => q = [before EXCEPT !.next[x] = q.next[x]]
      BY <2>2, <1>0 DEF Store
    <3> QED  BY <3>1, <3>2, <3>3
  <2>8. LinkIn(before, x, "ready", s, m) = Pointed(q, s, m, x)
    <3>1. CASE m = 0
      <4>1. before.head["ready"] = At(s, 1)
        BY <2>1 DEF List
      <4>2. q = [before EXCEPT !.next[x] = At(s, 1)]
        BY <2>7, <3>1
      <4>3. LinkIn(before, x, "ready", s, m)
              = [before EXCEPT !.next[x] = At(s, 1), !.head["ready"] = x]
        BY <3>1, <4>1 DEF LinkIn
      <4>4. Pointed(q, s, m, x) = [q EXCEPT !.head["ready"] = x]
        BY <3>1 DEF Pointed
      <4> QED  BY <4>2, <4>3, <4>4, <2>2 DEF Store
    <3>2. CASE m # 0
      <4>1. m \in 1 .. Len(s) /\ s[m] \in Pcbs /\ s[m] # x
        BY <3>2, <1>0, <1>1 DEF Elems
      <4>2. before.next[s[m]] = At(s, m + 1)
        BY <4>1, <2>1 DEF List
      <4>3. LinkIn(before, x, "ready", s, m)
              = [before EXCEPT !.next[x] = At(s, m + 1), !.next[s[m]] = x]
        BY <3>2, <4>2 DEF LinkIn, LinkAfter
      <4>4. Pointed(q, s, m, x) = [q EXCEPT !.next[s[m]] = x]
        BY <3>2 DEF Pointed
      <4> QED  BY <4>1, <4>3, <4>4, <2>7, <2>2 DEF Store
    <3> QED  BY <3>1, <3>2
  <2> QED  BY <2>4, <2>6, <2>8, <1>3
<1>10. (alone => Undisturbed(t))'
  BY <1>1, <1>9 DEF Undisturbed
<1>11. Race(t)'
  BY <1>4, <1>5, <1>7, <1>8, <1>10 DEF Race, ready_head
<1> QED  BY <1>4, <1>11

\* The head becomes x.
LEMMA RaceInsertHead ==
  ASSUME Stores, NEW s, Race(s), InsertHead PROVE Stores' /\ \E t : Race(t)'
<1>1. /\ at = "set_head" /\ op = "insert" /\ at' = "done" /\ UNCHANGED <<op, before, alone>>
      /\ q' = [q EXCEPT !.head["ready"] = x]
  BY DEF InsertHead, SetHead
<1>2. Joining(s)
  BY <1>1 DEF Race, Where, Leaving
<1>3. q' = Pointed(q, s, 0, x)
  BY <1>1 DEF Pointed
<1> QED  BY <1>1, <1>2, <1>3, XJoins

\* prev points to x.
LEMMA RaceLinkPrev ==
  ASSUME Stores, NEW s, Race(s), LinkPrev PROVE Stores' /\ \E t : Race(t)'
<1>1. /\ at = "link_prev" /\ at' = "done" /\ UNCHANGED <<op, before, alone>>
      /\ q' = [q EXCEPT !.next[prev] = x]
  BY DEF LinkPrev, SetNext
<1>2. Joining(s)
  BY <1>1 DEF Race, Where
<1> DEFINE m == CHOOSE j \in 1 .. Len(s) : s[j] = prev
<1>3. \E j \in 1 .. Len(s) : s[j] = prev
  <2>1. PICK l \in 0 .. Len(s) : Behind(s, l, at = "set_head")
    BY <1>2 DEF Joining
  <2>2. l >= 1 /\ prev = s[l] /\ Len(s) \in Nat
    BY <1>1, <2>1, RaceFacts DEF Behind
  <2>3. l \in 1 .. Len(s)
    BY <2>2
  <2> QED  BY <2>2, <2>3
<1>4. m \in 1 .. Len(s) /\ s[m] = prev /\ m # 0
  BY <1>3
<1> HIDE DEF m
<1>5. q' = Pointed(q, s, m, x)
  BY <1>1, <1>4 DEF Pointed
<1> QED  BY <1>1, <1>2, <1>5, XJoins DEF m

\* The last write of pcb_remove takes x out of the queue.
LEMMA XLeaves ==
  ASSUME Stores, NEW s, Race(s), Leaving(s), at \in {"set_head", "unlink"},
         q' = IF at = "set_head" THEN [q EXCEPT !.head["ready"] = reg]
                                 ELSE [q EXCEPT !.next[prev] = reg],
         UNCHANGED <<op, before, alone>>, at' = "done"
  PROVE  Stores' /\ \E t : Race(t)'
<1>0. /\ s \in Seq(Pcbs) /\ Len(s) \in Nat
      /\ \A i, j \in 1 .. Len(s) : s[i] = s[j] => i = j
      /\ \A j \in 1 .. Len(s) : s[j] \in Pcbs
      /\ List(q, q.head["ready"], s) /\ q \in Store
  BY RaceFacts DEF Stores
<1>1. op = "remove"
  BY DEF Leaving
<1>2. PICK m \in 0 .. Len(s), n \in 1 .. Len(s), k \in 1 .. Len(s) + 1 :
        /\ m < n /\ n < k /\ x = s[n] /\ reg = At(s, k)
        /\ Behind(s, m, at = "set_head") /\ Between(s, m, k)
        /\ alone => n = m + 1 /\ k = n + 1
  BY DEF Leaving
<1>3. m < k
  BY <1>0, <1>2
<1>4. q' = Pointed(q, s, m, At(s, k))
  <2>1. CASE at = "set_head"
    BY <2>1, <1>2 DEF Behind, Pointed
  <2>2. CASE at # "set_head"
    <3>1. m # 0 /\ s[m] = prev
      BY <2>2, <1>2 DEF Behind
    <3> QED  BY <2>2, <3>1, <1>2 DEF Pointed
  <2> QED  BY <2>1, <2>2
<1>5. At(s, k) \in PcbOrNull
  BY <1>0 DEF At, PcbOrNull
<1> DEFINE t == Cut(s, m, k)
<1>6. Stores' /\ Others' = Others
  BY <1>0, <1>4, <1>5, PointedStore
<1>7. List(q', q'.head["ready"], t)
  <2> DEFINE u == Pointed(q, s, m, At(s, k))
  <2>1. List(u, u.head["ready"], t)
    BY <1>0, <1>3, CutList
  <2> QED  BY <2>1, <1>4
<1>8. Others \subseteq Elems(t)
  BY <1>0, <1>2, <1>3, OthersKept DEF Race
<1>9. x \notin Elems(t)
  <2>1. Elems(t) = {s[j] : j \in (1 .. m) \cup (k .. Len(s))}
    BY <1>0, <1>3, CutSeq
  <2>2. \A j \in (1 .. m) \cup (k .. Len(s)) : j \in 1 .. Len(s) /\ j # n
    BY <1>0, <1>2
  <2> HIDE DEF t
  <2> QED  BY <2>1, <2>2, <1>0, <1>2
<1> HIDE DEF t
<1>10. Where(t)'
  BY <1>1, <1>9 DEF Where
<1>11. ASSUME alone PROVE q' = pcb_remove(before, x)
  <2>1. List(before, before.head["ready"], s) /\ q = before
    BY <1>1, <1>11 DEF Race, Undisturbed
  <2>2. before \in Store /\ ~before.hung /\ before.state[s[n]] = READY_STATE
    BY <1>0 DEF Stores
  <2>3. SearchedFor(before.state[s[n]]) = "ready" /\ "ready" \in Queues
    BY <2>2 DEF SearchedFor, Queues, READY_STATE, RESUME_STATE, SUSPENDED_STATE,
                  BLOCKED_STATE
  <2>4. pcb_remove(before, s[n]) = LinkOut(before, "ready", s, n)
    BY <2>1, <2>2, <2>3, RemoveFromList
  <2>5. n = m + 1 /\ k = n + 1 /\ before.next[s[n]] = At(s, k)
    BY <2>1, <1>2, <1>11 DEF List
  <2>6. LinkOut(before, "ready", s, n) = Pointed(before, s, m, At(s, k))
    <3>1. CASE m = 0
      BY <3>1, <2>5 DEF LinkOut, Pointed
    <3>2. CASE m # 0
      <4>1. n # 1 /\ n - 1 = m
        BY <3>2, <2>5, <1>0
      <4> QED  BY <3>2, <4>1, <2>5 DEF LinkOut, Pointed
    <3> QED  BY <3>1, <3>2
  <2> QED  BY <1>2, <1>4, <2>1, <2>4, <2>6
<1>12. (alone => Undisturbed(t))'
  BY <1>1, <1>11 DEF Undisturbed
<1>13. Race(t)'
  BY <1>6, <1>7, <1>8, <1>10, <1>12 DEF Race, ready_head
<1> QED  BY <1>6, <1>13

\* The head becomes what was behind x.
LEMMA RaceRemoveHead ==
  ASSUME Stores, NEW s, Race(s), RemoveHead PROVE Stores' /\ \E t : Race(t)'
<1>1. /\ at = "set_head" /\ op = "remove" /\ at' = "done" /\ UNCHANGED <<op, before, alone>>
      /\ q' = [q EXCEPT !.head["ready"] = reg]
  BY DEF RemoveHead, SetHead
<1>2. Leaving(s)
  BY <1>1 DEF Race, Where, Joining
<1> QED  BY <1>1, <1>2, XLeaves

\* prev points to what was behind x.
LEMMA RaceUnlink ==
  ASSUME Stores, NEW s, Race(s), Unlink PROVE Stores' /\ \E t : Race(t)'
<1>1. /\ at = "unlink" /\ at' = "done" /\ UNCHANGED <<op, before, alone>>
      /\ q' = [q EXCEPT !.next[prev] = reg]
  BY DEF Unlink, SetNext
<1>2. Leaving(s)
  BY <1>1 DEF Race, Where
<1> QED  BY <1>1, <1>2, XLeaves
-----------------------------------------------------------------------------
(***************************************************************************)
(* The handler puts y behind the first i processes of the queue.           *)
(***************************************************************************)

\* What pcb_insert of the handler does to the store.
LEMMA Unblocked ==
  ASSUME Stores, NEW s, Race(s), NEW y \in Returning, unblock_pcb(y)
  PROVE  /\ y \in Pcbs /\ y # x /\ y \notin Elems(s) /\ Stores' /\ Others' = Others
         /\ \E i \in 0 .. Len(s) : /\ List(q, ready_head, Put(s, i, y))'
                                   /\ x \notin Elems(s) => q'.next[x] = q.next[x]
<1>0. /\ q \in Store /\ ~q.hung /\ y \in Pcbs /\ y # x /\ x \in Pcbs
      /\ List(q, q.head["ready"], s) /\ s \in Seq(Pcbs)
      /\ q.next \in [Pcbs -> PcbOrNull]
  BY InsertRaceAssumption, RaceFacts, StoreFields DEF Stores
<1>1. y \notin Elems(s)
  BY <1>0, QueueElems DEF unblock_pcb
<1>2. SetState(q, y, READY_STATE) = q
  BY <1>0 DEF Stores, SetState, Store
<1>3. q' = pcb_insert(q, y) /\ UNCHANGED <<op, before>> /\ alone' = FALSE
  BY <1>2 DEF unblock_pcb, Unblock
<1>4. QueueOf(q.state[y]) = "ready" /\ "ready" \in Queues
  BY <1>0 DEF Stores, QueueOf, Queues, READY_STATE, RESUME_STATE, SUSPENDED_STATE,
              BLOCKED_STATE
<1>5. PICK i \in 0 .. Len(s) : pcb_insert(q, y) = LinkIn(q, y, "ready", s, i)
  BY <1>0, <1>4, InsertInList
<1> DEFINE r == LinkIn(q, y, "ready", s, i)
<1>6. /\ r \in Store /\ List(r, r.head["ready"], Put(s, i, y))
      /\ r.state = q.state /\ r.priority = q.priority /\ r.hung = q.hung
  BY <1>0, <1>1, <1>4, LinkInList
<1>7. x \notin Elems(s) => r.next[x] = q.next[x]
  <2>1. i # 0 => s[i] \in Elems(s) /\ s[i] \in Pcbs
    BY <1>0 DEF Elems
  <2>2. CASE i = 0
    BY <2>2, <1>0 DEF LinkIn
  <2>3. CASE i # 0
    BY <2>1, <2>3, <1>0 DEF LinkIn, LinkAfter
  <2> QED  BY <2>2, <2>3
<1>8. q' = r
  BY <1>3, <1>5
<1> HIDE DEF r
<1>9. Stores'
  BY <1>3, <1>6, <1>8 DEF Stores
<1>10. Others' = Others
  BY <1>3 DEF Others, InQueue
<1>11. List(q, ready_head, Put(s, i, y))'
  BY <1>6, <1>8 DEF ready_head, List
<1> QED  BY <1>0, <1>1, <1>7, <1>8, <1>9, <1>10, <1>11

\* The command stands where it stood, in the longer queue.
LEMMA UnblockedWhere ==
  ASSUME Stores, NEW s, Race(s), NEW y \in Pcbs, y # x, y \notin Others,
         NEW i \in 0 .. Len(s), x \notin Elems(s) => q'.next[x] = q.next[x],
         UNCHANGED <<op, at, prev, reg>>, Others' = Others, alone' = FALSE
  PROVE  Where(Put(s, i, y))'
<1> DEFINE t == Put(s, i, y)
<1>0. s \in Seq(Pcbs) /\ Len(s) \in Nat
  BY RaceFacts
<1>1. Len(t) = Len(s) + 1 /\ (x \in Elems(t) <=> x \in Elems(s))
  BY <1>0, PutSeq
<1>2. /\ \A j \in 1 .. Len(s) : Shift(j, i) \in 1 .. Len(t) /\ t[Shift(j, i)] = s[j]
      /\ \A k \in 1 .. Len(s) + 1 : /\ Shift(k, i) \in 1 .. Len(t) + 1
                                    /\ At(t, Shift(k, i)) = At(s, k)
  <2>1. Len(t) + 1 = Len(s) + 2
    BY <1>0, <1>1
  <2> HIDE DEF t
  <2> QED  BY <1>0, <1>1, <2>1, PutPlaces DEF t
<1>3. ASSUME NEW m \in 0 .. Len(s), NEW k \in 1 .. Len(s) + 1, m < k, Between(s, m, k)
      PROVE  /\ Between(t, Shift(m, i), Shift(k, i))' /\ Shift(m, i) < Shift(k, i)
             /\ Shift(m, i) \in 0 .. Len(t) /\ (m = 0 => Shift(m, i) = 0)
  <2>1. /\ Between(t, Shift(m, i), Shift(k, i)) /\ Shift(m, i) < Shift(k, i)
        /\ Shift(m, i) \in 0 .. Len(s) + 1 /\ (m = 0 => Shift(m, i) = 0)
    BY <1>0, <1>3, PutBetween
  <2> HIDE DEF t
  <2> QED  BY <2>1, <1>1 DEF Between
<1>4. \A m, n \in 0 .. Len(s) + 1 : m < n => Shift(m, i) < Shift(n, i)
  BY <1>0 DEF Shift
<1>5. \A m \in 0 .. Len(s) : m >= 1 => Shift(m, i) >= 1
  BY <1>0 DEF Shift
<1> SUFFICES Where(t)'
  OBVIOUS
<1> HIDE DEF t
<1>6. CASE at \in {"find_place", "advance", "link"} /\ Looking(s)
  <2>1. PICK m \in 1 .. Len(s) : prev = s[m] /\ (at = "advance" => m < Len(s))
    BY <1>6 DEF Looking
  <2>2. Shift(m, i) \in 1 .. Len(t) /\ prev = t[Shift(m, i)]
    BY <2>1, <1>2
  <2>3. at = "advance" => Shift(m, i) < Len(t)
    BY <2>1, <1>0, <1>1 DEF Shift
  <2>4. Looking(t)'
    BY <1>1, <1>6, <2>2, <2>3 DEF Looking
  <2> QED  BY <1>6, <2>4 DEF Where
<1>7. CASE at \in {"set_head", "link_prev"} /\ Joining(s)
  <2>1. PICK m \in 0 .. Len(s), k \in 1 .. Len(s) + 1 :
          /\ m < k /\ Behind(s, m, at = "set_head") /\ Between(s, m, k)
          /\ q.next[x] = At(s, k)
    BY <1>7 DEF Joining
  <2>2. /\ Between(t, Shift(m, i), Shift(k, i))' /\ Shift(m, i) < Shift(k, i)
        /\ Shift(m, i) \in 0 .. Len(t) /\ (m = 0 => Shift(m, i) = 0)
    BY <2>1, <1>3
  <2>3. Shift(k, i) \in 1 .. Len(t) + 1 /\ q'.next[x] = At(t, Shift(k, i))
    BY <2>1, <1>2, <1>7 DEF Joining
  <2>4. Behind(t, Shift(m, i), at = "set_head")'
    <3>1. at # "set_head" => m \in 1 .. Len(s)
      BY <2>1, <1>0 DEF Behind
    <3> QED  BY <2>1, <2>2, <3>1, <1>2, <1>5 DEF Behind
  <2>5. Joining(t)'
    BY <1>1, <1>7, <2>2, <2>3, <2>4 DEF Joining
  <2> QED  BY <1>7, <2>5 DEF Where
<1>8. CASE at \in {"search", "step"} /\ Searching(s)
  <2>1. PICK m, n \in 1 .. Len(s) :
          /\ prev = s[m] /\ x = s[n] /\ m < n /\ (at = "step" => m + 1 < n)
    BY <1>8 DEF Searching
  <2>2. Shift(m, i) < Shift(n, i) /\ (at = "step" => Shift(m, i) + 1 < Shift(n, i))
    BY <2>1, <1>0 DEF Shift
  <2>3. /\ Shift(m, i) \in 1 .. Len(t) /\ Shift(n, i) \in 1 .. Len(t)
        /\ prev = t[Shift(m, i)] /\ x = t[Shift(n, i)]
    BY <2>1, <1>2
  <2>4. Searching(t)'
    BY <1>8, <2>2, <2>3 DEF Searching
  <2> QED  BY <1>8, <2>4 DEF Where
<1>9. CASE at = "read_next" /\ Found(s)
  <2>1. PICK m \in 0 .. Len(s), n \in 1 .. Len(s) :
          m < n /\ x = s[n] /\ Behind(s, m, prev = x) /\ Between(s, m, n)
    BY <1>9 DEF Found
  <2>2. n \in 1 .. Len(s) + 1
    BY <1>0
  <2>3. /\ Between(t, Shift(m, i), Shift(n, i))' /\ Shift(m, i) < Shift(n, i)
        /\ Shift(m, i) \in 0 .. Len(t) /\ (m = 0 => Shift(m, i) = 0)
    BY <2>1, <2>2, <1>3
  <2>4. Shift(n, i) \in 1 .. Len(t) /\ x = t[Shift(n, i)]
    BY <2>1, <1>2
  <2>5. Behind(t, Shift(m, i), prev = x)'
    <3>1. prev # x => m \in 1 .. Len(s)
      BY <2>1, <1>0 DEF Behind
    <3> QED  BY <2>1, <2>3, <3>1, <1>2, <1>5 DEF Behind
  <2>6. Found(t)'
    BY <1>9, <2>3, <2>4, <2>5 DEF Found
  <2> QED  BY <1>9, <2>6 DEF Where
<1>10. CASE at \in {"set_head", "unlink"} /\ Leaving(s)
  <2>1. PICK m \in 0 .. Len(s), n \in 1 .. Len(s), k \in 1 .. Len(s) + 1 :
          /\ m < n /\ n < k /\ x = s[n] /\ reg = At(s, k)
          /\ Behind(s, m, at = "set_head") /\ Between(s, m, k)
    BY <1>10 DEF Leaving
  <2>2. m < k /\ m \in 0 .. Len(s) + 1 /\ n \in 0 .. Len(s) + 1 /\ k \in 0 .. Len(s) + 1
    BY <2>1, <1>0
  <2>3. /\ Between(t, Shift(m, i), Shift(k, i))'
        /\ Shift(m, i) \in 0 .. Len(t) /\ (m = 0 => Shift(m, i) = 0)
    BY <2>1, <2>2, <1>3
  <2>4. Shift(m, i) < Shift(n, i) /\ Shift(n, i) < Shift(k, i)
    BY <2>1, <2>2, <1>4
  <2>5. /\ Shift(n, i) \in 1 .. Len(t) /\ x = t[Shift(n, i)]
        /\ Shift(k, i) \in 1 .. Len(t) + 1 /\ reg = At(t, Shift(k, i))
    BY <2>1, <1>2
  <2>6. Behind(t, Shift(m, i), at = "set_head")'
    <3>1. at # "set_head" => m \in 1 .. Len(s)
      BY <2>1, <1>0 DEF Behind
    <3> QED  BY <2>1, <2>3, <3>1, <1>2, <1>5 DEF Behind
  <2>7. Leaving(t)'
    BY <1>10, <2>3, <2>4, <2>5, <2>6 DEF Leaving
  <2> QED  BY <1>10, <2>7 DEF Where
<1>11. CASE \/ at = "begin" /\ (x \in Elems(s) <=> op = "remove")
            \/ at = "link_head" /\ op = "insert" /\ x \notin Elems(s)
            \/ at = "done" /\ (x \in Elems(s) <=> op = "insert")
  BY <1>1, <1>11 DEF Where
<1>12. Where(s)
  BY DEF Race
<1> QED  BY <1>6, <1>7, <1>8, <1>9, <1>10, <1>11, <1>12 DEF Where

\* The handler's step.
LEMMA RaceUnblock ==
  ASSUME Stores, NEW s, Race(s), NEW y \in Returning, unblock_pcb(y)
  PROVE  Stores' /\ \E t : Race(t)'
<1>1. y \in Pcbs /\ y # x /\ y \notin Elems(s) /\ Stores' /\ Others' = Others
  BY Unblocked
<1>2. PICK i \in 0 .. Len(s) : /\ List(q, ready_head, Put(s, i, y))'
                               /\ x \notin Elems(s) => q'.next[x] = q.next[x]
  BY Unblocked
<1>3. UNCHANGED <<op, at, prev, reg>> /\ alone' = FALSE
  BY DEF unblock_pcb
<1>4. Others \subseteq Elems(s)
  BY DEF Race
<1>5. Where(Put(s, i, y))'
  BY <1>1, <1>2, <1>3, <1>4, UnblockedWhere
<1>6. Elems(s) \subseteq Elems(Put(s, i, y))
  BY <1>1, RaceFacts, PutSeq
<1>7. Race(Put(s, i, y))'
  BY <1>1, <1>2, <1>3, <1>4, <1>5, <1>6 DEF Race
<1> QED  BY <1>1, <1>7
-----------------------------------------------------------------------------
\* A command that was not spoilt is at one of its statements, or done.
LEMMA NotLost == RaceInv => at # "lost"
BY DEF RaceInv, Race, Where

\* Every step but the interrupt inside a statement keeps the invariant.
LEMMA RaceNext ==
  ASSUME RaceInv, [Insert \/ Remove \/ (\E y \in Returning : unblock_pcb(y))]_vars
  PROVE  RaceInv'
<1>1. Stores
  BY DEF RaceInv
<1>2. PICK s : Race(s)
  BY DEF RaceInv
<1>3. CASE Insert
  BY <1>1, <1>2, <1>3, RaceInsertBegin, RaceLinkHead, RaceInsertHead, RaceFindPlace,
     RaceAdvance, RaceLink, RaceLinkPrev DEF Insert, RaceInv
<1>4. CASE Remove
  BY <1>1, <1>2, <1>4, RaceRemoveBegin, RaceFindBefore, RaceStep, RaceReadNext,
     RaceRemoveHead, RaceUnlink DEF Remove, RaceInv
<1>5. CASE \E y \in Returning : unblock_pcb(y)
  BY <1>1, <1>2, <1>5, RaceUnblock DEF RaceInv
<1>6. CASE UNCHANGED vars
  <2>1. UNCHANGED <<q, op, at, prev, reg, before, alone>>
    BY <1>6 DEF vars
  <2>2. Stores'
    BY <1>1, <2>1 DEF Stores
  <2>3. Race(s)'
    BY <1>2, <2>1 DEF Race, List, ready_head, Others, InQueue, Where, Looking, Joining,
       Searching, Found, Leaving, Behind, Between, Good, Worse, Undisturbed
  <2> QED  BY <2>2, <2>3 DEF RaceInv
<1> QED  BY <1>3, <1>4, <1>5, <1>6

\* A command that is lost stays lost: only the handler goes on.
LEMMA LostStays ==
  ASSUME at = "lost", [Next]_vars PROVE at' = "lost"
<1>1. ~Insert
  BY DEF Insert, InsertBegin, LinkHead, InsertHead, FindPlace, Advance, Link, LinkPrev
<1>2. ~Remove
  BY DEF Remove, RemoveBegin, FindBefore, Step, ReadNext, RemoveHead, Unlink
<1>3. CASE \E y \in Returning : unblock_pcb(y)
  BY <1>3 DEF unblock_pcb
<1>4. CASE Spoil
  BY <1>4 DEF Spoil
<1>5. CASE UNCHANGED vars
  BY <1>5 DEF vars
<1> QED  BY <1>1, <1>2, <1>3, <1>4, <1>5 DEF Next

\* Every step keeps what holds in every state.
LEMMA IInvNext == IInv /\ [Next]_vars => IInv'
<1> SUFFICES ASSUME IInv, [Next]_vars PROVE IInv'
  OBVIOUS
<1>1. CASE at = "lost"
  BY <1>1, LostStays DEF IInv
<1>2. CASE RaceInv /\ Spoil
  BY <1>2 DEF Spoil, IInv
<1>3. CASE RaceInv /\ ~Spoil
  <2>1. [Insert \/ Remove \/ (\E y \in Returning : unblock_pcb(y))]_vars
    BY <1>3 DEF Next
  <2> QED  BY <1>3, <2>1, RaceNext DEF IInv
<1> QED  BY <1>1, <1>2, <1>3 DEF IInv

\* The invariant holds in every state.
LEMMA RaceAlways == Spec => []IInv
<1>1. Init => IInv
  BY RaceInit DEF IInv
<1> QED  BY <1>1, IInvNext, PTL DEF Spec

\* What the invariant says about the queue.
LEMMA RaceShows == RaceInv => ListEnds /\ OldStay /\ Done /\ AtomicAlone
<1> SUFFICES ASSUME RaceInv PROVE ListEnds /\ OldStay /\ Done /\ AtomicAlone
  OBVIOUS
<1>1. Stores
  BY DEF RaceInv
<1>2. PICK s : Race(s)
  BY DEF RaceInv
<1>3. InQueue(q) = Elems(s) /\ Walk(q, ready_head)[N] = NULL
  BY <1>1, <1>2, RaceFacts, QueueElems DEF Stores, ready_head
<1>4. ListEnds
  BY <1>3 DEF ListEnds, N
<1>5. OldStay
  BY <1>2, <1>3 DEF OldStay, Race, Others
<1>6. Done
  BY <1>2, <1>3 DEF Done, Race, Where
<1>7. AtomicAlone
  BY <1>2 DEF AtomicAlone, Race, Undisturbed
<1> QED  BY <1>4, <1>5, <1>6, <1>7

\* Of a lost command the properties say nothing.
LEMMA IInvShows == IInv => ListEnds /\ OldStay /\ Done /\ AtomicAlone
<1>1. CASE at = "lost"
  BY <1>1 DEF ListEnds, OldStay, Done, AtomicAlone
<1>2. CASE RaceInv
  BY <1>2, RaceShows
<1> QED  BY <1>1, <1>2 DEF IInv

\* As long as no interrupt has changed a register that a statement of the command
\* was using, the ready queue is a list that ends whenever the handler comes: the
\* loop of its pcb_insert ends, however many processes it has put there before.
THEOREM RaceListEnds == Spec => []ListEnds
BY RaceAlways, IInvShows, PTL

\* As long as no register was changed, no process that was in the ready queue
\* when the command began gets lost, wherever the handler's unblock_pcb comes
\* between the command's statements.
THEOREM RaceOldStay == Spec => []OldStay
BY RaceAlways, IInvShows, PTL

\* When pcb_insert(x) or pcb_remove(x) is done with its registers left alone, x is
\* in the ready queue or is not, whatever the handler has put there in between.
THEOREM RaceDone == Spec => []Done
BY RaceAlways, IInvShows, PTL

\* Without an interrupt the steps of the command add up to pcb_insert and
\* pcb_remove of Pcb, the single steps that Kernel is made of.
THEOREM RaceAtomicAlone == Spec => []AtomicAlone
BY RaceAlways, IInvShows, PTL
=============================================================================
