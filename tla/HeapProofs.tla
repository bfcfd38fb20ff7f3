---------------------------- MODULE HeapProofs ------------------------------
(***************************************************************************)
(* Proofs about the heap manager, for every arena size, every size_t width *)
(* that is a multiple of 4 and larger than the arena, every set of         *)
(* requests and every set of pointers handed to free_memory.               *)
(***************************************************************************)
EXTENDS Heap, TLAPS

\* The part of the invariant that is about the list of headers alone.
Shape(h) ==
  /\ DOMAIN h \subseteq Nat
  /\ h \in [DOMAIN h -> Block]
  /\ Tiles(h)

\* The inductive invariant.  Tiled needs the types; Coalesced needs Tiled
\* (who is whose neighbour); ClientsAgree and TightFit need both, for what
\* a merge may swallow.
Inv == TypeOK /\ Tiled /\ Coalesced /\ ClientsAgree /\ TightFit
-----------------------------------------------------------------------------
(***************************************************************************)
(* Lemmas on roundup().                                                    *)
(***************************************************************************)

\* A number below the modulus is its own remainder.
LEMMA ModBelow ==
  ASSUME NEW m \in Nat, NEW x \in Nat, x < m
  PROVE  x % m = x
  OBVIOUS

\* The modulus leaves no remainder.
LEMMA ModSelf ==
  ASSUME NEW m \in Nat, m > 0
  PROVE  m % m = 0
  OBVIOUS

\* roundup() of lib/mem.c yields a multiple of 4 of size_t's range, even
\* where the addition wraps.
LEMMA RoundupType ==
  ASSUME NEW s \in Nat, s < SizeMod
  PROVE  /\ roundup(s) \in Nat
         /\ roundup(s) % 4 = 0
<1>1. SizeMod \in Nat /\ SizeMod % 4 = 0
  BY HeapAssumption
<1>2. CASE s % 4 = 0
  BY <1>2 DEF roundup
<1>3. CASE s % 4 # 0
  <2> DEFINE r == s - (s % 4) + 4
  <2>1. r \in Nat /\ r % 4 = 0 /\ r <= SizeMod
    BY <1>1, <1>3
  <2>2. CASE r = SizeMod
    BY <1>1, <1>3, <2>1, <2>2, ModSelf DEF roundup
  <2>3. CASE r < SizeMod
    <3>1. r % SizeMod = r
      BY <1>1, <2>1, <2>3, ModBelow
    <3> QED
      BY <1>3, <2>1, <3>1 DEF roundup
  <2> QED
    BY <1>1, <2>1, <2>2, <2>3
<1> QED
  BY <1>2, <1>3

\* The arena's end, as initialize_heap() computes it, is a number and its
\* payload a multiple of 4.
LEMMA HeapEndType == HeapEnd \in Nat /\ roundup(HeapSize) \in Nat
                       /\ roundup(HeapSize) % 4 = 0
<1>1. HeapSize \in Nat /\ HeapSize < SizeMod
  BY HeapAssumption DEF HDR
<1> QED
  BY <1>1, RoundupType DEF HeapEnd, HDR, memlist
-----------------------------------------------------------------------------
(***************************************************************************)
(* Lemmas on the three header updates.                                     *)
(***************************************************************************)

\* Splitting a free block that is large enough keeps the arena tiled.
LEMMA SplitShape ==
  ASSUME NEW h, Shape(h), NEW a \in DOMAIN h,
         NEW need \in Nat, need % 4 = 0, h[a].size > need + HDR
  PROVE  /\ Shape(Split(h, a, need))
         /\ a + HDR + need \notin DOMAIN h
<1> DEFINE n == a + HDR + need
           g == Split(h, a, need)
<1>1. /\ a \in Nat /\ n \in Nat
      /\ \A x \in DOMAIN h : x \in Nat /\ h[x] \in Block
  BY DEF Shape, HDR
<1>2. n \notin DOMAIN h
  <2>1. a < n /\ n < a + HDR + h[a].size
    BY <1>1 DEF HDR, Block
  <2> QED
    BY <1>1, <2>1 DEF Shape, Tiles, HDR, Block
<1>3. /\ DOMAIN g = DOMAIN h \cup {n}
      /\ g[a] = Hdr(need, FALSE, FALSE)
      /\ g[n] = Hdr(h[a].size - need - HDR, TRUE, h[a].end)
      /\ \A x \in DOMAIN h : x # a => g[x] = h[x]
  BY <1>1, <1>2 DEF Split
<1>4. \A x \in DOMAIN g : x \in Nat /\ g[x] \in Block
  <2>1. h[a].size \in Nat /\ h[a].end \in BOOLEAN
    BY <1>1 DEF Block
  <2>2. g[a] \in Block /\ g[n] \in Block
    BY <1>3, <2>1 DEF Hdr, Block, HDR
  <2> HIDE DEF g, n
  <2> QED
    BY <1>1, <1>3, <2>2
<1>5. g \in [DOMAIN g -> Block]
  BY <1>4 DEF Split
<1>6. /\ g[a].size = need /\ ~g[a].end
      /\ n + HDR + g[n].size = a + HDR + h[a].size
      /\ g[n].end = h[a].end /\ g[n].size % 4 = 0
  BY <1>1, <1>3 DEF Shape, Tiles, Hdr, Block, HDR
<1> HIDE DEF g
<1>7. Tiles(g)
  <2>1. /\ memlist \in DOMAIN g
        /\ \A x \in DOMAIN g : memlist <= x
    BY <1>1, <1>3 DEF Shape, Tiles, memlist, HDR
  <2>2. \A x \in DOMAIN g : ~g[x].end => x + HDR + g[x].size \in DOMAIN g
    BY <1>1, <1>3, <1>6 DEF Shape, Tiles
  <2>3. \A x \in DOMAIN g : g[x].end => x + HDR + g[x].size = HeapEnd
    BY <1>1, <1>3, <1>6 DEF Shape, Tiles
  <2>4. ASSUME NEW x \in DOMAIN g, NEW y \in DOMAIN g, x < y
        PROVE  x + HDR + g[x].size <= y
    <3>1. \A u, v \in DOMAIN h : u < v => u + HDR + h[u].size <= v
      BY DEF Shape, Tiles
    <3>2. h[a].size \in Nat /\ g[n].size \in Nat
      BY <1>1, <1>3, <1>4 DEF Block
    <3>0. /\ x \in Nat /\ y \in Nat /\ a < n
          /\ \A v \in DOMAIN h : a < v => n <= v /\ n + HDR + g[n].size <= v
      BY <1>1, <1>4, <1>6, <3>1, <3>2 DEF HDR
    <3>3. CASE x = a
      <4>1. x + HDR + g[x].size = n
        BY <1>6, <3>3
      <4>2. n <= y
        <5> HIDE DEF n
        <5>1. CASE y = n
          BY <3>0, <5>1
        <5>2. CASE y # n
          BY <1>3, <2>4, <3>0, <3>3, <5>2
        <5> QED
          BY <5>1, <5>2
      <4> QED
        BY <4>1, <4>2
    <3>4. CASE x = n
      <4>1. y \in DOMAIN h /\ a < y
        BY <1>1, <1>3, <2>4, <3>0, <3>4
      <4> QED
        BY <3>0, <3>4, <4>1
    <3>5. CASE x # a /\ x # n
      <4>1. x \in DOMAIN h /\ g[x] = h[x] /\ h[x].size \in Nat
        BY <1>1, <1>3, <3>5 DEF Block
      <4>2. CASE y = n
        <5>1. x < a
          BY <1>1, <1>6, <2>4, <3>1, <3>2, <3>5, <4>1, <4>2 DEF HDR
        <5> QED
          BY <1>1, <3>1, <4>1, <4>2, <5>1 DEF HDR
      <4>3. CASE y # n
        BY <1>3, <2>4, <3>1, <4>1, <4>3
      <4> QED
        BY <4>2, <4>3
    <3> QED
      BY <3>3, <3>4, <3>5
  <2>5. ASSUME NEW x \in DOMAIN g
        PROVE  x + HDR + g[x].size <= HeapEnd
    <3>1. \A u \in DOMAIN h : u + HDR + h[u].size <= HeapEnd
      BY DEF Shape, Tiles
    <3>2. h[a].size \in Nat /\ g[n].size \in Nat
      BY <1>1, <1>3, <1>4 DEF Block
    <3>3. CASE x = a
      BY <1>1, <1>6, <3>1, <3>2, <3>3, HeapEndType DEF HDR
    <3>4. CASE x = n
      BY <1>6, <3>1, <3>4
    <3> QED
      BY <1>3, <3>1, <3>3, <3>4
  <2>6. ASSUME NEW y \in DOMAIN g, y # memlist
        PROVE  \E x \in DOMAIN g : ~g[x].end /\ x + HDR + g[x].size = y
    <3>1. CASE y = n
      BY <1>3, <1>6, <3>1
    <3>2. CASE y # n
      <4>1. PICK x \in DOMAIN h : ~h[x].end /\ x + HDR + h[x].size = y
        BY <1>3, <2>6, <3>2 DEF Shape, Tiles
      <4>2. CASE x = a
        BY <1>3, <1>6, <4>1, <4>2
      <4>3. CASE x # a
        BY <1>3, <4>1, <4>3
      <4> QED
        BY <4>2, <4>3
    <3> QED
      BY <3>1, <3>2
  <2>7. \A x \in DOMAIN g : g[x].size % 4 = 0
    <3>1. \A x \in DOMAIN h : h[x].size % 4 = 0
      BY DEF Shape, Tiles
    <3> HIDE DEF n
    <3> QED
      BY <1>3, <1>6, <3>1
  <2> QED
    BY <2>1, <2>2, <2>3, <2>4, <2>5, <2>6, <2>7 DEF Tiles
<1> QED
  BY <1>2, <1>4, <1>5, <1>7 DEF Shape, g

\* Setting or clearing a FREE bit changes no size and no END bit.
LEMMA SetFreeShape ==
  ASSUME NEW h, Shape(h), NEW a \in DOMAIN h, NEW isfree \in BOOLEAN
  PROVE  /\ Shape(SetFree(h, a, isfree))
         /\ DOMAIN SetFree(h, a, isfree) = DOMAIN h
         /\ \A x \in DOMAIN h :
              /\ SetFree(h, a, isfree)[x].size = h[x].size
              /\ SetFree(h, a, isfree)[x].end = h[x].end
         /\ SetFree(h, a, isfree)[a].free = isfree
<1> DEFINE g == SetFree(h, a, isfree)
<1>1. /\ DOMAIN g = DOMAIN h
      /\ \A x \in DOMAIN h : g[x] = IF x = a THEN Hdr(h[a].size, isfree, h[a].end)
                                    ELSE h[x]
  BY DEF Shape, SetFree
<1>2. \A x \in DOMAIN h : /\ g[x].size = h[x].size /\ g[x].end = h[x].end
                          /\ g[x].free = IF x = a THEN isfree ELSE h[x].free
                          /\ g[x] \in Block
  BY <1>1 DEF Shape, Hdr, Block
<1>3. g \in [DOMAIN g -> Block]
  BY <1>1, <1>2 DEF SetFree
<1> HIDE DEF g
<1>4. Tiles(g)
  BY <1>1, <1>2 DEF Shape, Tiles
<1> QED
  BY <1>1, <1>2, <1>3, <1>4 DEF Shape, g

\* g is the heap h in which the block a has absorbed its neighbour b.
Merged(h, a, b, g) ==
  /\ b \in DOMAIN h /\ b # a /\ b # memlist
  /\ Shape(g)
  /\ DOMAIN g = DOMAIN h \ {b}
  /\ g[a].size = h[a].size + h[b].size + HDR
  /\ g[a].end = h[b].end
  /\ g[a].free = h[a].free
  /\ \A x \in DOMAIN h \ {a, b} : g[x] = h[x]

\* Absorbing the block that follows keeps the arena tiled.
LEMMA MergeShape ==
  ASSUME NEW h, Shape(h), NEW a \in DOMAIN h, ~h[a].end,
         NEW b, b = a + HDR + h[a].size
  PROVE  Merged(h, a, b, Merge(h, a, b))
<1> DEFINE g == Merge(h, a, b)
<1>1. /\ a \in Nat /\ b \in Nat /\ a < b /\ b \in DOMAIN h /\ memlist < b
      /\ \A x \in DOMAIN h : x \in Nat /\ h[x] \in Block
  BY DEF Shape, Tiles, HDR, Block, memlist
<1>2. /\ DOMAIN g = DOMAIN h \ {b}
      /\ g[a] = Hdr(h[a].size + h[b].size + HDR, h[a].free, h[a].end \/ h[b].end)
      /\ \A x \in DOMAIN h \ {a, b} : g[x] = h[x]
  BY <1>1 DEF Merge
<1>3. /\ g[a].size = h[a].size + h[b].size + HDR
      /\ g[a].end = h[b].end /\ g[a].free = h[a].free
      /\ g[a] \in Block
  BY <1>1, <1>2 DEF Hdr, Block, HDR
<1>4. \A x \in DOMAIN g : g[x] \in Block
  BY <1>1, <1>2, <1>3
<1>5. g \in [DOMAIN g -> Block]
  BY <1>4 DEF Merge
<1>6. a + HDR + g[a].size = b + HDR + h[b].size
  BY <1>1, <1>3 DEF HDR, Block
<1> HIDE DEF g
<1>7. Tiles(g)
  <2>1. /\ memlist \in DOMAIN g
        /\ \A x \in DOMAIN g : memlist <= x
    BY <1>1, <1>2 DEF Shape, Tiles, memlist, HDR
  <2>2. \A x \in DOMAIN g : ~g[x].end => x + HDR + g[x].size \in DOMAIN g
    <3> SUFFICES ASSUME NEW x \in DOMAIN g, ~g[x].end
                 PROVE  x + HDR + g[x].size \in DOMAIN g
      OBVIOUS
    <3>1. CASE x = a
      <4>1. b + HDR + h[b].size \in DOMAIN h
        BY <1>1, <1>3, <3>1 DEF Shape, Tiles
      <4>2. b + HDR + h[b].size # b
        BY <1>1 DEF HDR, Block
      <4> QED
        BY <1>2, <1>6, <3>1, <4>1, <4>2
    <3>2. CASE x # a
      <4>1. x + HDR + h[x].size \in DOMAIN h
        BY <1>2, <3>2 DEF Shape, Tiles
      <4>2. x + HDR + h[x].size # b
        BY <1>1, <1>2, <3>2 DEF Shape, Tiles, HDR, Block
      <4> QED
        BY <1>2, <3>2, <4>1, <4>2
    <3> QED
      BY <3>1, <3>2
  <2>3. \A x \in DOMAIN g : g[x].end => x + HDR + g[x].size = HeapEnd
    BY <1>1, <1>2, <1>3, <1>6 DEF Shape, Tiles
  <2>4. \A x, y \in DOMAIN g : x < y => x + HDR + g[x].size <= y
    BY <1>1, <1>2, <1>3, <1>6 DEF Shape, Tiles, HDR, Block
  <2>5. \A x \in DOMAIN g : x + HDR + g[x].size <= HeapEnd
    BY <1>1, <1>2, <1>6 DEF Shape, Tiles
  <2>6. ASSUME NEW y \in DOMAIN g, y # memlist
        PROVE  \E x \in DOMAIN g : ~g[x].end /\ x + HDR + g[x].size = y
    <3>1. PICK x \in DOMAIN h : ~h[x].end /\ x + HDR + h[x].size = y
      BY <1>2, <2>6 DEF Shape, Tiles
    <3>2. CASE x = b
      BY <1>1, <1>2, <1>3, <1>6, <3>1, <3>2
    <3>3. CASE x # b
      <4>1. x # a
        BY <1>2, <3>1
      <4> QED
        BY <1>2, <3>1, <3>3, <4>1
    <3> QED
      BY <3>2, <3>3
  <2>7. \A x \in DOMAIN g : g[x].size % 4 = 0
    <3>1. (h[a].size + h[b].size + HDR) % 4 = 0
      <4>1. h[a].size \in Nat /\ h[b].size \in Nat
        BY <1>1 DEF Block
      <4>2. h[a].size % 4 = 0 /\ h[b].size % 4 = 0
        BY <1>1 DEF Shape, Tiles
      <4> QED
        BY <4>1, <4>2 DEF HDR
    <3> QED
      BY <1>2, <1>3, <3>1 DEF Shape, Tiles
  <2> QED
    BY <2>1, <2>2, <2>3, <2>4, <2>5, <2>6, <2>7 DEF Tiles
<1>8. Shape(g)
  BY <1>1, <1>2, <1>5, <1>7 DEF Shape
<1>9. b # a /\ b # memlist
  BY <1>1 DEF memlist, HDR
<1>10. Merged(h, a, b, g)
  BY <1>1, <1>2, <1>3, <1>8, <1>9 DEF Merged
<1> QED
  BY <1>10 DEF g
-----------------------------------------------------------------------------
(***************************************************************************)
(* Lemmas on allocate_memory and free_memory.                              *)
(***************************************************************************)

\* The addresses of the blocks in use.
Used(h) == {x \in DOMAIN h : ~h[x].free}

\* allocate_memory takes the block a from the free ones, leaves every other
\* block in use as it was, and creates no pair of free neighbours.
LEMMA CarveOK ==
  ASSUME NEW h, Shape(h), Joined(h), NEW a \in DOMAIN h, h[a].free,
         NEW need \in Nat, need % 4 = 0, h[a].size >= need
  PROVE  /\ Shape(Carve(h, a, need))
         /\ Joined(Carve(h, a, need))
         /\ Used(Carve(h, a, need)) = Used(h) \cup {a}
         /\ \A x \in Used(h) : Carve(h, a, need)[x] = h[x]
         /\ Carve(h, a, need)[a].size >= need
         /\ Carve(h, a, need)[a].size <= need + HDR
<1> DEFINE g == Carve(h, a, need)
<1>0. \A x \in DOMAIN h : x \in Nat /\ h[x] \in Block /\ h[x].size \in Nat
  BY DEF Shape, Block
<1>1. CASE h[a].size > need + HDR
  <2> DEFINE n == a + HDR + need
  <2>1. g = Split(h, a, need)
    BY <1>1 DEF Carve
  <2>2. Shape(g) /\ n \notin DOMAIN h
    BY <1>1, <2>1, SplitShape
  <2>3. /\ DOMAIN g = DOMAIN h \cup {n}
        /\ g[a] = Hdr(need, FALSE, FALSE)
        /\ g[n] = Hdr(h[a].size - need - HDR, TRUE, h[a].end)
        /\ \A x \in DOMAIN h : x # a => g[x] = h[x]
    BY <2>1, <2>2 DEF Split
  <2>4. /\ g[a].size = need /\ ~g[a].free
        /\ g[n].free /\ g[n].end = h[a].end
        /\ n + HDR + g[n].size = a + HDR + h[a].size
    BY <1>0, <2>3 DEF Hdr, HDR
  <2> HIDE DEF g, n
  <2>5. Used(g) = Used(h) \cup {a}
    BY <2>2, <2>3, <2>4 DEF Used
  <2>6. Joined(g)
    <3> SUFFICES ASSUME NEW x \in DOMAIN g, ~g[x].end, g[x].free
                 PROVE  ~g[x + HDR + g[x].size].free
      BY DEF Joined
    <3>1. CASE x = n
      <4>1. ~h[a].end
        BY <2>4, <3>1
      <4>2. a + HDR + h[a].size \in DOMAIN h /\ ~h[a + HDR + h[a].size].free
        BY <4>1 DEF Shape, Tiles, Joined
      <4> QED
        BY <2>3, <2>4, <3>1, <4>2
    <3>2. CASE x # n
      <4>1. x \in DOMAIN h /\ x # a /\ g[x] = h[x]
        BY <2>3, <2>4, <3>2
      <4>2. x + HDR + h[x].size \in DOMAIN h /\ ~h[x + HDR + h[x].size].free
        BY <4>1 DEF Shape, Tiles, Joined
      <4>3. x + HDR + h[x].size # a
        BY <4>2
      <4> QED
        BY <2>3, <4>1, <4>2, <4>3
    <3> QED
      BY <3>1, <3>2
  <2>7. \A x \in Used(h) : g[x] = h[x]
    BY <2>3 DEF Used
  <2>8. g[a].size >= need /\ g[a].size <= need + HDR
    BY <2>4 DEF HDR
  <2> QED
    BY <2>2, <2>5, <2>6, <2>7, <2>8 DEF g
<1>2. CASE ~(h[a].size > need + HDR)
  <2>1. g = SetFree(h, a, FALSE)
    BY <1>2 DEF Carve
  <2> HIDE DEF g
  <2>2. /\ Shape(g) /\ DOMAIN g = DOMAIN h
        /\ \A x \in DOMAIN h : g[x].size = h[x].size /\ g[x].end = h[x].end
        /\ ~g[a].free
    <3> DEFINE f == SetFree(h, a, FALSE)
    <3>1. /\ Shape(f) /\ DOMAIN f = DOMAIN h
          /\ \A x \in DOMAIN h : f[x].size = h[x].size /\ f[x].end = h[x].end
          /\ f[a].free = FALSE
      BY SetFreeShape, Zenon
    <3> HIDE DEF f
    <3> QED
      BY <2>1, <3>1 DEF f
  <2>3. \A x \in DOMAIN h : x # a => g[x] = h[x]
    BY <2>1 DEF Shape, SetFree
  <2>4. Used(g) = Used(h) \cup {a}
    BY <2>2, <2>3 DEF Used
  <2>5. Joined(g)
    <3> SUFFICES ASSUME NEW x \in DOMAIN g, ~g[x].end, g[x].free
                 PROVE  ~g[x + HDR + g[x].size].free
      BY DEF Joined
    <3>1. x \in DOMAIN h /\ x # a /\ g[x] = h[x]
      BY <2>2, <2>3
    <3>2. x + HDR + h[x].size \in DOMAIN h /\ ~h[x + HDR + h[x].size].free
      BY <3>1 DEF Shape, Tiles, Joined
    <3> QED
      BY <2>2, <2>3, <3>1, <3>2
  <2>6. \A x \in Used(h) : g[x] = h[x]
    BY <2>3 DEF Used
  <2>7. g[a].size >= need /\ g[a].size <= need + HDR
    <3>1. g[a].size = h[a].size /\ h[a].size \in Nat
      BY <1>0, <2>2
    <3> QED
      BY <1>2, <3>1 DEF HDR
  <2> QED
    BY <2>2, <2>4, <2>5, <2>6, <2>7 DEF g
<1> QED
  BY <1>1, <1>2

\* prev of free_memory is the block just before a.
LEMMA PrevOK ==
  ASSUME NEW h, Shape(h), NEW a \in DOMAIN h, a # memlist
  PROVE  /\ Prev(h, a) \in DOMAIN h
         /\ ~h[Prev(h, a)].end
         /\ Prev(h, a) + HDR + h[Prev(h, a)].size = a
         /\ Prev(h, a) # a
<1>1. \E p \in DOMAIN h : mcb_next(h, p) = a
  BY DEF Shape, Tiles, mcb_next
<1>2. a # NULL
  BY DEF Shape, Tiles, memlist, HDR, NULL
<1>3. Prev(h, a) \in DOMAIN h /\ mcb_next(h, Prev(h, a)) = a
  BY <1>1 DEF Prev
<1> DEFINE p == Prev(h, a)
<1> HIDE DEF p
<1>4. p \in DOMAIN h /\ ~h[p].end /\ p + HDR + h[p].size = a
  BY <1>2, <1>3 DEF mcb_next, p
<1>5. p # a
  BY <1>4 DEF Shape, Block, HDR
<1> QED
  BY <1>4, <1>5 DEF p

\* Only one block ends where a begins.
LEMMA PrevUnique ==
  ASSUME NEW h, Shape(h), NEW x \in DOMAIN h, NEW y \in DOMAIN h,
         x + HDR + h[x].size = y + HDR + h[y].size
  PROVE  x = y
<1>1. /\ x \in Nat /\ y \in Nat /\ h[x].size \in Nat /\ h[y].size \in Nat
      /\ x < y => x + HDR + h[x].size <= y
      /\ y < x => y + HDR + h[y].size <= x
  BY DEF Shape, Tiles, Block
<1> QED
  BY <1>1 DEF HDR

\* After the block a was marked free and joined with the one that follows,
\* the only free neighbours left are the block before a and a itself.
LEMMA ForwardOK ==
  ASSUME NEW h, Shape(h), Joined(h), NEW a \in DOMAIN h, ~h[a].free,
         NEW g, g = AbsorbNext(SetFree(h, a, TRUE), a, mcb_next(h, a))
  PROVE  /\ Shape(g)
         /\ a \in DOMAIN g /\ g[a].free
         /\ Used(g) = Used(h) \ {a}
         /\ \A x \in DOMAIN h : x # a /\ (~h[x].free \/ x < a) =>
              x \in DOMAIN g /\ g[x] = h[x]
         /\ \A x \in DOMAIN g : x # a => x \in DOMAIN h /\ g[x] = h[x]
         /\ \A x \in DOMAIN g :
              ~g[x].end /\ g[x].free /\ x + HDR + g[x].size # a
                => ~g[x + HDR + g[x].size].free
<1> DEFINE next == mcb_next(h, a)
           h1 == SetFree(h, a, TRUE)
<1>0. /\ \A x \in DOMAIN h : x \in Nat /\ h[x] \in Block /\ h[x].size \in Nat
      /\ 0 \notin DOMAIN h
  BY DEF Shape, Block, Tiles, memlist, HDR
<1>1. /\ Shape(h1) /\ DOMAIN h1 = DOMAIN h
      /\ \A x \in DOMAIN h : h1[x].size = h[x].size /\ h1[x].end = h[x].end
      /\ h1[a].free
  <2>1. /\ Shape(h1) /\ DOMAIN h1 = DOMAIN h
        /\ \A x \in DOMAIN h : h1[x].size = h[x].size /\ h1[x].end = h[x].end
        /\ h1[a].free = TRUE
    BY SetFreeShape, Zenon
  <2> HIDE DEF h1
  <2> QED
    BY <2>1
<1>2. \A x \in DOMAIN h : x # a => h1[x] = h[x]
  BY DEF Shape, SetFree
<1>3. \A x \in DOMAIN h : ~h[x].end =>
         /\ x + HDR + h[x].size \in DOMAIN h
         /\ h[x].free => ~h[x + HDR + h[x].size].free
  BY DEF Shape, Tiles, Joined
<1> HIDE DEF h1
<1>4. CASE next # NULL /\ h1[next].free
  <2>1. ~h[a].end /\ next = a + HDR + h[a].size
    BY <1>4 DEF mcb_next
  <2>2. g = Merge(h1, a, next)
    BY <1>4 DEF h1, AbsorbNext
  <2> HIDE DEF next
  <2>3. /\ next \in DOMAIN h /\ next # a
        /\ Shape(g)
        /\ DOMAIN g = DOMAIN h \ {next}
        /\ g[a].size = h[a].size + h[next].size + HDR
        /\ g[a].end = h[next].end
        /\ g[a].free
        /\ \A x \in DOMAIN h \ {a, next} : g[x] = h[x]
    <3>1. a \in DOMAIN h1 /\ ~h1[a].end /\ next = a + HDR + h1[a].size
      BY <1>1, <2>1
    <3>2. Merged(h1, a, next, g)
      BY <1>1, <2>2, <3>1, MergeShape
    <3> QED
      BY <1>1, <1>2, <3>2 DEF Merged
  <2>4. h[next].free
    BY <1>2, <1>4, <2>3
  <2>5. Used(g) = Used(h) \ {a}
    BY <2>3, <2>4 DEF Used
  <2>6. \A x \in DOMAIN h : x # a /\ (~h[x].free \/ x < a) =>
              x \in DOMAIN g /\ g[x] = h[x]
    <3>1. a < next
      BY <1>0, <2>1 DEF HDR
    <3>2. \A x \in DOMAIN h : x < a => x # next
      BY <1>0, <2>3, <3>1
    <3> QED
      BY <2>3, <2>4, <3>2
  <2>7. ASSUME NEW x \in DOMAIN g, ~g[x].end, g[x].free, x + HDR + g[x].size # a
        PROVE  ~g[x + HDR + g[x].size].free
    <3>1. CASE x = a
      <4>1. x + HDR + g[x].size = next + HDR + h[next].size
        <5> DEFINE s == h[a].size
                   t == h[next].size
        <5>1. s \in Nat /\ t \in Nat /\ a \in Nat
          BY <1>0, <2>3
        <5>2. next = a + HDR + s /\ g[x].size = s + t + HDR
          BY <2>1, <2>3, <3>1
        <5> HIDE DEF s, t
        <5>3. next + HDR + t = a + HDR + (s + t + HDR)
          BY <5>1, <5>2 DEF HDR
        <5> QED
          BY <3>1, <5>2, <5>3 DEF t
      <4>2. /\ next + HDR + h[next].size \in DOMAIN h
            /\ ~h[next + HDR + h[next].size].free
        BY <1>3, <2>3, <2>4, <2>7, <3>1
      <4>3. /\ next + HDR + h[next].size # a
            /\ next + HDR + h[next].size # next
        BY <2>4, <2>7, <4>1, <4>2
      <4> QED
        BY <2>3, <4>1, <4>2, <4>3
    <3>2. CASE x # a
      <4>1. x \in DOMAIN h /\ x # next /\ g[x] = h[x]
        BY <2>3, <3>2
      <4>2. x + HDR + h[x].size \in DOMAIN h /\ ~h[x + HDR + h[x].size].free
        BY <1>3, <2>7, <4>1
      <4> QED
        BY <2>3, <2>4, <2>7, <4>1, <4>2
    <3> QED
      BY <3>1, <3>2
  <2> QED
    BY <2>3, <2>5, <2>6, <2>7
<1>5. CASE ~(next # NULL /\ h1[next].free)
  <2>1. g = h1
    BY <1>5 DEF h1, AbsorbNext
  <2>2. Used(g) = Used(h) \ {a}
    BY <1>1, <1>2, <2>1 DEF Used
  <2>3. ASSUME NEW x \in DOMAIN g, ~g[x].end, g[x].free, x + HDR + g[x].size # a
        PROVE  ~g[x + HDR + g[x].size].free
    <3>1. x \in DOMAIN h /\ x + HDR + h[x].size \in DOMAIN h
      BY <1>1, <1>3, <2>1, <2>3
    <3>2. CASE x = a
      <4>1. next = a + HDR + h[a].size
        BY <1>1, <2>1, <2>3, <3>2 DEF mcb_next
      <4> HIDE DEF next
      <4>2. next # NULL
        BY <1>0, <3>1, <3>2, <4>1 DEF NULL
      <4> QED
        BY <1>1, <1>5, <2>1, <3>1, <3>2, <4>1, <4>2
    <3>3. CASE x # a
      <4>1. g[x] = h[x]
        BY <1>2, <2>1, <3>1, <3>3
      <4>2. x + HDR + h[x].size # a
        BY <2>3, <4>1
      <4>3. ~h[x + HDR + h[x].size].free
        BY <1>3, <2>3, <3>1, <4>1
      <4> QED
        BY <1>2, <2>1, <3>1, <4>1, <4>2, <4>3
    <3> QED
      BY <3>2, <3>3
  <2> HIDE DEF next
  <2> QED
    BY <1>1, <1>2, <2>1, <2>2, <2>3
<1> QED
  BY <1>4, <1>5

\* free_memory takes the block a from the blocks in use, leaves every other
\* one as it was, and leaves no pair of free neighbours.
LEMMA ReleaseOK ==
  ASSUME NEW h, Shape(h), Joined(h), NEW a \in DOMAIN h, ~h[a].free
  PROVE  /\ Shape(Release(h, a))
         /\ Joined(Release(h, a))
         /\ Used(Release(h, a)) = Used(h) \ {a}
         /\ \A x \in Used(h) \ {a} : Release(h, a)[x] = h[x]
<1> DEFINE g == AbsorbNext(SetFree(h, a, TRUE), a, mcb_next(h, a))
           p == Prev(h, a)
           r == Release(h, a)
<1>1. /\ Shape(g)
      /\ a \in DOMAIN g /\ g[a].free
      /\ Used(g) = Used(h) \ {a}
      /\ \A x \in DOMAIN h : x # a /\ (~h[x].free \/ x < a) =>
           x \in DOMAIN g /\ g[x] = h[x]
      /\ \A x \in DOMAIN g : x # a => x \in DOMAIN h /\ g[x] = h[x]
      /\ \A x \in DOMAIN g :
           ~g[x].end /\ g[x].free /\ x + HDR + g[x].size # a
             => ~g[x + HDR + g[x].size].free
  BY ForwardOK
<1>2. r = IF a # memlist /\ g[p].free THEN Merge(g, p, a) ELSE g
  BY DEF Release
<1>3. \A x \in Used(h) \ {a} : x \in DOMAIN g /\ g[x] = h[x]
  BY <1>1 DEF Used
<1>4. ASSUME a # memlist
      PROVE  /\ p \in DOMAIN h /\ p \in DOMAIN g /\ p # a
             /\ ~g[p].end /\ g[p] = h[p] /\ p + HDR + g[p].size = a
  <2>1. p \in DOMAIN h /\ ~h[p].end /\ p + HDR + h[p].size = a /\ p # a
    BY <1>4, PrevOK
  <2> HIDE DEF p, g
  <2>2. p < a
    BY <2>1 DEF Shape, Block, HDR
  <2> QED
    BY <1>1, <2>1, <2>2
<1> HIDE DEF g, p, r
<1>5. CASE a # memlist /\ g[p].free
  <2>1. r = Merge(g, p, a)
    BY <1>2, <1>5
  <2>2. Merged(g, p, a, r)
    BY <1>1, <1>4, <1>5, <2>1, MergeShape
  <2>3. /\ Shape(r) /\ DOMAIN r = DOMAIN g \ {a}
        /\ r[p].free /\ r[p].end = g[a].end
        /\ \A x \in DOMAIN g \ {p, a} : r[x] = g[x]
    BY <1>5, <2>2 DEF Merged
  <2>4. p + HDR + r[p].size = a + HDR + g[a].size
    <3> DEFINE s == g[p].size
               t == g[a].size
    <3>1. s \in Nat /\ t \in Nat /\ p \in Nat
      BY <1>1, <1>4, <1>5 DEF Shape, Block
    <3>2. r[p].size = s + t + HDR /\ a = p + HDR + s
      BY <1>4, <1>5, <2>2 DEF Merged
    <3> HIDE DEF s, t
    <3>3. p + HDR + (s + t + HDR) = a + HDR + t
      BY <3>1, <3>2 DEF HDR
    <3> QED
      BY <3>2, <3>3 DEF t
  <2>5. Used(r) = Used(h) \ {a}
    BY <1>1, <1>4, <1>5, <2>3 DEF Used
  <2>6. Joined(r)
    <3> SUFFICES ASSUME NEW x \in DOMAIN r, ~r[x].end, r[x].free
                 PROVE  ~r[x + HDR + r[x].size].free
      BY DEF Joined
    <3>1. x + HDR + r[x].size \in DOMAIN r
      BY <2>3 DEF Shape, Tiles
    <3>2. CASE x = p
      <4>1. a + HDR + g[a].size \in DOMAIN r /\ ~g[a].end
        BY <2>3, <2>4, <3>1, <3>2
      <4>2. a + HDR + g[a].size # a
        BY <2>3, <4>1
      <4>3. ~g[a + HDR + g[a].size].free
        BY <1>1, <4>1, <4>2
      <4>4. a + HDR + g[a].size # p
        BY <1>5, <4>3
      <4> QED
        BY <2>3, <2>4, <3>2, <4>1, <4>3, <4>4
    <3>3. CASE x # p
      <4>1. x \in DOMAIN g /\ r[x] = g[x] /\ x # a
        BY <2>3, <3>3
      <4>2. x + HDR + g[x].size # a
        BY <2>3, <3>1, <4>1
      <4>3. ~g[x + HDR + g[x].size].free
        BY <1>1, <4>1, <4>2
      <4>4. x + HDR + g[x].size # p
        BY <1>5, <4>3
      <4> QED
        BY <2>3, <3>1, <4>1, <4>3, <4>4
    <3> QED
      BY <3>2, <3>3
  <2>7. \A x \in Used(h) \ {a} : r[x] = h[x]
    <3>1. \A x \in Used(h) \ {a} : x # p
      BY <1>4, <1>5 DEF Used
    <3> QED
      BY <1>3, <2>3, <3>1
  <2> QED
    BY <2>3, <2>5, <2>6, <2>7 DEF r
<1>6. CASE ~(a # memlist /\ g[p].free)
  <2>1. r = g
    BY <1>2, <1>6
  <2>2. Joined(r)
    <3> SUFFICES ASSUME NEW x \in DOMAIN g, ~g[x].end, g[x].free
                 PROVE  ~g[x + HDR + g[x].size].free
      BY <2>1 DEF Joined
    <3>1. x + HDR + g[x].size # a
      <4>1. CASE a = memlist
        <5>1. x \in Nat /\ memlist <= x /\ g[x].size \in Nat
          BY <1>1 DEF Shape, Tiles, Block
        <5> QED
          BY <4>1, <5>1 DEF HDR, memlist
      <4>2. CASE a # memlist /\ ~g[p].free
        <5>1. x # p
          BY <4>2
        <5> QED
          BY <1>1, <1>4, <4>2, <5>1, PrevUnique
      <4> QED
        BY <1>6, <4>1, <4>2
    <3> QED
      BY <1>1, <3>1
  <2> QED
    BY <1>1, <1>3, <2>1, <2>2 DEF r
<1> QED
  BY <1>5, <1>6
-----------------------------------------------------------------------------
(***************************************************************************)
(* The invariant is inductive: one lemma per action.                       *)
(***************************************************************************)

\* What the proofs below use of the invariant.
LEMMA InvFacts ==
  ASSUME Inv
  PROVE  /\ Shape(mcb) /\ Joined(mcb)
         /\ DOMAIN asked = {a + HDR : a \in Used(mcb)}
         /\ \A p \in DOMAIN asked : p \in Nat /\ p - HDR \in Used(mcb)
BY DEF Inv, TypeOK, Tiled, Coalesced, ClientsAgree, Shape, Used, HDR

\* initialize_heap() establishes the invariant.
LEMMA InitInv == Init => Inv
<1> SUFFICES ASSUME Init PROVE Inv
  OBVIOUS
<1>1. /\ DOMAIN mcb = {memlist}
      /\ mcb[memlist] = Hdr(roundup(HeapSize), TRUE, TRUE)
      /\ mcb[memlist] \in Block
      /\ mcb[memlist].size = roundup(HeapSize)
      /\ mcb[memlist].free /\ mcb[memlist].end
  BY HeapEndType DEF Init, Hdr, Block
<1>2. DOMAIN asked = {} /\ panic \in BOOLEAN
  BY DEF Init
<1>3. mcb \in [DOMAIN mcb -> Block] /\ asked \in [DOMAIN asked -> Requests]
  BY <1>1, <1>2 DEF Init
<1>4. TypeOK
  <2>1. memlist \in Nat
    BY DEF memlist, HDR
  <2> QED
    BY <1>1, <1>2, <1>3, <2>1 DEF TypeOK
<1>5. Tiled
  <2>1. /\ memlist \in Nat /\ memlist <= memlist
        /\ memlist + HDR + roundup(HeapSize) = HeapEnd
        /\ HeapEnd <= HeapEnd
        /\ \A a, b \in {memlist} : ~(a < b)
    BY HeapEndType DEF HeapEnd, memlist, HDR
  <2> QED
    BY <1>1, <2>1, HeapEndType DEF Tiled, Tiles
<1>6. Coalesced /\ ClientsAgree /\ TightFit
  BY <1>1, <1>2 DEF Coalesced, Joined, ClientsAgree, TightFit
<1> QED
  BY <1>4, <1>5, <1>6 DEF Inv

\* What a successful allocate_memory(sz) does: the block a is in use and held
\* by the caller, everything held before is untouched.
LEMMA AllocateStep ==
  ASSUME Inv, NEW sz \in Requests, allocate_memory(sz)
  PROVE  \E a \in DOMAIN mcb :
           /\ mcb[a].free
           /\ Shape(mcb') /\ Joined(mcb')
           /\ Used(mcb') = Used(mcb) \cup {a}
           /\ \A x \in Used(mcb) : mcb'[x] = mcb[x]
           /\ mcb'[a].size >= roundup(sz)
           /\ mcb'[a].size <= roundup(sz) + HDR
           /\ DOMAIN asked' = DOMAIN asked \cup {a + HDR}
           /\ asked'[a + HDR] = sz
           /\ \A p \in DOMAIN asked : p # a + HDR => asked'[p] = asked[p]
           /\ asked' \in [DOMAIN asked' -> Requests]
<1>1. PICK a \in DOMAIN mcb :
        /\ FirstFit(a, roundup(sz))
        /\ mcb' = Carve(mcb, a, roundup(sz))
        /\ asked' = [p \in DOMAIN asked \cup {a + HDR} |->
                       IF p = a + HDR THEN sz ELSE asked[p]]
  BY DEF allocate_memory
<1>2. roundup(sz) \in Nat /\ roundup(sz) % 4 = 0
  <2>1. sz \in Nat /\ sz < SizeMod
    BY HeapAssumption
  <2> QED
    BY <2>1, RoundupType
<1>3. mcb[a].free /\ mcb[a].size >= roundup(sz)
  BY <1>1 DEF FirstFit, Fits
<1>4. Shape(mcb) /\ Joined(mcb)
  BY InvFacts
<1>5. /\ Shape(mcb') /\ Joined(mcb')
      /\ Used(mcb') = Used(mcb) \cup {a}
      /\ \A x \in Used(mcb) : mcb'[x] = mcb[x]
      /\ mcb'[a].size >= roundup(sz)
      /\ mcb'[a].size <= roundup(sz) + HDR
  BY <1>1, <1>2, <1>3, <1>4, CarveOK
<1>6. /\ DOMAIN asked' = DOMAIN asked \cup {a + HDR}
      /\ asked'[a + HDR] = sz
      /\ \A p \in DOMAIN asked : p # a + HDR => asked'[p] = asked[p]
      /\ asked' \in [DOMAIN asked' -> Requests]
  BY <1>1 DEF Inv, TypeOK
<1> QED
  BY <1>3, <1>5, <1>6

\* What a successful free_memory(ptr) does: ptr is no longer held, everything
\* else that is held is untouched.
LEMMA FreeStep ==
  ASSUME Inv, NEW ptr \in Pointers, free_memory(ptr)
  PROVE  /\ ptr \in Nat /\ ptr - HDR \in Used(mcb)
         /\ Shape(mcb') /\ Joined(mcb')
         /\ Used(mcb') = Used(mcb) \ {ptr - HDR}
         /\ \A x \in Used(mcb) \ {ptr - HDR} : mcb'[x] = mcb[x]
         /\ DOMAIN asked' = DOMAIN asked \ {ptr}
         /\ \A p \in DOMAIN asked' : asked'[p] = asked[p]
         /\ asked' \in [DOMAIN asked' -> Requests]
<1>1. Shape(mcb) /\ Joined(mcb)
  BY InvFacts
<1>2. PICK a \in DOMAIN mcb : a + HDR = ptr /\ ~mcb[a].free
  BY DEF free_memory, Allocated
<1>3. a \in Nat /\ ptr \in Nat /\ ptr - HDR = a
  BY <1>1, <1>2 DEF Shape, HDR
<1>4. mcb' = Release(mcb, a)
  BY <1>3 DEF free_memory
<1>5. /\ Shape(mcb') /\ Joined(mcb')
      /\ Used(mcb') = Used(mcb) \ {a}
      /\ \A x \in Used(mcb) \ {a} : mcb'[x] = mcb[x]
  BY <1>1, <1>2, <1>4, ReleaseOK
<1>6. a \in Used(mcb)
  BY <1>2 DEF Used
<1>7. /\ DOMAIN asked' = DOMAIN asked \ {ptr}
      /\ \A p \in DOMAIN asked' : asked'[p] = asked[p]
      /\ asked' \in [DOMAIN asked' -> Requests]
  BY DEF free_memory, Inv, TypeOK
<1> QED
  BY <1>3, <1>5, <1>6, <1>7

\* allocate_memory() preserves the invariant.
LEMMA AllocateInv ==
  ASSUME Inv, NEW sz \in Requests, allocate_memory(sz)
  PROVE  Inv'
<1>1. PICK a \in DOMAIN mcb :
        /\ mcb[a].free
        /\ Shape(mcb') /\ Joined(mcb')
        /\ Used(mcb') = Used(mcb) \cup {a}
        /\ \A x \in Used(mcb) : mcb'[x] = mcb[x]
        /\ mcb'[a].size >= roundup(sz)
        /\ mcb'[a].size <= roundup(sz) + HDR
        /\ DOMAIN asked' = DOMAIN asked \cup {a + HDR}
        /\ asked'[a + HDR] = sz
        /\ \A p \in DOMAIN asked : p # a + HDR => asked'[p] = asked[p]
        /\ asked' \in [DOMAIN asked' -> Requests]
  BY AllocateStep
<1>2. /\ a \in Nat /\ a \notin Used(mcb)
      /\ \A p \in DOMAIN asked : p \in Nat /\ p - HDR \in Used(mcb)
      /\ DOMAIN asked = {x + HDR : x \in Used(mcb)}
  BY <1>1, InvFacts DEF Shape, Used
<1>3. TypeOK'
  BY <1>1, <1>2 DEF TypeOK, Inv, Shape, allocate_memory, HDR
<1>4. Tiled' /\ Coalesced'
  BY <1>1 DEF Tiled, Coalesced, Shape
<1>5. ClientsAgree'
  BY <1>1, <1>2 DEF ClientsAgree, Used
<1>6. TightFit'
  <2> SUFFICES ASSUME NEW p \in DOMAIN asked'
               PROVE  /\ roundup(asked'[p]) <= mcb'[p - HDR].size
                      /\ mcb'[p - HDR].size <= roundup(asked'[p]) + HDR
    BY DEF TightFit
  <2>1. CASE p = a + HDR
    <3>1. p - HDR = a
      BY <1>2, <2>1 DEF HDR
    <3>2. mcb'[a].size \in Nat /\ roundup(sz) \in Nat
      <4>1. a \in DOMAIN mcb'
        BY <1>1 DEF Used
      <4>2. sz \in Nat /\ sz < SizeMod
        BY HeapAssumption
      <4> QED
        BY <1>1, <4>1, <4>2, RoundupType DEF Shape, Block
    <3> QED
      BY <1>1, <2>1, <3>1, <3>2
  <2>2. CASE p # a + HDR
    BY <1>1, <1>2, <2>2 DEF Inv, TightFit
  <2> QED
    BY <2>1, <2>2
<1> QED
  BY <1>3, <1>4, <1>5, <1>6 DEF Inv

\* free_memory() preserves the invariant.
LEMMA FreeInv ==
  ASSUME Inv, NEW ptr \in Pointers, free_memory(ptr)
  PROVE  Inv'
<1>1. /\ ptr \in Nat /\ ptr - HDR \in Used(mcb)
      /\ Shape(mcb') /\ Joined(mcb')
      /\ Used(mcb') = Used(mcb) \ {ptr - HDR}
      /\ \A x \in Used(mcb) \ {ptr - HDR} : mcb'[x] = mcb[x]
      /\ DOMAIN asked' = DOMAIN asked \ {ptr}
      /\ \A p \in DOMAIN asked' : asked'[p] = asked[p]
      /\ asked' \in [DOMAIN asked' -> Requests]
  BY FreeStep
<1>2. /\ \A x \in Used(mcb) : x \in Nat
      /\ \A p \in DOMAIN asked : p \in Nat /\ p - HDR \in Used(mcb)
      /\ DOMAIN asked = {x + HDR : x \in Used(mcb)}
  BY InvFacts DEF Shape, Used
<1>3. TypeOK'
  BY <1>1, <1>2 DEF TypeOK, Inv, Shape, free_memory
<1>4. Tiled' /\ Coalesced'
  BY <1>1 DEF Tiled, Coalesced, Shape
<1>5. ClientsAgree'
  <2>1. DOMAIN asked' = {x + HDR : x \in Used(mcb')}
    BY <1>1, <1>2 DEF HDR
  <2> QED
    BY <2>1 DEF ClientsAgree, Used
<1>6. TightFit'
  <2> SUFFICES ASSUME NEW p \in DOMAIN asked'
               PROVE  /\ roundup(asked'[p]) <= mcb'[p - HDR].size
                      /\ mcb'[p - HDR].size <= roundup(asked'[p]) + HDR
    BY DEF TightFit
  <2>1. p \in DOMAIN asked /\ p # ptr /\ p - HDR \in Used(mcb)
    BY <1>1, <1>2
  <2>2. p - HDR # ptr - HDR
    BY <1>1, <1>2, <2>1 DEF HDR
  <2> QED
    BY <1>1, <2>1, <2>2 DEF Inv, TightFit
<1> QED
  BY <1>3, <1>4, <1>5, <1>6 DEF Inv

\* Every call of lib/mem.c preserves the invariant.
LEMMA NextInv == Inv /\ [Next]_vars => Inv'
<1> SUFFICES ASSUME Inv, [Next]_vars PROVE Inv'
  OBVIOUS
<1>1. ASSUME NEW sz \in Requests, allocate_memory(sz) PROVE Inv'
  BY <1>1, AllocateInv
<1>2. ASSUME NEW ptr \in Pointers, free_memory(ptr) PROVE Inv'
  BY <1>2, FreeInv
<1>3. ASSUME NEW ptr \in Pointers, free_memory_unknown(ptr) PROVE Inv'
  BY <1>3 DEF free_memory_unknown, Inv, TypeOK, Tiled, Coalesced,
              ClientsAgree, TightFit
<1>4. ASSUME UNCHANGED vars PROVE Inv'
  BY <1>4 DEF vars, Inv, TypeOK, Tiled, Coalesced, ClientsAgree, TightFit
<1>5. ASSUME NEW sz \in Requests, allocate_memory_fails(sz) PROVE Inv'
  BY <1>4, <1>5 DEF allocate_memory_fails
<1> QED
  BY <1>1, <1>2, <1>3, <1>4, <1>5 DEF Next
-----------------------------------------------------------------------------
(***************************************************************************)
(* The theorems.                                                           *)
(***************************************************************************)

\* The invariant holds in every state the heap manager reaches.
THEOREM Invariance == Spec => []Inv
<1> QED
  BY InitInv, NextInv, PTL DEF Spec

\* Every variable of the heap model keeps its type: in particular no size
\* computed by lib/mem.c ever goes below zero.
THEOREM TypeCorrect == Spec => []TypeOK
<1>1. Inv => TypeOK
  BY DEF Inv
<1> QED
  BY <1>1, Invariance, PTL

\* The blocks of lib/mem.c always tile the arena, whatever is allocated and
\* freed: mcb_next() leads from block to block up to the END block.
THEOREM AlwaysTiled == Spec => []Tiled
<1>1. Inv => Tiled
  BY DEF Inv
<1> QED
  BY <1>1, Invariance, PTL

\* free_memory() never leaves two neighbouring free blocks.
THEOREM AlwaysCoalesced == Spec => []Coalesced
<1>1. Inv => Coalesced
  BY DEF Inv
<1> QED
  BY <1>1, Invariance, PTL

\* The blocks marked allocated are exactly the ones clients hold.
THEOREM AlwaysAgree == Spec => []ClientsAgree
<1>1. Inv => ClientsAgree
  BY DEF Inv
<1> QED
  BY <1>1, Invariance, PTL

\* allocate_memory() hands out its rounded request, or at most a header more.
THEOREM AlwaysTight == Spec => []TightFit
<1>1. Inv => TightFit
  BY DEF Inv
<1> QED
  BY <1>1, Invariance, PTL

\* Where no request is so large that roundup() wraps, every client holds at
\* least the bytes it asked for.
THEOREM AlwaysGrants ==
  ASSUME \A sz \in Requests : sz + 4 <= SizeMod
  PROVE  Spec => []GrantsRequest
<1>1. ASSUME NEW s \in Requests
      PROVE  roundup(s) \in Nat /\ s <= roundup(s)
  <2>1. s \in Nat /\ SizeMod \in Nat /\ SizeMod % 4 = 0 /\ s + 4 <= SizeMod
    BY <1>1, HeapAssumption
  <2> DEFINE r == s - (s % 4) + 4
  <2>2. CASE s % 4 # 0
    <3>1. r \in Nat /\ r < SizeMod /\ s <= r
      BY <2>1, <2>2
    <3>2. r % SizeMod = r
      BY <2>1, <3>1, ModBelow
    <3> QED
      BY <2>2, <3>1, <3>2 DEF roundup
  <2>3. CASE s % 4 = 0
    BY <2>1, <2>3 DEF roundup
  <2> QED
    BY <2>2, <2>3
<1>2. Inv => GrantsRequest
  <2> SUFFICES ASSUME Inv, NEW p \in DOMAIN asked
               PROVE  mcb[p - HDR].size >= asked[p]
    BY DEF GrantsRequest
  <2>1. asked[p] \in Requests /\ asked[p] \in Nat
    BY HeapAssumption DEF Inv, TypeOK
  <2>2. mcb[p - HDR].size \in Nat
    BY InvFacts DEF Shape, Used, Block
  <2>3. roundup(asked[p]) <= mcb[p - HDR].size
    BY DEF Inv, TightFit
  <2> QED
    BY <1>1, <2>1, <2>2, <2>3
<1> QED
  BY <1>2, Invariance, PTL

\* When every client has freed what it held, free_memory() has restored the
\* single block that initialize_heap() made.
THEOREM AlwaysReclaimed == Spec => []AllReclaimed
<1>1. Inv => AllReclaimed
  <2> SUFFICES ASSUME Inv, DOMAIN asked = {}
               PROVE  mcb = [a \in {memlist} |-> Hdr(roundup(HeapSize), TRUE, TRUE)]
    BY DEF AllReclaimed
  <2>1. Shape(mcb) /\ Joined(mcb) /\ Used(mcb) = {}
    BY InvFacts
  <2>2. \A a \in DOMAIN mcb : mcb[a].free /\ mcb[a].end
    BY <2>1 DEF Used, Joined, Shape, Tiles
  <2>3. memlist \in DOMAIN mcb /\ memlist + HDR + mcb[memlist].size = HeapEnd
    BY <2>1, <2>2 DEF Shape, Tiles
  <2>4. ASSUME NEW a \in DOMAIN mcb, a # memlist PROVE FALSE
    <3>1. /\ a \in Nat /\ mcb[a].size \in Nat /\ mcb[memlist].size \in Nat
          /\ memlist < a /\ memlist + HDR + mcb[memlist].size <= a
          /\ a + HDR + mcb[a].size <= HeapEnd
      BY <2>1, <2>3, <2>4 DEF Shape, Tiles, Block, memlist, HDR
    <3> QED
      BY <2>3, <3>1 DEF memlist, HDR
  <2>5. DOMAIN mcb = {memlist}
    BY <2>3, <2>4
  <2>6. mcb[memlist].size = roundup(HeapSize)
    <3>1. mcb[memlist].size \in Nat
      BY <2>1, <2>3 DEF Shape, Block
    <3> QED
      BY <2>3, <3>1, HeapEndType DEF HeapEnd, memlist, HDR
  <2>7. mcb[memlist] = Hdr(roundup(HeapSize), TRUE, TRUE)
    <3>1. mcb[memlist] \in Block
      BY <2>1, <2>3 DEF Shape
    <3>2. mcb[memlist].free = TRUE /\ mcb[memlist].end = TRUE
      BY <2>2, <2>3, <3>1 DEF Block
    <3>3. mcb[memlist] = [size |-> mcb[memlist].size, free |-> mcb[memlist].free,
                          end |-> mcb[memlist].end]
      BY <3>1 DEF Block
    <3> QED
      BY <2>6, <3>2, <3>3 DEF Hdr
  <2>8. mcb \in [DOMAIN mcb -> Block]
    BY <2>1 DEF Shape
  <2> QED
    BY <2>5, <2>7, <2>8
<1> QED
  BY <1>1, Invariance, PTL
-----------------------------------------------------------------------------
(***************************************************************************)
(* The heap implements the abstract allocator.                             *)
(***************************************************************************)

\* What clients hold, as the abstract allocator sees it.
Live == [p \in DOMAIN asked |-> mcb[p - HDR].size]

\* A region held by a client lies in the arena, and two of them never overlap.
LEMMA HeldRegions ==
  ASSUME NEW h, Shape(h), NEW x \in Used(h)
  PROVE  /\ h[x].size \in 0 .. HeapEnd - memlist
         /\ x + HDR \in memlist .. HeapEnd
         /\ x + HDR + h[x].size <= HeapEnd
         /\ \A y \in Used(h) : x # y =>
              Abstract!Apart(x + HDR, h[x].size, y + HDR, h[y].size)
<1>1. /\ x \in DOMAIN h /\ x \in Nat /\ h[x].size \in Nat /\ memlist <= x
      /\ x + HDR + h[x].size <= HeapEnd /\ HeapEnd \in Nat
  BY HeapEndType DEF Shape, Tiles, Used, Block
<1>2. ASSUME NEW y \in Used(h), x # y
      PROVE  Abstract!Apart(x + HDR, h[x].size, y + HDR, h[y].size)
  <2>1. /\ y \in Nat /\ h[y].size \in Nat
        /\ x < y => x + HDR + h[x].size <= y
        /\ y < x => y + HDR + h[y].size <= x
    BY <1>1, <1>2 DEF Shape, Tiles, Used, Block
  <2> QED
    BY <1>1, <1>2, <2>1 DEF Abstract!Apart, HDR
<1> QED
  BY <1>1, <1>2 DEF memlist, HDR

\* allocate_memory() is a Grant of the abstract allocator.
LEMMA AllocateGrants ==
  ASSUME Inv, NEW sz \in Requests, allocate_memory(sz)
  PROVE  Abstract!Next
<1>1. PICK a \in DOMAIN mcb :
        /\ mcb[a].free
        /\ Shape(mcb')
        /\ Used(mcb') = Used(mcb) \cup {a}
        /\ \A x \in Used(mcb) : mcb'[x] = mcb[x]
        /\ DOMAIN asked' = DOMAIN asked \cup {a + HDR}
  BY AllocateStep
<1>2. /\ a \in Nat /\ a \notin Used(mcb)
      /\ \A p \in DOMAIN asked : p \in Nat /\ p - HDR \in Used(mcb)
  BY <1>1, InvFacts DEF Shape, Used
<1>0. PICK n : n = mcb'[a].size
  OBVIOUS
<1> DEFINE q == a + HDR
<1>3. q - HDR = a
  BY <1>2 DEF HDR
<1>4. \A p \in DOMAIN asked : p # q /\ p - HDR # a
  BY <1>2 DEF HDR
<1>5. /\ n \in 0 .. HeapEnd - memlist
      /\ q \in memlist .. HeapEnd
      /\ q + n <= HeapEnd
      /\ \A y \in Used(mcb') : a # y =>
           Abstract!Apart(q, n, y + HDR, mcb'[y].size)
  BY <1>0, <1>1, HeldRegions
<1>6. ASSUME NEW p \in DOMAIN Live
      PROVE  Abstract!Apart(q, n, p, Live[p])
  <2>1. /\ p \in DOMAIN asked /\ Live[p] = mcb[p - HDR].size
        /\ p - HDR \in Used(mcb) /\ p - HDR + HDR = p
    BY <1>2, <1>6 DEF Live, HDR
  <2>2. p - HDR \in Used(mcb') /\ mcb'[p - HDR] = mcb[p - HDR]
    BY <1>1, <2>1
  <2>3. Abstract!Apart(q, n, p - HDR + HDR, mcb'[p - HDR].size)
    BY <1>4, <1>5, <2>1, <2>2
  <2> QED
    BY <2>1, <2>2, <2>3
<1>7. Live' = [p \in DOMAIN Live \cup {q} |-> IF p = q THEN n ELSE Live[p]]
  BY <1>0, <1>1, <1>2, <1>3, <1>4 DEF Live
<1> HIDE DEF q
<1>8. Abstract!Grant(q, n)
  BY <1>5, <1>6, <1>7 DEF Abstract!Grant, Live
<1> QED
  BY <1>5, <1>8 DEF Abstract!Next

\* free_memory() is a GiveBack of the abstract allocator.
LEMMA FreeGivesBack ==
  ASSUME Inv, NEW ptr \in Pointers, free_memory(ptr)
  PROVE  Abstract!Next
<1>1. /\ ptr \in Nat /\ ptr - HDR \in Used(mcb)
      /\ \A x \in Used(mcb) \ {ptr - HDR} : mcb'[x] = mcb[x]
      /\ DOMAIN asked' = DOMAIN asked \ {ptr}
  BY FreeStep
<1>2. /\ Shape(mcb)
      /\ \A p \in DOMAIN asked : p \in Nat /\ p - HDR \in Used(mcb)
      /\ DOMAIN asked = {x + HDR : x \in Used(mcb)}
  BY InvFacts
<1>3. ptr - HDR + HDR = ptr
  BY <1>1 DEF HDR
<1>4. ptr \in DOMAIN asked /\ ptr \in memlist .. HeapEnd
  <2>1. ptr - HDR + HDR \in memlist .. HeapEnd
    BY <1>1, <1>2, HeldRegions
  <2> QED
    BY <1>1, <1>2, <1>3, <2>1
<1>5. \A p \in DOMAIN asked' : mcb'[p - HDR].size = mcb[p - HDR].size
  <2>1. \A p \in DOMAIN asked' : p - HDR # ptr - HDR
    BY <1>1, <1>2 DEF HDR
  <2> QED
    BY <1>1, <1>2, <2>1
<1>6. Live' = [p \in DOMAIN Live \ {ptr} |-> Live[p]]
  BY <1>1, <1>5 DEF Live
<1>7. Abstract!GiveBack(ptr)
  BY <1>4, <1>6 DEF Abstract!GiveBack, Live
<1> QED
  BY <1>4, <1>7 DEF Abstract!Next

\* Every behaviour of lib/mem.c is one of the abstract allocator: regions in
\* use never overlap, stay inside the arena, and keep their place and length
\* until their holder frees them.
THEOREM Refinement == Spec => ImplementsAllocator
<1>1. Init => Abstract!Init
  BY DEF Init, Abstract!Init
<1>2. ASSUME Inv, [Next]_vars PROVE [Abstract!Next]_Live
  <2>1. ASSUME NEW sz \in Requests, allocate_memory(sz) PROVE Abstract!Next
    BY <1>2, <2>1, AllocateGrants
  <2>2. ASSUME NEW ptr \in Pointers, free_memory(ptr) PROVE Abstract!Next
    BY <1>2, <2>2, FreeGivesBack
  <2>3. ASSUME UNCHANGED <<mcb, asked>> PROVE UNCHANGED Live
    BY <2>3 DEF Live
  <2>4. ASSUME NEW sz \in Requests, allocate_memory_fails(sz)
        PROVE  UNCHANGED Live
    BY <2>3, <2>4 DEF allocate_memory_fails, vars
  <2>5. ASSUME NEW ptr \in Pointers, free_memory_unknown(ptr)
        PROVE  UNCHANGED Live
    BY <2>3, <2>5 DEF free_memory_unknown
  <2>6. ASSUME UNCHANGED vars PROVE UNCHANGED Live
    BY <2>3, <2>6 DEF vars
  <2> QED
    BY <1>2, <2>1, <2>2, <2>4, <2>5, <2>6 DEF Next
<1>3. ASSUME [Abstract!Next]_Live
      PROVE  [Abstract!Next]_([p \in DOMAIN asked |-> mcb[p - HDR].size])
  BY <1>3 DEF Live
<1> QED
  BY <1>1, <1>2, <1>3, Invariance, PTL DEF Spec, ImplementsAllocator, Abstract!Spec
=============================================================================
