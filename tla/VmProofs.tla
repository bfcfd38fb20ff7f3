------------------------------ MODULE VmProofs ------------------------------
(***************************************************************************)
(* The mapping that vm_init sets up, for every size of page, table,        *)
(* directory, memory and kernel heap, and for every end of the kernel.     *)
(***************************************************************************)
EXTENDS Vm, TLAPS

-----------------------------------------------------------------------------
(***************************************************************************)
(* Arithmetic of pages.                                                    *)
(***************************************************************************)

\* Division with remainder.
LEMMA DivMod ==
  ASSUME NEW a \in Nat, NEW k \in Nat \ {0}
  PROVE  /\ a \div k \in Nat /\ a % k \in 0 .. k - 1
         /\ a = k * (a \div k) + (a % k)
  OBVIOUS

\* Pages are laid out one after the other.
LEMMA MulMono ==
  ASSUME NEW p \in Nat, NEW q \in Nat, NEW k \in Nat \ {0}
  PROVE  /\ p * k \in Nat
         /\ p < q => p * k + k <= q * k
         /\ p * k < q * k => p < q
  OBVIOUS

\* The page of the first address of a page.
LEMMA DivMul ==
  ASSUME NEW p \in Nat, NEW k \in Nat \ {0}
  PROVE  (p * k) \div k = p /\ (p * k) % k = 0
  OBVIOUS

\* The page of an address between two page boundaries.
LEMMA DivRange ==
  ASSUME NEW a \in Nat, NEW p \in Nat, NEW q \in Nat, NEW k \in Nat \ {0},
         p * k <= a, a < q * k
  PROVE  a \div k \in p .. q - 1
  OBVIOUS

\* kmalloc's alignment gives a page boundary at or behind the address.
LEMMA AlignedPage ==
  ASSUME NEW a \in Nat, a >= PAGE_SIZE
  PROVE  \E m \in Nat \ {0} : Aligned(a) = m * PAGE_SIZE /\ Aligned(a) >= a
  <1>1. /\ a \div PAGE_SIZE \in Nat
        /\ a = PAGE_SIZE * (a \div PAGE_SIZE) + (a % PAGE_SIZE)
        /\ a % PAGE_SIZE \in 0 .. PAGE_SIZE - 1
    BY VmAssumption, DivMod
  <1> DEFINE d == a \div PAGE_SIZE
  <1>2. (d + 1) * PAGE_SIZE = PAGE_SIZE * d + PAGE_SIZE
    BY <1>1, VmAssumption
  <1>3. Aligned(a) = (d + 1) * PAGE_SIZE
    BY VmAssumption DEF Aligned
  <1>4. Aligned(a) >= a
    BY <1>1, <1>2, <1>3, VmAssumption
  <1> QED
    BY <1>1, <1>3, <1>4
-----------------------------------------------------------------------------
(***************************************************************************)
(* The invariant.                                                          *)
(***************************************************************************)

\* The first n pages have the frames of their own numbers, the first k pages
\* of the kernel heap the k frames that follow; nothing else is mapped.
Shaped(fs, ps, addr, n, k) ==
  /\ fs = 0 .. n + k - 1
  /\ ps \ {0} = (1 .. n - 1) \cup (KHEAP_PAGE .. KHEAP_PAGE + k - 1)
  /\ 0 \in ps => n > 0
  /\ \A p \in Pages :
       addr[p] = IF p < n THEN p
                 ELSE IF p >= KHEAP_PAGE /\ p < KHEAP_PAGE + k
                 THEN n + (p - KHEAP_PAGE) ELSE 0

Shape(n, k) == Shaped(frames, present, frameaddr, n, k)

\* As above, with all memory in use among the first n pages.
Mapped(n, k) ==
  /\ n \in 1 .. NFRAMES /\ n + k <= NFRAMES
  /\ phys_alloc_addr <= n * PAGE_SIZE
  /\ Shape(n, k)

HeapTablesMade ==
  /\ at = "tables" =>
       /\ i >= KHEAP_BASE
       /\ \A a \in KHEAP_BASE .. i - 1 : TableOf(a \div PAGE_SIZE) \in DOMAIN tables
  /\ at \in {"identity", "heap", "null", "on"} =>
       \A p \in KHEAP_PAGE .. KHEAP_END - 1 : TableOf(p) \in DOMAIN tables

MapInv ==
  /\ at \in {"dir", "tables"} => Shape(0, 0)
  /\ at = "identity" /\ ~panic => i \in 0 .. NFRAMES /\ Shape(i, 0)
  /\ at = "heap" /\ ~panic =>
       i \in KHEAP_PAGE .. KHEAP_END /\ \E n \in Nat : Mapped(n, i - KHEAP_PAGE)
  /\ at \in {"null", "on"} => \E n \in Nat : Mapped(n, KHEAP_PAGES)

\* Page tables are pages of the memory in use, each its own.
TablesInv ==
  /\ phys_alloc_addr >= PAGE_SIZE
  /\ \A t \in DOMAIN tables :
       \E m \in Nat \ {0} : /\ tables[t] = m * PAGE_SIZE
                            /\ tables[t] + PAGE_SIZE <= phys_alloc_addr
  /\ \A s, t \in DOMAIN tables : tables[s] = tables[t] => s = t

\* What kmalloc gave out lies below heap_addr and inside the kernel heap.
HeapInv ==
  /\ heap_addr >= KHEAP_BASE
  /\ at # "on" => granted = {}
  /\ ~panic => heap_addr <= KHEAP_BASE + KHEAP_SIZE
  /\ \A g \in granted :
       /\ g.base \in Nat /\ g.size \in Nat \ {0} /\ g.base >= KHEAP_BASE
       /\ g.base + g.size <= heap_addr
       /\ g.base + g.size <= KHEAP_BASE + KHEAP_SIZE
       /\ g.phys = Translate(g.base)
  /\ \A g, h \in granted :
       h = g \/ h.base + h.size <= g.base \/ g.base + g.size <= h.base

VmInv == TypeOK /\ FramesExclusive /\ HeapTablesMade /\ MapInv /\ TablesInv /\ HeapInv

\* The frames and pages of a Shape are used once.
LEMMA ShapeExclusive ==
  ASSUME NEW fs, NEW ps, NEW addr, NEW n \in Nat, NEW k \in Nat, n + k <= NFRAMES, n <= KHEAP_PAGE, n > 0 \/ k = 0,
         ps \subseteq Pages, k <= KHEAP_PAGES, Shaped(fs, ps, addr, n, k)
  PROVE  /\ \A p, r \in ps : addr[p] = addr[r] => p = r
         /\ \A p \in ps : addr[p] \in fs
  <1> USE VmAssumption DEF Pages, KHEAP_END
  <1>1. ASSUME NEW p \in ps
        PROVE  /\ addr[p] \in 0 .. n + k - 1
               /\ \/ p < n /\ addr[p] = p
                  \/ p >= KHEAP_PAGE /\ p < KHEAP_PAGE + k /\ addr[p] = n + (p - KHEAP_PAGE)
    <2>1. CASE p = 0
      BY <2>1 DEF Shaped
    <2>2. CASE p # 0
      <3>1. p \in 1 .. n - 1 \/ p \in KHEAP_PAGE .. KHEAP_PAGE + k - 1
        BY <2>2 DEF Shaped
      <3> QED
        BY <3>1 DEF Shaped
    <2> QED
      BY <2>1, <2>2
  <1>2. \A p \in ps : addr[p] \in fs
    BY <1>1 DEF Shaped
  <1>3. \A p, r \in ps : addr[p] = addr[r] => p = r
    <2> SUFFICES ASSUME NEW p \in ps, NEW r \in ps, addr[p] = addr[r]
                 PROVE  p = r
      OBVIOUS
    <2>1. p \in Nat /\ r \in Nat
      OBVIOUS
    <2> QED
      BY <1>1, <2>1
  <1> QED
    BY <1>2, <1>3

\* find_free takes the frame behind those in use.
LEMMA LeastFree ==
  ASSUME NEW n \in Nat, n < NFRAMES, frames = 0 .. n - 1
  PROVE  FreeFrames # {} /\ find_free = n
  BY VmAssumption DEF FreeFrames, find_free, Min, Frames

\* What get_page may change.
LEMMA GetPage ==
  ASSUME TypeOK, TablesInv, NEW p \in Nat, get_page(p)
  PROVE  /\ phys_alloc_addr' \in Nat /\ phys_alloc_addr' >= phys_alloc_addr
         /\ DOMAIN tables' = DOMAIN tables \cup {TableOf(p)}
         /\ TableOf(p) \in DOMAIN tables => UNCHANGED <<phys_alloc_addr, tables>>
         /\ \A t \in DOMAIN tables' : tables'[t] \in Nat
         /\ TablesInv'
  <1> USE VmAssumption
  <1>1. CASE TableOf(p) \in DOMAIN tables
    <2>1. phys_alloc_addr' = phys_alloc_addr /\ tables' = tables
      BY <1>1 DEF get_page
    <2>2. TablesInv'
      BY <2>1 DEF TablesInv
    <2> QED
      BY <1>1, <2>1, <2>2 DEF TypeOK
  <1>2. CASE TableOf(p) \notin DOMAIN tables
    <2> DEFINE base == Aligned(phys_alloc_addr)
    <2>1. PICK m \in Nat \ {0} : base = m * PAGE_SIZE /\ base >= phys_alloc_addr
      BY AlignedPage DEF TypeOK, TablesInv
    <2>2. base \in Nat
      BY <2>1
    <2> HIDE DEF base
    <2>3. /\ tables' = [t \in DOMAIN tables \cup {TableOf(p)} |->
                          IF t = TableOf(p) THEN base ELSE tables[t]]
          /\ phys_alloc_addr' = base + PAGE_SIZE
      BY <1>2 DEF get_page, base
    <2>4. /\ phys_alloc_addr' \in Nat /\ phys_alloc_addr' >= phys_alloc_addr
          /\ DOMAIN tables' = DOMAIN tables \cup {TableOf(p)}
          /\ \A t \in DOMAIN tables' : tables'[t] \in Nat
      BY <2>1, <2>2, <2>3 DEF TypeOK
    <2>5. ASSUME NEW t \in DOMAIN tables'
          PROVE  \E k \in Nat \ {0} : /\ tables'[t] = k * PAGE_SIZE
                                      /\ tables'[t] + PAGE_SIZE <= phys_alloc_addr'
      <3>1. CASE t = TableOf(p)
        BY <2>1, <2>2, <2>3, <3>1
      <3>2. CASE t # TableOf(p)
        <4>1. t \in DOMAIN tables /\ tables'[t] = tables[t]
          BY <2>3, <3>2
        <4>2. PICK k \in Nat \ {0} : /\ tables[t] = k * PAGE_SIZE
                                     /\ tables[t] + PAGE_SIZE <= phys_alloc_addr
          BY <4>1 DEF TablesInv
        <4> QED
          BY <2>1, <2>2, <2>3, <4>1, <4>2 DEF TypeOK
      <3> QED
        BY <3>1, <3>2
    <2>6. \A t \in DOMAIN tables : tables[t] # base
      BY <2>1, <2>2 DEF TablesInv, TypeOK
    <2>7. \A s, t \in DOMAIN tables' : tables'[s] = tables'[t] => s = t
      BY <2>3, <2>6 DEF TablesInv
    <2>8. TablesInv'
      BY <2>4, <2>5, <2>7 DEF TablesInv, TypeOK
    <2> QED
      BY <1>2, <2>4, <2>8
  <1> QED
    BY <1>1, <1>2

\* Constants derived from the assumed ones.
LEMMA HeapBounds ==
  /\ KHEAP_BASE \in Nat /\ KHEAP_SIZE \in Nat \ {0} /\ KHEAP_END \in Nat
  /\ KHEAP_END * PAGE_SIZE = KHEAP_BASE + KHEAP_SIZE
  BY VmAssumption DEF KHEAP_BASE, KHEAP_SIZE, KHEAP_END

\* new_frame on the page behind a Shape: it gets the next frame, or the machine
\* stops with the mapping as it was.
LEMMA NewFrame ==
  ASSUME TypeOK, NEW n \in Nat, NEW k \in Nat, NEW p \in Pages,
         n <= NFRAMES, n + k <= NFRAMES, Shape(n, k),
         \/ k = 0 /\ p = n
         \/ n > 0 /\ k < KHEAP_PAGES /\ p = KHEAP_PAGE + k,
         new_frame(p)
  PROVE  \/ /\ n + k = NFRAMES /\ panic' = TRUE
            /\ UNCHANGED <<frameaddr, present, frames>>
         \/ /\ n + k < NFRAMES /\ panic' = panic
            /\ frameaddr' = [frameaddr EXCEPT ![p] = n + k]
            /\ present' = present \cup {p}
            /\ frames' = 0 .. n + k
  <1> USE VmAssumption
  <1>1. frameaddr[p] = 0
    BY DEF Shape, Shaped, Pages
  <1>2. CASE n + k = NFRAMES
    <2>1. FreeFrames = {}
      BY <1>2 DEF FreeFrames, Frames, Shape, Shaped
    <2> QED
      BY <1>1, <1>2, <2>1 DEF new_frame, mapping
  <1>3. CASE n + k < NFRAMES
    <2>1. FreeFrames # {} /\ find_free = n + k
      BY <1>3, LeastFree DEF Shape, Shaped
    <2>2. frames \cup {n + k} = 0 .. n + k
      BY DEF Shape, Shaped
    <2> QED
      BY <1>1, <1>3, <2>1, <2>2 DEF new_frame
  <1>4. n + k = NFRAMES \/ n + k < NFRAMES
    OBVIOUS
  <1> QED
    BY <1>2, <1>3, <1>4, Zenon

\* The mapping grows by the next page from 0 up ...
LEMMA ShapeIdentity ==
  ASSUME TypeOK, NEW n \in Nat, n < NFRAMES, Shape(n, 0),
         frameaddr' = [frameaddr EXCEPT ![n] = n],
         present' = present \cup {n}, frames' = 0 .. n
  PROVE  Shape(n + 1, 0)'
  <1> USE VmAssumption DEF Shape, Shaped, Pages, KHEAP_END, TypeOK
  <1>1. present' \ {0} = (1 .. n + 1 - 1) \cup (KHEAP_PAGE .. KHEAP_PAGE + 0 - 1)
    BY SMTT(30)
  <1>2. \A p \in Pages : frameaddr'[p] = IF p < n + 1 THEN p ELSE 0
    BY SMTT(30)
  <1>3. \A p \in Pages :
          frameaddr'[p] = IF p < n + 1 THEN p
                          ELSE IF p >= KHEAP_PAGE /\ p < KHEAP_PAGE + 0
                          THEN n + 1 + (p - KHEAP_PAGE) ELSE 0
    BY <1>2
  <1> QED
    BY <1>1, <1>3

\* ... and by the next page of the kernel heap.
LEMMA ShapeHeap ==
  ASSUME TypeOK, NEW n \in Nat \ {0}, NEW k \in Nat, n + k < NFRAMES, k < KHEAP_PAGES,
         Shape(n, k),
         frameaddr' = [frameaddr EXCEPT ![KHEAP_PAGE + k] = n + k],
         present' = present \cup {KHEAP_PAGE + k}, frames' = 0 .. n + k
  PROVE  Shape(n, k + 1)'
  <1> USE VmAssumption DEF Shape, Shaped, Pages, KHEAP_END, TypeOK
  <1>1. present' \ {0} = (1 .. n - 1) \cup (KHEAP_PAGE .. KHEAP_PAGE + (k + 1) - 1)
    BY SMTT(30)
  <1>2. \A p \in Pages :
          frameaddr'[p] = IF p < n THEN p
                          ELSE IF p >= KHEAP_PAGE /\ p < KHEAP_PAGE + (k + 1)
                          THEN n + (p - KHEAP_PAGE) ELSE 0
    <2> SUFFICES ASSUME NEW p \in Pages
                 PROVE  frameaddr'[p] = IF p < n THEN p
                          ELSE IF p >= KHEAP_PAGE /\ p < KHEAP_PAGE + (k + 1)
                          THEN n + (p - KHEAP_PAGE) ELSE 0
      OBVIOUS
    <2>1. CASE p = KHEAP_PAGE + k
      BY <2>1
    <2>2. CASE p # KHEAP_PAGE + k
      BY <2>2
    <2> QED
      BY <2>1, <2>2
  <1> QED
    BY <1>1, <1>2
-----------------------------------------------------------------------------
(***************************************************************************)
(* Every step keeps the invariant.                                         *)
(***************************************************************************)

\* The mapping starts empty.
LEMMA InitInv == Init => VmInv
  <1> SUFFICES ASSUME Init PROVE VmInv
    OBVIOUS
  <1> USE VmAssumption, HeapBounds DEF Init
  <1>1. TypeOK
    BY DEF TypeOK, Pages, Frames, KHEAP_END
  <1>2. FramesExclusive /\ HeapTablesMade
    BY DEF FramesExclusive, HeapTablesMade
  <1>3. Shape(0, 0)
    BY DEF Shape, Shaped, Pages, KHEAP_END
  <1>4. MapInv
    BY <1>3 DEF MapInv
  <1>5. TablesInv
    <2>1. DOMAIN tables = {}
      OBVIOUS
    <2> QED
      BY <2>1 DEF TablesInv
  <1>6. HeapInv
    BY DEF HeapInv
  <1> QED
    BY <1>1, <1>2, <1>4, <1>5, <1>6 DEF VmInv

\* The page directory moves phys_alloc_addr up.
LEMMA CreateDirectoryInv == VmInv /\ CreateDirectory => VmInv'
  <1> SUFFICES ASSUME VmInv, CreateDirectory PROVE VmInv'
    OBVIOUS
  <1> USE VmAssumption, HeapBounds
  <1>1. Aligned(phys_alloc_addr) \in Nat /\ Aligned(phys_alloc_addr) >= phys_alloc_addr
    BY AlignedPage DEF VmInv, TypeOK, TablesInv
  <1>2. phys_alloc_addr' \in Nat /\ phys_alloc_addr' >= phys_alloc_addr
    BY <1>1 DEF CreateDirectory, VmInv, TypeOK
  <1>3. TypeOK'
    BY <1>2 DEF CreateDirectory, VmInv, TypeOK
  <1>4. FramesExclusive'
    BY DEF CreateDirectory, VmInv, FramesExclusive
  <1>5. HeapTablesMade'
    BY DEF CreateDirectory, HeapTablesMade
  <1>6. Shape(0, 0)'
    BY DEF CreateDirectory, VmInv, MapInv, Shape, Shaped
  <1>7. MapInv'
    BY <1>6 DEF CreateDirectory, MapInv
  <1>8. TablesInv'
    <2>1. ASSUME NEW t \in DOMAIN tables
          PROVE  \E m \in Nat \ {0} : /\ tables[t] = m * PAGE_SIZE
                                      /\ tables[t] + PAGE_SIZE <= phys_alloc_addr'
      <3>1. PICK m \in Nat \ {0} : /\ tables[t] = m * PAGE_SIZE
                                   /\ tables[t] + PAGE_SIZE <= phys_alloc_addr
        BY DEF VmInv, TablesInv
      <3>2. tables[t] \in Nat /\ phys_alloc_addr \in Nat
        BY DEF VmInv, TypeOK
      <3>3. tables[t] + PAGE_SIZE <= phys_alloc_addr'
        BY <1>2, <3>1, <3>2
      <3> QED
        BY <3>1, <3>3
    <2> QED
      BY <1>2, <2>1 DEF CreateDirectory, VmInv, TablesInv, TypeOK
  <1>9. HeapInv'
    BY DEF CreateDirectory, VmInv, HeapInv
  <1> QED
    BY <1>3, <1>4, <1>5, <1>7, <1>8, <1>9 DEF VmInv

\* Byte by byte, every page of the kernel heap gets its table.
LEMMA HeapTablesInv == VmInv /\ HeapTables => VmInv'
  <1> SUFFICES ASSUME VmInv, HeapTables PROVE VmInv'
    OBVIOUS
  <1> USE VmAssumption, HeapBounds
  <1>1. UNCHANGED <<frameaddr, present, frames, heap_addr, granted, panic>>
    BY DEF HeapTables
  <1>2. FramesExclusive'
    BY <1>1 DEF VmInv, FramesExclusive
  <1>3. Shape(0, 0)'
    BY <1>1 DEF HeapTables, VmInv, MapInv, Shape, Shaped
  <1>4. HeapInv' /\ at' # "on"
    BY <1>1 DEF HeapTables, VmInv, HeapInv
  <1>5. CASE i < KHEAP_BASE + KHEAP_SIZE
    <2>1. get_page(i \div PAGE_SIZE) /\ i' = i + 1 /\ at' = "tables"
      BY <1>5 DEF HeapTables, VmInv, TypeOK
    <2>2. i \div PAGE_SIZE \in Nat
      BY DivMod DEF VmInv, TypeOK
    <2>3. /\ phys_alloc_addr' \in Nat
          /\ DOMAIN tables' = DOMAIN tables \cup {TableOf(i \div PAGE_SIZE)}
          /\ \A t \in DOMAIN tables' : tables'[t] \in Nat
          /\ TablesInv'
      BY <2>1, <2>2, GetPage DEF VmInv
    <2>4. TypeOK'
      BY <1>1, <2>1, <2>3 DEF VmInv, TypeOK
    <2>5. HeapTablesMade'
      <3>1. at = "tables"
        BY DEF HeapTables
      <3>2. ASSUME NEW a \in KHEAP_BASE .. i' - 1
            PROVE  TableOf(a \div PAGE_SIZE) \in DOMAIN tables'
        <4>1. CASE a = i
          BY <2>3, <4>1
        <4>2. CASE a # i
          <5>1. a \in KHEAP_BASE .. i - 1
            BY <2>1, <4>2 DEF VmInv, TypeOK
          <5> QED
            BY <2>3, <3>1, <5>1 DEF VmInv, HeapTablesMade
        <4> QED
          BY <4>1, <4>2
      <3>3. i' >= KHEAP_BASE
        BY <2>1, <3>1 DEF VmInv, TypeOK, HeapTablesMade
      <3> QED
        BY <2>1, <3>2, <3>3 DEF HeapTablesMade, TableOf
    <2>6. MapInv'
      BY <1>3, <2>1 DEF MapInv
    <2> QED
      BY <1>2, <1>4, <2>3, <2>4, <2>5, <2>6 DEF VmInv
  <1>6. CASE i >= KHEAP_BASE + KHEAP_SIZE
    <2>1. /\ at' = "identity" /\ i' = 0 /\ at = "tables"
          /\ phys_alloc_addr' = phys_alloc_addr /\ tables' = tables
      BY <1>6 DEF HeapTables, VmInv, TypeOK
    <2>2. TypeOK'
      BY <1>1, <2>1 DEF VmInv, TypeOK
    <2>3. TablesInv'
      BY <2>1 DEF VmInv, TablesInv
    <2>4. MapInv'
      BY <1>3, <2>1 DEF MapInv
    <2>5. HeapTablesMade'
      <3>1. ASSUME NEW p \in KHEAP_PAGE .. KHEAP_END - 1
            PROVE  TableOf(p) \in DOMAIN tables
        <4> DEFINE a == p * PAGE_SIZE
        <4>1. a >= KHEAP_BASE
          BY MulMono DEF KHEAP_BASE
        <4>2. a < KHEAP_BASE + KHEAP_SIZE
          BY MulMono
        <4>3. a \in Nat /\ a \div PAGE_SIZE = p
          BY DivMul, MulMono
        <4>4. a \in KHEAP_BASE .. i - 1
          BY <1>6, <4>1, <4>2, <4>3 DEF VmInv, TypeOK
        <4> QED
          BY <2>1, <4>3, <4>4 DEF VmInv, HeapTablesMade
      <3> QED
        BY <2>1, <3>1 DEF HeapTablesMade, TableOf
    <2> QED
      BY <1>2, <1>4, <2>2, <2>3, <2>4, <2>5 DEF VmInv
  <1> QED
    BY <1>5, <1>6 DEF VmInv, TypeOK

\* Page i is mapped to itself, or memory has run out.
LEMMA IdentityMapInv == VmInv /\ IdentityMap => VmInv'
  <1> SUFFICES ASSUME VmInv, IdentityMap PROVE VmInv'
    OBVIOUS
  <1> USE VmAssumption, HeapBounds
  <1>1. /\ at = "identity" /\ ~panic /\ i \in 0 .. NFRAMES /\ Shape(i, 0)
        /\ UNCHANGED <<heap_addr, granted>> /\ at' \in {"identity", "heap"}
    BY DEF IdentityMap, VmInv, MapInv
  <1>2. HeapInv'
    BY <1>1 DEF VmInv, HeapInv
  <1> PICK n \in Nat : n = i
    BY <1>1
  <1>3. CASE MoreToMap
    <2>1. get_page(i) /\ new_frame(i) /\ i' = i + 1 /\ at' = "identity"
      BY <1>1, <1>3 DEF IdentityMap
    <2>2. i \in Nat /\ i \in Pages /\ i <= NFRAMES
      BY <1>1 DEF Pages, KHEAP_END
    <2>3. /\ phys_alloc_addr' \in Nat
          /\ DOMAIN tables' = DOMAIN tables \cup {TableOf(i)}
          /\ \A t \in DOMAIN tables' : tables'[t] \in Nat
          /\ TablesInv'
      BY <2>1, <2>2, GetPage DEF VmInv
    <2>4. HeapTablesMade'
      BY <1>1, <2>1, <2>3 DEF VmInv, HeapTablesMade, TableOf
    <2>5. TypeOK /\ present \subseteq Pages
      BY DEF VmInv, TypeOK
    <2>6. CASE /\ panic' = TRUE
               /\ UNCHANGED <<frameaddr, present, frames>>
      <3>1. TypeOK'
        <4>1. i' \in Nat /\ heap_addr' \in Nat /\ panic' \in BOOLEAN
          BY <1>1, <2>1, <2>2, <2>5, <2>6 DEF TypeOK
        <4>2. /\ frameaddr' \in [Pages -> Frames]
              /\ present' \subseteq Pages /\ frames' \subseteq Frames
          BY <2>5, <2>6 DEF TypeOK
        <4> QED
          BY <2>1, <2>3, <4>1, <4>2, Zenon DEF TypeOK
      <3>2. FramesExclusive'
        BY <2>6 DEF VmInv, FramesExclusive
      <3>3. MapInv'
        BY <2>1, <2>6 DEF MapInv
      <3> QED
        BY <1>2, <2>3, <2>4, <3>1, <3>2, <3>3 DEF VmInv
    <2>7. CASE /\ i < NFRAMES /\ panic' = panic
               /\ frameaddr' = [frameaddr EXCEPT ![i] = i]
               /\ present' = present \cup {i}
               /\ frames' = 0 .. i
      <3>1. i \in Frames /\ frames' \subseteq Frames
        BY <2>2, <2>7 DEF Frames
      <3>2. TypeOK'
        <4>1. i' \in Nat /\ heap_addr' \in Nat /\ panic' \in BOOLEAN
          BY <1>1, <2>1, <2>2, <2>5, <2>7 DEF TypeOK
        <4>2. /\ frameaddr' \in [Pages -> Frames]
              /\ present' \subseteq Pages /\ frames' \subseteq Frames
          BY <2>2, <2>5, <2>7, <3>1 DEF TypeOK
        <4> QED
          BY <2>1, <2>3, <4>1, <4>2, Zenon DEF TypeOK
      <3>3. Shape(n + 1, 0)'
        BY <1>1, <2>2, <2>5, <2>7, ShapeIdentity
      <3>4. present' \subseteq Pages
        BY <2>2, <2>5, <2>7
      <3>5. MapInv'
        BY <2>1, <2>2, <2>7, <3>3 DEF MapInv, Shape, Shaped
      <3>6. FramesExclusive'
        <4>1. /\ n + 1 \in Nat /\ n + 1 + 0 <= NFRAMES /\ n + 1 <= KHEAP_PAGE
              /\ n + 1 > 0 /\ 0 <= KHEAP_PAGES
          BY <2>2, <2>7
        <4>2. Shaped(frames', present', frameaddr', n + 1, 0)
          BY <3>3 DEF Shape
        <4>3. /\ \A p, r \in present' : frameaddr'[p] = frameaddr'[r] => p = r
              /\ \A p \in present' : frameaddr'[p] \in frames'
          BY <3>4, <4>1, <4>2, ShapeExclusive
        <4> QED
          BY <4>3 DEF FramesExclusive
      <3> QED
        BY <1>2, <2>3, <2>4, <3>2, <3>5, <3>6 DEF VmInv
    <2>8. \/ /\ panic' = TRUE
             /\ UNCHANGED <<frameaddr, present, frames>>
          \/ /\ i < NFRAMES /\ panic' = panic
             /\ frameaddr' = [frameaddr EXCEPT ![i] = i]
             /\ present' = present \cup {i}
             /\ frames' = 0 .. i
      <3>1. /\ Shape(n, 0) /\ new_frame(n) /\ n \in Pages /\ n <= NFRAMES
            /\ n + 0 = n
        BY <1>1, <2>1, <2>2
      <3>2. \/ /\ n + 0 = NFRAMES /\ panic' = TRUE
               /\ UNCHANGED <<frameaddr, present, frames>>
            \/ /\ n + 0 < NFRAMES /\ panic' = panic
               /\ frameaddr' = [frameaddr EXCEPT ![n] = n + 0]
               /\ present' = present \cup {n}
               /\ frames' = 0 .. n + 0
        BY <2>5, <3>1, NewFrame
      <3> QED
        BY <3>1, <3>2, Zenon
    <2> QED
      BY <2>6, <2>7, <2>8
  <1>4. CASE ~MoreToMap
    <2>1. /\ at' = "heap" /\ i' = KHEAP_PAGE
          /\ UNCHANGED <<phys_alloc_addr, tables, frameaddr, present, frames, panic>>
      BY <1>4 DEF IdentityMap
    <2>2. TypeOK'
      BY <1>1, <2>1 DEF VmInv, TypeOK
    <2>3. FramesExclusive' /\ TablesInv'
      BY <2>1 DEF VmInv, FramesExclusive, TablesInv
    <2>4. HeapTablesMade'
      BY <1>1, <2>1 DEF VmInv, HeapTablesMade
    <2>5. i \in Nat /\ phys_alloc_addr \in Nat /\ i * PAGE_SIZE >= phys_alloc_addr + SLACK
      BY <1>1, <1>4, MulMono DEF MoreToMap, VmInv, TypeOK
    <2>6. i # 0 /\ i \in 1 .. NFRAMES /\ phys_alloc_addr <= i * PAGE_SIZE
      BY <1>1, <2>5, MulMono
    <2>8. Mapped(n, 0)'
      BY <1>1, <2>1, <2>6 DEF Mapped, Shape, Shaped
    <2>9. MapInv'
      <3>1. i' - KHEAP_PAGE = 0 /\ i' \in KHEAP_PAGE .. KHEAP_END
        BY <2>1 DEF KHEAP_END
      <3>2. \E m \in Nat : Mapped(m, i - KHEAP_PAGE)'
        BY <2>8, <3>1 DEF Mapped, Shape
      <3> QED
        BY <2>1, <3>1, <3>2 DEF MapInv
    <2> QED
      BY <1>2, <2>2, <2>3, <2>4, <2>9 DEF VmInv
  <1> QED
    BY <1>3, <1>4

\* Page i of the kernel heap gets the next frame, or memory has run out.
LEMMA HeapFramesInv == VmInv /\ HeapFrames => VmInv'
  <1> SUFFICES ASSUME VmInv, HeapFrames PROVE VmInv'
    OBVIOUS
  <1> USE VmAssumption, HeapBounds
  <1>1. /\ at = "heap" /\ ~panic /\ i \in KHEAP_PAGE .. KHEAP_END
        /\ UNCHANGED <<heap_addr, granted>> /\ at' \in {"heap", "null"}
    BY DEF HeapFrames, VmInv, MapInv
  <1> PICK n \in Nat : Mapped(n, i - KHEAP_PAGE)
    BY <1>1 DEF VmInv, MapInv
  <1> PICK k \in Nat : k = i - KHEAP_PAGE
    BY <1>1
  <1>2. HeapInv'
    BY <1>1 DEF VmInv, HeapInv
  <1>3. /\ Shape(n, k) /\ n \in 1 .. NFRAMES /\ n + k <= NFRAMES
        /\ phys_alloc_addr <= n * PAGE_SIZE /\ n \in Nat \ {0}
    BY DEF Mapped
  <1>4. TypeOK /\ present \subseteq Pages
    BY DEF VmInv, TypeOK
  <1>5. CASE i < KHEAP_END
    <2>1. get_page(i) /\ new_frame(i) /\ i' = i + 1 /\ at' = "heap"
      BY <1>1, <1>5 DEF HeapFrames
    <2>2. /\ i \in Nat /\ i \in Pages /\ i \in KHEAP_PAGE .. KHEAP_END - 1
          /\ k < KHEAP_PAGES /\ i = KHEAP_PAGE + k /\ i' = KHEAP_PAGE + (k + 1)
      BY <1>1, <1>5, <2>1 DEF Pages, KHEAP_END
    <2>3. UNCHANGED <<phys_alloc_addr, tables>>
      <3>1. TableOf(i) \in DOMAIN tables
        BY <1>1, <2>2 DEF VmInv, HeapTablesMade
      <3> QED
        BY <2>1, <3>1 DEF get_page
    <2>4. TablesInv'
      BY <2>3 DEF VmInv, TablesInv
    <2>5. HeapTablesMade'
      BY <1>1, <2>1, <2>3 DEF VmInv, HeapTablesMade
    <2>6. CASE /\ panic' = TRUE
               /\ UNCHANGED <<frameaddr, present, frames>>
      <3>1. TypeOK'
        <4>1. i' \in Nat /\ heap_addr' \in Nat /\ panic' \in BOOLEAN
          BY <1>1, <1>4, <2>1, <2>2, <2>6 DEF TypeOK
        <4>2. /\ frameaddr' \in [Pages -> Frames]
              /\ present' \subseteq Pages /\ frames' \subseteq Frames
          BY <1>4, <2>6 DEF TypeOK
        <4>3. phys_alloc_addr' \in Nat /\ \A t \in DOMAIN tables' : tables'[t] \in Nat
          BY <1>4, <2>3 DEF TypeOK
        <4> QED
          BY <2>1, <4>1, <4>2, <4>3, Zenon DEF TypeOK
      <3>2. FramesExclusive'
        BY <2>6 DEF VmInv, FramesExclusive
      <3>3. MapInv'
        BY <2>1, <2>6 DEF MapInv
      <3> QED
        BY <1>2, <2>4, <2>5, <3>1, <3>2, <3>3 DEF VmInv
    <2>7. CASE /\ n + k < NFRAMES /\ panic' = panic
               /\ frameaddr' = [frameaddr EXCEPT ![KHEAP_PAGE + k] = n + k]
               /\ present' = present \cup {KHEAP_PAGE + k}
               /\ frames' = 0 .. n + k
      <3>1. n + k \in Frames /\ frames' \subseteq Frames
        BY <1>3, <2>7 DEF Frames
      <3>2. TypeOK'
        <4>1. i' \in Nat /\ heap_addr' \in Nat /\ panic' \in BOOLEAN
          BY <1>1, <1>4, <2>1, <2>2, <2>7 DEF TypeOK
        <4>2. /\ frameaddr' \in [Pages -> Frames]
              /\ present' \subseteq Pages /\ frames' \subseteq Frames
          BY <1>4, <2>2, <2>7, <3>1 DEF TypeOK
        <4>3. phys_alloc_addr' \in Nat /\ \A t \in DOMAIN tables' : tables'[t] \in Nat
          BY <1>4, <2>3 DEF TypeOK
        <4> QED
          BY <2>1, <4>1, <4>2, <4>3, Zenon DEF TypeOK
      <3>3. Shape(n, k + 1)'
        BY <1>3, <1>4, <2>2, <2>7, ShapeHeap
      <3>4. present' \subseteq Pages
        BY <1>4, <2>2, <2>7
      <3>5. FramesExclusive'
        <4>1. /\ k + 1 \in Nat /\ n + (k + 1) <= NFRAMES /\ n <= KHEAP_PAGE
              /\ n > 0 /\ k + 1 <= KHEAP_PAGES
          BY <1>3, <2>2, <2>7
        <4>2. Shaped(frames', present', frameaddr', n, k + 1)
          BY <3>3 DEF Shape
        <4>3. /\ \A p, r \in present' : frameaddr'[p] = frameaddr'[r] => p = r
              /\ \A p \in present' : frameaddr'[p] \in frames'
          BY <3>4, <4>1, <4>2, ShapeExclusive
        <4> QED
          BY <4>3 DEF FramesExclusive
      <3>6. MapInv'
        <4>1. i' - KHEAP_PAGE = k + 1 /\ i' \in KHEAP_PAGE .. KHEAP_END
          BY <2>2 DEF KHEAP_END
        <4>2. Mapped(n, k + 1)'
          BY <1>3, <2>3, <2>7, <3>3 DEF Mapped
        <4>3. \E m \in Nat : Mapped(m, i - KHEAP_PAGE)'
          BY <4>1, <4>2 DEF Mapped, Shape
        <4> QED
          BY <2>1, <4>1, <4>3 DEF MapInv
      <3> QED
        BY <1>2, <2>4, <2>5, <3>2, <3>5, <3>6 DEF VmInv
    <2>8. new_frame(KHEAP_PAGE + k) /\ KHEAP_PAGE + k \in Pages /\ n <= NFRAMES /\ n > 0
      BY <1>3, <2>1, <2>2
    <2>9. \/ /\ n + k = NFRAMES /\ panic' = TRUE
             /\ UNCHANGED <<frameaddr, present, frames>>
          \/ /\ n + k < NFRAMES /\ panic' = panic
             /\ frameaddr' = [frameaddr EXCEPT ![KHEAP_PAGE + k] = n + k]
             /\ present' = present \cup {KHEAP_PAGE + k}
             /\ frames' = 0 .. n + k
      BY <1>3, <1>4, <2>2, <2>8, NewFrame
    <2> QED
      BY <2>6, <2>7, <2>9
  <1>6. CASE i >= KHEAP_END
    <2>1. /\ at' = "null"
          /\ UNCHANGED <<i, phys_alloc_addr, tables, frameaddr, present, frames, panic>>
      BY <1>1, <1>6 DEF HeapFrames
    <2>2. TypeOK'
      BY <1>1, <1>4, <2>1 DEF TypeOK
    <2>3. FramesExclusive' /\ TablesInv'
      BY <2>1 DEF VmInv, FramesExclusive, TablesInv
    <2>4. HeapTablesMade'
      BY <1>1, <2>1 DEF VmInv, HeapTablesMade
    <2>5. k = KHEAP_PAGES
      BY <1>1, <1>6 DEF KHEAP_END
    <2>6. Mapped(n, KHEAP_PAGES)'
      BY <1>3, <2>1, <2>5 DEF Mapped, Shape
    <2>7. MapInv'
      BY <2>1, <2>6 DEF MapInv
    <2> QED
      BY <1>2, <2>2, <2>3, <2>4, <2>7 DEF VmInv
  <1> QED
    BY <1>1, <1>5, <1>6

\* Clearing the entry of page 0 takes nothing that is in use.
LEMMA EnablePagingInv == VmInv /\ EnablePaging => VmInv'
  <1> SUFFICES ASSUME VmInv, EnablePaging PROVE VmInv'
    OBVIOUS
  <1> USE VmAssumption, HeapBounds
  <1> PICK n \in Nat : Mapped(n, KHEAP_PAGES)
    BY DEF EnablePaging, VmInv, MapInv
  <1>1. /\ at = "null" /\ at' = "on" /\ present' = present \ {0}
        /\ frameaddr' = [frameaddr EXCEPT ![0] = 0]
        /\ UNCHANGED <<i, phys_alloc_addr, tables, frames, heap_addr, granted, panic>>
    BY DEF EnablePaging
  <1>2. frameaddr' = frameaddr
    <2>1. 0 \in Pages /\ frameaddr[0] = 0
      BY DEF Mapped, Shape, Shaped, Pages, KHEAP_END
    <2> QED
      BY <1>1, <2>1 DEF VmInv, TypeOK
  <1>3. TypeOK'
    BY <1>1, <1>2 DEF VmInv, TypeOK
  <1>4. FramesExclusive' /\ TablesInv'
    BY <1>1, <1>2 DEF VmInv, FramesExclusive, TablesInv
  <1>5. HeapTablesMade'
    BY <1>1 DEF VmInv, HeapTablesMade
  <1>6. Mapped(n, KHEAP_PAGES)'
    <2>1. Shape(n, KHEAP_PAGES)'
      BY <1>1, <1>2 DEF Mapped, Shape, Shaped
    <2> QED
      BY <1>1, <2>1 DEF Mapped
  <1>7. MapInv'
    BY <1>1, <1>6 DEF MapInv
  <1>8. HeapInv'
    BY <1>1 DEF VmInv, HeapInv
  <1> QED
    BY <1>3, <1>4, <1>5, <1>7, <1>8 DEF VmInv

\* kmalloc changes the kernel heap only.
LEMMA KmallocInv ==
  ASSUME VmInv, NEW size \in Requests, kmalloc(size)
  PROVE  VmInv'
  <1> USE VmAssumption, HeapBounds
  <1>1. /\ at = "on" /\ ~panic /\ heap_addr' = heap_addr + size
        /\ UNCHANGED <<at, i, phys_alloc_addr, tables, frameaddr, present, frames>>
    BY DEF kmalloc
  <1>2. /\ size \in Nat \ {0} /\ heap_addr \in Nat /\ heap_addr' \in Nat
        /\ heap_addr >= KHEAP_BASE
    BY <1>1 DEF VmInv, TypeOK, HeapInv
  <1>3. TypeOK'
    <2>1. panic' \in BOOLEAN
      BY DEF kmalloc, VmInv, TypeOK
    <2> QED
      BY <1>1, <1>2, <2>1 DEF VmInv, TypeOK
  <1>4. FramesExclusive' /\ TablesInv'
    BY <1>1 DEF VmInv, FramesExclusive, TablesInv
  <1>5. HeapTablesMade'
    BY <1>1 DEF VmInv, HeapTablesMade
  <1>6. MapInv'
    <2> PICK n \in Nat : Mapped(n, KHEAP_PAGES)
      BY <1>1 DEF VmInv, MapInv
    <2>1. Mapped(n, KHEAP_PAGES)'
      BY <1>1 DEF Mapped, Shape
    <2> QED
      BY <1>1, <2>1 DEF MapInv
  <1>7. HeapInv'
    <2>1. \A a : Translate(a)' = frameaddr[a \div PAGE_SIZE] * PAGE_SIZE + (a % PAGE_SIZE)
      BY <1>1 DEF Translate
    <2>2. CASE alloc_fits(size)
      <3> DEFINE new == [base |-> heap_addr, size |-> size, phys |-> Translate(heap_addr)]
      <3>1. granted' = granted \cup {new} /\ panic' = panic
        BY <2>2 DEF kmalloc
      <3>2. heap_addr' <= KHEAP_BASE + KHEAP_SIZE
        BY <1>1, <2>2 DEF alloc_fits
      <3>3. ASSUME NEW g \in granted
            PROVE  /\ g.base \in Nat /\ g.size \in Nat \ {0} /\ g.base >= KHEAP_BASE
                   /\ g.base + g.size <= heap_addr
                   /\ g.base + g.size <= heap_addr'
                   /\ g.base + g.size <= KHEAP_BASE + KHEAP_SIZE
                   /\ g.phys = frameaddr[g.base \div PAGE_SIZE] * PAGE_SIZE
                                 + (g.base % PAGE_SIZE)
        <4>1. /\ g.base \in Nat /\ g.size \in Nat \ {0} /\ g.base >= KHEAP_BASE
              /\ g.base + g.size <= heap_addr
              /\ g.base + g.size <= KHEAP_BASE + KHEAP_SIZE
              /\ g.phys = Translate(g.base)
          BY DEF VmInv, HeapInv
        <4>2. g.base + g.size <= heap_addr'
          BY <1>1, <1>2, <4>1
        <4> QED
          BY <4>1, <4>2 DEF Translate
      <3>4. /\ new.base = heap_addr /\ new.size = size
            /\ new.phys = frameaddr[heap_addr \div PAGE_SIZE] * PAGE_SIZE
                           + (heap_addr % PAGE_SIZE)
        BY DEF Translate
      <3> HIDE DEF new
      <3>5. ASSUME NEW g \in granted'
            PROVE  /\ g.base \in Nat /\ g.size \in Nat \ {0} /\ g.base >= KHEAP_BASE
                   /\ g.base + g.size <= heap_addr'
                   /\ g.base + g.size <= KHEAP_BASE + KHEAP_SIZE
                   /\ g.phys = frameaddr[g.base \div PAGE_SIZE] * PAGE_SIZE
                                 + (g.base % PAGE_SIZE)
        <4>1. CASE g \in granted
          BY <3>3, <4>1
        <4>2. CASE g = new
          BY <1>1, <1>2, <3>2, <3>4, <4>2
        <4> QED
          BY <3>1, <4>1, <4>2
      <3>6. ASSUME NEW g \in granted', NEW h \in granted'
            PROVE  h = g \/ h.base + h.size <= g.base \/ g.base + g.size <= h.base
        <4>1. CASE g \in granted /\ h \in granted
          BY <4>1 DEF VmInv, HeapInv
        <4>2. CASE g = new /\ h \in granted
          BY <3>3, <3>4, <4>2
        <4>3. CASE g \in granted /\ h = new
          BY <3>3, <3>4, <4>3
        <4> QED
          BY <3>1, <4>1, <4>2, <4>3
      <3>7. heap_addr' >= KHEAP_BASE
        BY <1>1, <1>2
      <3>8. \A g \in granted' : g.phys = Translate(g.base)'
        BY <1>1, <3>5 DEF Translate
      <3> QED
        BY <1>1, <3>2, <3>5, <3>6, <3>7, <3>8, Zenon DEF HeapInv
    <2>3. CASE ~alloc_fits(size)
      <3>1. granted' = granted /\ panic' = TRUE
        BY <2>3 DEF kmalloc
      <3>2. ASSUME NEW g \in granted
            PROVE  /\ g.base \in Nat /\ g.size \in Nat \ {0} /\ g.base >= KHEAP_BASE
                   /\ g.base + g.size <= heap_addr'
                   /\ g.base + g.size <= KHEAP_BASE + KHEAP_SIZE
                   /\ g.phys = Translate(g.base)'
        <4>1. /\ g.base \in Nat /\ g.size \in Nat \ {0} /\ g.base >= KHEAP_BASE
              /\ g.base + g.size <= heap_addr
              /\ g.base + g.size <= KHEAP_BASE + KHEAP_SIZE
              /\ g.phys = Translate(g.base)
          BY DEF VmInv, HeapInv
        <4>2. g.base + g.size <= heap_addr'
          BY <1>1, <1>2, <4>1
        <4> QED
          BY <1>1, <4>1, <4>2 DEF Translate
      <3>3. heap_addr' >= KHEAP_BASE
        BY <1>1, <1>2
      <3> QED
        BY <1>1, <3>1, <3>2, <3>3 DEF VmInv, HeapInv
    <2> QED
      BY <2>2, <2>3
  <1> QED
    BY <1>3, <1>4, <1>5, <1>6, <1>7 DEF VmInv

\* The invariant is a property of the listed variables.
LEMMA StutterInv == VmInv /\ UNCHANGED vars => VmInv'
  <1> SUFFICES ASSUME VmInv, UNCHANGED vars PROVE VmInv'
    OBVIOUS
  <1> USE DEF vars, VmInv
  <1>1. TypeOK' /\ FramesExclusive' /\ TablesInv'
    BY DEF TypeOK, FramesExclusive, TablesInv
  <1>2. HeapTablesMade' /\ HeapInv'
    BY DEF HeapTablesMade, HeapInv, Translate
  <1>3. MapInv'
    BY DEF MapInv, Mapped, Shape
  <1> QED
    BY <1>1, <1>2, <1>3
-----------------------------------------------------------------------------
(***************************************************************************)
(* The theorems.                                                           *)
(***************************************************************************)

\* The invariant holds throughout vm_init and every later kmalloc.
THEOREM VmInvariant == Spec => []VmInv
  <1>1. Init => VmInv
    BY InitInv
  <1>2. VmInv /\ [Next]_vars => VmInv'
    <2> SUFFICES ASSUME VmInv, [Next]_vars PROVE VmInv'
      OBVIOUS
    <2>1. CASE vm_init
      BY <2>1, CreateDirectoryInv, HeapTablesInv, IdentityMapInv, HeapFramesInv,
         EnablePagingInv DEF vm_init
    <2>2. ASSUME NEW size \in Requests, kmalloc(size) PROVE VmInv'
      BY <2>2, KmallocInv
    <2>3. CASE UNCHANGED vars
      BY <2>3, StutterInv
    <2> QED
      BY <2>1, <2>2, <2>3 DEF Next
  <1> QED
    BY <1>1, <1>2, PTL DEF Spec

\* new_frame never stores a frame that the machine does not have: the -1 of
\* find_free ends in kpanic().
THEOREM VmTypes == Spec => []TypeOK
  <1>1. VmInv => TypeOK
    BY DEF VmInv
  <1> QED
    BY <1>1, VmInvariant, PTL

\* No frame is given to two pages, although new_frame takes an entry with frame
\* 0 for an empty one.
THEOREM AlwaysExclusive == Spec => []FramesExclusive
  <1>1. VmInv => FramesExclusive
    BY DEF VmInv
  <1> QED
    BY <1>1, VmInvariant, PTL

\* The identity mapping covers the memory in use, whatever the end of the
\* kernel and however many tables the mapping itself took.
THEOREM AlwaysIdentity == Spec => []IdentityMapped
  <1>1. VmInv => IdentityMapped
    <2> SUFFICES ASSUME VmInv, at = "on", NEW p \in Pages \ {0},
                        p * PAGE_SIZE < phys_alloc_addr
                 PROVE  p \in present /\ frameaddr[p] = p
      BY DEF IdentityMapped
    <2> USE VmAssumption, HeapBounds
    <2> PICK n \in Nat : Mapped(n, KHEAP_PAGES)
      BY DEF VmInv, MapInv
    <2>1. p \in Nat /\ p < n
      <3>1. p \in Nat /\ p * PAGE_SIZE \in Nat /\ n * PAGE_SIZE \in Nat
        BY MulMono DEF Pages
      <3>2. p * PAGE_SIZE < n * PAGE_SIZE
        BY <3>1 DEF Mapped, VmInv, TypeOK
      <3> QED
        BY <3>1, <3>2, MulMono
    <2>2. p \in 1 .. n - 1
      BY <2>1
    <2> QED
      BY <2>1, <2>2 DEF Mapped, Shape, Shaped
  <1> QED
    BY <1>1, VmInvariant, PTL

\* Every page table is aligned, mapped to itself and used once.
THEOREM AlwaysReachable == Spec => []TablesReachable
  <1>1. VmInv => TablesReachable
    <2> SUFFICES ASSUME VmInv, at = "on", NEW t \in DOMAIN tables
                 PROVE  /\ tables[t] % PAGE_SIZE = 0
                        /\ Translate(tables[t]) = tables[t]
                        /\ \A s \in DOMAIN tables : tables[s] = tables[t] => s = t
      BY DEF TablesReachable
    <2> USE VmAssumption, HeapBounds
    <2> PICK n \in Nat : Mapped(n, KHEAP_PAGES)
      BY DEF VmInv, MapInv
    <2> PICK m \in Nat \ {0} : /\ tables[t] = m * PAGE_SIZE
                               /\ tables[t] + PAGE_SIZE <= phys_alloc_addr
      BY DEF VmInv, TablesInv
    <2>1. tables[t] \div PAGE_SIZE = m /\ tables[t] % PAGE_SIZE = 0
      <3>1. (m * PAGE_SIZE) \div PAGE_SIZE = m /\ (m * PAGE_SIZE) % PAGE_SIZE = 0
        BY DivMul
      <3> QED
        BY <3>1
    <2>2. m < n
      <3>1. m * PAGE_SIZE \in Nat /\ n * PAGE_SIZE \in Nat
        BY MulMono
      <3>2. m * PAGE_SIZE < n * PAGE_SIZE
        BY <3>1 DEF Mapped, VmInv, TypeOK
      <3> QED
        BY <3>2, MulMono
    <2>3. frameaddr[m] = m
      <3>1. m \in Pages
        BY <2>2 DEF Mapped, Pages, KHEAP_END
      <3> QED
        BY <2>2, <3>1 DEF Mapped, Shape, Shaped
    <2>4. Translate(tables[t]) = tables[t]
      <3>1. m * PAGE_SIZE + 0 = m * PAGE_SIZE
        BY MulMono
      <3> QED
        BY <2>1, <2>3, <3>1 DEF Translate
    <2> QED
      BY <2>1, <2>4 DEF VmInv, TablesInv
  <1> QED
    BY <1>1, VmInvariant, PTL

\* In the kernel heap addresses are translated by one offset.
LEMMA TranslateHeap ==
  ASSUME NEW n \in Nat, Mapped(n, KHEAP_PAGES), NEW a \in Nat,
         KHEAP_BASE <= a, a < KHEAP_BASE + KHEAP_SIZE
  PROVE  /\ a \div PAGE_SIZE \in present
         /\ Translate(a) = a + (n - KHEAP_PAGE) * PAGE_SIZE
  <1> USE VmAssumption, HeapBounds
  <1> DEFINE p == a \div PAGE_SIZE
  <1>1. p \in KHEAP_PAGE .. KHEAP_END - 1
    BY DivRange DEF KHEAP_BASE
  <1>2. p \in Pages /\ p >= n /\ p # 0 /\ p < KHEAP_PAGE + KHEAP_PAGES
    BY <1>1 DEF Pages, KHEAP_END, Mapped
  <1>3. p \in present
    BY <1>1, <1>2 DEF Mapped, Shape, Shaped, KHEAP_END
  <1>4. frameaddr[p] = n + (p - KHEAP_PAGE)
    BY <1>1, <1>2 DEF Mapped, Shape, Shaped
  <1>5. a = PAGE_SIZE * p + (a % PAGE_SIZE) /\ a % PAGE_SIZE \in Nat
    BY DivMod
  <1> HIDE DEF p
  <1>6. (n + (p - KHEAP_PAGE)) * PAGE_SIZE = PAGE_SIZE * p + (n - KHEAP_PAGE) * PAGE_SIZE
    BY <1>1
  <1>7. Translate(a) = frameaddr[p] * PAGE_SIZE + (a % PAGE_SIZE)
    BY DEF Translate, p
  <1>8. Translate(a) = a + (n - KHEAP_PAGE) * PAGE_SIZE
    BY <1>1, <1>4, <1>5, <1>6, <1>7
  <1> QED
    BY <1>3, <1>8 DEF p

\* What kmalloc returns is memory of the caller alone, at the physical address
\* that kmalloc reports.
THEOREM AlwaysUsable == Spec => []RegionsUsable
  <1>1. VmInv => RegionsUsable
    <2> SUFFICES ASSUME VmInv, NEW g \in granted,
                        NEW a \in g.base .. g.base + g.size - 1
                 PROVE  /\ a \div PAGE_SIZE \in present
                        /\ Translate(a) = g.phys + (a - g.base)
      BY DEF RegionsUsable, VmInv, HeapInv
    <2> USE VmAssumption, HeapBounds
    <2>1. at = "on"
      BY DEF VmInv, HeapInv
    <2> PICK n \in Nat : Mapped(n, KHEAP_PAGES)
      BY <2>1 DEF VmInv, MapInv
    <2>2. /\ g.base \in Nat /\ g.size \in Nat \ {0} /\ g.base >= KHEAP_BASE
          /\ g.base + g.size <= KHEAP_BASE + KHEAP_SIZE
          /\ g.phys = Translate(g.base)
      BY DEF VmInv, HeapInv
    <2>3. a \in Nat /\ KHEAP_BASE <= a /\ a < KHEAP_BASE + KHEAP_SIZE
      BY <2>2
    <2>4. g.phys = g.base + (n - KHEAP_PAGE) * PAGE_SIZE
      <3>1. g.base < KHEAP_BASE + KHEAP_SIZE
        BY <2>2
      <3> QED
        BY <2>2, <3>1, TranslateHeap
    <2>5. /\ a \div PAGE_SIZE \in present
          /\ Translate(a) = a + (n - KHEAP_PAGE) * PAGE_SIZE
      BY <2>3, TranslateHeap
    <2>6. (n - KHEAP_PAGE) * PAGE_SIZE \in Int
      OBVIOUS
    <2> QED
      BY <2>2, <2>3, <2>4, <2>5, <2>6
  <1> QED
    BY <1>1, VmInvariant, PTL
=============================================================================
