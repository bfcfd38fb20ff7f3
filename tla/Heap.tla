-------------------------------- MODULE Heap --------------------------------
(***************************************************************************)
(* The MPX heap manager: lib/mem.c with the struct mcb of include/memory.h *)
(* (initialize_heap, allocate_memory, free_memory, mcb_next), which        *)
(* sys_alloc_mem and sys_free_mem of lib/core.c call once kmain() has      *)
(* installed it.                                                           *)
(*                                                                         *)
(* The arena is one run of bytes.  It is cut into blocks, each a header    *)
(* (struct mcb, HDR bytes) followed by its payload; the list of blocks is  *)
(* not linked by pointers: the next header is found by adding the size.    *)
(* The variable mcb maps the address of every header on that list to the   *)
(* header's contents.  An address that a merge swallowed is payload again  *)
(* and leaves the domain.  The two flag bits that the code keeps in the    *)
(* low bits of the size are fields of their own (Tiled, below, is why      *)
(* they cannot be confused with the size).                                 *)
(***************************************************************************)
EXTENDS Integers, FiniteSets

CONSTANTS
  HeapSize,   \* the argument of initialize_heap: 50000 in kmain.c
  SizeMod,    \* 2^32, the number of values of a size_t
  Requests,   \* the sizes callers ask for
  Pointers    \* the addresses callers hand to free_memory

HDR == 4      \* sizeof(struct mcb): start[] is a flexible array
NULL == 0
memlist == HDR  \* where kmalloc put the arena; only memlist # NULL matters

ASSUME HeapAssumption ==
  /\ HeapSize \in Nat /\ SizeMod \in Nat
  /\ SizeMod % 4 = 0
  /\ HeapSize + 4 * HDR < SizeMod
  /\ Requests \subseteq 0 .. SizeMod - 1
  /\ Pointers \subseteq Nat

VARIABLES
  mcb,     \* header address -> [size, free, end]
  asked,   \* what clients hold: live pointer -> the size they asked for (history)
  panic    \* TRUE once the page fault handler has run kpanic()

vars == <<mcb, asked, panic>>

(***************************************************************************)
(* roundup(s): size_t arithmetic, so the +4 wraps at SizeMod.              *)
(***************************************************************************)
\* Mutant: rounds down.
roundup_Down(s) == s - (s % 4)

roundup(s) ==
  IF s % 4 = 0 THEN s ELSE (s - (s % 4) + 4) % SizeMod

HeapEnd == memlist + HDR + roundup(HeapSize)

Block == [size : Nat, free : BOOLEAN, end : BOOLEAN]

\* mcb_next, in heap h: the header after a, NULL after the END block.
mcb_next(h, a) == IF h[a].end THEN NULL ELSE a + HDR + h[a].size

\* `mcb->size = (s)' with the flags given.
Hdr(s, isfree, isend) == [size |-> s, free |-> isfree, end |-> isend]
-----------------------------------------------------------------------------
(***************************************************************************)
(* The three header updates the code is made of.                           *)
(***************************************************************************)

\* Mutant: the remainder loses the END flag (mcb_copyend is forgotten).
Split_NoCopyEnd(h, a, need) ==
  LET n == a + HDR + need
  IN  [x \in DOMAIN h \cup {n} |->
         CASE x = a -> Hdr(need, FALSE, FALSE)
           [] x = n -> Hdr(h[a].size - need - HDR, TRUE, FALSE)
           [] OTHER -> h[x]]

\* Mutant: the remainder's own header is not paid for.
Split_NoHeader(h, a, need) ==
  LET n == a + HDR + need
  IN  [x \in DOMAIN h \cup {n} |->
         CASE x = a -> Hdr(need, FALSE, FALSE)
           [] x = n -> Hdr(h[a].size - need, TRUE, h[a].end)
           [] OTHER -> h[x]]

\* Mutant: the remainder is not marked free.
Split_RestInUse(h, a, need) ==
  LET n == a + HDR + need
  IN  [x \in DOMAIN h \cup {n} |->
         CASE x = a -> Hdr(need, FALSE, FALSE)
           [] x = n -> Hdr(h[a].size - need - HDR, FALSE, h[a].end)
           [] OTHER -> h[x]]

\* allocate_memory: cut need bytes off the free block a, the rest becomes a
\* new free block that inherits END.
Split(h, a, need) ==
  LET n == a + HDR + need
  IN  [x \in DOMAIN h \cup {n} |->
         CASE x = a -> Hdr(need, FALSE, FALSE)
           [] x = n -> Hdr(h[a].size - need - HDR, TRUE, h[a].end)
           [] OTHER -> h[x]]

\* mcb_setfree / mcb_clrfree
SetFree(h, a, isfree) == [h EXCEPT ![a] = Hdr(@.size, isfree, @.end)]

\* free_memory: block a absorbs the block b that follows it, header included.
Merge(h, a, b) ==
  [x \in DOMAIN h \ {b} |->
     IF x = a
     THEN Hdr(h[a].size + h[b].size + HDR, h[a].free, h[a].end \/ h[b].end)
     ELSE h[x]]
-----------------------------------------------------------------------------
(***************************************************************************)
(* initialize_heap: one free block that is also the last one.              *)
(***************************************************************************)
Init ==
  /\ mcb = [a \in {memlist} |-> Hdr(roundup(HeapSize), TRUE, TRUE)]
  /\ asked = [p \in {} |-> 0]
  /\ panic = FALSE

\* The test of the first-fit loop.
Fits(a, need) == mcb[a].size >= need /\ mcb[a].free

\* The block the loop stops at.  The list runs through the addresses upwards
\* (Tiled), so the first block that fits is the lowest one.
FirstFit(a, need) ==
  /\ a \in DOMAIN mcb
  /\ Fits(a, need)
  /\ \A b \in DOMAIN mcb : Fits(b, need) => a <= b

\* Mutant: never splits, the whole block is handed out.
Carve_Never(h, a, need) == SetFree(h, a, FALSE)

\* The body of the loop: split when more than a header is left over.
Carve(h, a, need) ==
  IF h[a].size > need + HDR
  THEN Split(h, a, need)
  ELSE SetFree(h, a, FALSE)

allocate_memory(sz) ==
  /\ ~panic
  /\ \E a \in DOMAIN mcb :
       /\ FirstFit(a, roundup(sz))
       /\ mcb' = Carve(mcb, a, roundup(sz))
       /\ asked' = [p \in DOMAIN asked \cup {a + HDR} |->
                      IF p = a + HDR THEN sz ELSE asked[p]]
  /\ UNCHANGED panic

\* No block fits: NULL is returned and nothing changes.
allocate_memory_fails(sz) ==
  /\ ~panic
  /\ \A a \in DOMAIN mcb : ~Fits(a, roundup(sz))
  /\ UNCHANGED vars

\* `mcb->start == ptr && !mcb_isfree(mcb)' for some block on the list.
Allocated(ptr) == \E a \in DOMAIN mcb : a + HDR = ptr /\ ~mcb[a].free

\* prev in the loop of free_memory: the block whose successor is a.
Prev(h, a) == CHOOSE p \in DOMAIN h : mcb_next(h, p) = a

\* `if (next && mcb_isfree(next))': a absorbs the block next.
AbsorbNext(h, a, next) ==
  IF next # NULL /\ h[next].free THEN Merge(h, a, next) ELSE h

\* Mutant: the block before is not looked at.
Release_ForwardOnly(h, a) == AbsorbNext(SetFree(h, a, TRUE), a, mcb_next(h, a))

\* free_memory, once the block is found: mark it free, absorb the next block
\* when that is free, then be absorbed by the previous one when that is free.
Release(h, a) ==
  LET prev == Prev(h, a)
      h1 == AbsorbNext(SetFree(h, a, TRUE), a, mcb_next(h, a))
  IN  IF a # memlist /\ h1[prev].free THEN Merge(h1, prev, a) ELSE h1

free_memory(ptr) ==
  /\ ~panic
  /\ Allocated(ptr)
  /\ mcb' = Release(mcb, ptr - HDR)
  /\ asked' = [p \in DOMAIN asked \ {ptr} |-> asked[p]]
  /\ UNCHANGED panic

\* No block matches.  The loop walks off the END block: it sets mcb to NULL
\* and evaluates mcb_next(NULL), which reads address 0; vm_init() left page 0
\* unmapped, so the page fault handler panics before -1 is returned.
free_memory_unknown(ptr) ==
  /\ ~panic
  /\ ~Allocated(ptr)
  /\ panic' = TRUE
  /\ UNCHANGED <<mcb, asked>>

Next ==
  \/ \E sz \in Requests : allocate_memory(sz) \/ allocate_memory_fails(sz)
  \/ \E ptr \in Pointers : free_memory(ptr) \/ free_memory_unknown(ptr)

Spec == Init /\ [][Next]_vars
-----------------------------------------------------------------------------
\* Types: header sizes are natural numbers, so no subtraction of allocate_memory
\* goes below zero, and clients hold only sizes they could ask for.
TypeOK ==
  /\ DOMAIN mcb \subseteq Nat
  /\ mcb \in [DOMAIN mcb -> Block]
  /\ DOMAIN asked \subseteq Nat
  /\ asked \in [DOMAIN asked -> Requests]
  /\ panic \in BOOLEAN

(***************************************************************************)
(* The blocks on the list tile the arena of lib/mem.c: every block but the *)
(* END block is followed by another block, the END block reaches exactly   *)
(* the end of the arena, no two blocks overlap, every block but the first  *)
(* has a predecessor.  This is what mcb_next() relies on in every loop.    *)
(* Sizes stay multiples of 4, so the FREE and END bits that the code packs *)
(* into the low bits of mcb->size never mix with the size.                 *)
(***************************************************************************)
Tiles(h) ==
  /\ memlist \in DOMAIN h
  /\ \A a \in DOMAIN h : memlist <= a
  /\ \A a \in DOMAIN h : ~h[a].end => a + HDR + h[a].size \in DOMAIN h
  /\ \A a \in DOMAIN h : h[a].end => a + HDR + h[a].size = HeapEnd
  /\ \A a, b \in DOMAIN h : a < b => a + HDR + h[a].size <= b
  /\ \A a \in DOMAIN h : a + HDR + h[a].size <= HeapEnd
  /\ \A b \in DOMAIN h : b # memlist =>
       \E a \in DOMAIN h : ~h[a].end /\ a + HDR + h[a].size = b
  /\ \A a \in DOMAIN h : h[a].size % 4 = 0

Tiled == Tiles(mcb)

\* free_memory leaves no two free neighbours: everything that could be joined
\* has been, whatever the order of the calls.
Joined(h) ==
  \A a \in DOMAIN h : ~h[a].end /\ h[a].free => ~h[a + HDR + h[a].size].free

Coalesced == Joined(mcb)

\* A block is marked allocated exactly when a client holds its address: the
\* allocator never gives a block away twice and never loses one.
ClientsAgree ==
  DOMAIN asked = {a + HDR : a \in {x \in DOMAIN mcb : ~mcb[x].free}}

\* What a client got is at least its (rounded) request and at most one
\* header more: allocate_memory splits whenever a useful remainder is left.
TightFit == \A p \in DOMAIN asked :
  /\ roundup(asked[p]) <= mcb[p - HDR].size
  /\ mcb[p - HDR].size <= roundup(asked[p]) + HDR

\* When the last client has freed its block the heap is again the single
\* block that initialize_heap made: nothing leaks and nothing stays split.
AllReclaimed ==
  DOMAIN asked = {} => mcb = [a \in {memlist} |-> Hdr(roundup(HeapSize), TRUE, TRUE)]

\* Seen by its clients the heap is an Allocator: a block handed out overlaps
\* no block in use, and no call moves, resizes or takes back a block other
\* than the one it is asked to free.
Abstract == INSTANCE Allocator WITH
  First <- memlist, Last <- HeapEnd,
  live <- [p \in DOMAIN asked |-> mcb[p - HDR].size]

ImplementsAllocator == Abstract!Spec

\* include/memory.h on allocation: "The amount of memory, in bytes, to
\* allocate".  A client holds at least the bytes it asked for.
GrantsRequest == \A p \in DOMAIN asked : mcb[p - HDR].size >= asked[p]
=============================================================================
