--------------------------------- MODULE Vm ---------------------------------
(***************************************************************************)
(* The virtual memory set-up of kernel/core-c.c: vm_init, one action for   *)
(* each turn of its loops, and kmalloc.                                    *)
(*                                                                         *)
(* Addresses are bytes.  A loop variable that goes up by PAGE_SIZE is      *)
(* counted in pages.  Of a page entry the model keeps frameaddr and        *)
(* present.  The memory behind the kernel is zero when the machine starts  *)
(* (get_page does not clear a new table), and requests are too small for   *)
(* 32-bit addresses to wrap.                                               *)
(***************************************************************************)
EXTENDS Integers, FiniteSets, FiniteSetsExt

CONSTANTS
  PAGE_SIZE,
  TABLE_PAGES,  \* entries of a page table (1024)
  DIR_SIZE,     \* sizeof(page_dir)
  SLACK,        \* what vm_init maps beyond the memory in use (0x10000)
  NFRAMES,
  KHEAP_PAGE, KHEAP_PAGES,  \* KHEAP_BASE and KHEAP_SIZE, in pages
  KernelEnds,   \* where the linker may put __end
  Requests      \* the sizes asked of kmalloc once the heap is there

ASSUME VmAssumption ==
  /\ PAGE_SIZE \in Nat \ {0} /\ TABLE_PAGES \in Nat \ {0}
  /\ DIR_SIZE \in Nat /\ SLACK \in Nat \ {0} /\ NFRAMES \in Nat \ {0}
  /\ KHEAP_PAGES \in Nat \ {0}
  /\ KHEAP_PAGE \in Nat /\ KHEAP_PAGE >= NFRAMES
  /\ KernelEnds \subseteq Nat /\ \A e \in KernelEnds : e >= PAGE_SIZE
  /\ Requests \subseteq Nat \ {0}

VARIABLES
  at,               \* where vm_init is
  i,                \* its loop variable
  phys_alloc_addr,
  tables,           \* index of a page table -> its (physical) address
  frameaddr,        \* page -> frameaddr of its entry
  present,          \* the pages whose entry has the present bit
  frames,           \* the frames whose bit is set
  heap_addr,
  granted,          \* what kmalloc has given out (history)
  panic

vars == <<at, i, phys_alloc_addr, tables, frameaddr, present, frames,
          heap_addr, granted, panic>>
mapping == <<frameaddr, present, frames>>

KHEAP_BASE == KHEAP_PAGE * PAGE_SIZE
KHEAP_SIZE == KHEAP_PAGES * PAGE_SIZE
KHEAP_END == KHEAP_PAGE + KHEAP_PAGES
Pages == 0 .. KHEAP_END
Frames == 0 .. NFRAMES - 1
-----------------------------------------------------------------------------
Init ==
  /\ at = "dir" /\ i = 0
  /\ phys_alloc_addr \in KernelEnds
  /\ tables = << >>
  /\ frameaddr = [p \in Pages |-> 0] /\ present = {} /\ frames = {}
  /\ heap_addr = KHEAP_BASE
  /\ granted = {}
  /\ panic = FALSE

\* Mutant: the address is not aligned.
Aligned_Not(a) == a

\* The alignment in kmalloc: an address that is already aligned moves on too,
\* unless it is in the first page.
Aligned(a) ==
  IF a < PAGE_SIZE THEN a ELSE (a \div PAGE_SIZE + 1) * PAGE_SIZE

TableOf(p) == p \div TABLE_PAGES

\* Mutant: the directory is not consulted, every call makes a table.
get_page_Always(p) ==
  LET base == Aligned(phys_alloc_addr)
  IN  /\ tables' = [t \in DOMAIN tables \cup {TableOf(p)} |->
                      IF t = TableOf(p) THEN base ELSE tables[t]]
      /\ phys_alloc_addr' = base + PAGE_SIZE

\* get_page(p, kdir, 1): a missing table is allocated from physical memory,
\* aligned to a page and one page long.
get_page(p) ==
  IF TableOf(p) \in DOMAIN tables
  THEN UNCHANGED <<phys_alloc_addr, tables>>
  ELSE LET base == Aligned(phys_alloc_addr)
       IN  /\ tables' = [t \in DOMAIN tables \cup {TableOf(p)} |->
                           IF t = TableOf(p) THEN base ELSE tables[t]]
           /\ phys_alloc_addr' = base + PAGE_SIZE

FreeFrames == Frames \ frames
find_free == Min(FreeFrames)

\* Mutant: the frame is not marked.
new_frame_Unmarked(p) ==
  IF frameaddr[p] # 0
  THEN UNCHANGED <<frameaddr, present, frames, panic>>
  ELSE /\ FreeFrames # {}
       /\ frameaddr' = [frameaddr EXCEPT ![p] = find_free]
       /\ present' = present \cup {p}
       /\ UNCHANGED <<frames, panic>>

\* An entry that has a frame keeps it; one that has frame 0 looks as if it had
\* none.
new_frame(p) ==
  IF frameaddr[p] # 0
  THEN UNCHANGED <<frameaddr, present, frames, panic>>
  ELSE IF FreeFrames = {}
  THEN panic' = TRUE /\ UNCHANGED mapping
  ELSE /\ frameaddr' = [frameaddr EXCEPT ![p] = find_free]
       /\ present' = present \cup {p}
       /\ frames' = frames \cup {find_free}
       /\ UNCHANGED panic

\* The page directory.
CreateDirectory ==
  /\ ~panic /\ at = "dir"
  /\ phys_alloc_addr' = Aligned(phys_alloc_addr) + DIR_SIZE
  /\ at' = "tables" /\ i' = KHEAP_BASE
  /\ UNCHANGED <<tables, frameaddr, present, frames, heap_addr, granted, panic>>

\* The tables of the kernel heap; this loop goes byte by byte.
HeapTables ==
  /\ ~panic /\ at = "tables"
  /\ \/ /\ i < KHEAP_BASE + KHEAP_SIZE
        /\ get_page(i \div PAGE_SIZE)
        /\ i' = i + 1 /\ UNCHANGED at
     \/ /\ i >= KHEAP_BASE + KHEAP_SIZE
        /\ at' = "identity" /\ i' = 0
        /\ UNCHANGED <<phys_alloc_addr, tables>>
  /\ UNCHANGED <<frameaddr, present, frames, heap_addr, granted, panic>>

\* Mutant: a strict bound on the page after.
MoreToMap_Short == (i + 1) * PAGE_SIZE < phys_alloc_addr

\* The loop's condition; its right side grows when a table is made.
MoreToMap == i * PAGE_SIZE < phys_alloc_addr + SLACK

\* The identity mapping, page i.
IdentityMap ==
  /\ ~panic /\ at = "identity"
  /\ \/ /\ MoreToMap
        /\ get_page(i)
        /\ new_frame(i)
        /\ i' = i + 1 /\ UNCHANGED at
     \/ /\ ~MoreToMap
        /\ at' = "heap" /\ i' = KHEAP_PAGE
        /\ UNCHANGED <<phys_alloc_addr, tables, frameaddr, present, frames, panic>>
  /\ UNCHANGED <<heap_addr, granted>>

\* Frames for the kernel heap, page i.
HeapFrames ==
  /\ ~panic /\ at = "heap"
  /\ \/ /\ i < KHEAP_END
        /\ get_page(i)
        /\ new_frame(i)
        /\ i' = i + 1 /\ UNCHANGED at
     \/ /\ i >= KHEAP_END
        /\ at' = "null"
        /\ UNCHANGED <<i, phys_alloc_addr, tables, frameaddr, present, frames, panic>>
  /\ UNCHANGED <<heap_addr, granted>>

\* The entry of page 0 is cleared, then paging is enabled.
EnablePaging ==
  /\ ~panic /\ at = "null"
  /\ frameaddr' = [frameaddr EXCEPT ![0] = 0]
  /\ present' = present \ {0}
  /\ at' = "on"
  /\ UNCHANGED <<i, phys_alloc_addr, tables, frames, heap_addr, granted, panic>>

\* The address behind a page entry and an offset.
Translate(a) == frameaddr[a \div PAGE_SIZE] * PAGE_SIZE + (a % PAGE_SIZE)

\* Mutant: the limit is tested before the heap grows.
alloc_fits_Late(size) == heap_addr <= KHEAP_BASE + KHEAP_SIZE

\* alloc: the kernel heap only grows.
alloc_fits(size) == heap_addr + size <= KHEAP_BASE + KHEAP_SIZE

\* kmalloc, once the heap is there; its alignment argument has no effect then.
kmalloc(size) ==
  /\ ~panic /\ at = "on"
  /\ heap_addr' = heap_addr + size
  /\ IF alloc_fits(size)
     THEN /\ granted' = granted \cup
               {[base |-> heap_addr, size |-> size, phys |-> Translate(heap_addr)]}
          /\ UNCHANGED panic
     ELSE panic' = TRUE /\ UNCHANGED granted
  /\ UNCHANGED <<at, i, phys_alloc_addr, tables, frameaddr, present, frames>>

vm_init == CreateDirectory \/ HeapTables \/ IdentityMap \/ HeapFrames \/ EnablePaging

Next == vm_init \/ \E size \in Requests : kmalloc(size)

Spec == Init /\ [][Next]_vars

\* kmain calls vm_init once, and it runs on without waiting for anything.
FairSpec == Spec /\ WF_vars(vm_init)
-----------------------------------------------------------------------------
\* Types; every frame that an entry names is a frame of the machine.
TypeOK ==
  /\ at \in {"dir", "tables", "identity", "heap", "null", "on"}
  /\ i \in Nat /\ phys_alloc_addr \in Nat /\ heap_addr \in Nat
  /\ \A t \in DOMAIN tables : tables[t] \in Nat
  /\ frameaddr \in [Pages -> Frames]
  /\ present \subseteq Pages /\ frames \subseteq Frames
  /\ panic \in BOOLEAN

\* No two pages share a frame, and the bitmap knows every frame in use, even
\* though the entry that was given frame 0 looks empty to new_frame.
FramesExclusive ==
  /\ \A p, r \in present : frameaddr[p] = frameaddr[r] => p = r
  /\ \A p \in present : frameaddr[p] \in frames

\* include/mpx/vm.h: "virtual addresses are equivalent to the physical
\* addresses".  Once paging is enabled every page up to the end of the memory
\* in use, but page 0, is mapped to itself: also the tables that were made
\* while the mapping was under way.
IdentityMapped ==
  at = "on" => \A p \in Pages \ {0} :
    p * PAGE_SIZE < phys_alloc_addr => p \in present /\ frameaddr[p] = p

\* The hardware reaches every table, and the kernel's pointer to it, through
\* the same address: tables are page-aligned, apart, and mapped to themselves.
TablesReachable ==
  at = "on" => \A t \in DOMAIN tables :
    /\ tables[t] % PAGE_SIZE = 0
    /\ Translate(tables[t]) = tables[t]
    /\ \A s \in DOMAIN tables : tables[s] = tables[t] => s = t

\* A region from kmalloc is mapped throughout, physically contiguous from the
\* address that kmalloc reports, and overlaps no other region.
RegionsUsable ==
  \A g \in granted :
    /\ \A a \in g.base .. g.base + g.size - 1 :
         /\ a \div PAGE_SIZE \in present
         /\ Translate(a) = g.phys + (a - g.base)
    /\ \A h \in granted :
         h = g \/ h.base + h.size <= g.base \/ g.base + g.size <= h.base

\* Room for a kernel that ends at e: the kernel, the directory, and two pages
\* for every table, since kmalloc skips a page when it aligns an address that
\* is aligned already.
Roomy(e) ==
  LET n == NFRAMES - KHEAP_PAGES
      heapTables == KHEAP_PAGES \div TABLE_PAGES + 2
      ownTables == n \div TABLE_PAGES + 1
  IN  e + DIR_SIZE + 2 * PAGE_SIZE * (1 + heapTables + ownTables) + SLACK <= n * PAGE_SIZE

\* vm_init ends with paging on when there is room: the bound of the identity
\* mapping moves on while the loop runs, but the loop catches up before the
\* frames run out.
BootEnds == Roomy(phys_alloc_addr) => <>(at = "on")
=============================================================================
