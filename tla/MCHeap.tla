------------------------------- MODULE MCHeap -------------------------------
(***************************************************************************)
(* The heap on a small arena with a small size_t.                          *)
(***************************************************************************)
EXTENDS Heap

\* Every request a caller can make that rounds to 0, 4, 8 or 12 bytes, and
\* one that is larger than the arena.
MCRequests == {0, 1, 4, 7, 12, 40}

\* Every word address of the arena: valid, stale, interior and foreign ones.
MCPointers == {4 * i : i \in 0 .. (HeapSize + 2 * HDR) \div 4}
=============================================================================
