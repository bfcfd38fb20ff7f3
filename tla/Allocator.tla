----------------------------- MODULE Allocator ------------------------------
(***************************************************************************)
(* What a heap promises its clients, with no notion of headers, lists or   *)
(* search order: it hands out regions of an arena, no two of which overlap *)
(* while both are held, and a region stays where it is until its holder    *)
(* gives it back.                                                          *)
(***************************************************************************)
EXTENDS Integers

CONSTANTS First, Last   \* the arena is the bytes First .. Last - 1

VARIABLE live           \* start of a region held by a client -> its length

Init == live = [p \in {} |-> 0]

Apart(p, n, q, m) == p # q /\ (p + n <= q \/ q + m <= p)

Grant(p, n) ==
  /\ p + n <= Last
  /\ \A q \in DOMAIN live : Apart(p, n, q, live[q])
  /\ live' = [q \in DOMAIN live \cup {p} |-> IF q = p THEN n ELSE live[q]]

GiveBack(p) ==
  /\ p \in DOMAIN live
  /\ live' = [q \in DOMAIN live \ {p} |-> live[q]]

Next ==
  \/ \E p \in First .. Last, n \in 0 .. Last - First : Grant(p, n)
  \/ \E p \in First .. Last : GiveBack(p)

Spec == Init /\ [][Next]_live
=============================================================================
