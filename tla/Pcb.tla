-------------------------------- MODULE Pcb ---------------------------------
(***************************************************************************)
(* The process control blocks and their queues, at the level of the        *)
(* pointers of kernel/pcb.c.  Every operator takes the store of PCBs and   *)
(* returns the updated one, so that a system call can run several.         *)
(*                                                                         *)
(* A store is a record: the three list heads and, for every PCB, the       *)
(* fields that the queue code reads or writes.  prev_pcb and resume_head   *)
(* are never used by the code.  hung is set by a loop over a list that     *)
(* runs in a circle: such a loop never ends.                               *)
(***************************************************************************)
EXTENDS Integers, FiniteSets, FiniteSetsExt

CONSTANTS Pcbs, Names, NULL

\* There is room for finitely many PCBs, none of them at address 0.
ASSUME PcbAssumption == IsFiniteSet(Pcbs) /\ NULL \notin Pcbs

READY_STATE == 1
BLOCKED_STATE == 0
SUSPENDED_STATE == -1    \* the value pcb.c tests for
SUSPEND_STATE == 2       \* the value pcb.h gives to the commands
RESUME_STATE == 3

PcbOrNull == Pcbs \cup {NULL}

Store == [head : [{"ready", "blocked", "suspended"} -> PcbOrNull],
          next : [Pcbs -> PcbOrNull],
          state : [Pcbs -> -1 .. 3],
          priority : [Pcbs -> -1 .. 9],
          name : [Pcbs -> Names \cup {NULL}],
          hung : BOOLEAN]

\* The zeroed head pointers, and PCBs that nobody has allocated yet.
NoPcbs ==
  [head |-> [k \in {"ready", "blocked", "suspended"} |-> NULL],
   next |-> [p \in Pcbs |-> NULL],
   state |-> [p \in Pcbs |-> SUSPENDED_STATE],
   priority |-> [p \in Pcbs |-> -1],
   name |-> [p \in Pcbs |-> NULL],
   hung |-> FALSE]

SetState(q, p, s) == IF q.hung THEN q ELSE [q EXCEPT !.state[p] = s]
-----------------------------------------------------------------------------
(***************************************************************************)
(* Following next_pcb from h: as many steps as there are PCBs show whether *)
(* the walk ends, since it meets some PCB twice if it does not.            *)
(***************************************************************************)
Walk(q, h) ==
  LET w[i \in 0 .. Cardinality(Pcbs)] ==
        IF i = 0 THEN h
        ELSE LET p == w[i - 1] IN IF p = NULL THEN NULL ELSE q.next[p]
  IN  w

\* Where a loop over w that stops at the first i with Stop(i) stops; {} when
\* it never does.
StopsAt(w, Stop(_)) ==
  LET hits == {i \in DOMAIN w : Stop(i)}
  IN  IF hits = {} THEN {} ELSE {Min(hits)}

\* The queue that pcb_insert chooses by state.
QueueOf(s) ==
  CASE s \in {READY_STATE, RESUME_STATE} -> "ready"
    [] s = SUSPENDED_STATE -> "suspended"
    [] s = BLOCKED_STATE -> "blocked"
    [] OTHER -> "none"

\* The link made at the end of pcb_insert.
LinkAfter(q, prev, p) == [q EXCEPT !.next[p] = q.next[prev], !.next[prev] = p]

\* pcb_insert when the queue is not empty and p not better than its head.
InsertBehind(q, p, k) ==
  LET w == Walk(q, q.head[k])
      Last(i) == /\ w[i] # NULL
                 /\ \/ q.next[w[i]] = NULL
                    \/ q.priority[p] < q.priority[q.next[w[i]]]
      at == StopsAt(w, Last)
  IN  IF at = {} THEN [q EXCEPT !.hung = TRUE]
                 ELSE LinkAfter(q, w[CHOOSE i \in at : TRUE], p)

pcb_insert(q, p) ==
  LET k == QueueOf(q.state[p])
  IN  IF q.hung \/ k = "none" THEN q
      ELSE IF q.head[k] = NULL \/ q.priority[p] < q.priority[q.head[k]]
           THEN [q EXCEPT !.next[p] = q.head[k], !.head[k] = p]
           ELSE InsertBehind(q, p, k)

\* The queue that pcb_remove looks in: the blocked queue is not one.
SearchedFor(s) ==
  CASE s \in {READY_STATE, RESUME_STATE} -> "ready"
    [] s = SUSPENDED_STATE -> "suspended"
    [] OTHER -> "none"

\* Does pcb_remove return PCB_SUCCESS?
Removable(q, p) ==
  LET k == SearchedFor(q.state[p])
  IN  /\ k # "none"
      /\ \E i \in 0 .. Cardinality(Pcbs) : Walk(q, q.head[k])[i] = p

\* Mutant: only the head of the queue is ever removed.
pcb_remove_HeadOnly(q, p) ==
  LET k == SearchedFor(q.state[p])
  IN  IF q.hung \/ k = "none" \/ q.head[k] # p THEN q
      ELSE [q EXCEPT !.head[k] = q.next[p]]

pcb_remove(q, p) ==
  LET k == SearchedFor(q.state[p])
      w == Walk(q, q.head[k])
      Before(i) == w[i] = NULL \/ q.next[w[i]] = p
      at == StopsAt(w, Before)
  IN  IF q.hung \/ k = "none" THEN q
      ELSE IF q.head[k] = p THEN [q EXCEPT !.head[k] = q.next[p]]
      ELSE IF at = {} THEN [q EXCEPT !.hung = TRUE]
      ELSE LET prev == w[CHOOSE i \in at : TRUE]
           IN  IF prev = NULL THEN q ELSE [q EXCEPT !.next[prev] = q.next[p]]

\* One loop of pcb_find: where it stops, if it does.
Search(q, k, n) ==
  LET w == Walk(q, q.head[k])
      Found(i) == w[i] = NULL \/ q.name[w[i]] = n
      at == StopsAt(w, Found)
  IN  {w[i] : i \in at}

\* pcb_find: the ready queue, then the suspended queue.  The set is empty
\* when the search runs in a circle, else it holds the result.
pcb_find(q, n) ==
  IF Search(q, "ready", n) = {NULL} THEN Search(q, "suspended", n)
                                    ELSE Search(q, "ready", n)

\* The fields that pcb_allocate and pcb_setup write.
Prepare(q, p, n, prio) ==
  [q EXCEPT !.name[p] = n, !.priority[p] = prio, !.state[p] = READY_STATE,
            !.next[p] = NULL]
=============================================================================
