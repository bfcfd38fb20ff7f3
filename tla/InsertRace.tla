----------------------------- MODULE InsertRace -----------------------------
(***************************************************************************)
(* A command works on the ready queue with interrupts enabled, and the     *)
(* serial interrupt works on it in between (kernel/serial.c line 536).     *)
(*                                                                         *)
(* The command is pcb_insert(x) (loadR3, resumePCB, alarm) or              *)
(* pcb_remove(x) (deletePCB) of kernel/pcb.c, one action for each test and *)
(* each assignment of a pointer.  The handler, which runs with interrupts  *)
(* disabled, is one action: unblock_pcb of a process that is not in the    *)
(* queue, the running one or a deleted one.  (What unblock_pcb does to a   *)
(* process that is in the queue is the subject of Kernel.)                 *)
(*                                                                         *)
(* kernel/serial_isr.s saves no register, and every statement of pcb.c     *)
(* loads pointers into eax, ecx or edx before it uses them.  So there are  *)
(* two kinds of interrupt.  One comes while no such register is in use,    *)
(* between two statements, or where the one in use is one that the handler *)
(* happens to leave alone: unblock_pcb.  The other comes while a register  *)
(* is in use that the handler changes: Spoil.  What the command does after *)
(* that depends on memory that is not its own, and is not followed.        *)
(***************************************************************************)
EXTENDS Pcb, Sequences

CONSTANTS
  Old,         \* the processes in the ready queue, in the order they came
  x,           \* the process that the command is about
  Returning,   \* the processes that the handler unblocks
  Priorities

ASSUME InsertRaceAssumption ==
  /\ Old \in Seq(Pcbs) /\ \A i, j \in DOMAIN Old : Old[i] = Old[j] => i = j
  /\ x \in Pcbs /\ \A i \in DOMAIN Old : Old[i] # x
  /\ Returning \subseteq Pcbs \ ({x} \cup {Old[i] : i \in DOMAIN Old})
  /\ Priorities \subseteq 0 .. 9

VARIABLES
  q,      \* the PCBs and their queues
  op,     \* "insert" or "remove"
  at,     \* where the command is; "lost" once its registers were changed
  prev,   \* prev_pcb of pcb_insert, current of pcb_remove
  reg,    \* a pointer that was read and is about to be written elsewhere
  before, \* history: the PCBs as the command found them
  alone   \* history: TRUE as long as no interrupt has come

vars == <<q, op, at, prev, reg, before, alone>>

ready_head == q.head["ready"]
SetHead(p) == q' = [q EXCEPT !.head["ready"] = p]
SetNext(p, n) == q' = [q EXCEPT !.next[p] = n]

InQueue(s) ==
  {Walk(s, s.head["ready"])[i] : i \in 0 .. Cardinality(Pcbs)} \ {NULL}

\* Ready PCBs with these priorities, and a queue of the first n of seq.
Ready(prio) ==
  [NoPcbs EXCEPT !.priority = prio, !.state = [p \in Pcbs |-> READY_STATE]]

Queued(prio, seq) ==
  LET ins[n \in 0 .. Len(seq)] ==
        IF n = 0 THEN Ready(prio) ELSE pcb_insert(ins[n - 1], seq[n])
  IN  ins[Len(seq)]

Init ==
  /\ op \in {"insert", "remove"}
  /\ \E prio \in [Pcbs -> Priorities] :
       IF op = "insert"
       THEN \E n \in 0 .. Len(Old) : q = Queued(prio, SubSeq(Old, 1, n))
       ELSE q = Queued(prio, Append(Old, x))
  /\ at = "begin" /\ prev = NULL /\ reg = NULL
  /\ before = q /\ alone = TRUE
-----------------------------------------------------------------------------
(***************************************************************************)
(* pcb_insert(x)                                                           *)
(***************************************************************************)

\* `*head_ptr == NULL || curr_pcb->priority < (*head_ptr)->priority'
Frontmost == ready_head = NULL \/ q.priority[x] < q.priority[ready_head]

InsertBegin ==
  /\ op = "insert" /\ at = "begin"
  /\ IF Frontmost THEN at' = "link_head" /\ UNCHANGED prev
                  ELSE at' = "find_place" /\ prev' = ready_head
  /\ UNCHANGED <<q, op, reg, before, alone>>

\* curr_pcb->next_pcb = *head_ptr
LinkHead ==
  /\ at = "link_head"
  /\ SetNext(x, ready_head) /\ at' = "set_head"
  /\ UNCHANGED <<op, prev, reg, before, alone>>

\* *head_ptr = curr_pcb
InsertHead ==
  /\ at = "set_head" /\ op = "insert"
  /\ SetHead(x) /\ at' = "done"
  /\ UNCHANGED <<op, prev, reg, before, alone>>

\* Mutant: before the processes of the same priority.
GoesOn_Strict ==
  q.next[prev] # NULL /\ q.priority[x] > q.priority[q.next[prev]]

\* The condition of the loop.
GoesOn ==
  q.next[prev] # NULL /\ q.priority[x] >= q.priority[q.next[prev]]

FindPlace ==
  /\ at = "find_place"
  /\ at' = IF GoesOn THEN "advance" ELSE "link"
  /\ UNCHANGED <<q, op, prev, reg, before, alone>>

NextOf(p) == q.next[p]

\* prev_pcb = prev_pcb->next_pcb
Advance ==
  /\ at = "advance"
  /\ prev' = NextOf(prev) /\ at' = "find_place"
  /\ UNCHANGED <<q, op, reg, before, alone>>

\* Mutant: the rest of the queue is not linked.
Link_Last ==
  /\ at = "link"
  /\ SetNext(x, NULL) /\ at' = "link_prev"
  /\ UNCHANGED <<op, prev, reg, before, alone>>

\* Mutant: the new process is linked to the one before it.
Link_Back ==
  /\ at = "link"
  /\ SetNext(x, prev) /\ at' = "link_prev"
  /\ UNCHANGED <<op, prev, reg, before, alone>>

\* curr_pcb->next_pcb = prev_pcb->next_pcb
Link ==
  /\ at = "link"
  /\ SetNext(x, q.next[prev]) /\ at' = "link_prev"
  /\ UNCHANGED <<op, prev, reg, before, alone>>

\* prev_pcb->next_pcb = curr_pcb
LinkPrev ==
  /\ at = "link_prev"
  /\ SetNext(prev, x) /\ at' = "done"
  /\ UNCHANGED <<op, prev, reg, before, alone>>
-----------------------------------------------------------------------------
(***************************************************************************)
(* pcb_remove(x).  pcb_find has just found x in the ready queue, so that   *)
(* the search meets x before the end.                                      *)
(***************************************************************************)

\* current = *head_ptr, and the test for the head.
RemoveBegin ==
  /\ op = "remove" /\ at = "begin"
  /\ prev' = ready_head
  /\ at' = IF ready_head = x THEN "read_next" ELSE "search"
  /\ UNCHANGED <<q, op, reg, before, alone>>

FindBefore ==
  /\ at = "search"
  /\ at' = IF q.next[prev] # x THEN "step" ELSE "read_next"
  /\ UNCHANGED <<q, op, prev, reg, before, alone>>

\* current = current->next_pcb
Step ==
  /\ at = "step"
  /\ prev' = q.next[prev] /\ at' = "search"
  /\ UNCHANGED <<q, op, reg, before, alone>>

\* The right side of the assignment that takes x out.
ReadNext ==
  /\ at = "read_next"
  /\ reg' = q.next[x]
  /\ at' = IF prev = x THEN "set_head" ELSE "unlink"
  /\ UNCHANGED <<q, op, prev, before, alone>>

\* *head_ptr = current->next_pcb
RemoveHead ==
  /\ at = "set_head" /\ op = "remove"
  /\ SetHead(reg) /\ at' = "done"
  /\ UNCHANGED <<op, prev, reg, before, alone>>

\* Mutant: takes the process before x out.
Unlink_One ==
  /\ at = "unlink"
  /\ SetNext(prev, x) /\ at' = "done"
  /\ UNCHANGED <<op, prev, reg, before, alone>>

\* current->next_pcb = curr_pcb->next_pcb
Unlink ==
  /\ at = "unlink"
  /\ SetNext(prev, reg) /\ at' = "done"
  /\ UNCHANGED <<op, prev, reg, before, alone>>
-----------------------------------------------------------------------------
Insert == InsertBegin \/ LinkHead \/ InsertHead \/ FindPlace \/ Advance \/ Link \/ LinkPrev
Remove == RemoveBegin \/ FindBefore \/ Step \/ ReadNext \/ RemoveHead \/ Unlink

\* unblock_pcb, from serial_output_interrupt.
Unblock(y) == pcb_insert(SetState(q, y, READY_STATE), y)

unblock_pcb(y) ==
  /\ y \notin InQueue(q)
  /\ q' = Unblock(y)
  /\ alone' = FALSE
  /\ UNCHANGED <<op, at, prev, reg, before>>

\* Any interrupt of the port: it ends a write, or leaves the queue alone.
AfterHandler == {q} \cup {Unblock(y) : y \in Returning \ InQueue(q)}

\* The statement that was interrupted writes g in s, where it writes at all.
Garbled(s, g) ==
  CASE at \in {"link_head", "link"} -> [s EXCEPT !.next[x] = g]
    [] at \in {"link_prev", "unlink"} -> [s EXCEPT !.next[prev] = g]
    [] at = "set_head" -> [s EXCEPT !.head["ready"] = g]
    [] OTHER -> s

\* The interrupt comes inside a statement.  eax and edx are 0x20 when the
\* handler returns, and ecx is what its calls left there: the statement's test
\* goes either way, and what it assigns is any pointer, or is stored elsewhere.
Spoil ==
  /\ at \notin {"done", "lost"}
  /\ \E s \in AfterHandler, g \in PcbOrNull : q' \in {s, Garbled(s, g)}
  /\ at' = "lost" /\ alone' = FALSE
  /\ UNCHANGED <<op, prev, reg, before>>

Next == Insert \/ Remove \/ (\E y \in Returning : unblock_pcb(y)) \/ Spoil

Spec == Init /\ [][Next]_vars
-----------------------------------------------------------------------------
\* Unless an interrupt has changed a register in use, the ready queue is a list
\* that ends whenever the handler may look at it, so that the loop in the
\* handler's pcb_insert ends.
ListEnds == at # "lost" => Walk(q, ready_head)[Cardinality(Pcbs)] = NULL

\* The order of the pointer reads and writes of pcb.c does not by itself make
\* the command lose a process that was in the queue before: unless a register
\* was spoilt, only the process that the handler has just put there can get lost.
OldStay == at # "lost" => InQueue(before) \ {x} \subseteq InQueue(q)

\* A command whose registers were left alone does what it is for, wherever the
\* handler's insertions come between its statements: in the end x is in the
\* queue, or is not.
Done == at = "done" => (x \in InQueue(q) <=> op = "insert")

\* Undisturbed, the steps add up to pcb_insert and pcb_remove of Pcb, which the
\* kernel's model takes as one step.
AtomicAlone ==
  at = "done" /\ alone =>
    q = IF op = "insert" THEN pcb_insert(before, x) ELSE pcb_remove(before, x)

=============================================================================
