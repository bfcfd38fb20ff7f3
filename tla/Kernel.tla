------------------------------- MODULE Kernel -------------------------------
(***************************************************************************)
(* MPX from the moment kmain() has set up its two processes: the system    *)
(* call of kernel/sys_call.c, the PCB queues of kernel/pcb.c, the commands *)
(* of user/commhand.c that change them, and the serial driver's            *)
(* interrupts, which unblock processes.                                    *)
(*                                                                         *)
(* A system call and an interrupt handler run with interrupts disabled:    *)
(* each is one action.  The code of a process between two system calls is  *)
(* interleaved with interrupts.  What the processes ask for is a parameter *)
(* (Calls, Commands); a command's prompts and reports are system calls of  *)
(* their own and so are not part of the command's action.                  *)
(***************************************************************************)
EXTENDS Pcb, Sequences

CONSTANTS
  COMMHAND, IDLE_PROCESS,  \* the names kmain() gives to its processes
  R3,         \* the processes load_r3 creates: a sequence of [name, priority]
  Calls,      \* name of a process -> the op codes its program passes to sys_req
  Commands,   \* the commands typed at the Command Handler
  AlarmNames, \* the names typed at alarm
  Priorities, \* the priorities typed at setPCBpriority
  Bufs, Lens, MaxIocbs, Keys   \* as in Serial

ASSUME KernelAssumption ==
  /\ {1, 2} \subseteq Pcbs /\ Pcbs \subseteq Nat
  /\ {COMMHAND, IDLE_PROCESS} \subseteq Names /\ COMMHAND # IDLE_PROCESS
  /\ NULL \notin Names
  /\ AlarmNames \subseteq Names \ {COMMHAND, IDLE_PROCESS}
  /\ R3 \in Seq([name : Names \ {COMMHAND, IDLE_PROCESS}, priority : 0 .. 9])
  /\ R3 # << >>
  /\ Lens \subseteq Nat /\ MaxIocbs \in Nat /\ Keys \in BOOLEAN

VARIABLES
  q,        \* the PCBs and their queues
  global_pcb,  \* the running process; NULL while kmain() runs
  heap,     \* the PCBs that sys_alloc_mem gave out and that were not freed
  deleted,  \* the PCBs that deletePCB has reported deleted (history)
  loading,  \* the iteration of load_r3 that comes next, 0 outside load_r3
  port,     \* the serial port
  panic     \* TRUE once kpanic() has stopped the machine

vars == <<q, global_pcb, heap, deleted, loading, port, panic>>

Drv == INSTANCE Serial WITH Procs <- Pcbs, fault <- panic

System == {COMMHAND, IDLE_PROCESS}   \* class SYSTEM_PROC
Up == ~panic /\ ~q.hung
Panic == panic' = TRUE /\ UNCHANGED <<q, global_pcb, heap, deleted, loading, port>>

\* Allocation is first fit: the lowest free PCB-sized block.
FreeBlocks == Pcbs \ heap
-----------------------------------------------------------------------------
(***************************************************************************)
(* kmain(): both processes are set up and inserted.                        *)
(***************************************************************************)
Init ==
  /\ q = pcb_insert(Prepare(pcb_insert(Prepare(NoPcbs, 1, COMMHAND, 1), 1),
                            2, IDLE_PROCESS, 9), 2)
  /\ global_pcb = NULL
  /\ heap = {1, 2}
  /\ deleted = {}
  /\ loading = 0
  /\ port = Drv!serial_open
  /\ panic = FALSE
-----------------------------------------------------------------------------
(***************************************************************************)
(* sys_call                                                                *)
(***************************************************************************)

\* global_pcb gets READY and goes back to the ready queue.
Requeue(s, p) == IF p = NULL THEN s ELSE pcb_insert(SetState(s, p, READY_STATE), p)

\* The end of sys_call: p comes off the queue and runs.
Dispatch(s, p) ==
  LET s1 == pcb_remove(s, p)
  IN  IF s1.hung THEN s1 ELSE [s1 EXCEPT !.next[p] = NULL, !.state[p] = READY_STATE]

\* Mutant: the running process is not put back.
IdleCase_Forget(s, p, next) ==
  IF next = NULL THEN s ELSE Dispatch(s, next)

\* The IDLE case and what follows the switch, for the running process p and
\* the head of the ready queue, next, as read when sys_call began.
IdleCase(s, p, next) ==
  IF next = NULL THEN s ELSE Dispatch(Requeue(s, p), next)

\* One pass through the READ case, as far as the queues go.
Block(s, p) == pcb_insert(SetState(s, p, BLOCKED_STATE), p)

\* Mutant: the head of the ready queue is read after the requeue.
Switch_ReadLate(s) ==
  LET s1 == Requeue(s, global_pcb)
      next == s1.head["ready"]
  IN  q' = Dispatch(s1, next) /\ global_pcb' = next

\* The store and the running process at the end of a system call.
Switch(s) ==
  LET next == q.head["ready"]
      s1 == IdleCase(s, global_pcb, next)
  IN  /\ q' = s1
      /\ global_pcb' = IF next = NULL \/ s1.hung THEN global_pcb ELSE next

\* The running process's program contains this call; kmain() only yields.
MayCall(op) ==
  /\ Up /\ loading = 0
  /\ IF global_pcb = NULL THEN op = "IDLE" ELSE op \in Calls[q.name[global_pcb]]

sys_call_IDLE ==
  /\ MayCall("IDLE")
  /\ Switch(q)
  /\ UNCHANGED <<heap, deleted, loading, port, panic>>

sys_call_READ(r) ==
  /\ MayCall("READ") /\ r.op = "READ" /\ r.proc = global_pcb
  /\ IF Drv!NoIocb(port, r)
     THEN Panic
     ELSE /\ port' = Drv!io_scheduler(port, r)
          /\ Switch(Block(q, global_pcb))
          /\ UNCHANGED <<heap, deleted, loading, panic>>

\* WRITE falls through into READ: everything happens twice.
sys_call_WRITE(r) ==
  /\ MayCall("WRITE") /\ r.op = "WRITE" /\ r.proc = global_pcb
  /\ LET once == Block(q, global_pcb)
     IN  IF \/ Drv!NoIocb(port, r)
            \/ ~once.hung /\ Drv!NoIocb(Drv!io_scheduler(port, r), r)
         THEN Panic
         ELSE /\ port' = IF once.hung THEN Drv!io_scheduler(port, r)
                                      ELSE Drv!SysCallIo(port, r)
              /\ Switch(Block(once, global_pcb))
              /\ UNCHANGED <<heap, deleted, loading, panic>>

\* Mutant: the name is not freed separately.
pcb_free_faults_Once(h, p) == p \notin h

\* sys_free_mem(ptr) for an address that is not allocated ends in kpanic().
\* pcb_free frees the name, then the PCB; name[] is the first member of the
\* PCB, so both calls pass the same address.
pcb_free_faults(h, p) == p \notin h \/ p \notin h \ {p}

sys_call_EXIT ==
  /\ MayCall("EXIT") /\ global_pcb # NULL
  /\ LET next == q.head["ready"]
         s == pcb_remove(q, global_pcb)
     IN  IF s.hung
         THEN q' = s /\ UNCHANGED <<global_pcb, heap, deleted, loading, port, panic>>
         ELSE IF next = NULL \/ pcb_free_faults(heap, global_pcb)
         THEN Panic
         ELSE /\ q' = [s EXCEPT !.next[next] = NULL]
              /\ heap' = heap \ {global_pcb}
              /\ global_pcb' = NULL
              /\ UNCHANGED <<deleted, loading, port, panic>>
-----------------------------------------------------------------------------
(***************************************************************************)
(* The commands, as the Command Handler runs them.  A loop in a process    *)
(* that runs in a circle just spins, with interrupts enabled: the command  *)
(* does not end unless an interrupt changes the list.                      *)
(***************************************************************************)
Typed(c) ==
  /\ Up /\ c \in Commands /\ global_pcb # NULL
  /\ q.name[global_pcb] = COMMHAND

\* Mutant: the name is not looked up.
NameFree_Unchecked(n) == TRUE

\* pcb_setup's search for its own new name finds nothing.
NameFree(n) == pcb_find(q, n) = {NULL}

\* pcb_setup and pcb_insert of a new process; l is where load_r3 goes on.  No
\* memory, or a name that is in use (pcb_setup frees the new PCB): either way
\* kpanic().
Create(n, prio, l) ==
  LET p == Min(FreeBlocks)
      s == pcb_insert(Prepare(q, p, n, prio), p)
  IN  \/ FreeBlocks = {} /\ Panic
      \/ /\ FreeBlocks # {}
         /\ pcb_find(q, n) \notin {{}, {NULL}}
         /\ Panic
      \/ /\ FreeBlocks # {}
         /\ NameFree(n)
         /\ ~s.hung
         /\ q' = s
         /\ heap' = heap \cup {p}
         /\ loading' = l
         /\ UNCHANGED <<global_pcb, deleted, port, panic>>

\* One iteration of load_r3.
load_r3 ==
  /\ Typed("loadR3")
  /\ LET i == IF loading = 0 THEN 1 ELSE loading
     IN  Create(R3[i].name, R3[i].priority, IF i = Len(R3) THEN 0 ELSE i + 1)

\* The end of alarm: its process has priority 1 and runs alarm again, so the
\* processes that alarm made come here too.  The IDLE that follows is a system
\* call of its own.
alarm(n) ==
  /\ Up /\ "alarm" \in Commands /\ loading = 0 /\ global_pcb # NULL
  /\ q.name[global_pcb] \in {COMMHAND} \cup AlarmNames
  /\ Create(n, 1, 0)

\* The PCB that a command is about; a command that finds none reports it.
Target(c, n, p) ==
  /\ Typed(c) /\ loading = 0
  /\ p \in pcb_find(q, n)

UserTarget(c, n, p) == Target(c, n, p) /\ p # NULL /\ n \notin System

delete_pcb(n) ==
  \E p \in Pcbs :
    /\ UserTarget("deletePCB", n, p)
    /\ ~pcb_remove(q, p).hung
    /\ q' = pcb_remove(q, p)
    /\ deleted' = IF Removable(q, p) THEN deleted \cup {p} ELSE deleted
    /\ UNCHANGED <<global_pcb, heap, loading, port, panic>>

suspend_pcb(n) ==
  \E p \in Pcbs :
    /\ UserTarget("suspendPCB", n, p)
    /\ q' = pcb_insert(SetState(q, p, SUSPEND_STATE), p)
    /\ ~q'.hung
    /\ UNCHANGED <<global_pcb, heap, deleted, loading, port, panic>>

resume_pcb(n) ==
  \E p \in Pcbs :
    /\ UserTarget("resumePCB", n, p)
    /\ q' = pcb_insert(SetState(q, p, RESUME_STATE), p)
    /\ ~q'.hung
    /\ UNCHANGED <<global_pcb, heap, deleted, loading, port, panic>>

\* Mutant: the priority is not validated.
ValidPriority_Any(v) == TRUE

ValidPriority(v) == v \in 0 .. 9

\* An invalid priority is reported.  The result of pcb_find is not tested: a
\* NULL is written through.
set_pcb_priority(n, v) ==
  \/ /\ ValidPriority(v)
     /\ Target("setPCBpriority", n, NULL)
     /\ Panic
  \/ \E p \in Pcbs :
       /\ ValidPriority(v)
       /\ Target("setPCBpriority", n, p)
       /\ q' = [q EXCEPT !.priority[p] = v]
       /\ UNCHANGED <<global_pcb, heap, deleted, loading, port, panic>>

\* Reads through the result of pcb_find, whatever it is.
show_pcb(n) == Target("showPCB", n, NULL) /\ Panic
-----------------------------------------------------------------------------
(***************************************************************************)
(* Interrupts of the serial port.                                          *)
(***************************************************************************)
unblock_pcb(s, p) == pcb_insert(SetState(s, p, READY_STATE), p)

serial_interrupt ==
  /\ Up /\ Drv!IrqPending(port)
  /\ port' = Drv!serial_interrupt(port)
  /\ q' = IF Drv!Completes(port) THEN unblock_pcb(q, Head(port.io).proc) ELSE q
  /\ UNCHANGED <<global_pcb, heap, deleted, loading, panic>>

KeyPressed ==
  /\ ~q.hung
  /\ Drv!KeyPressed
  /\ UNCHANGED <<q, global_pcb, heap, deleted, loading>>

\* The Command Handler reads an argument with serial_poll.
serial_poll ==
  /\ ~q.hung /\ global_pcb # NULL /\ q.name[global_pcb] = COMMHAND
  /\ Drv!serial_poll
  /\ UNCHANGED <<q, global_pcb, heap, deleted, loading>>
-----------------------------------------------------------------------------
Next ==
  \/ sys_call_IDLE
  \/ \E r \in Drv!Request : sys_call_READ(r) \/ sys_call_WRITE(r)
  \/ sys_call_EXIT
  \/ load_r3
  \/ \E n \in AlarmNames : alarm(n)
  \/ \E n \in Names : delete_pcb(n) \/ suspend_pcb(n) \/ resume_pcb(n) \/ show_pcb(n)
  \/ \E n \in Names, v \in Priorities : set_pcb_priority(n, v)
  \/ serial_interrupt
  \/ KeyPressed
  \/ serial_poll

Spec == Init /\ [][Next]_vars

\* The machine runs on: a process that yields gets to its next system call,
\* and load_r3 through its iterations.
FairSpec == Spec /\ WF_vars(sys_call_IDLE \/ (loading > 0 /\ load_r3))
-----------------------------------------------------------------------------
\* Types of the kernel's state; priorities stay within the range that
\* pcb_setup and setPCBpriority accept.
TypeOK ==
  /\ q \in Store
  /\ global_pcb \in PcbOrNull
  /\ heap \subseteq Pcbs /\ deleted \subseteq Pcbs
  /\ loading \in 0 .. Len(R3)
  /\ Drv!TypeOK

ReadyWalk == Walk(q, q.head["ready"])
ReadySet == {ReadyWalk[i] : i \in DOMAIN ReadyWalk} \ {NULL}

\* The processes that exist: created, and not deleted by the operator.
Live == heap \ deleted

\* The ready queue is a proper list that holds every process but the running
\* one, each once: no system call and no command loses or repeats a process.
\* (Once kpanic() has run nothing is promised.)
NoLostProcess ==
  ~panic => /\ ReadyWalk[Cardinality(Pcbs)] = NULL
            /\ ReadySet = Live \ {global_pcb}

\* No two processes have the same name, although pcb_setup looks for the name
\* in the queues only and the running process is in none of them: the one way to
\* a second process of a name is an alarm set by a process of that name.
UniqueNames ==
  \A p, r \in Live : q.name[p] = q.name[r] => p = r \/ q.name[p] \in AlarmNames

\* The ready queue as a sequence, when it is a list.
ReadyQueue ==
  [i \in 1 .. Cardinality({j \in DOMAIN ReadyWalk : ReadyWalk[j] # NULL}) |->
     ReadyWalk[i - 1]]

\* While processes only yield, the pointers of pcb.c implement the abstract
\* Scheduler: the order in which processes run is by priority and first come
\* first served among equals, whatever is loaded and deleted meanwhile.
Abstract == INSTANCE Scheduler WITH
  Procs <- Pcbs, None <- NULL,
  ready <- ReadyQueue, running <- global_pcb, rank <- q.priority

ImplementsScheduler == Abstract!Spec

Better(p) == {x \in Live : q.priority[x] < q.priority[p]}

\* A process that at most one process beats in priority runs again and again:
\* the dispatcher puts the yielding process back only after it has chosen the
\* next one, so a single better process cannot keep the processor.
NoStarvation ==
  \A p \in Pcbs :
    (<>[](p \in Live /\ Cardinality(Better(p)) <= 1 /\ ~panic)) => []<>(global_pcb = p)

\* Every pointer to a PCB that the kernel keeps (running process, queues,
\* I/O requests) points to memory that is allocated to a PCB.
NoDanglingPcb ==
  ~panic =>
    /\ global_pcb \in heap \cup {NULL}
    /\ \A k \in DOMAIN q.head : \A i \in 0 .. Cardinality(Pcbs) :
         Walk(q, q.head[k])[i] \in heap \cup {NULL}
    /\ \A i \in DOMAIN port.io : port.io[i].proc \in heap
-----------------------------------------------------------------------------
(***************************************************************************)
(* What comments and messages of the repository say, and the code does not *)
(* do.                                                                     *)
(***************************************************************************)

\* user/commhand.c line 1182: "Display the menu before waiting for a command".
\* Every WRITE of the menu returns: no loop of the kernel runs in a circle.
NeverHangs == ~q.hung
=============================================================================
