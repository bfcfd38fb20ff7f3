---------------------------- MODULE KernelProofs ----------------------------
(***************************************************************************)
(* The kernel, for every number of PCBs, every set of names, programs and  *)
(* commands.                                                               *)
(***************************************************************************)
EXTENDS Kernel, PcbProofs

\* The lemmas about the serial driver.
P == INSTANCE SerialProofs WITH Procs <- Pcbs, fault <- panic
-----------------------------------------------------------------------------
(***************************************************************************)
(* The driver inside the kernel.                                           *)
(***************************************************************************)

\* Every queued request is of a process in H.
IoIn(d, H) == \A i \in 1 .. Len(d.io) : d.io[i].proc \in H

\* The kernel gives the driver what it assumes.
LEMMA DrvAssumption == P!SerialAssumption
  BY KernelAssumption DEF P!SerialAssumption

\* The driver after com_open: nothing is queued, for nobody.
LEMMA DrvOpen == P!DcbInv(Drv!serial_open) /\ \A H : IoIn(Drv!serial_open, H)
<1>1. Drv!serial_open = P!serial_open
  BY DEF Drv!serial_open, P!serial_open
<1>2. P!DcbInv(P!serial_open)
  BY DrvAssumption, P!OpenInv
<1>3. Len(Drv!serial_open.io) = 0
  BY DEF Drv!serial_open
<1>4. \A H : IoIn(Drv!serial_open, H)
  BY <1>3 DEF IoIn
<1> QED  BY <1>1, <1>2, <1>4

\* What the driver's invariant tells of the fields that the kernel looks at.
LEMMA DrvTypes ==
  ASSUME NEW d, P!DcbInv(d)
  PROVE  /\ d.operation \in {"IDLE", "READ", "WRITE"} /\ d.event_flag \in {0, 1}
         /\ d.counter \in Nat /\ d.count \in Nat
         /\ d.io \in Seq(Drv!Request) /\ Len(d.io) <= MaxIocbs
         /\ d.tx \in BOOLEAN /\ d.rx \in BOOLEAN
         /\ d.operation = "WRITE" => d.io # << >>
<1>1. Drv!Request = P!Request
  BY DEF Drv!Request, P!Request
<1> QED  BY <1>1 DEF P!DcbInv, P!Dcb

\* io_scheduler queues a request of a live process and keeps the driver right.
LEMMA DrvScheduler ==
  ASSUME NEW d, P!DcbInv(d), NEW r \in Drv!Request, ~Drv!NoIocb(d, r),
         NEW H, IoIn(d, H), r.proc \in H
  PROVE  P!DcbInv(Drv!io_scheduler(d, r)) /\ IoIn(Drv!io_scheduler(d, r), H)
<1>1. Drv!io_scheduler(d, r) = P!io_scheduler(d, r)
  BY DEF Drv!io_scheduler, P!io_scheduler, Drv!Start, P!Start,
         Drv!serial_write, P!serial_write, Drv!serial_read, P!serial_read,
         Drv!Byte, P!Byte
<1>2. r \in P!Request /\ ~P!NoIocb(d, r)
  BY DEF Drv!Request, P!Request, Drv!NoIocb, P!NoIocb
<1>3. P!DcbInv(P!io_scheduler(d, r))
  BY <1>2, DrvAssumption, P!SchedulerInv
<1>4. IoIn(Drv!io_scheduler(d, r), H)
  <2>0. d \in P!Dcb /\ d.io \in Seq(P!Request)
    BY DEF P!DcbInv, P!Dcb
  <2>1. CASE ~r.valid
    BY <2>1 DEF Drv!io_scheduler
  <2>2. CASE r.valid
    <3> DEFINE e == [d EXCEPT !.io = Append(@, r)]
    <3>1. e.io = Append(d.io, r) /\ e \in P!Dcb
      <4>1. Append(d.io, r) \in Seq(P!Request)
        BY <2>0, <1>2
      <4> QED  BY <4>1, <2>0 DEF P!Dcb
    <3>2. Drv!io_scheduler(d, r) = Drv!Start(e, r)
      BY <2>2 DEF Drv!io_scheduler
    <3> HIDE DEF e
    <3>3. Drv!Start(e, r).io = e.io
      <4>1. r.op \in {"READ", "WRITE"}
        BY DEF Drv!Request
      <4> QED  BY <4>1, <3>1 DEF Drv!Start, Drv!serial_write, Drv!serial_read, P!Dcb
    <3>4. /\ Len(Append(d.io, r)) = Len(d.io) + 1 /\ Len(d.io) \in Nat
          /\ \A i \in 1 .. Len(d.io) : Append(d.io, r)[i] = d.io[i]
          /\ Append(d.io, r)[Len(d.io) + 1] = r
      BY <2>0, <1>2
    <3>5. ASSUME NEW i \in 1 .. Len(d.io) + 1 PROVE Append(d.io, r)[i].proc \in H
      <4>1. CASE i = Len(d.io) + 1
        BY <3>4, <4>1
      <4>2. CASE i # Len(d.io) + 1
        <5>1. i \in 1 .. Len(d.io)
          BY <3>4, <4>2
        <5> QED  BY <5>1, <3>4 DEF IoIn
      <4> QED  BY <4>1, <4>2
    <3> QED  BY <3>1, <3>2, <3>3, <3>4, <3>5 DEF IoIn
  <2> QED  BY <2>1, <2>2
<1> QED  BY <1>1, <1>3, <1>4

\* The interrupt handler keeps the driver right, and a request that completes
\* belongs to a process that was in H when it was made.
LEMMA DrvInterrupt ==
  ASSUME NEW d, P!DcbInv(d), NEW H, IoIn(d, H)
  PROVE  /\ P!DcbInv(Drv!serial_interrupt(d)) /\ IoIn(Drv!serial_interrupt(d), H)
         /\ Drv!Completes(d) => Head(d.io).proc \in H
<1>1. Drv!serial_interrupt(d) = P!serial_interrupt(d)
  BY DEF Drv!serial_interrupt, P!serial_interrupt, Drv!serial_input_interrupt,
         P!serial_input_interrupt, Drv!serial_output_interrupt,
         P!serial_output_interrupt, Drv!SendNext, P!SendNext, Drv!Complete,
         P!Complete, Drv!MoreToWrite, P!MoreToWrite, Drv!STRAY, P!STRAY,
         Drv!Byte, P!Byte
<1>2. P!DcbInv(P!serial_interrupt(d))
  BY DrvAssumption, P!InterruptInv
<1>3. d \in P!Dcb /\ d.io \in Seq(P!Request) /\ (d.operation = "WRITE" => d.io # << >>)
  BY DEF P!DcbInv, P!Dcb
<1>4. Drv!Completes(d) => Head(d.io).proc \in H
  <2> SUFFICES ASSUME Drv!Completes(d) PROVE Head(d.io).proc \in H
    OBVIOUS
  <2>1. d.io # << >>
    BY <1>3 DEF Drv!Completes
  <2>2. 1 \in 1 .. Len(d.io) /\ Head(d.io) = d.io[1]
    BY <1>3, <2>1
  <2> QED  BY <2>2 DEF IoIn
<1>5. \/ Drv!serial_interrupt(d).io = d.io
      \/ d.io # << >> /\ Drv!serial_interrupt(d).io = Tail(d.io)
  <2>1. CASE d.rx
    BY <2>1, <1>3 DEF Drv!serial_interrupt, Drv!serial_input_interrupt, P!Dcb
  <2>2. CASE ~d.rx
    <3>1. CASE d.operation # "WRITE"
      BY <2>2, <3>1 DEF Drv!serial_interrupt, Drv!serial_output_interrupt
    <3>2. CASE d.operation = "WRITE" /\ Drv!MoreToWrite(d)
      <4>1. Drv!serial_interrupt(d) = Drv!SendNext(d)
        BY <2>2, <3>2 DEF Drv!serial_interrupt, Drv!serial_output_interrupt
      <4>2. Drv!SendNext(d).io = d.io
        BY <1>3 DEF Drv!SendNext, P!Dcb
      <4> QED  BY <4>1, <4>2
    <3>3. CASE d.operation = "WRITE" /\ ~Drv!MoreToWrite(d)
      <4>1. Drv!serial_interrupt(d) = Drv!Complete(d)
        BY <2>2, <3>3 DEF Drv!serial_interrupt, Drv!serial_output_interrupt
      <4>2. Drv!Complete(d).io = Tail(d.io)
        BY <1>3 DEF Drv!Complete, P!Dcb
      <4> QED  BY <4>1, <4>2, <3>3, <1>3
    <3> QED  BY <3>1, <3>2, <3>3
  <2> QED  BY <2>1, <2>2
<1>6. IoIn(Drv!serial_interrupt(d), H)
  <2>1. CASE Drv!serial_interrupt(d).io = d.io
    BY <2>1 DEF IoIn
  <2>2. CASE d.io # << >> /\ Drv!serial_interrupt(d).io = Tail(d.io)
    <3>1. /\ Len(Tail(d.io)) = Len(d.io) - 1 /\ Len(d.io) \in Nat
          /\ \A i \in 1 .. Len(d.io) - 1 : Tail(d.io)[i] = d.io[i + 1]
      BY <1>3, <2>2
    <3>2. ASSUME NEW i \in 1 .. Len(d.io) - 1 PROVE Tail(d.io)[i].proc \in H
      <4>1. i + 1 \in 1 .. Len(d.io)
        BY <3>1
      <4> QED  BY <3>1, <4>1 DEF IoIn
    <3> QED  BY <2>2, <3>1, <3>2 DEF IoIn
  <2> QED  BY <1>5, <2>1, <2>2
<1> QED  BY <1>1, <1>2, <1>4, <1>6

\* A key that arrives or is taken changes no request.
LEMMA DrvRx ==
  ASSUME NEW d, P!DcbInv(d), NEW v \in BOOLEAN, NEW H, IoIn(d, H)
  PROVE  P!DcbInv([d EXCEPT !.rx = v]) /\ IoIn([d EXCEPT !.rx = v], H)
<1>1. P!DcbInv([d EXCEPT !.rx = v])
  BY DrvAssumption, P!RxInv
<1>2. [d EXCEPT !.rx = v].io = d.io
  BY DEF P!DcbInv, P!Dcb
<1> QED  BY <1>1, <1>2 DEF IoIn
-----------------------------------------------------------------------------
(***************************************************************************)
(* Types and pointers, whatever processes ask for and commands are typed.  *)
(***************************************************************************)

\* The inductive invariant: pointers to PCBs lead to allocated PCBs, those of
\* PCBs that no list reaches any more too.
PointerInv ==
  /\ heap \subseteq Pcbs
  /\ Closed(q, heap)
  /\ global_pcb \in heap \cup {NULL}
  /\ deleted \subseteq Pcbs
  /\ loading \in 0 .. Len(R3)
  /\ panic \in BOOLEAN
  /\ P!DcbInv(port)
  /\ IoIn(port, heap)

\* What load_r3 loads: at least one process, none with the name of a system process.
LEMMA R3Types ==
  /\ Len(R3) \in Nat /\ Len(R3) >= 1
  /\ \A i \in 1 .. Len(R3) : R3[i].name \in Names \ System /\ R3[i].priority \in 0 .. 9
<1>1. R3 \in Seq([name : Names \ {COMMHAND, IDLE_PROCESS}, priority : 0 .. 9]) /\ R3 # << >>
  BY KernelAssumption
<1>2. Len(R3) \in Nat /\ Len(R3) # 0
  BY <1>1
<1>3. \A i \in 1 .. Len(R3) :
        R3[i] \in [name : Names \ {COMMHAND, IDLE_PROCESS}, priority : 0 .. 9]
  BY <1>1, ElementOfSeq
<1> QED  BY <1>2, <1>3 DEF System

\* The end of a system call keeps the pointers.
LEMMA SwitchClosed ==
  ASSUME PointerInv, NEW s, Closed(s, heap), Switch(s)
  PROVE  Closed(q', heap) /\ global_pcb' \in heap \cup {NULL}
<1> DEFINE next == q.head["ready"]
           s0 == Requeue(s, global_pcb)
           s1 == pcb_remove(s0, next)
<1>0. heap \in SUBSET Pcbs /\ Closed(q, heap) /\ global_pcb \in heap \cup {NULL}
  BY DEF PointerInv
<1>1. next \in heap \cup {NULL}
  BY <1>0 DEF Closed, Queues
<1>2. global_pcb' \in heap \cup {NULL}
  <2>1. global_pcb' = global_pcb \/ global_pcb' = next
    BY Zenon DEF Switch
  <2> HIDE DEF next
  <2> QED  BY <1>0, <1>1, <2>1
<1>3. CASE next = NULL
  BY <1>2, <1>3 DEF Switch, IdleCase
<1>4. CASE next # NULL
  <2>1. next \in heap /\ next \in Pcbs
    BY <1>0, <1>1, <1>4
  <2>2. Closed(s0, heap)
    <3>1. CASE global_pcb = NULL
      BY <3>1 DEF Requeue
    <3>2. CASE global_pcb # NULL
      <4>1. global_pcb \in heap /\ global_pcb \in Pcbs
        BY <1>0, <3>2
      <4>2. Closed(SetState(s, global_pcb, READY_STATE), heap)
        BY <1>0, <4>1, StateTypes, StateClosed
      <4> QED  BY <1>0, <3>2, <4>1, <4>2, InsertClosed DEF Requeue
    <3> QED  BY <3>1, <3>2
  <2>3. Closed(s1, heap)
    BY <1>0, <2>1, <2>2, RemoveClosed
  <2> HIDE DEF s0, s1, next
  <2>4. Closed([s1 EXCEPT !.next[next] = NULL, !.state[next] = READY_STATE], heap)
    BY <2>1, <2>3, StateTypes DEF Closed, Store, Queues, PcbOrNull
  <2>5. q' = IF s1.hung THEN s1
             ELSE [s1 EXCEPT !.next[next] = NULL, !.state[next] = READY_STATE]
    BY <1>4 DEF Switch, IdleCase, Dispatch, s0, s1, next
  <2> QED  BY <1>2, <2>3, <2>4, <2>5
<1> QED  BY <1>2, <1>3, <1>4

\* One pass through the READ case.
LEMMA BlockClosed ==
  ASSUME NEW H \in SUBSET Pcbs, NEW s, Closed(s, H), NEW p \in H
  PROVE  Closed(Block(s, p), H)
<1>1. p \in Pcbs
  OBVIOUS
<1>2. Closed(SetState(s, p, BLOCKED_STATE), H)
  BY <1>1, StateTypes, StateClosed
<1> QED  BY <1>2, InsertClosed DEF Block

\* A new process.
LEMMA CreateInv ==
  ASSUME PointerInv, NEW n \in Names, NEW v \in 0 .. 9, NEW l \in 0 .. Len(R3),
         Create(n, v, l)
  PROVE  PointerInv'
<1> DEFINE p == Min(FreeBlocks)
           s == pcb_insert(Prepare(q, p, n, v), p)
<1>1. CASE Panic
  BY <1>1 DEF Panic, PointerInv
<1>2. CASE /\ FreeBlocks # {} /\ q' = s /\ heap' = heap \cup {p} /\ loading' = l
           /\ UNCHANGED <<global_pcb, deleted, port, panic>>
  <2>1. p \in Pcbs
    <3>1. FreeBlocks \in SUBSET Nat /\ FreeBlocks \subseteq Pcbs
      BY KernelAssumption DEF FreeBlocks
    <3> QED  BY <1>2, <3>1, FirstStop
  <2>2. heap \in SUBSET Pcbs /\ Closed(q, heap) /\ heap \cup {p} \in SUBSET Pcbs
    BY <2>1 DEF PointerInv
  <2> HIDE DEF p
  <2>3. Closed(Prepare(q, p, n, v), heap \cup {p})
    BY <2>1, <2>2, PrepareClosed
  <2>4. Closed(s, heap \cup {p})
    BY <2>2, <2>3, InsertClosed
  <2>5. IoIn(port, heap \cup {p})
    BY DEF PointerInv, IoIn
  <2> HIDE DEF s
  <2> QED  BY <1>2, <2>2, <2>4, <2>5 DEF PointerInv
<1> QED  BY <1>1, <1>2 DEF Create

\* Init establishes the invariant.
LEMMA PointerInit == Init => PointerInv
<1> SUFFICES ASSUME Init PROVE PointerInv
  OBVIOUS
<1> DEFINE a == Prepare(NoPcbs, 1, COMMHAND, 1)
           b == pcb_insert(a, 1)
           c == Prepare(b, 2, IDLE_PROCESS, 9)
<1>1. /\ 1 \in Pcbs /\ 2 \in Pcbs /\ COMMHAND \in Names /\ IDLE_PROCESS \in Names
      /\ {} \in SUBSET Pcbs /\ {1} \in SUBSET Pcbs /\ {1, 2} \in SUBSET Pcbs
      /\ {} \cup {1} = {1} /\ {1} \cup {2} = {1, 2}
      /\ 1 \in 0 .. 9 /\ 9 \in 0 .. 9
  BY KernelAssumption
<1>2. Closed(NoPcbs, {})
  BY StateTypes DEF NoPcbs, Closed, Store, Queues, PcbOrNull
<1>3. Closed(a, {1})
  <2>1. Closed(a, {} \cup {1})
    BY <1>1, <1>2, PrepareClosed
  <2> HIDE DEF a
  <2> QED  BY <1>1, <2>1
<1>4. Closed(b, {1})
  BY <1>1, <1>3, InsertClosed
<1> HIDE DEF a, b
<1>5. Closed(c, {1, 2})
  <2>1. Closed(c, {1} \cup {2})
    BY <1>1, <1>4, PrepareClosed
  <2> HIDE DEF c
  <2> QED  BY <1>1, <2>1
<1> HIDE DEF c
<1>6. Closed(pcb_insert(c, 2), {1, 2})
  BY <1>1, <1>5, InsertClosed
<1>7. Closed(q, heap)
  BY <1>6 DEF Init, a, b, c
<1>8. 0 \in 0 .. Len(R3)
  BY R3Types
<1>9. P!DcbInv(port) /\ IoIn(port, heap)
  BY DrvOpen DEF Init
<1> QED  BY <1>1, <1>7, <1>8, <1>9 DEF Init, PointerInv

\* Every step keeps the invariant.
LEMMA PointerStep == PointerInv /\ [Next]_vars => PointerInv'
<1> SUFFICES ASSUME PointerInv, [Next]_vars PROVE PointerInv'
  OBVIOUS
<1>0. /\ heap \in SUBSET Pcbs /\ Closed(q, heap) /\ global_pcb \in heap \cup {NULL}
      /\ P!DcbInv(port) /\ IoIn(port, heap)
  BY DEF PointerInv
<1>P. ASSUME Panic PROVE PointerInv'
  BY <1>P DEF Panic, PointerInv
<1>1. CASE sys_call_IDLE
  <2>1. Closed(q', heap) /\ global_pcb' \in heap \cup {NULL}
    BY <1>0, <1>1, SwitchClosed DEF sys_call_IDLE
  <2> QED  BY <1>1, <2>1 DEF sys_call_IDLE, PointerInv
<1>2. ASSUME NEW r \in Drv!Request, sys_call_READ(r) PROVE PointerInv'
  <2>1. CASE Drv!NoIocb(port, r)
    BY <1>2, <1>P, <2>1 DEF sys_call_READ
  <2>2. CASE ~Drv!NoIocb(port, r)
    <3>1. /\ port' = Drv!io_scheduler(port, r) /\ Switch(Block(q, global_pcb))
          /\ UNCHANGED <<heap, deleted, loading, panic>>
          /\ r.proc = global_pcb
      BY <1>2, <2>2 DEF sys_call_READ
    <3>2. global_pcb \in heap
      <4>1. r.proc \in Pcbs
        BY DEF Drv!Request
      <4> QED  BY <1>0, <3>1, <4>1, PcbAssumption
    <3>3. Closed(Block(q, global_pcb), heap)
      BY <1>0, <3>2, BlockClosed
    <3>4. Closed(q', heap) /\ global_pcb' \in heap \cup {NULL}
      BY <3>1, <3>3, SwitchClosed
    <3>5. P!DcbInv(port') /\ IoIn(port', heap)
      BY <1>0, <2>2, <3>1, <3>2, DrvScheduler
    <3> QED  BY <3>1, <3>4, <3>5 DEF PointerInv
  <2> QED  BY <2>1, <2>2
<1>3. ASSUME NEW r \in Drv!Request, sys_call_WRITE(r) PROVE PointerInv'
  <2> DEFINE once == Block(q, global_pcb)
             d == Drv!io_scheduler(port, r)
  <2>1. CASE Drv!NoIocb(port, r) \/ (~once.hung /\ Drv!NoIocb(d, r))
    BY <1>3, <1>P, <2>1 DEF sys_call_WRITE
  <2>2. CASE ~(Drv!NoIocb(port, r) \/ (~once.hung /\ Drv!NoIocb(d, r)))
    <3>1. /\ port' = IF once.hung THEN d ELSE Drv!SysCallIo(port, r)
          /\ Switch(Block(once, global_pcb))
          /\ UNCHANGED <<heap, deleted, loading, panic>>
          /\ r.proc = global_pcb /\ r.op = "WRITE"
      BY <1>3, <2>2 DEF sys_call_WRITE
    <3>2. global_pcb \in heap
      <4>1. r.proc \in Pcbs
        BY DEF Drv!Request
      <4> QED  BY <1>0, <3>1, <4>1, PcbAssumption
    <3>3. Closed(once, heap)
      BY <1>0, <3>2, BlockClosed
    <3>4. Closed(Block(once, global_pcb), heap)
      BY <1>0, <3>2, <3>3, BlockClosed
    <3>5. Closed(q', heap) /\ global_pcb' \in heap \cup {NULL}
      BY <3>1, <3>4, SwitchClosed
    <3>6. P!DcbInv(d) /\ IoIn(d, heap)
      BY <1>0, <2>2, <3>1, <3>2, DrvScheduler
    <3> HIDE DEF once, d
    <3>7. ~once.hung => /\ P!DcbInv(Drv!io_scheduler(d, r))
                        /\ IoIn(Drv!io_scheduler(d, r), heap)
      BY <2>2, <3>1, <3>2, <3>6, DrvScheduler
    <3>8. Drv!SysCallIo(port, r) = Drv!io_scheduler(d, r)
      BY <3>1 DEF Drv!SysCallIo, d
    <3>9. P!DcbInv(port') /\ IoIn(port', heap)
      BY <3>1, <3>6, <3>7, <3>8
    <3> QED  BY <3>1, <3>5, <3>9 DEF PointerInv
  <2> QED  BY <2>1, <2>2
<1>4. CASE sys_call_EXIT
  <2> DEFINE s == pcb_remove(q, global_pcb)
  <2>0. global_pcb # NULL /\ global_pcb \in Pcbs
    BY <1>0, <1>4 DEF sys_call_EXIT
  <2>1. pcb_free_faults(heap, global_pcb)
    BY DEF pcb_free_faults
  <2>2. \/ q' = s /\ UNCHANGED <<global_pcb, heap, deleted, loading, port, panic>>
        \/ Panic
    BY <1>4, <2>1 DEF sys_call_EXIT
  <2>3. Closed(s, heap)
    BY <1>0, <2>0, RemoveClosed
  <2> HIDE DEF s
  <2> QED  BY <1>P, <2>2, <2>3 DEF PointerInv
<1>5. CASE load_r3
  <2> DEFINE i == IF loading = 0 THEN 1 ELSE loading
             l == IF i = Len(R3) THEN 0 ELSE i + 1
  <2>1. loading \in 0 .. Len(R3)
    BY DEF PointerInv
  <2>2. i \in 1 .. Len(R3)
    BY <2>1, R3Types
  <2>3. l \in 0 .. Len(R3)
    <3> HIDE DEF i
    <3> QED  BY <2>2, R3Types
  <2>4. Create(R3[i].name, R3[i].priority, l)
    BY <1>5 DEF load_r3
  <2> HIDE DEF i, l
  <2>5. R3[i].name \in Names /\ R3[i].priority \in 0 .. 9
    BY <2>2, R3Types
  <2> QED  BY <2>3, <2>4, <2>5, CreateInv
<1>6. ASSUME NEW n \in AlarmNames, alarm(n) PROVE PointerInv'
  <2>1. n \in Names /\ 1 \in 0 .. 9 /\ 0 \in 0 .. Len(R3)
    BY KernelAssumption, R3Types
  <2> QED  BY <1>6, <2>1, CreateInv DEF alarm
<1>7. ASSUME NEW n \in Names, delete_pcb(n) PROVE PointerInv'
  <2>1. PICK p \in Pcbs :
          /\ q' = pcb_remove(q, p)
          /\ deleted' = IF Removable(q, p) THEN deleted \cup {p} ELSE deleted
          /\ UNCHANGED <<global_pcb, heap, loading, port, panic>>
    BY <1>7 DEF delete_pcb
  <2>2. Closed(q', heap)
    BY <1>0, <2>1, RemoveClosed
  <2>3. deleted' \subseteq Pcbs
    BY <2>1 DEF PointerInv
  <2> QED  BY <2>1, <2>2, <2>3 DEF PointerInv
<1>8. ASSUME NEW n \in Names, suspend_pcb(n) \/ resume_pcb(n) PROVE PointerInv'
  <2>1. PICK p \in Pcbs, v \in {SUSPEND_STATE, RESUME_STATE} :
          /\ p \in pcb_find(q, n) /\ p # NULL
          /\ q' = pcb_insert(SetState(q, p, v), p)
          /\ UNCHANGED <<global_pcb, heap, deleted, loading, port, panic>>
    BY <1>8 DEF suspend_pcb, resume_pcb, UserTarget, Target
  <2>2. p \in heap
    BY <1>0, <2>1, FindClosed
  <2>3. Closed(SetState(q, p, v), heap)
    BY <1>0, StateTypes, StateClosed
  <2>4. Closed(q', heap)
    BY <1>0, <2>1, <2>2, <2>3, InsertClosed
  <2> QED  BY <2>1, <2>4 DEF PointerInv
<1>9. ASSUME NEW n \in Names, show_pcb(n) PROVE PointerInv'
  BY <1>9, <1>P DEF show_pcb
<1>10. ASSUME NEW n \in Names, NEW v \in Priorities, set_pcb_priority(n, v) PROVE PointerInv'
  <2>1. CASE Panic
    BY <1>P, <2>1
  <2>2. CASE \E p \in Pcbs : /\ ValidPriority(v) /\ q' = [q EXCEPT !.priority[p] = v]
                            /\ UNCHANGED <<global_pcb, heap, deleted, loading, port, panic>>
    <3>1. PICK p \in Pcbs : /\ q' = [q EXCEPT !.priority[p] = v]
                            /\ UNCHANGED <<global_pcb, heap, deleted, loading, port, panic>>
      BY <2>2
    <3>2. v \in -1 .. 9
      BY <2>2 DEF ValidPriority
    <3>3. Closed(q', heap)
      BY <1>0, <3>1, <3>2 DEF Closed, Store, Queues
    <3> QED  BY <3>1, <3>3 DEF PointerInv
  <2> QED  BY <1>10, <2>1, <2>2 DEF set_pcb_priority
<1>11. CASE serial_interrupt
  <2>1. /\ P!DcbInv(port') /\ IoIn(port', heap)
        /\ Drv!Completes(port) => Head(port.io).proc \in heap
    BY <1>0, <1>11, DrvInterrupt DEF serial_interrupt
  <2>2. CASE ~Drv!Completes(port)
    BY <1>11, <2>1, <2>2 DEF serial_interrupt, PointerInv
  <2>3. CASE Drv!Completes(port)
    <3> DEFINE p == Head(port.io).proc
    <3>1. p \in heap /\ p \in Pcbs
      BY <1>0, <2>1, <2>3
    <3>2. q' = pcb_insert(SetState(q, p, READY_STATE), p)
      BY <1>11, <2>3 DEF serial_interrupt, unblock_pcb
    <3> HIDE DEF p
    <3>3. Closed(SetState(q, p, READY_STATE), heap)
      BY <1>0, <3>1, StateTypes, StateClosed
    <3>4. Closed(q', heap)
      BY <1>0, <3>1, <3>2, <3>3, InsertClosed
    <3> QED  BY <1>11, <2>1, <3>4 DEF serial_interrupt, PointerInv
  <2> QED  BY <2>2, <2>3
<1>12. CASE KeyPressed \/ serial_poll
  <2>1. PICK v \in BOOLEAN :
          /\ port' = [port EXCEPT !.rx = v]
          /\ UNCHANGED <<q, global_pcb, heap, deleted, loading, panic>>
    BY <1>12 DEF KeyPressed, serial_poll, Drv!KeyPressed, Drv!serial_poll
  <2>2. P!DcbInv(port') /\ IoIn(port', heap)
    BY <1>0, <2>1, DrvRx
  <2> QED  BY <2>1, <2>2 DEF PointerInv
<1>13. CASE UNCHANGED vars
  BY <1>13 DEF vars, PointerInv
<1> QED
  BY <1>1, <1>2, <1>3, <1>4, <1>5, <1>6, <1>7, <1>8, <1>9, <1>10, <1>11, <1>12, <1>13
  DEF Next

\* The inductive invariant holds throughout.
THEOREM KernelPointers == Spec => []PointerInv
  BY PointerInit, PointerStep, PTL DEF Spec

\* The kernel's state keeps its types, and priorities their range, for any
\* programs and any commands.
THEOREM KernelTypes == Spec => []TypeOK
<1>1. PointerInv => TypeOK
  <2> SUFFICES ASSUME PointerInv PROVE TypeOK
    OBVIOUS
  <2>1. Drv!TypeOK
    BY DrvTypes DEF Drv!TypeOK, PointerInv
  <2> QED  BY <2>1 DEF PointerInv, TypeOK, Closed, PcbOrNull
<1> QED  BY <1>1, KernelPointers, PTL

\* No pointer to a PCB that the kernel keeps is left dangling by any system call,
\* command or interrupt, even after a queue has become a circle.
THEOREM KernelNoDangling == Spec => []NoDanglingPcb
<1>1. PointerInv => NoDanglingPcb
  <2> SUFFICES ASSUME PointerInv PROVE NoDanglingPcb
    OBVIOUS
  <2>1. heap \in SUBSET Pcbs /\ Closed(q, heap) /\ q.head \in [Queues -> PcbOrNull]
    BY StoreFields DEF PointerInv, Closed
  <2>2. ASSUME NEW k \in DOMAIN q.head, NEW i \in 0 .. Cardinality(Pcbs)
        PROVE  Walk(q, q.head[k])[i] \in heap \cup {NULL}
    <3>1. k \in Queues
      BY <2>1
    <3>2. Walk(q, q.head[k]) \in [0 .. Cardinality(Pcbs) -> heap \cup {NULL}]
      BY <2>1, <3>1, WalkClosed DEF N
    <3> QED  BY <3>2
  <2>3. ASSUME NEW i \in DOMAIN port.io PROVE port.io[i].proc \in heap
    <3>1. port.io \in Seq(Drv!Request)
      BY DrvTypes DEF PointerInv
    <3>2. DOMAIN port.io = 1 .. Len(port.io)
      BY <3>1
    <3> QED  BY <3>2 DEF PointerInv, IoIn
  <2> QED  BY <2>2, <2>3 DEF NoDanglingPcb, PointerInv
<1> QED  BY <1>1, KernelPointers, PTL
-----------------------------------------------------------------------------
(***************************************************************************)
(* Dispatching, while processes only yield or exit and nobody suspends or  *)
(* resumes a process.                                                      *)
(***************************************************************************)
Yielding ==
  /\ \A n \in Names : Calls[n] \subseteq {"IDLE", "EXIT"}
  /\ Commands \subseteq {"alarm", "loadR3", "deletePCB", "showPCB", "setPCBpriority"}

\* The ready queue is the list s, and holds every process but the running one.
ReadyList(s) ==
  List(q, q.head["ready"], s) /\ Elems(s) = Live \ {global_pcb}

\* Nothing else moves: no loop hangs, no process is suspended or blocked, no
\* output is under way, and names are unique.
Calm ==
  /\ ~q.hung /\ q.head["suspended"] = NULL
  /\ deleted \subseteq heap
  /\ global_pcb \in Live \cup {NULL}
  /\ \A p \in heap : q.state[p] = READY_STATE /\ q.name[p] \in Names
  /\ port.operation = "IDLE" /\ ~port.tx
  /\ UniqueNames

\* The inductive invariant of dispatching.
YieldInv == PointerInv /\ Calm /\ \E s : ReadyList(s)

\* The end of sys_call takes the m-th PCB off the ready queue.
LEMMA DispatchList ==
  ASSUME NEW a \in Store, NEW u, NEW m \in 1 .. Len(u), ~a.hung,
         a.state[u[m]] = READY_STATE, List(a, a.head["ready"], u)
  PROVE  LET r == Dispatch(a, u[m])
         IN  /\ r \in Store /\ ~r.hung
             /\ r.state = a.state /\ r.priority = a.priority /\ r.name = a.name
             /\ r.head["suspended"] = a.head["suspended"]
             /\ List(r, r.head["ready"], Drop(u, m))
<1> DEFINE p == u[m]
           b == pcb_remove(a, p)
           r == [b EXCEPT !.next[p] = NULL, !.state[p] = READY_STATE]
<1>0. u \in Seq(Pcbs) /\ p \in Pcbs /\ \A i, j \in 1 .. Len(u) : u[i] = u[j] => i = j
  BY DEF List
<1>1. /\ b \in Store /\ ~b.hung
      /\ b.state = a.state /\ b.priority = a.priority /\ b.name = a.name
      /\ b.head["suspended"] = a.head["suspended"]
      /\ List(b, b.head["ready"], Drop(u, m))
  BY ReadyRemove
<1>2. Dispatch(a, p) = r
  BY <1>1 DEF Dispatch
<1>3. p \notin Elems(Drop(u, m))
  BY <1>0, DropSeq
<1> HIDE DEF b
<1>4. /\ r \in Store /\ r.hung = b.hung /\ r.priority = b.priority /\ r.name = b.name
      /\ r.head = b.head
      /\ r.next = [b.next EXCEPT ![p] = NULL]
      /\ r.state = [b.state EXCEPT ![p] = READY_STATE]
  BY <1>0, <1>1, StateTypes DEF Store, PcbOrNull
<1>5. r.state = a.state
  <2>1. a.state \in [Pcbs -> -1 .. 3] /\ a.state[p] = READY_STATE
    BY StoreFields
  <2> QED  BY <2>1, <1>0, <1>1, <1>4
<1>6. \A x \in Elems(Drop(u, m)) : r.next[x] = b.next[x]
  <2>1. Elems(Drop(u, m)) \subseteq Pcbs
    <3>1. Elems(u) \subseteq Pcbs
      BY <1>0 DEF Elems
    <3> QED  BY <1>0, <3>1, DropSeq
  <2>2. b.next \in [Pcbs -> PcbOrNull]
    BY <1>1, StoreFields
  <2> QED  BY <2>1, <2>2, <1>3, <1>4
<1> HIDE DEF r, p
<1>7. List(r, r.head["ready"], Drop(u, m))
  BY <1>1, <1>4, <1>6, SameList
<1> QED  BY <1>1, <1>2, <1>4, <1>5, <1>7 DEF p

\* What a yield does to the ready queue s.
Yields(s, t) ==
  \/ global_pcb = NULL /\ t = Drop(s, 1)
  \/ /\ global_pcb # NULL
     /\ \E i \in 0 .. Len(s) - 1 :
          /\ t = Put(Drop(s, 1), i, global_pcb)
          /\ Sorted(q.priority, s) => Place(q.priority, Drop(s, 1), i, global_pcb)

\* The yielding process, put into the queue, and the old head, taken out.
LEMMA RequeueList ==
  ASSUME YieldInv, NEW s, ReadyList(s), Len(s) >= 1
  PROVE  LET a == Requeue(q, global_pcb)
         IN  /\ a \in Store /\ ~a.hung
             /\ a.state = q.state /\ a.priority = q.priority /\ a.name = q.name
             /\ a.head["suspended"] = q.head["suspended"]
             /\ \E u : /\ List(a, a.head["ready"], u)
                      /\ \E m \in 1 .. Len(u) : u[m] = s[1] /\ Yields(s, Drop(u, m))
<1> DEFINE a == Requeue(q, global_pcb)
           p == global_pcb
<1>0. /\ q \in Store /\ ~q.hung /\ List(q, q.head["ready"], s) /\ Elems(s) = Live \ {p}
      /\ s \in Seq(Pcbs) /\ Len(s) \in Nat
  BY DEF YieldInv, PointerInv, Closed, Calm, ReadyList, List
<1>1. CASE p = NULL
  <2>1. a = q
    BY <1>1 DEF Requeue
  <2>2. 1 \in 1 .. Len(s) /\ s[1] = s[1] /\ Yields(s, Drop(s, 1))
    BY <1>0, <1>1 DEF Yields
  <2> QED  BY <1>0, <2>1, <2>2
<1>2. CASE p # NULL
  <2>1. p \in Pcbs /\ p \notin Elems(s) /\ q.state[p] = READY_STATE
    BY <1>0, <1>2 DEF YieldInv, PointerInv, Calm, Live
  <2>2. SetState(q, p, READY_STATE) = q
    <3>1. q.state = [q.state EXCEPT ![p] = READY_STATE]
      BY <1>0, <2>1, StoreFields
    <3>2. q = [q EXCEPT !.state = q.state]
      BY <1>0 DEF Store
    <3> QED  BY <1>0, <3>1, <3>2 DEF SetState
  <2>3. a = pcb_insert(q, p)
    BY <1>2, <2>2 DEF Requeue
  <2>4. /\ a \in Store /\ ~a.hung
        /\ a.state = q.state /\ a.priority = q.priority /\ a.name = q.name
        /\ a.head["suspended"] = q.head["suspended"]
        /\ \E i \in 0 .. Len(s) :
             /\ List(a, a.head["ready"], Put(s, i, p))
             /\ \A j \in 1 .. i : q.priority[s[j]] <= q.priority[p]
             /\ i < Len(s) => q.priority[p] < q.priority[s[i + 1]]
    BY <1>0, <2>1, <2>3, ReadyInsert
  <2>5. PICK i \in 0 .. Len(s) :
             /\ List(a, a.head["ready"], Put(s, i, p))
             /\ \A j \in 1 .. i : q.priority[s[j]] <= q.priority[p]
             /\ i < Len(s) => q.priority[p] < q.priority[s[i + 1]]
    BY <2>4
  <2> DEFINE m == IF i = 0 THEN 2 ELSE 1
             l == IF i = 0 THEN 0 ELSE i - 1
             u == Put(s, i, p)
             d == Drop(s, 1)
  <2>6. m \in 1 .. Len(u) /\ u[m] = s[1]
    <3>1. Len(u) = Len(s) + 1
      BY <1>0, <2>1, PutSeq
    <3>2. u = [j \in 1 .. Len(s) + 1 |-> IF j <= i THEN s[j] ELSE IF j = i + 1 THEN p ELSE s[j - 1]]
      BY DEF Put
    <3> HIDE DEF u
    <3> QED  BY <1>0, <3>1, <3>2
  <2>7. l \in 0 .. Len(s) - 1 /\ Drop(u, m) = Put(d, l, p)
    <3>1. CASE i = 0
      BY <1>0, <2>1, <3>1, PutDrop
    <3>2. CASE i # 0
      <4>1. i \in 1 .. Len(s)
        BY <1>0, <3>2
      <4>2. Drop(Put(s, i, p), 1) = Put(Drop(s, 1), i - 1, p)
        BY <1>0, <2>1, <4>1, PutDrop
      <4>3. i - 1 \in 0 .. Len(s) - 1
        BY <1>0, <4>1
      <4> QED  BY <3>2, <4>2, <4>3
    <3> QED  BY <3>1, <3>2
  <2>8. ASSUME Sorted(q.priority, s) PROVE Place(q.priority, d, l, p)
    <3>1. q.priority \in [Pcbs -> Int]
      BY <1>0, StoreFields
    <3>2. Place(q.priority, s, i, p)
      BY <1>0, <2>1, <2>5, <2>8, <3>1, PlaceFound
    <3>3. Len(d) = Len(s) - 1 /\ \A j \in 1 .. Len(s) - 1 : d[j] = s[j + 1]
      <4>1. d = [j \in 1 .. Len(s) - 1 |-> s[j + 1]]
        BY <1>0 DEF Drop
      <4>2. d \in [1 .. Len(s) - 1 -> Pcbs] /\ Len(s) - 1 \in Nat
        BY <1>0, <4>1
      <4> QED  BY <4>1, <4>2, FcnIsSeq
    <3> HIDE DEF d
    <3>4. ASSUME NEW j \in 1 .. l PROVE q.priority[d[j]] <= q.priority[p]
      <4>1. j + 1 \in 1 .. i /\ j \in 1 .. Len(s) - 1
        BY <1>0
      <4> QED  BY <4>1, <3>2, <3>3 DEF Place
    <3>5. ASSUME NEW j \in l + 1 .. Len(d) PROVE q.priority[p] < q.priority[d[j]]
      <4>1. j + 1 \in i + 1 .. Len(s) /\ j \in 1 .. Len(s) - 1
        BY <1>0, <3>3
      <4> QED  BY <4>1, <3>2, <3>3 DEF Place
    <3> QED  BY <3>4, <3>5 DEF Place
  <2> HIDE DEF m, l, d, u
  <2>9. Yields(s, Drop(u, m))
    BY <1>2, <2>7, <2>8 DEF Yields, d
  <2>10. List(a, a.head["ready"], u)
    BY <2>5 DEF u
  <2> HIDE DEF a
  <2>11. \E v : /\ List(a, a.head["ready"], v)
               /\ \E n \in 1 .. Len(v) : v[n] = s[1] /\ Yields(s, Drop(v, n))
    BY <2>6, <2>9, <2>10
  <2> QED  BY <2>4, <2>11 DEF a
<1> QED  BY <1>1, <1>2

\* The IDLE case.
LEMMA SwitchList ==
  ASSUME YieldInv, NEW s, ReadyList(s), Switch(q)
  PROVE  \/ s = << >> /\ q' = q /\ global_pcb' = global_pcb
         \/ /\ Len(s) >= 1 /\ global_pcb' = s[1]
            /\ q' \in Store /\ ~q'.hung
            /\ q'.state = q.state /\ q'.priority = q.priority /\ q'.name = q.name
            /\ q'.head["suspended"] = q.head["suspended"]
            /\ \E t : List(q', q'.head["ready"], t) /\ Yields(s, t)
<1>0. /\ q \in Store /\ List(q, q.head["ready"], s) /\ Elems(s) = Live \ {global_pcb}
      /\ s \in Seq(Pcbs) /\ Len(s) \in Nat /\ q.head["ready"] = At(s, 1)
      /\ \A p \in heap : q.state[p] = READY_STATE
  BY DEF YieldInv, PointerInv, Closed, Calm, ReadyList, List
<1>1. CASE Len(s) = 0
  <2>1. s = << >> /\ q.head["ready"] = NULL
    BY <1>0, <1>1 DEF At
  <2> QED  BY <2>1 DEF Switch, IdleCase
<1>2. CASE Len(s) >= 1
  <2> DEFINE a == Requeue(q, global_pcb)
  <2>1. q.head["ready"] = s[1] /\ s[1] # NULL /\ s[1] \in heap
    <3>1. 1 \in 1 .. Len(s) /\ s[1] \in Pcbs /\ s[1] \in Elems(s)
      BY <1>0, <1>2 DEF Elems
    <3> QED  BY <1>0, <3>1, PcbAssumption DEF At, Live
  <2>2. /\ q' = Dispatch(a, s[1])
        /\ global_pcb' = IF Dispatch(a, s[1]).hung THEN global_pcb ELSE s[1]
    BY <2>1 DEF Switch, IdleCase
  <2>3. /\ a \in Store /\ ~a.hung
        /\ a.state = q.state /\ a.priority = q.priority /\ a.name = q.name
        /\ a.head["suspended"] = q.head["suspended"]
        /\ \E u : /\ List(a, a.head["ready"], u)
                 /\ \E m \in 1 .. Len(u) : u[m] = s[1] /\ Yields(s, Drop(u, m))
    BY <1>2, RequeueList
  <2> HIDE DEF a
  <2>4. PICK u : /\ List(a, a.head["ready"], u)
                 /\ \E m \in 1 .. Len(u) : u[m] = s[1] /\ Yields(s, Drop(u, m))
    BY <2>3
  <2>5. PICK m \in 1 .. Len(u) : u[m] = s[1] /\ Yields(s, Drop(u, m))
    BY <2>4
  <2>6. a.state[u[m]] = READY_STATE
    BY <1>0, <2>1, <2>3, <2>5
  <2> DEFINE r == Dispatch(a, u[m])
  <2>7. /\ r \in Store /\ ~r.hung
        /\ r.state = a.state /\ r.priority = a.priority /\ r.name = a.name
        /\ r.head["suspended"] = a.head["suspended"]
        /\ List(r, r.head["ready"], Drop(u, m))
    BY <2>3, <2>4, <2>6, DispatchList
  <2>8. q' = r /\ global_pcb' = IF r.hung THEN global_pcb ELSE s[1]
    BY <2>2, <2>5
  <2> HIDE DEF r
  <2>9. global_pcb' = s[1]
    BY <2>7, <2>8
  <2> QED  BY <1>2, <2>3, <2>5, <2>7, <2>8, <2>9
<1> QED  BY <1>0, <1>1, <1>2

\* A new process.
LEMMA CreateList ==
  ASSUME YieldInv, NEW s, ReadyList(s), NEW n \in Names, NEW v \in 0 .. 9,
         FreeBlocks # {}, NameFree(n)
  PROVE  LET p == Min(FreeBlocks)
             r == pcb_insert(Prepare(q, p, n, v), p)
         IN  /\ p \in Pcbs \ heap
             /\ r \in Store /\ ~r.hung
             /\ r.state = [q.state EXCEPT ![p] = READY_STATE]
             /\ r.name = [q.name EXCEPT ![p] = n]
             /\ r.priority = [q.priority EXCEPT ![p] = v]
             /\ r.head["suspended"] = q.head["suspended"]
             /\ \A i \in 1 .. Len(s) : q.name[s[i]] # n
             /\ \E i \in 0 .. Len(s) :
                  /\ List(r, r.head["ready"], Put(s, i, p))
                  /\ Sorted(q.priority, s) => Place(r.priority, s, i, p)
<1> DEFINE p == Min(FreeBlocks)
           r == pcb_insert(Prepare(q, p, n, v), p)
<1>0. /\ q \in Store /\ ~q.hung /\ List(q, q.head["ready"], s)
      /\ Elems(s) = Live \ {global_pcb}
      /\ s \in Seq(Pcbs) /\ Len(s) \in Nat
      /\ \A i \in 1 .. Len(s) : s[i] \in Elems(s) /\ s[i] \in Pcbs
  <2>1. q \in Store /\ ~q.hung
    BY DEF YieldInv, PointerInv, Closed, Calm
  <2>2. List(q, q.head["ready"], s) /\ Elems(s) = Live \ {global_pcb}
    BY DEF ReadyList
  <2>3. s \in Seq(Pcbs) /\ Len(s) \in Nat
    BY <2>2 DEF List
  <2>4. \A i \in 1 .. Len(s) : s[i] \in Elems(s) /\ s[i] \in Pcbs
    BY <2>3 DEF Elems
  <2> QED  BY <2>1, <2>2, <2>3, <2>4
<1>1. p \in Pcbs \ heap
  <2>1. FreeBlocks \in SUBSET Nat /\ FreeBlocks = Pcbs \ heap
    BY KernelAssumption DEF FreeBlocks
  <2> QED  BY <2>1, FirstStop
<1>2. p \notin Elems(s)
  BY <1>0, <1>1 DEF Live
<1> HIDE DEF p
<1>3. /\ r \in Store /\ ~r.hung
      /\ r.state = [q.state EXCEPT ![p] = READY_STATE]
      /\ r.name = [q.name EXCEPT ![p] = n]
      /\ r.priority = [q.priority EXCEPT ![p] = v]
      /\ r.head["suspended"] = q.head["suspended"]
      /\ \E i \in 0 .. Len(s) :
           /\ List(r, r.head["ready"], Put(s, i, p))
           /\ Sorted(q.priority, s) => Place(r.priority, s, i, p)
  BY <1>0, <1>1, <1>2, SetUpList
<1> HIDE DEF r
<1>4. ASSUME NEW j \in 1 .. Len(s) PROVE q.name[s[j]] # n
  <2>1. "ready" \in Queues /\ s[j] # NULL
    BY <1>0, PcbAssumption DEF Queues
  <2>2. Search(q, "ready", n) = {NULL}
    BY DEF NameFree, pcb_find
  <2>3. \A i1 \in 1 .. Len(s) : s[i1] # NULL
    BY <1>0, PcbAssumption
  <2>4. \/ \A i1 \in 1 .. Len(s) : q.name[s[i1]] # n
        \/ \E i1 \in 1 .. Len(s) : Search(q, "ready", n) = {s[i1]}
    BY <1>0, <2>1, SearchList
  <2>5. \A x : {x} = {NULL} => x = NULL
    OBVIOUS
  <2> QED  BY <2>2, <2>3, <2>4, <2>5
<1> QED  BY <1>1, <1>3, <1>4 DEF r, p

\* What a step does to the ready queue s and the priorities.
Moves(s, t) ==
  \/ t = s /\ global_pcb' = global_pcb /\ q'.priority = q.priority
  \/ /\ Len(s) >= 1 /\ global_pcb' = s[1] /\ q'.priority = q.priority
     /\ Yields(s, t)
  \/ \E p \in Pcbs \ heap, i \in 0 .. Len(s) :
       /\ global_pcb' = global_pcb
       /\ \A x \in Pcbs \ {p} : q'.priority[x] = q.priority[x]
       /\ t = Put(s, i, p)
       /\ Sorted(q.priority, s) => Place(q'.priority, s, i, p)
  \/ \E i \in 1 .. Len(s) :
       t = Drop(s, i) /\ global_pcb' = global_pcb /\ q'.priority = q.priority
  \/ "setPCBpriority" \in Commands /\ t = s

\* A yield.
LEMMA YieldMoves ==
  ASSUME YieldInv, NEW s, ReadyList(s), sys_call_IDLE
  PROVE  Calm' /\ \E t : ReadyList(t)' /\ Moves(s, t)
<1>0. /\ Calm /\ heap \subseteq Pcbs /\ List(q, q.head["ready"], s)
      /\ Elems(s) = Live \ {global_pcb}
      /\ s \in Seq(Pcbs) /\ \A a, b \in 1 .. Len(s) : s[a] = s[b] => a = b
      /\ \A a \in 1 .. Len(s) : s[a] \in Pcbs
      /\ Len(s) \in Nat
  BY DEF YieldInv, PointerInv, ReadyList, List
<1>1. Switch(q) /\ UNCHANGED <<heap, deleted, loading, port, panic>>
  BY DEF sys_call_IDLE
<1>2. CASE s = << >> /\ q' = q /\ global_pcb' = global_pcb
  <2>1. Calm'
    BY <1>0, <1>1, <1>2 DEF Calm, UniqueNames, Live
  <2>2. ReadyList(s)' /\ Moves(s, s)
    BY <1>0, <1>1, <1>2 DEF ReadyList, Live, Moves
  <2> QED  BY <2>1, <2>2
<1>3. CASE /\ Len(s) >= 1 /\ global_pcb' = s[1]
           /\ q' \in Store /\ ~q'.hung
           /\ q'.state = q.state /\ q'.priority = q.priority /\ q'.name = q.name
           /\ q'.head["suspended"] = q.head["suspended"]
           /\ \E t : List(q', q'.head["ready"], t) /\ Yields(s, t)
  <2>1. PICK t : List(q', q'.head["ready"], t) /\ Yields(s, t)
    BY <1>3
  <2>2. 1 \in 1 .. Len(s) /\ s[1] \in Elems(s)
    BY <1>0, <1>3 DEF Elems
  <2>3. Drop(s, 1) \in Seq(Pcbs) /\ Elems(Drop(s, 1)) = Elems(s) \ {s[1]}
        /\ Len(Drop(s, 1)) = Len(s) - 1
    BY <1>0, <2>2, DropSeq
  <2>4. Elems(t) = Live \ {s[1]}
    <3>1. CASE global_pcb = NULL /\ t = Drop(s, 1)
      <4>1. NULL \notin Live
        BY <1>0, PcbAssumption DEF Live
      <4> QED  BY <1>0, <2>3, <3>1, <4>1
    <3>2. CASE global_pcb # NULL /\ \E i \in 0 .. Len(s) - 1 : t = Put(Drop(s, 1), i, global_pcb)
      <4>1. PICK i \in 0 .. Len(s) - 1 : t = Put(Drop(s, 1), i, global_pcb)
        BY <3>2
      <4>2. global_pcb \in Live /\ global_pcb \in Pcbs /\ global_pcb # s[1]
        BY <1>0, <2>2, <3>2 DEF Calm, Live
      <4>3. i \in 0 .. Len(Drop(s, 1))
        BY <2>3
      <4>4. Elems(t) = Elems(Drop(s, 1)) \cup {global_pcb}
        BY <2>3, <4>1, <4>2, <4>3, PutSeq
      <4> QED  BY <1>0, <2>3, <4>2, <4>4
    <3> QED  BY <2>1, <3>1, <3>2 DEF Yields
  <2>5. ReadyList(t)'
    BY <1>1, <1>3, <2>1, <2>4 DEF ReadyList, Live
  <2>6. Calm'
    BY <1>0, <1>1, <1>3, <2>2 DEF Calm, UniqueNames, Live
  <2>7. Moves(s, t)
    BY <1>3, <2>1 DEF Moves
  <2> QED  BY <2>5, <2>6, <2>7
<1> QED  BY <1>1, <1>2, <1>3, SwitchList

\* A new process, whose name only the process that sets an alarm may have.
LEMMA CreateMoves ==
  ASSUME YieldInv, NEW s, ReadyList(s), NEW n \in Names, NEW v \in 0 .. 9, NEW l,
         Create(n, v, l), n \in AlarmNames \/ q.name[global_pcb] # n, global_pcb # NULL
  PROVE  Calm' /\ \E t : ReadyList(t)' /\ Moves(s, t)
<1>0. /\ Calm /\ heap \subseteq Pcbs /\ List(q, q.head["ready"], s) /\ q \in Store
      /\ Elems(s) = Live \ {global_pcb} /\ s \in Seq(Pcbs)
  BY DEF YieldInv, PointerInv, ReadyList, List, Closed
<1>1. CASE Panic
  <2>1. Calm' /\ ReadyList(s)' /\ Moves(s, s)
    BY <1>0, <1>1 DEF Panic, Calm, UniqueNames, Live, ReadyList, Moves
  <2> QED  BY <2>1
<1>2. CASE /\ FreeBlocks # {} /\ NameFree(n)
           /\ q' = pcb_insert(Prepare(q, Min(FreeBlocks), n, v), Min(FreeBlocks))
           /\ heap' = heap \cup {Min(FreeBlocks)}
           /\ UNCHANGED <<global_pcb, deleted, port, panic>>
  <2> DEFINE After(x) == pcb_insert(Prepare(q, x, n, v), x)
             Fact(x, r) ==
               /\ x \in Pcbs \ heap
               /\ r \in Store /\ ~r.hung
               /\ r.state = [q.state EXCEPT ![x] = READY_STATE]
               /\ r.name = [q.name EXCEPT ![x] = n]
               /\ r.priority = [q.priority EXCEPT ![x] = v]
               /\ r.head["suspended"] = q.head["suspended"]
               /\ \A i \in 1 .. Len(s) : q.name[s[i]] # n
               /\ \E i \in 0 .. Len(s) :
                    /\ List(r, r.head["ready"], Put(s, i, x))
                    /\ Sorted(q.priority, s) => Place(r.priority, s, i, x)
  <2>created. Fact(Min(FreeBlocks), After(Min(FreeBlocks)))
    BY <1>2, CreateList
  <2>0. PICK p : p = Min(FreeBlocks)
    OBVIOUS
  <2> DEFINE r == After(p)
  <2>1. Fact(p, r)
    <3> HIDE DEF Fact, After
    <3> QED  BY <2>created, <2>0
  <2> HIDE DEF r
  <2>2. q' = r /\ heap' = heap \cup {p} /\ UNCHANGED <<global_pcb, deleted, port, panic>>
    BY <1>2, <2>0 DEF r
  <2>3. PICK i \in 0 .. Len(s) :
             /\ List(r, r.head["ready"], Put(s, i, p))
             /\ Sorted(q.priority, s) => Place(r.priority, s, i, p)
    BY <2>1
  <2>4. Live' = Live \cup {p} /\ p \notin Live /\ p # global_pcb
    BY <1>0, <2>1, <2>2, PcbAssumption DEF Live, Calm
  <2>5. ReadyList(Put(s, i, p))'
    <3>1. Elems(Put(s, i, p)) = Elems(s) \cup {p}
      BY <1>0, <2>1, PutSeq
    <3> QED  BY <1>0, <2>2, <2>3, <2>4, <3>1 DEF ReadyList
  <2>6. /\ \A x \in Pcbs \ {p} : /\ r.priority[x] = q.priority[x] /\ r.name[x] = q.name[x]
                               /\ r.state[x] = q.state[x]
        /\ r.name[p] = n /\ r.state[p] = READY_STATE
    BY <1>0, <2>1, StoreFields
  <2>7. UniqueNames'
    <3> SUFFICES ASSUME NEW x \in Live', NEW y \in Live', r.name[x] = r.name[y], x # y
                 PROVE  r.name[x] \in AlarmNames
      BY <2>2 DEF UniqueNames
    <3>1. ASSUME NEW z \in Live PROVE z \in Pcbs \ {p} /\ (q.name[z] # n \/ n \in AlarmNames)
      <4>1. z \in Pcbs \ {p}
        BY <1>0, <2>4 DEF Live
      <4>2. CASE z = global_pcb
        BY <4>1, <4>2
      <4>3. CASE z # global_pcb
        BY <1>0, <2>1, <4>1, <4>3 DEF Elems
      <4> QED  BY <4>2, <4>3
    <3>2. CASE x = p \/ y = p
      BY <2>4, <2>6, <3>1, <3>2
    <3>3. CASE x # p /\ y # p
      <4>1. x \in Live /\ y \in Live
        BY <2>4, <3>3
      <4>2. r.name[x] = q.name[x] /\ r.name[y] = q.name[y]
        BY <2>6, <3>1, <4>1
      <4> QED  BY <1>0, <4>1, <4>2 DEF Calm, UniqueNames
    <3> QED  BY <3>2, <3>3
  <2>8. Calm'
    BY <1>0, <2>1, <2>2, <2>4, <2>6, <2>7 DEF Calm
  <2>9. Moves(s, Put(s, i, p))
    BY <2>1, <2>2, <2>3, <2>6 DEF Moves
  <2> QED  BY <2>5, <2>8, <2>9
<1> QED  BY <1>1, <1>2 DEF Create

\* deletePCB.
LEMMA DeleteMoves ==
  ASSUME YieldInv, NEW s, ReadyList(s), NEW n \in Names, delete_pcb(n)
  PROVE  Calm' /\ \E t : ReadyList(t)' /\ Moves(s, t)
<1>0. /\ Calm /\ heap \subseteq Pcbs /\ List(q, q.head["ready"], s) /\ q \in Store
      /\ Elems(s) = Live \ {global_pcb} /\ s \in Seq(Pcbs)
      /\ \A a, b \in 1 .. Len(s) : s[a] = s[b] => a = b
  BY DEF YieldInv, PointerInv, ReadyList, List, Closed
<1>1. PICK p \in Pcbs :
        /\ p \in pcb_find(q, n)
        /\ q' = pcb_remove(q, p)
        /\ deleted' = IF Removable(q, p) THEN deleted \cup {p} ELSE deleted
        /\ UNCHANGED <<global_pcb, heap, loading, port, panic>>
  BY DEF delete_pcb, UserTarget, Target
<1>2. PICK i \in 1 .. Len(s) : p = s[i]
  <2>1. {"ready", "suspended"} \subseteq Queues /\ p # NULL
    BY PcbAssumption DEF Queues
  <2>2. Search(q, "suspended", n) = {NULL}
    <3>1. List(q, q.head["suspended"], << >>)
      BY <1>0, NoList DEF Calm
    <3>2. ~ \E j \in 1 .. Len(<< >>) : TRUE
      OBVIOUS
    <3> QED  BY <1>0, <2>1, <3>1, <3>2, SearchList
  <2>3. p \in Search(q, "ready", n)
    BY <1>1, <2>1, <2>2 DEF pcb_find
  <2>4. \/ Search(q, "ready", n) = {NULL}
        \/ \E j \in 1 .. Len(s) : Search(q, "ready", n) = {s[j]}
    BY <1>0, <2>1, SearchList
  <2> QED  BY <2>1, <2>3, <2>4
<1>3. p \in heap /\ p \in Live /\ p # global_pcb /\ q.state[s[i]] = READY_STATE
  BY <1>0, <1>2 DEF Elems, Live, Calm
<1> DEFINE r == pcb_remove(q, s[i])
<1>4. /\ r \in Store /\ ~r.hung /\ Removable(q, s[i])
      /\ r.state = q.state /\ r.priority = q.priority /\ r.name = q.name
      /\ r.head["suspended"] = q.head["suspended"]
      /\ List(r, r.head["ready"], Drop(s, i))
  BY <1>0, <1>3, ReadyRemove DEF Calm
<1>5. q' = r /\ deleted' = deleted \cup {p}
  BY <1>1, <1>2, <1>4
<1> HIDE DEF r
<1>6. Live' = Live \ {p}
  BY <1>1, <1>5 DEF Live
<1>7. ReadyList(Drop(s, i))'
  <2>1. Elems(Drop(s, i)) = Elems(s) \ {s[i]}
    BY <1>0, DropSeq
  <2> QED  BY <1>0, <1>1, <1>2, <1>4, <1>5, <1>6, <2>1 DEF ReadyList
<1>8. Calm'
  <2>1. UniqueNames'
    BY <1>0, <1>4, <1>5, <1>6 DEF UniqueNames, Calm
  <2> QED  BY <1>0, <1>1, <1>3, <1>4, <1>5, <1>6, <2>1 DEF Calm
<1>9. Moves(s, Drop(s, i))
  BY <1>1, <1>4, <1>5 DEF Moves
<1> QED  BY <1>7, <1>8, <1>9

\* kmain's two processes.
LEMMA YieldInit ==
  ASSUME Init
  PROVE  Calm /\ \E s : ReadyList(s) /\ Sorted(q.priority, s)
<1> DEFINE b == pcb_insert(Prepare(NoPcbs, 1, COMMHAND, 1), 1)
           c == pcb_insert(Prepare(b, 2, IDLE_PROCESS, 9), 2)
           e == << >>
<1>0. /\ 1 \in Pcbs /\ 2 \in Pcbs /\ COMMHAND \in Names /\ IDLE_PROCESS \in Names
      /\ 1 \in 0 .. 9 /\ 9 \in 0 .. 9 /\ COMMHAND # IDLE_PROCESS
  BY KernelAssumption
<1>1. /\ NoPcbs \in Store /\ ~NoPcbs.hung /\ NoPcbs.head["ready"] = NULL
      /\ NoPcbs.head["suspended"] = NULL
      /\ List(NoPcbs, NoPcbs.head["ready"], e)
  <2>1. NoPcbs \in Store /\ ~NoPcbs.hung /\ NoPcbs.head["ready"] = NULL
        /\ NoPcbs.head["suspended"] = NULL
    BY StateTypes DEF NoPcbs, Store, PcbOrNull
  <2> QED  BY <2>1, NoList
<1>2. e \in Seq(Pcbs) /\ Len(e) = 0 /\ Elems(e) = {} /\ Sorted(NoPcbs.priority, e)
  BY DEF Elems, Sorted
<1> HIDE DEF e
<1>fresh1. 1 \notin Elems(e)
  BY <1>2
<1>3. /\ b \in Store /\ ~b.hung
      /\ b.state = [NoPcbs.state EXCEPT ![1] = READY_STATE]
      /\ b.name = [NoPcbs.name EXCEPT ![1] = COMMHAND]
      /\ b.priority = [NoPcbs.priority EXCEPT ![1] = 1]
      /\ b.head["suspended"] = NoPcbs.head["suspended"]
      /\ \E i \in 0 .. Len(e) :
           /\ List(b, b.head["ready"], Put(e, i, 1))
           /\ Sorted(NoPcbs.priority, e) => Place(b.priority, e, i, 1)
  BY <1>0, <1>1, <1>fresh1, SetUpList
<1> DEFINE u == Put(e, 0, 1)
<1>4. List(b, b.head["ready"], u) /\ u \in Seq(Pcbs) /\ Len(u) = 1 /\ Elems(u) = {1}
  <2> HIDE DEF b
  <2>1. 0 \in 0 .. Len(e) /\ \A i \in 0 .. Len(e) : i = 0
    BY <1>2
  <2>2. List(b, b.head["ready"], u)
    BY <1>3, <2>1
  <2>3. u \in Seq(Pcbs) /\ Len(u) = Len(e) + 1 /\ Elems(u) = Elems(e) \cup {1}
    BY <1>0, <1>2, <2>1, PutSeq
  <2> QED  BY <1>2, <2>2, <2>3
<1> HIDE DEF b, u
<1>fresh2. 2 \notin Elems(u)
  BY <1>4
<1>5. Sorted(b.priority, u)
  BY <1>4 DEF Sorted
<1>6. /\ c \in Store /\ ~c.hung
      /\ c.state = [b.state EXCEPT ![2] = READY_STATE]
      /\ c.name = [b.name EXCEPT ![2] = IDLE_PROCESS]
      /\ c.priority = [b.priority EXCEPT ![2] = 9]
      /\ c.head["suspended"] = b.head["suspended"]
      /\ \E i \in 0 .. Len(u) :
           /\ List(c, c.head["ready"], Put(u, i, 2))
           /\ Sorted(b.priority, u) => Place(c.priority, u, i, 2)
  BY <1>0, <1>3, <1>4, <1>fresh2, SetUpList
<1> HIDE DEF c
<1>7. PICK i \in 0 .. Len(u) :
           List(c, c.head["ready"], Put(u, i, 2)) /\ Place(c.priority, u, i, 2)
  BY <1>5, <1>6
<1>8. Sorted(c.priority, Put(u, i, 2))
  <2>1. c.priority \in [Pcbs -> -1 .. 9]
    BY <1>6, StoreFields
  <2>2. c.priority \in [Pcbs -> Int]
    BY <2>1
  <2>3. Sorted(c.priority, u)
    BY <1>4 DEF Sorted
  <2> QED  BY <1>0, <1>4, <1>7, <2>2, <2>3, SortedPut
<1>9. q = c /\ Live = {1, 2} /\ heap = {1, 2} /\ global_pcb = NULL /\ deleted = {}
  BY DEF Init, Live, c, b
<1>10. ReadyList(Put(u, i, 2))
  <2>1. Elems(Put(u, i, 2)) = Elems(u) \cup {2}
    BY <1>0, <1>4, PutSeq
  <2>2. NULL \notin {1, 2}
    BY <1>0, PcbAssumption
  <2> QED  BY <1>4, <1>7, <1>9, <2>1, <2>2 DEF ReadyList
<1>11. Calm
  <2>1. /\ c.state[1] = READY_STATE /\ c.state[2] = READY_STATE
        /\ c.name[1] = COMMHAND /\ c.name[2] = IDLE_PROCESS
    BY <1>0, <1>1, <1>3, <1>6, StoreFields
  <2>2. UniqueNames
    BY <1>0, <1>9, <2>1 DEF UniqueNames
  <2>3. port.operation = "IDLE" /\ ~port.tx
    BY DEF Init, Drv!serial_open
  <2> QED  BY <1>0, <1>1, <1>3, <1>6, <1>9, <2>1, <2>2, <2>3 DEF Calm
<1> QED  BY <1>8, <1>9, <1>10, <1>11

\* Every step, while Yielding.
LEMMA YieldStep ==
  ASSUME Yielding, YieldInv, NEW s, ReadyList(s), [Next]_vars
  PROVE  Calm' /\ \E t : ReadyList(t)' /\ Moves(s, t)
<1>0. /\ Calm /\ PointerInv /\ heap \subseteq Pcbs /\ q \in Store
      /\ List(q, q.head["ready"], s) /\ Elems(s) = Live \ {global_pcb}
      /\ global_pcb # NULL => global_pcb \in heap /\ q.name[global_pcb] \in Names
  BY DEF YieldInv, PointerInv, ReadyList, Closed, Calm, Live
<1>S. ASSUME UNCHANGED <<q, global_pcb, heap, deleted>>, port'.operation = "IDLE", ~port'.tx
      PROVE  Calm' /\ ReadyList(s)' /\ Moves(s, s)
  BY <1>0, <1>S DEF Calm, UniqueNames, Live, ReadyList, Moves
<1>P. ASSUME Panic PROVE Calm' /\ ReadyList(s)' /\ Moves(s, s)
  BY <1>0, <1>P, <1>S DEF Panic, Calm
<1>1. CASE sys_call_IDLE
  BY <1>1, YieldMoves
<1>2. ASSUME NEW r \in Drv!Request, sys_call_READ(r) \/ sys_call_WRITE(r) PROVE FALSE
  <2>1. MayCall("READ") \/ MayCall("WRITE")
    BY <1>2 DEF sys_call_READ, sys_call_WRITE
  <2> QED  BY <1>0, <2>1 DEF MayCall, Yielding
<1>3. CASE sys_call_EXIT
  <2>1. global_pcb \in Pcbs /\ q.state[global_pcb] = READY_STATE /\ global_pcb \notin Elems(s)
    BY <1>0, <1>3 DEF sys_call_EXIT, Calm
  <2>2. ~pcb_remove(q, global_pcb).hung
    BY <1>0, <2>1, RemoveAbsent DEF Calm
  <2>3. pcb_free_faults(heap, global_pcb)
    BY DEF pcb_free_faults
  <2>4. Panic
    BY <1>3, <2>2, <2>3 DEF sys_call_EXIT
  <2> QED  BY <1>P, <2>4
<1>4. CASE load_r3
  <2> DEFINE i == IF loading = 0 THEN 1 ELSE loading
  <2>1. i \in 1 .. Len(R3)
    BY <1>0, R3Types DEF PointerInv
  <2>2. PICK l : Create(R3[i].name, R3[i].priority, l)
    BY <1>4 DEF load_r3
  <2> HIDE DEF i
  <2>3. R3[i].name \in Names /\ R3[i].name # COMMHAND /\ R3[i].priority \in 0 .. 9
    BY <2>1, R3Types DEF System
  <2>4. global_pcb # NULL /\ q.name[global_pcb] = COMMHAND
    BY <1>4 DEF load_r3, Typed
  <2> QED  BY <2>2, <2>3, <2>4, CreateMoves
<1>5. ASSUME NEW n \in AlarmNames, alarm(n)
      PROVE  Calm' /\ \E t : ReadyList(t)' /\ Moves(s, t)
  <2>1. n \in Names /\ 1 \in 0 .. 9
    BY KernelAssumption
  <2>2. global_pcb # NULL /\ Create(n, 1, 0)
    BY <1>5 DEF alarm
  <2> QED  BY <2>1, <2>2, CreateMoves
<1>6. ASSUME NEW n \in Names, delete_pcb(n)
      PROVE  Calm' /\ \E t : ReadyList(t)' /\ Moves(s, t)
  BY <1>6, DeleteMoves
<1>7. ASSUME NEW n \in Names, suspend_pcb(n) \/ resume_pcb(n) PROVE FALSE
  <2>1. "suspendPCB" \in Commands \/ "resumePCB" \in Commands
    BY <1>7 DEF suspend_pcb, resume_pcb, UserTarget, Target, Typed
  <2> QED  BY <2>1 DEF Yielding
<1>8. ASSUME NEW n \in Names, show_pcb(n) PROVE Calm' /\ ReadyList(s)' /\ Moves(s, s)
  BY <1>8, <1>P DEF show_pcb
<1>9. ASSUME NEW n \in Names, NEW v \in Priorities, set_pcb_priority(n, v)
      PROVE  Calm' /\ ReadyList(s)' /\ Moves(s, s)
  <2>1. CASE Panic
    BY <1>P, <2>1
  <2>2. CASE \E p \in Pcbs : /\ Target("setPCBpriority", n, p)
                            /\ q' = [q EXCEPT !.priority[p] = v]
                            /\ UNCHANGED <<global_pcb, heap, deleted, loading, port, panic>>
    <3>1. PICK p \in Pcbs : /\ q' = [q EXCEPT !.priority[p] = v]
                            /\ UNCHANGED <<global_pcb, heap, deleted, loading, port, panic>>
      BY <2>2
    <3>2. /\ q'.head = q.head /\ q'.next = q.next /\ q'.state = q.state /\ q'.name = q.name
          /\ q'.hung = q.hung
      BY <1>0, <3>1 DEF Store
    <3>3. Calm'
      BY <1>0, <3>1, <3>2 DEF Calm, UniqueNames, Live
    <3>4. ReadyList(s)'
      BY <1>0, <3>1, <3>2 DEF ReadyList, List, Live
    <3>5. Moves(s, s)
      BY <2>2 DEF Moves, Target, Typed
    <3> QED  BY <3>3, <3>4, <3>5
  <2> QED  BY <1>9, <2>1, <2>2 DEF set_pcb_priority
<1>10. CASE serial_interrupt
  <2>1. ~Drv!Completes(port) /\ port.rx /\ Drv!serial_interrupt(port) = port
    BY <1>0, <1>10 DEF serial_interrupt, Drv!IrqPending, Drv!Completes, Calm,
       Drv!serial_interrupt, Drv!serial_input_interrupt
  <2> QED  BY <1>0, <1>10, <1>S, <2>1 DEF serial_interrupt, Calm
<1>11. CASE KeyPressed \/ serial_poll
  <2>1. PICK v \in BOOLEAN :
          /\ port' = [port EXCEPT !.rx = v]
          /\ UNCHANGED <<q, global_pcb, heap, deleted, loading, panic>>
    BY <1>11 DEF KeyPressed, serial_poll, Drv!KeyPressed, Drv!serial_poll
  <2>2. port'.operation = "IDLE" /\ ~port'.tx
    BY <1>0, <2>1 DEF Calm, PointerInv, P!DcbInv, P!Dcb
  <2> QED  BY <1>S, <2>1, <2>2
<1>12. CASE UNCHANGED vars
  BY <1>0, <1>12, <1>S DEF vars, Calm
<1> QED
  BY <1>1, <1>2, <1>3, <1>4, <1>5, <1>6, <1>7, <1>8, <1>9, <1>10, <1>11, <1>12 DEF Next

\* While processes yield or exit and nobody suspends or resumes one, the invariant
\* of dispatching holds throughout.
THEOREM KernelYields ==
  ASSUME Yielding
  PROVE  Spec => []YieldInv
<1>1. Init => YieldInv
  BY PointerInit, YieldInit DEF YieldInv
<1>2. YieldInv /\ [Next]_vars => YieldInv'
  <2> SUFFICES ASSUME YieldInv, [Next]_vars PROVE YieldInv'
    OBVIOUS
  <2>1. PICK s : ReadyList(s)
    BY DEF YieldInv
  <2>2. Calm' /\ \E t : ReadyList(t)'
    BY <2>1, YieldStep
  <2>3. PointerInv'
    BY PointerStep DEF YieldInv
  <2> QED  BY <2>2, <2>3 DEF YieldInv
<1> QED  BY <1>1, <1>2, PTL DEF Spec

\* No system call and no command loses or repeats a process.
THEOREM KernelNoLoss ==
  ASSUME Yielding
  PROVE  Spec => []NoLostProcess
<1>1. YieldInv => NoLostProcess
  <2> SUFFICES ASSUME YieldInv PROVE NoLostProcess
    OBVIOUS
  <2>1. PICK s : ReadyList(s)
    BY DEF YieldInv
  <2>2. /\ List(q, q.head["ready"], s) /\ Elems(s) = Live \ {global_pcb} /\ q \in Store
        /\ s \in Seq(Pcbs) /\ \A i \in 1 .. Len(s) : s[i] \in Pcbs /\ s[i] # NULL
    <3>1. List(q, q.head["ready"], s) /\ Elems(s) = Live \ {global_pcb} /\ q \in Store
      BY <2>1 DEF YieldInv, PointerInv, Closed, ReadyList
    <3>2. s \in Seq(Pcbs)
      BY <3>1 DEF List
    <3> QED  BY <3>1, <3>2, PcbAssumption
  <2>3. Len(s) \in 0 .. N /\ N \in Nat
    BY <2>2, ListShort, NType
  <2>4. DOMAIN ReadyWalk = 0 .. N /\ \A i \in 0 .. N : ReadyWalk[i] = At(s, i + 1)
    BY <2>2, ListWalk, StoreFields DEF ReadyWalk
  <2>5. ReadyWalk[N] = NULL
    BY <2>3, <2>4 DEF At
  <2>6. ReadySet = Elems(s)
    <3>1. ASSUME NEW x \in ReadySet PROVE x \in Elems(s)
      <4>1. PICK i \in 0 .. N : x = At(s, i + 1) /\ x # NULL
        BY <2>4 DEF ReadySet
      <4> QED  BY <4>1 DEF At, Elems
    <3>2. ASSUME NEW i \in 1 .. Len(s) PROVE s[i] \in ReadySet
      <4>1. i - 1 \in 0 .. N /\ (i - 1) + 1 = i
        BY <2>3
      <4>2. ReadyWalk[i - 1] = s[i]
        BY <2>4, <4>1 DEF At
      <4> QED  BY <2>2, <2>4, <4>1, <4>2 DEF ReadySet
    <3> QED  BY <3>1, <3>2 DEF Elems
  <2> QED  BY <2>2, <2>5, <2>6 DEF NoLostProcess, N
<1> QED  BY <1>1, KernelYields, PTL

\* No two processes have the same name, but for those that set their own alarm.
THEOREM KernelNames ==
  ASSUME Yielding
  PROVE  Spec => []UniqueNames
<1>1. YieldInv => UniqueNames
  BY DEF YieldInv, Calm
<1> QED  BY <1>1, KernelYields, PTL
-----------------------------------------------------------------------------
(***************************************************************************)
(* The pointers of pcb.c implement the abstract Scheduler.                 *)
(***************************************************************************)

\* The inductive invariant of the refinement: the ready queue is sorted, too.
OrderInv == PointerInv /\ Calm /\ \E s : ReadyList(s) /\ Sorted(q.priority, s)

\* The ready queue as the refinement mapping reads it off the links.
MappedQueue(a) ==
  LET w == Walk(a, a.head["ready"])
  IN  [i \in 1 .. Cardinality({j \in DOMAIN w : w[j] # NULL}) |-> w[i - 1]]

\* The walk along the ready list is the sequence of its elements.
LEMMA QueueMapped ==
  ASSUME NEW a \in Store, NEW s, List(a, a.head["ready"], s)
  PROVE  MappedQueue(a) = s
<1> DEFINE w == Walk(a, a.head["ready"])
<1>1. /\ s \in Seq(Pcbs) /\ Len(s) \in Nat
      /\ s = [i \in 1 .. Len(s) |-> s[i]]
  BY DEF List
<1>2. \A i \in 1 .. Len(s) : s[i] # NULL
  BY <1>1, PcbAssumption
<1>3. Len(s) \in 0 .. N /\ N \in Nat
  BY ListShort, NType
<1>4. DOMAIN w = 0 .. N /\ \A i \in 0 .. N : w[i] = At(s, i + 1)
  BY ListWalk, StoreFields
<1> DEFINE J == {j \in DOMAIN w : w[j] # NULL}
<1>5. J = 0 .. Len(s) - 1
  BY <1>2, <1>3, <1>4 DEF At
<1>6. Cardinality(J) = Len(s)
  <2>1. 0 \in Int /\ Len(s) - 1 \in Int
    BY <1>1
  <2>2. Cardinality(0 .. Len(s) - 1) = IF 0 > Len(s) - 1 THEN 0 ELSE (Len(s) - 1) - 0 + 1
    BY <2>1, FS_Interval
  <2> HIDE DEF J
  <2> QED  BY <1>1, <1>5, <2>2
<1>7. MappedQueue(a) = [i \in 1 .. Len(s) |-> w[i - 1]]
  BY <1>6 DEF MappedQueue
<1>8. ASSUME NEW i \in 1 .. Len(s) PROVE w[i - 1] = s[i]
  <2>1. i - 1 \in 0 .. N /\ (i - 1) + 1 = i
    BY <1>3
  <2> QED  BY <1>4, <2>1 DEF At
<1> QED  BY <1>1, <1>7, <1>8

\* The sequence operators of the abstract specification.
LEMMA InsertAtIs ==
  ASSUME NEW s \in Seq(Pcbs), NEW p \in Pcbs, NEW i \in 0 .. Len(s)
  PROVE  Abstract!InsertAt(s, i + 1, p) = Put(s, i, p)
<1> DEFINE a == SubSeq(s, 1, i)
           c == SubSeq(s, i + 1, Len(s))
           n == Len(s)
<1>0. n \in Nat /\ i \in 0 .. n /\ \A j \in 1 .. n : s[j] \in Pcbs
  OBVIOUS
<1>1. a \in Seq(Pcbs) /\ Len(a) = i /\ \A j \in 1 .. i : a[j] = s[j]
  <2>1. \A j \in 1 .. i : s[j] \in Pcbs
    BY <1>0
  <2> QED  BY <1>0, <2>1, SubSeqProperties
<1>2. c \in Seq(Pcbs) /\ Len(c) = n - i /\ \A j \in 1 .. n - i : c[j] = s[i + j]
  <2>1. \A j \in i + 1 .. n : s[j] \in Pcbs
    BY <1>0
  <2>2. /\ c \in Seq(Pcbs)
        /\ Len(c) = IF i + 1 <= n THEN n - (i + 1) + 1 ELSE 0
        /\ \A j \in 1 .. n - (i + 1) + 1 : c[j] = s[(i + 1) + j - 1]
    BY <1>0, <2>1, SubSeqProperties
  <2>3. n - (i + 1) + 1 = n - i
    BY <1>0
  <2> HIDE DEF c, n
  <2>4. \A j \in 1 .. n - i : (i + 1) + j - 1 = i + j
    BY <1>0
  <2> QED  BY <1>0, <2>2, <2>3, <2>4
<1>3. <<p>> \in Seq(Pcbs) /\ Len(<<p>>) = 1 /\ <<p>>[1] = p
  OBVIOUS
<1> HIDE DEF a, c
<1> DEFINE b == a \o <<p>>
<1>4. b \in Seq(Pcbs) /\ Len(b) = i + 1 /\ (\A j \in 1 .. i : b[j] = s[j]) /\ b[i + 1] = p
  <2>1. /\ b \in Seq(Pcbs) /\ Len(b) = i + 1
        /\ \A j \in 1 .. i + 1 : b[j] = IF j <= i THEN a[j] ELSE <<p>>[j - i]
    BY <1>1, <1>3, ConcatProperties
  <2> HIDE DEF b
  <2>2. \A j \in 1 .. i : b[j] = s[j]
    BY <1>1, <2>1
  <2>3. b[i + 1] = <<p>>[(i + 1) - i] /\ (i + 1) - i = 1
    BY <1>0, <2>1
  <2> QED  BY <1>3, <2>1, <2>2, <2>3
<1> HIDE DEF b
<1> DEFINE d == b \o c
<1>5. /\ d \in Seq(Pcbs) /\ Len(d) = n + 1
      /\ \A j \in 1 .. n + 1 : d[j] = IF j <= i + 1 THEN b[j] ELSE c[j - (i + 1)]
  <2>1. (i + 1) + (n - i) = n + 1
    BY <1>0
  <2> QED  BY <1>2, <1>4, <2>1, ConcatProperties
<1> HIDE DEF d
<1>6. ASSUME NEW j \in 1 .. n + 1
      PROVE  d[j] = IF j <= i THEN s[j] ELSE IF j = i + 1 THEN p ELSE s[j - 1]
  <2>1. CASE j <= i + 1
    BY <1>0, <1>4, <1>5, <2>1
  <2>2. CASE j > i + 1
    <3>1. j - (i + 1) \in 1 .. n - i /\ i + (j - (i + 1)) = j - 1
      BY <1>0, <2>2
    <3> QED  BY <1>0, <1>2, <1>5, <2>2, <3>1
  <2> QED  BY <1>0, <2>1, <2>2
<1>7. d = [j \in 1 .. n + 1 |-> d[j]]
  BY <1>5
<1>8. d = Put(s, i, p)
  BY <1>6, <1>7 DEF Put
<1>9. Abstract!InsertAt(s, i + 1, p) = d
  <2>1. (i + 1) - 1 = i
    BY <1>0
  <2> QED  BY <2>1 DEF Abstract!InsertAt, a, b, c, d
<1> QED  BY <1>8, <1>9

\* The abstract queue's removal is the one of the list lemmas.
LEMMA RemoveAtIs ==
  ASSUME NEW s \in Seq(Pcbs), NEW i \in 1 .. Len(s)
  PROVE  Abstract!RemoveAt(s, i) = Drop(s, i)
<1> DEFINE a == SubSeq(s, 1, i - 1)
           c == SubSeq(s, i + 1, Len(s))
           n == Len(s)
<1>0. n \in Nat /\ i \in 1 .. n /\ \A j \in 1 .. n : s[j] \in Pcbs
  OBVIOUS
<1>1. a \in Seq(Pcbs) /\ Len(a) = i - 1 /\ \A j \in 1 .. i - 1 : a[j] = s[j]
  <2>1. i - 1 \in Int /\ \A j \in 1 .. i - 1 : s[j] \in Pcbs
    BY <1>0
  <2>2. /\ a \in Seq(Pcbs) /\ Len(a) = IF 1 <= i - 1 THEN (i - 1) - 1 + 1 ELSE 0
        /\ \A j \in 1 .. (i - 1) - 1 + 1 : a[j] = s[1 + j - 1]
    BY <1>0, <2>1, SubSeqProperties
  <2>3. (i - 1) - 1 + 1 = i - 1 /\ \A j \in 1 .. i - 1 : 1 + j - 1 = j
    BY <1>0
  <2> HIDE DEF a
  <2> QED  BY <1>0, <2>2, <2>3
<1>2. c \in Seq(Pcbs) /\ Len(c) = n - i /\ \A j \in 1 .. n - i : c[j] = s[i + j]
  <2>1. \A j \in i + 1 .. n : s[j] \in Pcbs
    BY <1>0
  <2>2. /\ c \in Seq(Pcbs)
        /\ Len(c) = IF i + 1 <= n THEN n - (i + 1) + 1 ELSE 0
        /\ \A j \in 1 .. n - (i + 1) + 1 : c[j] = s[(i + 1) + j - 1]
    BY <1>0, <2>1, SubSeqProperties
  <2>3. n - (i + 1) + 1 = n - i
    BY <1>0
  <2> HIDE DEF c, n
  <2>4. \A j \in 1 .. n - i : (i + 1) + j - 1 = i + j
    BY <1>0
  <2> QED  BY <1>0, <2>2, <2>3, <2>4
<1> HIDE DEF a, c
<1> DEFINE d == a \o c
<1>3. /\ d \in Seq(Pcbs) /\ Len(d) = n - 1
      /\ \A j \in 1 .. n - 1 : d[j] = IF j <= i - 1 THEN a[j] ELSE c[j - (i - 1)]
  <2>1. (i - 1) + (n - i) = n - 1
    BY <1>0
  <2>2. /\ d \in Seq(Pcbs) /\ Len(d) = Len(a) + Len(c)
        /\ \A j \in 1 .. Len(a) + Len(c) : d[j] = IF j <= Len(a) THEN a[j] ELSE c[j - Len(a)]
    BY <1>1, <1>2, ConcatProperties
  <2>3. Len(a) + Len(c) = n - 1
    BY <1>1, <1>2, <2>1
  <2> HIDE DEF d, n
  <2> QED  BY <1>1, <2>2, <2>3
<1> HIDE DEF d
<1>4. ASSUME NEW j \in 1 .. n - 1 PROVE d[j] = IF j < i THEN s[j] ELSE s[j + 1]
  <2>1. CASE j < i
    <3>1. j <= i - 1 /\ j \in 1 .. i - 1
      BY <1>0, <2>1
    <3> QED  BY <1>1, <1>3, <2>1, <3>1
  <2>2. CASE j >= i
    <3>1. ~(j <= i - 1) /\ ~(j < i) /\ j - (i - 1) \in 1 .. n - i /\ i + (j - (i - 1)) = j + 1
      BY <1>0, <2>2
    <3> QED  BY <1>2, <1>3, <3>1
  <2> QED  BY <1>0, <2>1, <2>2
<1>5. d = [j \in 1 .. n - 1 |-> d[j]]
  BY <1>3
<1>6. d = Drop(s, i)
  BY <1>4, <1>5 DEF Drop
<1> QED  BY <1>6 DEF Abstract!RemoveAt, a, c, d

\* A process in its place joins the abstract queue.
LEMMA PlaceJoins ==
  ASSUME NEW s \in Seq(Pcbs), NEW p \in Pcbs, NEW i \in 0 .. Len(s), NEW r,
         Place(r, s, i, p)
  PROVE  Abstract!Joins(s, p, r, Put(s, i, p))
<1>1. Put(s, i, p) = Abstract!InsertAt(s, i + 1, p)
  BY InsertAtIs
<1> QED  BY <1>1 DEF Abstract!Joins, Place

\* Every step of the kernel is a step of the abstract Scheduler, and keeps the
\* queue sorted.
LEMMA SchedulerStep ==
  ASSUME Yielding, "setPCBpriority" \notin Commands, OrderInv, [Next]_vars
  PROVE  OrderInv' /\ [Abstract!Next]_<<ReadyQueue, global_pcb, q.priority>>
<1>1. PICK s : ReadyList(s) /\ Sorted(q.priority, s)
  BY DEF OrderInv
<1>2. YieldInv
  BY <1>1 DEF OrderInv, YieldInv
<1>3. PointerInv'
  BY PointerStep DEF OrderInv
<1>4. Calm' /\ \E t : ReadyList(t)' /\ Moves(s, t)
  BY <1>1, <1>2, YieldStep
<1>5. PICK t : ReadyList(t)' /\ Moves(s, t)
  BY <1>4
<1>6. /\ q \in Store /\ List(q, q.head["ready"], s) /\ Elems(s) = Live \ {global_pcb}
      /\ q.priority \in [Pcbs -> -1 .. 9] /\ heap \subseteq Pcbs
      /\ global_pcb \in Live \cup {NULL}
  BY <1>1, StoreFields DEF OrderInv, PointerInv, Closed, ReadyList, Calm
<1>7. q' \in Store /\ List(q', q'.head["ready"], t) /\ q'.priority \in [Pcbs -> -1 .. 9]
  <2>1. q' \in Store /\ List(q', q'.head["ready"], t)
    BY <1>3, <1>5 DEF PointerInv, Closed, ReadyList
  <2> QED  BY <2>1, StoreFields
<1>8. ReadyQueue = s
  BY <1>6, QueueMapped DEF ReadyQueue, ReadyWalk, MappedQueue
<1>9. ReadyQueue' = t
  BY <1>7, QueueMapped DEF ReadyQueue, ReadyWalk, MappedQueue
<1>10. /\ s \in Seq(Pcbs) /\ Len(s) \in Nat /\ t \in Seq(Pcbs)
       /\ \A i, j \in 1 .. Len(s) : s[i] = s[j] => i = j
       /\ \A i \in 1 .. Len(s) : s[i] \in Pcbs /\ s[i] \in Elems(s)
  BY <1>6, <1>7 DEF List, Elems
<1>11. q.priority \in [Pcbs -> Int] /\ q'.priority \in [Pcbs -> Int]
  BY <1>6, <1>7
<1> DEFINE Goal == Sorted(q'.priority, t) /\ [Abstract!Next]_<<ReadyQueue, global_pcb, q.priority>>
<1>12. ASSUME t = s, global_pcb' = global_pcb, q'.priority = q.priority PROVE Goal
  BY <1>1, <1>8, <1>9, <1>12
<1>13. ASSUME Len(s) >= 1, global_pcb' = s[1], q'.priority = q.priority, Yields(s, t)
       PROVE  Goal
  <2> DEFINE d == Drop(s, 1)
  <2>1. 1 \in 1 .. Len(s) /\ s # << >> /\ Head(s) = s[1]
    BY <1>10, <1>13
  <2>2. d = Tail(s)
    <3>1. d = [j \in 1 .. Len(s) - 1 |-> s[j + 1]]
      BY <1>10 DEF Drop
    <3>2. Tail(s) \in Seq(Pcbs) /\ Len(Tail(s)) = Len(s) - 1
          /\ \A j \in 1 .. Len(s) - 1 : Tail(s)[j] = s[j + 1]
      BY <1>10, <2>1
    <3>3. ASSUME NEW u \in Seq(Pcbs) PROVE u = [j \in 1 .. Len(u) |-> u[j]]
      OBVIOUS
    <3>4. Tail(s) = [j \in 1 .. Len(s) - 1 |-> Tail(s)[j]]
      BY <3>2, <3>3
    <3> QED  BY <3>1, <3>2, <3>4
  <2>3. d \in Seq(Pcbs) /\ Len(d) = Len(s) - 1
    BY <1>10, <2>1, DropSeq
  <2>4. Sorted(q.priority, d)
    BY <1>1, <1>10, <1>11, <2>1, SortedDrop
  <2> HIDE DEF d
  <2>5. CASE global_pcb = NULL /\ t = d
    <3>1. Abstract!Yield
      BY <1>8, <1>9, <1>13, <2>1, <2>2, <2>5 DEF Abstract!Yield
    <3> QED  BY <1>13, <2>4, <2>5, <3>1 DEF Abstract!Next
  <2>6. CASE /\ global_pcb # NULL
             /\ \E i \in 0 .. Len(s) - 1 :
                  t = Put(d, i, global_pcb) /\ Place(q.priority, d, i, global_pcb)
    <3>1. PICK i \in 0 .. Len(d) :
                  t = Put(d, i, global_pcb) /\ Place(q.priority, d, i, global_pcb)
      BY <2>3, <2>6
    <3>2. global_pcb \in Pcbs
      BY <1>6, <2>6 DEF Live
    <3>3. Abstract!Joins(d, global_pcb, q.priority, t)
      BY <2>3, <3>1, <3>2, PlaceJoins
    <3>4. Abstract!Yield
      BY <1>8, <1>9, <1>13, <2>1, <2>2, <2>6, <3>3 DEF Abstract!Yield
    <3>5. Sorted(q.priority, t)
      BY <1>11, <2>3, <2>4, <3>1, <3>2, SortedPut
    <3> QED  BY <1>13, <3>4, <3>5 DEF Abstract!Next
  <2> QED  BY <1>1, <1>13, <2>5, <2>6 DEF Yields, d
<1>14. ASSUME \E p \in Pcbs \ heap, i \in 0 .. Len(s) :
              /\ global_pcb' = global_pcb
              /\ \A x \in Pcbs \ {p} : q'.priority[x] = q.priority[x]
              /\ t = Put(s, i, p)
              /\ Sorted(q.priority, s) => Place(q'.priority, s, i, p)
       PROVE  Goal
  <2>1. PICK p \in Pcbs \ heap, i \in 0 .. Len(s) :
              /\ global_pcb' = global_pcb
              /\ \A x \in Pcbs \ {p} : q'.priority[x] = q.priority[x]
              /\ t = Put(s, i, p)
              /\ Place(q'.priority, s, i, p)
    BY <1>1, <1>14
  <2>2. p # global_pcb /\ p \notin Elems(s)
    BY <1>6, PcbAssumption DEF Live
  <2>3. p \notin Abstract!ToSet(s)
    <3>1. DOMAIN s = 1 .. Len(s)
      BY <1>10
    <3> QED  BY <2>2, <3>1 DEF Abstract!ToSet, Elems
  <2>4. Abstract!Joins(s, p, q'.priority, t)
    BY <1>10, <2>1, PlaceJoins
  <2>5. Abstract!Admit(p)
    BY <1>8, <1>9, <2>1, <2>2, <2>3, <2>4 DEF Abstract!Admit
  <2>6. Sorted(q'.priority, s)
    <3>1. \A j \in 1 .. Len(s) : q'.priority[s[j]] = q.priority[s[j]]
      BY <1>10, <2>1, <2>2
    <3> QED  BY <1>1, <3>1 DEF Sorted
  <2>7. Sorted(q'.priority, t)
    BY <1>10, <1>11, <2>1, <2>6, SortedPut
  <2> QED  BY <2>5, <2>7 DEF Abstract!Next
<1>15. ASSUME \E i \in 1 .. Len(s) :
              t = Drop(s, i) /\ global_pcb' = global_pcb /\ q'.priority = q.priority
       PROVE  Goal
  <2>1. PICK i \in 1 .. Len(s) :
              t = Drop(s, i) /\ global_pcb' = global_pcb /\ q'.priority = q.priority
    BY <1>15
  <2>2. t = Abstract!RemoveAt(s, i) /\ i \in DOMAIN s
    BY <1>10, <2>1, RemoveAtIs
  <2>3. Abstract!Withdraw(s[i])
    BY <1>8, <1>9, <2>1, <2>2 DEF Abstract!Withdraw
  <2>4. Sorted(q'.priority, t)
    BY <1>1, <1>10, <1>11, <2>1, SortedDrop
  <2> QED  BY <1>10, <2>3, <2>4 DEF Abstract!Next
<1>16. Goal
  BY <1>5, <1>12, <1>13, <1>14, <1>15 DEF Moves
<1> QED  BY <1>3, <1>4, <1>5, <1>16 DEF OrderInv

\* While processes yield or exit and no command changes a state or a priority, the
\* pointers of pcb.c implement the abstract Scheduler: by priority, and first come
\* first served among equals.
THEOREM KernelImplementsScheduler ==
  ASSUME Yielding, "setPCBpriority" \notin Commands
  PROVE  Spec => ImplementsScheduler
<1>1. Init => OrderInv
  BY PointerInit, YieldInit DEF OrderInv
<1>2. OrderInv /\ [Next]_vars => OrderInv'
  BY SchedulerStep
<1>3. OrderInv /\ [Next]_vars => [Abstract!Next]_<<ReadyQueue, global_pcb, q.priority>>
  BY SchedulerStep
<1>4. Init => Abstract!Init
  <2> SUFFICES ASSUME Init PROVE Abstract!Init
    OBVIOUS
  <2>1. PICK s : ReadyList(s) /\ Sorted(q.priority, s)
    BY YieldInit
  <2>2. q \in Store /\ List(q, q.head["ready"], s)
    BY <2>1, PointerInit DEF PointerInv, Closed, ReadyList
  <2>3. ReadyQueue = s /\ s \in Seq(Pcbs) /\ DOMAIN s = 1 .. Len(s)
    BY <2>2, QueueMapped DEF List, ReadyQueue, ReadyWalk, MappedQueue
  <2> QED  BY <2>1, <2>3 DEF Init, Abstract!Init, Sorted
<1> QED  BY <1>1, <1>2, <1>3, <1>4, PTL DEF Spec, ImplementsScheduler, Abstract!Spec
=============================================================================
