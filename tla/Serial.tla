------------------------------- MODULE Serial -------------------------------
(***************************************************************************)
(* The interrupt-driven serial driver of kernel/serial.c: the device       *)
(* control block that serial_open makes, the queue of I/O control blocks,  *)
(* io_scheduler, serial_read, serial_write and the interrupt handlers.     *)
(*                                                                         *)
(* The operators below take a device control block and return the updated  *)
(* one, so that Kernel can run several of them inside one system call.     *)
(* The specification of this module is the driver under any clients.       *)
(*                                                                         *)
(* serial_open leaves the status AVAILABLE and nothing sets it to IN_USE,  *)
(* and initialized[0] is 1, so the tests of those two are left out.  The   *)
(* ring buffer is never filled (serial_input_interrupt stores nothing), so *)
(* serial_read always finds it empty.                                      *)
(***************************************************************************)
EXTENDS Naturals, Sequences, FiniteSets

CONSTANTS
  Procs,      \* the processes that ask for I/O
  Bufs,       \* the buffers they pass
  Lens,       \* the lengths they pass
  MaxIocbs,   \* how many struct iocb the heap has room for
  Keys        \* TRUE when somebody types

ASSUME SerialAssumption ==
  Lens \subseteq Nat /\ MaxIocbs \in Nat /\ Keys \in BOOLEAN

VARIABLES
  port,   \* the struct dcb, the UART's interrupt state, and the line
  fault   \* TRUE once a NULL struct iocb was written to: kpanic()

svars == <<port, fault>>

STRAY == <<"0x02", 0>>   \* the byte of `outb(COM1, 0x02)'

\* A request, and the iocb made of it.  valid: dev is COM1 and buf not NULL.
Request == [proc : Procs, op : {"READ", "WRITE"}, buf : Bufs, len : Lens,
            valid : BOOLEAN]

\* The byte of a buffer that the driver puts on the line.
Byte(b, i) == <<b, i>>
-----------------------------------------------------------------------------
(***************************************************************************)
(* serial_open, and the UART as it leaves it: only input interrupts are    *)
(* enabled.  tx is bit 1 of the IER; rx says that a received byte waits in *)
(* RBR.  wire and want are history: what went out since the last           *)
(* serial_write, and the request that call was made for.                   *)
(***************************************************************************)
serial_open ==
  [operation |-> "IDLE", event_flag |-> 0, counter |-> 0, count |-> 0,
   io |-> <<>>, tx |-> FALSE, rx |-> FALSE, wire |-> <<>>, want |-> <<>>]

\* Mutant: leaves output interrupts off.
serial_write_NoIrq(d, r) ==
  [d EXCEPT !.operation = "WRITE", !.event_flag = 1, !.count = r.len,
            !.counter = 1, !.wire = <<Byte(r.buf, 0)>>, !.want = <<r>>]

\* Sends the first byte, also of an empty buffer, and enables output
\* interrupts.
serial_write(d, r) ==
  [d EXCEPT !.operation = "WRITE", !.event_flag = 1, !.count = r.len,
            !.counter = 1, !.tx = TRUE, !.wire = <<Byte(r.buf, 0)>>,
            !.want = <<r>>]

\* The ring buffer is empty: nothing is copied and the operation stays READ.
serial_read(d, r) ==
  IF r.len = 0 THEN d ELSE [d EXCEPT !.operation = "READ", !.event_flag = 0]

\* The last `if' of io_scheduler.
Start(d, r) ==
  CASE d.operation # "IDLE" -> d
    [] d.operation = "IDLE" /\ r.op = "WRITE" -> serial_write(d, r)
    [] d.operation = "IDLE" /\ r.op = "READ" -> serial_read(d, r)

\* Mutant: an invalid request is started although it is not queued.
io_scheduler_NoCheck(d, r) ==
  Start([d EXCEPT !.io = IF r.valid THEN Append(@, r) ELSE @], r)

io_scheduler(d, r) ==
  IF r.valid THEN Start([d EXCEPT !.io = Append(@, r)], r) ELSE d

\* sys_alloc_mem(sizeof(iocb)) returns NULL, and io_scheduler writes to it.
NoIocb(d, r) == r.valid /\ Len(d.io) >= MaxIocbs

\* What the I/O part of sys_call does to the device: the WRITE case falls
\* through into the READ case, so io_scheduler runs twice for a WRITE.
SysCallIo(d, r) ==
  IF r.op = "WRITE" THEN io_scheduler(io_scheduler(d, r), r)
                    ELSE io_scheduler(d, r)

SysCallIoFaults(d, r) ==
  \/ NoIocb(d, r)
  \/ r.op = "WRITE" /\ NoIocb(io_scheduler(d, r), r)

\* serial_output_interrupt: the next byte of the first iocb in the queue, or
\* the end of the operation.  The second iocb is not started.
MoreToWrite(d) == d.event_flag = 1 /\ d.counter < d.count

\* Mutant: the index is moved on before it is used.
SendNext_Skip(d) ==
  [d EXCEPT !.wire = @ \o <<STRAY, Byte(Head(d.io).buf, d.counter + 1)>>,
            !.counter = @ + 1]

SendNext(d) ==
  [d EXCEPT !.wire = @ \o <<STRAY, Byte(Head(d.io).buf, d.counter)>>,
            !.counter = @ + 1]

\* Mutant: output interrupts stay enabled.
Complete_KeepIrq(d) ==
  [d EXCEPT !.wire = Append(@, STRAY), !.event_flag = 0, !.io = Tail(@),
            !.operation = "IDLE"]

Complete(d) ==
  [d EXCEPT !.wire = Append(@, STRAY), !.event_flag = 0, !.io = Tail(@),
            !.operation = "IDLE", !.tx = FALSE]

\* Does the interrupt end the operation under way?
Completes(d) == d.tx /\ ~d.rx /\ d.operation = "WRITE" /\ ~MoreToWrite(d)

\* Mutant: one byte too many.
serial_output_interrupt_OneMore(d) ==
  CASE d.operation # "WRITE" -> d
    [] d.operation = "WRITE" /\ d.event_flag = 1 /\ d.counter <= d.count -> SendNext(d)
    [] d.operation = "WRITE" /\ ~(d.event_flag = 1 /\ d.counter <= d.count) -> Complete(d)

serial_output_interrupt(d) ==
  CASE d.operation # "WRITE" -> d
    [] d.operation = "WRITE" /\ MoreToWrite(d) -> SendNext(d)
    [] d.operation = "WRITE" /\ ~MoreToWrite(d) -> Complete(d)

\* serial_input_interrupt: the character is neither read nor stored.
serial_input_interrupt(d) ==
  IF d.operation = "READ" THEN [d EXCEPT !.wire = <<STRAY>>] ELSE d

\* serial_interrupt: the UART reports a received byte before an empty
\* transmitter (IIR is 4 rather than 2 while both wait).
serial_interrupt(d) ==
  IF d.rx THEN serial_input_interrupt(d) ELSE serial_output_interrupt(d)

\* The UART asks for an interrupt; the transmitter is empty again some time
\* after every byte.
IrqPending(d) == d.rx \/ d.tx
-----------------------------------------------------------------------------
Init == port = serial_open /\ fault = FALSE

\* A process asks for I/O.
Submit(r) ==
  /\ ~fault
  /\ IF SysCallIoFaults(port, r)
     THEN fault' = TRUE /\ UNCHANGED port
     ELSE port' = SysCallIo(port, r) /\ UNCHANGED fault

Interrupt ==
  /\ ~fault
  /\ IrqPending(port)
  /\ port' = serial_interrupt(port)
  /\ UNCHANGED fault

\* Somebody types.
KeyPressed ==
  /\ Keys /\ ~fault /\ ~port.rx
  /\ port' = [port EXCEPT !.rx = TRUE]
  /\ UNCHANGED fault

\* One turn of the loop of serial_poll, which commands read their arguments
\* with: it takes the byte out of RBR.
serial_poll ==
  /\ ~fault /\ port.rx
  /\ port' = [port EXCEPT !.rx = FALSE]
  /\ UNCHANGED fault

Next ==
  \/ \E r \in Request : Submit(r)
  \/ Interrupt
  \/ KeyPressed
  \/ serial_poll

Spec == Init /\ [][Next]_svars

\* The UART raises its interrupt as long as the condition lasts, and user
\* code runs with interrupts enabled.
FairSpec == Spec /\ WF_svars(Interrupt)
-----------------------------------------------------------------------------
\* Types of the device control block; the iocb queue never outgrows the heap.
TypeOK ==
  /\ port.operation \in {"IDLE", "READ", "WRITE"}
  /\ port.event_flag \in {0, 1}
  /\ port.counter \in Nat /\ port.count \in Nat
  /\ port.io \in Seq(Request) /\ Len(port.io) <= MaxIocbs
  /\ port.tx \in BOOLEAN /\ port.rx \in BOOLEAN
  /\ fault \in BOOLEAN

\* Output interrupts are enabled exactly while a write is under way: a write
\* never waits for an interrupt that is masked, and an idle port is never
\* interrupted for output.
TxIffWriting == port.tx <=> port.operation = "WRITE"

\* While an operation is under way the queue has a first iocb: the handlers
\* never follow a NULL io_head.
BusyHasRequest == port.operation # "IDLE" => port.io # <<>>

\* The index that the output handler uses stays within the length given to
\* serial_write (which sends one byte of an empty buffer).
CounterInRange ==
  port.operation = "WRITE" =>
    /\ 1 <= port.counter
    /\ port.counter <= port.count \/ port.counter = 1

\* A write that was started ends, unless received bytes keep waiting: the
\* handler does not read them, and they mask the output interrupt.  Every
\* output interrupt brings the write one byte closer to its end, whatever is
\* asked for in the meantime.
WriteEnds ==
  <>[](~port.rx) =>
    ((port.operation = "WRITE" /\ ~fault) ~> (port.operation # "WRITE" \/ fault))

\* What a write has put on the line is the beginning of its buffer, every byte
\* once and in order, with a stray byte before each one but the first, whatever
\* was asked for or typed in the meantime: as long as the request being written
\* is the one at the head of the queue.  (Every WRITE queues two iocbs and
\* completes one, so a write may start with an older iocb at the head.)
OwnBytes ==
  port.operation = "WRITE" /\ Head(port.io) = port.want[1] =>
    /\ Len(port.wire) = 2 * port.counter - 1
    /\ \A i \in 0 .. port.counter - 1 :
         port.wire[2 * i + 1] = Byte(Head(port.io).buf, i)
    /\ \A i \in 1 .. port.counter - 1 : port.wire[2 * i] = STRAY

\* kernel/serial.c line 510: "if the buffer is now full, or input was new-line,
\* signal completion".  A read of one character (every len is 1) for which a
\* character has arrived ends.
ReadEnds ==
  (port.operation = "READ" /\ port.rx /\ ~fault) ~> (port.operation # "READ" \/ fault)
=============================================================================
