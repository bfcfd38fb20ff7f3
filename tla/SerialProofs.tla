---------------------------- MODULE SerialProofs ----------------------------
(***************************************************************************)
(* The invariants of the serial driver, for every set of processes,        *)
(* buffers and lengths and every number of iocbs.                          *)
(*                                                                         *)
(* The invariants are stated of a device control block, so that a lemma    *)
(* about each operator of the driver says that it keeps them; the system   *)
(* call applies io_scheduler twice.                                        *)
(***************************************************************************)
EXTENDS Serial, TLAPS

Line == (Bufs \X Nat) \cup {STRAY}

Dcb ==
  [operation : {"IDLE", "READ", "WRITE"}, event_flag : {0, 1},
   counter : Nat, count : Nat, io : Seq(Request), tx : BOOLEAN,
   rx : BOOLEAN, wire : Seq(Line), want : Seq(Request)]

Sent(d, b) ==
  /\ Len(d.wire) = 2 * d.counter - 1
  /\ \A i \in 0 .. d.counter - 1 : d.wire[2 * i + 1] = Byte(b, i)
  /\ \A i \in 1 .. d.counter - 1 : d.wire[2 * i] = STRAY

\* The inductive invariant, of one device control block.
DcbInv(d) ==
  /\ d \in Dcb
  /\ Len(d.io) <= MaxIocbs
  /\ d.tx <=> d.operation = "WRITE"
  /\ d.operation # "IDLE" => d.io # <<>>
  /\ d.operation = "WRITE" =>
       /\ 1 <= d.counter
       /\ d.counter <= d.count \/ d.counter = 1
  /\ d.operation = "WRITE" /\ Head(d.io) = d.want[1] => Sent(d, Head(d.io).buf)

SerialInv == DcbInv(port) /\ fault \in BOOLEAN

\* Sequences: what appending does to the head.
LEMMA AppendFacts ==
  ASSUME NEW S, NEW s \in Seq(S), NEW e \in S
  PROVE  /\ Append(s, e) \in Seq(S)
         /\ Len(Append(s, e)) = Len(s) + 1
         /\ Append(s, e) # <<>>
         /\ s # <<>> => Head(Append(s, e)) = Head(s)
         /\ s = <<>> => Head(Append(s, e)) = e
<1>1. /\ Append(s, e) \in Seq(S)
      /\ Len(Append(s, e)) = Len(s) + 1
  OBVIOUS
<1>2. Append(s, e) # <<>>
  <2>1. Len(s) \in Nat /\ Len(<<>>) = 0
    OBVIOUS
  <2>2. Len(Append(s, e)) # Len(<<>>)
    BY <1>1, <2>1
  <2> QED  BY <2>2
<1>3. s # <<>> => Head(Append(s, e)) = Head(s)
  OBVIOUS
<1>4. s = <<>> => Head(Append(s, e)) = e
  OBVIOUS
<1> QED  BY <1>1, <1>2, <1>3, <1>4

\* Sequences: the places of s \o <<x, y>>, for what is on the line.
LEMMA ConcatTwo ==
  ASSUME NEW s \in Seq(Line), NEW x \in Line, NEW y \in Line, NEW n \in Nat,
         Len(s) = 2 * n - 1
  PROVE  /\ \A j \in 1 .. 2 * n - 1 : (s \o <<x, y>>)[j] = s[j]
         /\ (s \o <<x, y>>)[2 * n] = x
         /\ (s \o <<x, y>>)[2 * n + 1] = y
<1>1. <<x, y>> \in Seq(Line) /\ Len(<<x, y>>) = 2
  OBVIOUS
<1>2. \A t \in Seq(Line) : \A j \in 1 .. Len(s) + Len(t) :
        (s \o t)[j] = IF j <= Len(s) THEN s[j] ELSE t[j - Len(s)]
  OBVIOUS
<1>3. \A j \in 1 .. 2 * n + 1 :
        (s \o <<x, y>>)[j] = IF j <= 2 * n - 1 THEN s[j] ELSE <<x, y>>[j - (2 * n - 1)]
  <2>1. 2 * n - 1 + 2 = 2 * n + 1
    OBVIOUS
  <2> QED  BY <1>1, <1>2, <2>1
<1>4. 2 * n \in 1 .. 2 * n + 1 /\ ~(2 * n <= 2 * n - 1) /\ 2 * n - (2 * n - 1) = 1
  <2>1. n >= 1
    <3>1. Len(s) \in Nat
      OBVIOUS
    <3> QED  BY <3>1
  <2> QED  BY <2>1
<1>5. /\ 2 * n + 1 \in 1 .. 2 * n + 1 /\ ~(2 * n + 1 <= 2 * n - 1)
      /\ 2 * n + 1 - (2 * n - 1) = 2
  OBVIOUS
<1>6. (s \o <<x, y>>)[2 * n] = <<x, y>>[1]
  BY <1>3, <1>4
<1>7. (s \o <<x, y>>)[2 * n + 1] = <<x, y>>[2]
  BY <1>3, <1>5
<1>8. \A j \in 1 .. 2 * n - 1 : (s \o <<x, y>>)[j] = s[j]
  BY <1>3
<1> QED  BY <1>6, <1>7, <1>8

\* serial_open leaves a device control block that satisfies the invariant.
LEMMA OpenInv == DcbInv(serial_open)
<1>1. serial_open \in Dcb
  BY DEF serial_open, Dcb
<1>2. Len(serial_open.io) <= MaxIocbs
  BY SerialAssumption DEF serial_open
<1> QED
  BY <1>1, <1>2 DEF serial_open, DcbInv

\* serial_write begins a write of a queued request on an idle port.
LEMMA WriteInv ==
  ASSUME NEW d \in Dcb, Len(d.io) <= MaxIocbs, d.io # <<>>,
         NEW r \in Request
  PROVE  DcbInv(serial_write(d, r))
<1> DEFINE e == serial_write(d, r)
<1>1. /\ r.len \in Nat /\ r.buf \in Bufs
  BY SerialAssumption DEF Request
<1>2. Byte(r.buf, 0) \in Line
  BY <1>1 DEF Byte, Line
<1>3. <<Byte(r.buf, 0)>> \in Seq(Line) /\ <<r>> \in Seq(Request)
  BY <1>2
<1>4. e \in Dcb
  BY <1>1, <1>3 DEF serial_write, Dcb
<1>5. /\ e.operation = "WRITE" /\ e.tx = TRUE /\ e.counter = 1
      /\ e.io = d.io /\ e.wire = <<Byte(r.buf, 0)>> /\ e.want = <<r>>
  BY DEF serial_write, Dcb
<1>6. Head(e.io) = e.want[1] => Sent(e, Head(e.io).buf)
  <2> SUFFICES ASSUME Head(e.io) = e.want[1] PROVE Sent(e, Head(e.io).buf)
    OBVIOUS
  <2>1. Head(e.io) = r
    BY <1>5
  <2>2. Len(e.wire) = 1 /\ e.wire[1] = Byte(r.buf, 0)
    BY <1>5
  <2> HIDE DEF e
  <2>3. Len(e.wire) = 2 * e.counter - 1
    BY <2>2, <1>5
  <2>4. \A i \in 0 .. e.counter - 1 : e.wire[2 * i + 1] = Byte(r.buf, i)
    <3> SUFFICES ASSUME NEW i \in 0 .. e.counter - 1
                 PROVE  e.wire[2 * i + 1] = Byte(r.buf, i)
      OBVIOUS
    <3>1. i = 0
      BY <1>5
    <3>2. 2 * i + 1 = 1
      BY <3>1
    <3> QED  BY <3>1, <3>2, <2>2
  <2>5. \A i \in 1 .. e.counter - 1 : e.wire[2 * i] = STRAY
    BY <1>5
  <2> QED  BY <2>1, <2>3, <2>4, <2>5 DEF Sent
<1> QED
  BY <1>4, <1>5, <1>6 DEF DcbInv

\* io_scheduler keeps the invariant as long as there is memory for the iocb.
LEMMA SchedulerInv ==
  ASSUME NEW d, DcbInv(d), NEW r \in Request, ~NoIocb(d, r)
  PROVE  DcbInv(io_scheduler(d, r))
<1>0. CASE ~r.valid
  BY <1>0 DEF io_scheduler
<1>1. CASE r.valid
  <2> DEFINE e == [d EXCEPT !.io = Append(@, r)]
  <2>1. d \in Dcb /\ d.io \in Seq(Request)
    BY DEF DcbInv, Dcb
  <2>2. /\ Append(d.io, r) \in Seq(Request)
        /\ Len(Append(d.io, r)) = Len(d.io) + 1
        /\ Append(d.io, r) # <<>>
        /\ d.io # <<>> => Head(Append(d.io, r)) = Head(d.io)
    BY <2>1, AppendFacts
  <2>3. Len(d.io) + 1 <= MaxIocbs
    <3>1. Len(d.io) \in Nat
      BY <2>1
    <3> QED  BY <3>1, <1>1, SerialAssumption DEF NoIocb
  <2>4. e \in Dcb /\ e.io = Append(d.io, r)
    BY <2>1, <2>2 DEF Dcb
  <2>5. /\ e.operation = d.operation /\ e.counter = d.counter /\ e.count = d.count
        /\ e.tx = d.tx /\ e.wire = d.wire /\ e.want = d.want
    BY <2>1 DEF Dcb
  <2>6. io_scheduler(d, r) = Start(e, r)
    BY <1>1 DEF io_scheduler
  <2> HIDE DEF e
  <2>7. CASE e.operation # "IDLE"
    <3>1. Start(e, r) = e
      BY <2>7 DEF Start
    <3>2. d.io # <<>>
      BY <2>7, <2>5 DEF DcbInv
    <3>3. Head(e.io) = Head(d.io)
      BY <3>2, <2>2, <2>4
    <3>4. Sent(d, Head(d.io).buf) => Sent(e, Head(e.io).buf)
      BY <3>3, <2>5 DEF Sent
    <3>5. DcbInv(e)
      BY <2>2, <2>3, <2>4, <2>5, <3>3, <3>4 DEF DcbInv
    <3> QED  BY <3>1, <3>5, <2>6
  <2>8. CASE e.operation = "IDLE" /\ r.op = "WRITE"
    <3>1. Start(e, r) = serial_write(e, r)
      BY <2>8 DEF Start
    <3>2. DcbInv(serial_write(e, r))
      BY <2>2, <2>3, <2>4, WriteInv
    <3> QED  BY <3>1, <3>2, <2>6
  <2>9. CASE e.operation = "IDLE" /\ r.op = "READ"
    <3>1. Start(e, r) = serial_read(e, r)
      BY <2>9 DEF Start
    <3>2. e.tx = FALSE
      BY <2>9, <2>5, <2>4, <2>1 DEF DcbInv, Dcb
    <3>3. DcbInv(e)
      BY <2>9, <2>2, <2>3, <2>4, <3>2 DEF DcbInv
    <3>4. DcbInv([e EXCEPT !.operation = "READ", !.event_flag = 0])
      BY <2>9, <2>2, <2>3, <2>4, <3>2 DEF DcbInv, Dcb
    <3> QED  BY <3>1, <3>3, <3>4, <2>6 DEF serial_read
  <2>10. r.op \in {"READ", "WRITE"}
    BY DEF Request
  <2> QED  BY <2>7, <2>8, <2>9, <2>10
<1> QED  BY <1>0, <1>1

\* The next byte: the line holds one stray byte and one byte of the buffer more.
LEMMA SendNextInv ==
  ASSUME NEW d, DcbInv(d), d.operation = "WRITE", MoreToWrite(d)
  PROVE  DcbInv(SendNext(d))
<1> DEFINE b == Head(d.io).buf
           e == SendNext(d)
<1>1. /\ d \in Dcb /\ d.io \in Seq(Request) /\ d.io # <<>>
      /\ d.counter \in Nat /\ d.count \in Nat /\ d.counter < d.count
      /\ 1 <= d.counter /\ d.wire \in Seq(Line)
  BY DEF DcbInv, Dcb, MoreToWrite
<1>2. b \in Bufs
  <2>1. Head(d.io) \in Request
    BY <1>1
  <2> QED  BY <2>1 DEF Request
<1>3. Byte(b, d.counter) \in Line /\ STRAY \in Line
  BY <1>1, <1>2 DEF Byte, Line
<1>4. <<STRAY, Byte(b, d.counter)>> \in Seq(Line)
  BY <1>3
<1>5. d.wire \o <<STRAY, Byte(b, d.counter)>> \in Seq(Line)
  BY <1>1, <1>4
<1>6. e \in Dcb
  <2>1. d.counter + 1 \in Nat
    BY <1>1
  <2>2. e = [d EXCEPT !.wire = d.wire \o <<STRAY, Byte(b, d.counter)>>,
                      !.counter = d.counter + 1]
    BY <1>1 DEF SendNext, Dcb
  <2> HIDE DEF e, b
  <2> QED  BY <1>1, <1>5, <2>1, <2>2 DEF Dcb
<1>7. /\ e.operation = "WRITE" /\ e.tx = d.tx /\ e.counter = d.counter + 1
      /\ e.count = d.count /\ e.io = d.io /\ e.want = d.want
      /\ e.wire = d.wire \o <<STRAY, Byte(b, d.counter)>>
  BY <1>1 DEF SendNext, Dcb
<1> HIDE DEF e
<1>8. ASSUME Sent(d, b) PROVE Sent(e, b)
  <2> DEFINE n == d.counter
  <2>1. Len(d.wire) = 2 * n - 1
    BY <1>8 DEF Sent
  <2>2. Len(e.wire) = Len(d.wire) + 2
    BY <1>1, <1>4, <1>7
  <2>3. /\ \A j \in 1 .. 2 * n - 1 : e.wire[j] = d.wire[j]
        /\ e.wire[2 * n] = STRAY
        /\ e.wire[2 * n + 1] = Byte(b, n)
    <3> DEFINE y == Byte(b, n)
    <3>1. d.wire \in Seq(Line) /\ n \in Nat /\ STRAY \in Line /\ y \in Line
      BY <1>1, <1>3
    <3>2. e.wire = d.wire \o <<STRAY, y>>
      BY <1>7
    <3> HIDE DEF y, n
    <3>3. /\ \A j \in 1 .. 2 * n - 1 : (d.wire \o <<STRAY, y>>)[j] = d.wire[j]
          /\ (d.wire \o <<STRAY, y>>)[2 * n] = STRAY
          /\ (d.wire \o <<STRAY, y>>)[2 * n + 1] = y
      <4> DEFINE w == d.wire
                 z == STRAY
      <4>1. w \in Seq(Line) /\ n \in Nat /\ z \in Line /\ y \in Line /\ Len(w) = 2 * n - 1
        BY <3>1, <2>1
      <4> HIDE DEF w, z
      <4>2. \A j \in 1 .. 2 * n - 1 : (w \o <<z, y>>)[j] = w[j]
        BY <4>1, ConcatTwo
      <4>3. (w \o <<z, y>>)[2 * n] = z
        BY <4>1, ConcatTwo
      <4>4. (w \o <<z, y>>)[2 * n + 1] = y
        BY <4>1, ConcatTwo
      <4> QED  BY <4>2, <4>3, <4>4 DEF w, z
    <3> QED  BY <3>2, <3>3 DEF y
  <2> HIDE DEF b
  <2>4. Len(e.wire) = 2 * e.counter - 1
    BY <2>1, <2>2, <1>7, <1>1
  <2>5. \A i \in 0 .. e.counter - 1 : e.wire[2 * i + 1] = Byte(b, i)
    <3> SUFFICES ASSUME NEW i \in 0 .. e.counter - 1
                 PROVE  e.wire[2 * i + 1] = Byte(b, i)
      OBVIOUS
    <3>1. CASE i = n
      BY <3>1, <2>3
    <3>2. CASE i # n
      <4>1. i \in 0 .. n - 1
        BY <3>2, <1>7, <1>1
      <4>2. 2 * i + 1 \in 1 .. 2 * n - 1
        BY <4>1, <1>1
      <4>3. d.wire[2 * i + 1] = Byte(b, i)
        BY <4>1, <1>8 DEF Sent
      <4> QED  BY <4>2, <4>3, <2>3
    <3> QED  BY <3>1, <3>2
  <2>6. \A i \in 1 .. e.counter - 1 : e.wire[2 * i] = STRAY
    <3> SUFFICES ASSUME NEW i \in 1 .. e.counter - 1
                 PROVE  e.wire[2 * i] = STRAY
      OBVIOUS
    <3>1. CASE i = n
      BY <3>1, <2>3
    <3>2. CASE i # n
      <4>1. i \in 1 .. n - 1
        BY <3>2, <1>7, <1>1
      <4>2. 2 * i \in 1 .. 2 * n - 1
        BY <4>1, <1>1
      <4>3. d.wire[2 * i] = STRAY
        BY <4>1, <1>8 DEF Sent
      <4> QED  BY <4>2, <4>3, <2>3
    <3> QED  BY <3>1, <3>2
  <2> QED  BY <2>4, <2>5, <2>6 DEF Sent
<1>9. Head(e.io) = e.want[1] => Sent(e, Head(e.io).buf)
  BY <1>7, <1>8 DEF DcbInv
<1>10. 1 <= e.counter /\ e.counter <= e.count
  BY <1>1, <1>7
<1>11. e.tx <=> e.operation = "WRITE"
  BY <1>7 DEF DcbInv
<1>12. Len(e.io) <= MaxIocbs /\ e.io # <<>>
  BY <1>1, <1>7 DEF DcbInv
<1>13. DcbInv(e)
  BY <1>6, <1>7, <1>9, <1>10, <1>11, <1>12, Zenon DEF DcbInv
<1> QED  BY <1>13 DEF e

\* The end of a write.
LEMMA CompleteInv ==
  ASSUME NEW d, DcbInv(d), d.operation = "WRITE"
  PROVE  DcbInv(Complete(d))
<1> DEFINE e == Complete(d)
<1>1. /\ d \in Dcb /\ d.io \in Seq(Request) /\ d.io # <<>> /\ d.wire \in Seq(Line)
      /\ Len(d.io) <= MaxIocbs
  BY DEF DcbInv, Dcb
<1>2. Tail(d.io) \in Seq(Request) /\ Len(Tail(d.io)) = Len(d.io) - 1
  BY <1>1
<1>3. Append(d.wire, STRAY) \in Seq(Line)
  BY <1>1 DEF Line
<1>4. e \in Dcb
  BY <1>1, <1>2, <1>3 DEF Complete, Dcb
<1>5. e.operation = "IDLE" /\ e.tx = FALSE /\ e.io = Tail(d.io)
  BY <1>1 DEF Complete, Dcb
<1>6. Len(e.io) <= MaxIocbs
  <2>1. Len(d.io) \in Nat
    BY <1>1
  <2> QED  BY <2>1, <1>1, <1>2, <1>5, SerialAssumption
<1>7. /\ e.tx <=> e.operation = "WRITE"
      /\ e.operation # "WRITE"
      /\ e.operation # "IDLE" => e.io # <<>>
  BY <1>5
<1> HIDE DEF e
<1>8. DcbInv(e)
  BY <1>4, <1>6, <1>7, Zenon DEF DcbInv
<1> QED  BY <1>8 DEF e

\* The interrupt handler.
LEMMA InterruptInv ==
  ASSUME NEW d, DcbInv(d)
  PROVE  DcbInv(serial_interrupt(d))
<1>1. CASE d.rx
  <2>1. serial_interrupt(d) = serial_input_interrupt(d)
    BY <1>1 DEF serial_interrupt
  <2>2. CASE d.operation = "READ"
    <3>1. <<STRAY>> \in Seq(Line)
      BY DEF Line
    <3>2. serial_input_interrupt(d) = [d EXCEPT !.wire = <<STRAY>>]
      BY <2>2 DEF serial_input_interrupt
    <3>3. DcbInv([d EXCEPT !.wire = <<STRAY>>])
      BY <2>2, <3>1 DEF DcbInv, Dcb
    <3> QED  BY <2>1, <3>2, <3>3
  <2>3. CASE d.operation # "READ"
    BY <2>1, <2>3 DEF serial_input_interrupt
  <2> QED  BY <2>2, <2>3
<1>2. CASE ~d.rx
  <2>1. serial_interrupt(d) = serial_output_interrupt(d)
    BY <1>2 DEF serial_interrupt
  <2>2. CASE d.operation # "WRITE"
    BY <2>1, <2>2 DEF serial_output_interrupt
  <2>3. CASE d.operation = "WRITE" /\ MoreToWrite(d)
    <3>1. serial_output_interrupt(d) = SendNext(d)
      BY <2>3 DEF serial_output_interrupt
    <3> QED  BY <2>1, <2>3, <3>1, SendNextInv
  <2>4. CASE d.operation = "WRITE" /\ ~MoreToWrite(d)
    <3>1. serial_output_interrupt(d) = Complete(d)
      BY <2>4 DEF serial_output_interrupt
    <3> QED  BY <2>1, <2>4, <3>1, CompleteInv
  <2> QED  BY <2>2, <2>3, <2>4
<1> QED  BY <1>1, <1>2

\* A byte received, or taken by serial_poll, changes rx only.
LEMMA RxInv ==
  ASSUME NEW d, DcbInv(d), NEW v \in BOOLEAN
  PROVE  DcbInv([d EXCEPT !.rx = v])
<1> DEFINE e == [d EXCEPT !.rx = v]
<1>1. d \in Dcb
  BY DEF DcbInv
<1>2. e \in Dcb
  BY <1>1 DEF Dcb
<1>3. /\ e.operation = d.operation /\ e.counter = d.counter /\ e.count = d.count
      /\ e.tx = d.tx /\ e.wire = d.wire /\ e.want = d.want /\ e.io = d.io
  BY <1>1 DEF Dcb
<1> HIDE DEF e
<1>4. Sent(d, Head(d.io).buf) => Sent(e, Head(e.io).buf)
  BY <1>3 DEF Sent
<1>5. /\ Len(e.io) <= MaxIocbs
      /\ e.tx <=> e.operation = "WRITE"
      /\ e.operation # "IDLE" => e.io # <<>>
      /\ e.operation = "WRITE" =>
           /\ 1 <= e.counter
           /\ e.counter <= e.count \/ e.counter = 1
      /\ e.operation = "WRITE" /\ Head(e.io) = e.want[1] => Sent(e, Head(e.io).buf)
  BY <1>3, <1>4, Zenon DEF DcbInv
<1>6. DcbInv(e)
  BY <1>2, <1>5, Zenon DEF DcbInv
<1> QED  BY <1>6 DEF e

\* A request: io_scheduler once, or twice for a WRITE.
LEMMA SysCallInv ==
  ASSUME NEW d, DcbInv(d), NEW r \in Request, ~SysCallIoFaults(d, r)
  PROVE  DcbInv(SysCallIo(d, r))
<1>1. DcbInv(io_scheduler(d, r))
  BY SchedulerInv DEF SysCallIoFaults
<1>2. CASE r.op = "WRITE"
  <2>1. ~NoIocb(io_scheduler(d, r), r)
    BY <1>2 DEF SysCallIoFaults
  <2>2. DcbInv(io_scheduler(io_scheduler(d, r), r))
    BY <1>1, <2>1, SchedulerInv
  <2> QED  BY <1>2, <2>2 DEF SysCallIo
<1>3. CASE r.op # "WRITE"
  BY <1>1, <1>3 DEF SysCallIo
<1> QED  BY <1>2, <1>3

\* The invariant of the driver holds in every state that requests, interrupts,
\* keys and polling reach.
THEOREM SerialInvariant == Spec => []SerialInv
<1>1. Init => SerialInv
  BY OpenInv DEF Init, SerialInv
<1>2. SerialInv /\ [Next]_svars => SerialInv'
  <2> SUFFICES ASSUME SerialInv, [Next]_svars PROVE SerialInv'
    OBVIOUS
  <2>0. DcbInv(port) /\ fault \in BOOLEAN
    BY DEF SerialInv
  <2>1. ASSUME NEW r \in Request, Submit(r) PROVE SerialInv'
    <3>1. CASE SysCallIoFaults(port, r)
      BY <2>0, <2>1, <3>1 DEF Submit, SerialInv
    <3>2. CASE ~SysCallIoFaults(port, r)
      <4>1. port' = SysCallIo(port, r) /\ fault' = fault
        BY <2>1, <3>2 DEF Submit
      <4>2. DcbInv(SysCallIo(port, r))
        BY <2>0, <3>2, SysCallInv
      <4> QED  BY <2>0, <4>1, <4>2 DEF SerialInv
    <3> QED  BY <3>1, <3>2
  <2>2. CASE Interrupt
    <3>1. DcbInv(serial_interrupt(port))
      BY <2>0, InterruptInv
    <3> QED  BY <2>0, <2>2, <3>1 DEF Interrupt, SerialInv
  <2>3. CASE KeyPressed
    <3>1. DcbInv([port EXCEPT !.rx = TRUE])
      BY <2>0, RxInv
    <3> QED  BY <2>0, <2>3, <3>1 DEF KeyPressed, SerialInv
  <2>4. CASE serial_poll
    <3>1. DcbInv([port EXCEPT !.rx = FALSE])
      BY <2>0, RxInv
    <3> QED  BY <2>0, <2>4, <3>1 DEF serial_poll, SerialInv
  <2>5. CASE UNCHANGED svars
    BY <2>0, <2>5 DEF svars, SerialInv
  <2> QED  BY <2>1, <2>2, <2>3, <2>4, <2>5 DEF Next
<1> QED  BY <1>1, <1>2, PTL DEF Spec

\* The device control block keeps its types and the iocbs queued never exceed
\* the memory for them.
THEOREM SerialTypes == Spec => []TypeOK
<1>1. SerialInv => TypeOK
  BY DEF SerialInv, DcbInv, Dcb, TypeOK
<1> QED  BY <1>1, SerialInvariant, PTL

\* Output interrupts are enabled exactly during a write.
THEOREM AlwaysTx == Spec => []TxIffWriting
<1>1. SerialInv => TxIffWriting
  BY DEF SerialInv, DcbInv, TxIffWriting
<1> QED  BY <1>1, SerialInvariant, PTL

\* The handlers never follow a NULL io_head.
THEOREM AlwaysRequest == Spec => []BusyHasRequest
<1>1. SerialInv => BusyHasRequest
  BY DEF SerialInv, DcbInv, BusyHasRequest
<1> QED  BY <1>1, SerialInvariant, PTL

\* The output handler's index stays within the length given to serial_write.
THEOREM AlwaysInRange == Spec => []CounterInRange
<1>1. SerialInv => CounterInRange
  BY DEF SerialInv, DcbInv, CounterInRange
<1> QED  BY <1>1, SerialInvariant, PTL

\* A write whose request heads the queue puts its own bytes on the line, in
\* order and each once.
THEOREM AlwaysOwnBytes == Spec => []OwnBytes
<1>1. SerialInv => OwnBytes
  BY DEF SerialInv, DcbInv, OwnBytes, Sent
<1> QED  BY <1>1, SerialInvariant, PTL
=============================================================================
