----------------------------- MODULE InputProofs ----------------------------
(***************************************************************************)
(* What the operator types: the clock commands that take it, serial_poll,  *)
(* which delivers it to them, and the C library that cuts it up.           *)
(*                                                                         *)
(* The clock commands for every set of lines, moments and junk: interrupts *)
(* are enabled whenever the menu is reached, the registers stay valid, the *)
(* program writes the running registers only with interrupts disabled, and *)
(* what was typed is what is shown.  Their proofs leave open what the      *)
(* string operators return.                                                *)
(***************************************************************************)
EXTENDS Clock, SerialPoll, Strtok, SequenceTheorems, FiniteSetTheorems, TLAPS

AllRegs == Running \cup Regs(AlarmRegs)

\* A value that the register r may hold.
Valid(r, v) ==
  /\ r = "DAY" => v \in BcdIn(1 .. 31)
  /\ r = "MONTH" => v \in BcdIn(1 .. 12)
  /\ r = "YEAR" => v \in BcdIn(0 .. 99)
  /\ r = "ALARM_HR" => v \in 0 .. 23
  /\ r \in {"ALARM_MIN", "ALARM_SEC"} => v \in 0 .. 59

\* A list of writes that a command may have in front of it.
ValidWrites(c, s) ==
  /\ s \in Seq(AllRegs \X Byte)
  /\ \A k \in DOMAIN s :
       /\ Valid(s[k][1], s[k][2])
       /\ c = "alarm" => s[k][1] \in Regs(AlarmRegs)

RtcInv == rtc \in [AllRegs -> Byte] /\ \A r \in AllRegs : Valid(r, rtc[r])

\* Where the interrupt flag is set and where it is not.
MaskInv ==
  /\ iflag \in BOOLEAN
  /\ at \notin {"date line", "writing", "stopped"} => iflag
  /\ at = "date line" => ~iflag /\ cmd = "setdate"
  /\ at = "time line" => cmd = "settime"
  /\ at \in {"alarm time", "alarm name"} => cmd = "alarm"
  /\ at = "writing" => (iflag <=> cmd = "alarm")

TodoInv == at = "writing" => ValidWrites(cmd, todo)

ClockInv == RtcInv /\ MaskInv /\ TodoInv

\* The names of the registers.
LEMMA RegNames ==
  /\ Regs(DateRegs) = {"DAY", "MONTH", "YEAR"}
  /\ Regs(TimeRegs) = {"HOURS", "MINUTES", "SECONDS"}
  /\ Regs(AlarmRegs) = {"ALARM_HR", "ALARM_MIN", "ALARM_SEC"}
<1>1. Regs(DateRegs) = {"DAY", "MONTH", "YEAR"}
  BY DEF Regs, DateRegs
<1>2. Regs(TimeRegs) = {"HOURS", "MINUTES", "SECONDS"}
  BY DEF Regs, TimeRegs
<1>3. Regs(AlarmRegs) = {"ALARM_HR", "ALARM_MIN", "ALARM_SEC"}
  BY DEF Regs, AlarmRegs
<1> QED  BY <1>1, <1>2, <1>3

\* The digits of a number of two digits become the nibbles of its BCD byte.
LEMMA BcdDigits ==
  ASSUME NEW v \in 0 .. 99
  PROVE  /\ Bcd(v) \in Byte
         /\ Bcd(v) \div 16 <= 9 /\ Bcd(v) % 16 <= 9
         /\ 10 * (Bcd(v) \div 16) + (Bcd(v) % 16) = v
<1> DEFINE a == v \div 10
           b == v - 10 * a
<1>1. a \in 0 .. 9 /\ b \in 0 .. 9
  OBVIOUS
<1>2. Bcd(v) = (a * 16 + b) % 256
  BY DEF Bcd, Quot, Rem
<1>3. v = 10 * a + b
  BY <1>1
<1> HIDE DEF a, b
<1>4. Bcd(v) = a * 16 + b
  BY <1>1, <1>2
<1>5. (a * 16 + b) \div 16 = a /\ (a * 16 + b) % 16 = b
  BY <1>1
<1> QED  BY <1>1, <1>3, <1>4, <1>5 DEF Byte

\* Three writes of valid values are a valid list of writes.
LEMMA WritesValid ==
  ASSUME NEW c, NEW regs, NEW vals,
         regs \in {DateRegs, TimeRegs, AlarmRegs},
         c = "alarm" => regs = AlarmRegs,
         \A k \in 1 .. 3 : vals[k] \in Byte /\ Valid(regs[k], vals[k])
  PROVE  ValidWrites(c, Writes(regs, vals))
<1> DEFINE s == Writes(regs, vals)
<1>1. \A k \in 1 .. 3 : regs[k] \in AllRegs
  BY RegNames DEF DateRegs, TimeRegs, AlarmRegs, AllRegs, Running
<1>2. DOMAIN s = 1 .. 3 /\ \A k \in 1 .. 3 : s[k] = <<regs[k], vals[k]>>
  BY DEF Writes
<1>3. s \in [1 .. 3 -> AllRegs \X Byte]
  BY <1>1 DEF Writes
<1>4. s \in Seq(AllRegs \X Byte)
  <2>1. 3 \in Nat
    OBVIOUS
  <2> HIDE DEF s
  <2>2. s \in UNION {[1 .. n -> AllRegs \X Byte] : n \in Nat}
    BY <1>3, <2>1
  <2> QED  BY <2>2, SeqDef
<1>5. ASSUME NEW k \in 1 .. 3
      PROVE  /\ Valid(s[k][1], s[k][2])
             /\ c = "alarm" => s[k][1] \in Regs(AlarmRegs)
  <2>1. s[k][1] = regs[k] /\ s[k][2] = vals[k]
    BY <1>2
  <2>2. c = "alarm" => regs[k] \in Regs(AlarmRegs)
    BY RegNames DEF AlarmRegs
  <2> QED  BY <2>1, <2>2
<1> HIDE DEF s
<1> QED  BY <1>2, <1>4, <1>5 DEF ValidWrites, s

\* What setdate writes is valid when the date has passed its test.
LEMMA DateWrites ==
  ASSUME NEW c, NEW d, ValidDate(d), c # "alarm"
  PROVE  ValidWrites(c, Writes(DateRegs, <<Bcd(d[1]), Bcd(d[2]), Bcd(d[3])>>))
<1> DEFINE v == <<Bcd(d[1]), Bcd(d[2]), Bcd(d[3])>>
<1>1. d[1] \in 1 .. 31 /\ d[2] \in 1 .. 12 /\ d[3] \in 0 .. 99
  BY DEF ValidDate
<1>2. /\ Bcd(d[1]) \in BcdIn(1 .. 31)
      /\ Bcd(d[2]) \in BcdIn(1 .. 12)
      /\ Bcd(d[3]) \in BcdIn(0 .. 99)
  <2>1. d[1] \in 0 .. 99 /\ d[2] \in 0 .. 99
    BY <1>1
  <2> QED  BY <1>1, <2>1, BcdDigits DEF BcdIn
<1>3. \A k \in 1 .. 3 : v[k] \in Byte /\ Valid(DateRegs[k], v[k])
  BY <1>2 DEF BcdIn, Valid, DateRegs
<1> HIDE DEF v
<1>4. ValidWrites(c, Writes(DateRegs, v))
  BY <1>3, WritesValid
<1> QED  BY <1>4 DEF v

\* What settime and alarm write is valid when the time has passed its test.
LEMMA TimeWrites ==
  ASSUME NEW c, NEW t, ValidTime(t), NEW regs \in {TimeRegs, AlarmRegs},
         c = "alarm" => regs = AlarmRegs
  PROVE  ValidWrites(c, Writes(regs, t))
<1>1. t[1] \in 0 .. 23 /\ t[2] \in 0 .. 59 /\ t[3] \in 0 .. 59
  BY DEF ValidTime
<1>2. \A k \in 1 .. 3 : t[k] \in Byte
  BY <1>1 DEF Byte
<1>3. \A k \in 1 .. 3 : Valid(TimeRegs[k], t[k])
  BY DEF Valid, TimeRegs
<1>4. \A k \in 1 .. 3 : Valid(AlarmRegs[k], t[k])
  BY <1>1 DEF Valid, AlarmRegs
<1>5. \A k \in 1 .. 3 : t[k] \in Byte /\ Valid(regs[k], t[k])
  BY <1>2, <1>3, <1>4
<1> QED  BY <1>5, WritesValid

\* A moment of the clock leaves the registers valid.
LEMMA MomentInv ==
  ASSUME NEW m \in Moments, NEW f \in [AllRegs -> Byte],
         \A r \in AllRegs : Valid(r, f[r])
  PROVE  LET g == [r \in AllRegs |-> IF r \in Running THEN m[r] ELSE f[r]]
         IN  g \in [AllRegs -> Byte] /\ \A r \in AllRegs : Valid(r, g[r])
<1> DEFINE g == [r \in AllRegs |-> IF r \in Running THEN m[r] ELSE f[r]]
<1>1. m \in [Running -> Byte]
  BY ClockAssumption
<1>2. \A r \in Running : Valid(r, m[r])
  <2>1. /\ m["DAY"] \in BcdIn(1 .. 31) /\ m["MONTH"] \in BcdIn(1 .. 12)
        /\ m["YEAR"] \in BcdIn(0 .. 99)
    BY ClockAssumption
  <2>2. "ALARM_HR" \notin Running /\ "ALARM_MIN" \notin Running /\ "ALARM_SEC" \notin Running
    BY RegNames DEF Running
  <2> QED  BY <2>1, <2>2 DEF Valid
<1>3. g \in [AllRegs -> Byte]
  BY <1>1 DEF AllRegs
<1>4. \A r \in AllRegs : Valid(r, g[r])
  BY <1>2
<1> QED  BY <1>3, <1>4

\* The first of the writes is done: the registers and the rest of the list stay
\* valid.
LEMMA WriteInv ==
  ASSUME RtcInv, ValidWrites(cmd, todo), todo # << >>,
         rtc' = [rtc EXCEPT ![todo[1][1]] = todo[1][2]],
         todo' = Tail(todo)
  PROVE  RtcInv' /\ ValidWrites(cmd, todo')
<1>1. todo \in Seq(AllRegs \X Byte) /\ 1 \in DOMAIN todo
  BY DEF ValidWrites
<1>2. todo[1][1] \in AllRegs /\ todo[1][2] \in Byte /\ Valid(todo[1][1], todo[1][2])
  BY <1>1 DEF ValidWrites
<1>3. RtcInv'
  BY <1>2 DEF RtcInv
<1>4. /\ Tail(todo) \in Seq(AllRegs \X Byte)
      /\ \A k \in DOMAIN Tail(todo) : k + 1 \in DOMAIN todo /\ Tail(todo)[k] = todo[k + 1]
  BY <1>1
<1>5. ValidWrites(cmd, Tail(todo))
  BY <1>4 DEF ValidWrites
<1> QED  BY <1>3, <1>5

\* Back at the menu with interrupts enabled, and nothing written on the way.
LEMMA ReturnInv ==
  ASSUME RtcInv, Return, iflag' = TRUE, UNCHANGED rtc
  PROVE  ClockInv'
<1>1. at' = "menu"
  BY DEF Return
<1> QED  BY <1>1 DEF ClockInv, RtcInv, MaskInv, TodoInv

\* kpanic() promises nothing but the registers.
LEMMA StopInv ==
  ASSUME RtcInv, MaskInv, Stop, UNCHANGED rtc
  PROVE  ClockInv'
<1>1. at' = "stopped" /\ iflag' = iflag
  BY DEF Stop
<1> QED  BY <1>1 DEF ClockInv, RtcInv, MaskInv, TodoInv

\* The inductive invariant: the flag follows the place in the program, and the
\* writes still to come are valid.
THEOREM ClockInvariant == Spec => []ClockInv
<1>1. Init => ClockInv
  <2> SUFFICES ASSUME Init PROVE ClockInv
    OBVIOUS
  <2>1. PICK m \in Moments :
          rtc = [r \in AllRegs |-> IF r \in Running THEN m[r] ELSE 0]
    BY DEF Init, AllRegs
  <2> DEFINE z == [r \in AllRegs |-> IF r = "DAY" \/ r = "MONTH" THEN 1 ELSE 0]
  <2>2. z \in [AllRegs -> Byte] /\ \A r \in AllRegs : Valid(r, z[r])
    BY DEF Byte, Valid, BcdIn
  <2>3. rtc = [r \in AllRegs |-> IF r \in Running THEN m[r] ELSE z[r]]
    BY <2>1, RegNames DEF Running, AllRegs
  <2> HIDE DEF z
  <2>4. RtcInv
    BY <2>2, <2>3, MomentInv DEF RtcInv
  <2> QED  BY <2>4 DEF Init, ClockInv, MaskInv, TodoInv
<1>2. ClockInv /\ [Next]_vars => ClockInv'
  <2> SUFFICES ASSUME ClockInv, [Next]_vars PROVE ClockInv'
    OBVIOUS
  <2>0. RtcInv /\ MaskInv /\ TodoInv
    BY DEF ClockInv
  <2>1. CASE Command
    <3>1. RtcInv'
      BY <2>0, <2>1 DEF RtcInv, Command, set_date, get_date, get_time, set_time, alarm
    <3>2. MaskInv' /\ at' # "writing"
      BY <2>0, <2>1 DEF MaskInv, Command, set_date, get_date, get_time, set_time,
         alarm, Typed, GoRead
    <3> QED  BY <3>1, <3>2 DEF ClockInv, TodoInv
  <2>2. ASSUME NEW l \in Lines, DateLine(l) PROVE ClockInv'
    <3> DEFINE w == Word(Polled(l, NUL))
               d == <<Pair(w, 1), Pair(w, 4), Pair(w, 7)>>
    <3>1. at = "date line" /\ UNCHANGED rtc
      BY <2>2 DEF DateLine
    <3>2. CASE DateRefused
      BY <2>0, <3>1, <3>2, ReturnInv DEF DateRefused
    <3>3. CASE Stop
      BY <2>0, <3>1, <3>3, StopInv
    <3>4. CASE /\ ValidDate(d)
               /\ GoWrite(DateRegs, <<Bcd(d[1]), Bcd(d[2]), Bcd(d[3])>>)
               /\ UNCHANGED <<cmd, iflag>>
      <4> HIDE DEF d
      <4>1. cmd' = "setdate" /\ at' = "writing" /\ iflag' = FALSE
        BY <2>0, <3>1, <3>4 DEF MaskInv, GoWrite
      <4>2. ValidWrites(cmd', todo')
        BY <3>4, <4>1, DateWrites DEF GoWrite
      <4> QED  BY <2>0, <3>1, <4>1, <4>2 DEF ClockInv, RtcInv, MaskInv, TodoInv
    <3>5. \/ DateRefused
          \/ Stop
          \/ /\ ValidDate(d)
             /\ GoWrite(DateRegs, <<Bcd(d[1]), Bcd(d[2]), Bcd(d[3])>>)
             /\ UNCHANGED <<cmd, iflag>>
      BY <2>2 DEF DateLine
    <3> QED  BY <3>2, <3>3, <3>4, <3>5
  <2>3. ASSUME NEW l \in Lines, TimeLine(l) PROVE ClockInv'
    <3>1. at = "time line" /\ UNCHANGED rtc /\ cmd = "settime" /\ iflag
      BY <2>0, <2>3 DEF TimeLine, MaskInv
    <3>2. PICK rest \in Junk, j \in Junk, k \in Junk :
            LET t == Parsed(Polled(l, rest), j, k)
            IN  IF nread(l) >= 5 /\ ValidTime(t)
                THEN /\ Mask /\ GoWrite(TimeRegs, t)
                     /\ set' = [set EXCEPT !.time = t]
                     /\ UNCHANGED <<cmd, got, input, buf>>
                ELSE Return /\ UNCHANGED <<iflag, set>>
      BY <2>3 DEF TimeLine
    <3> DEFINE t == Parsed(Polled(l, rest), j, k)
    <3>3. CASE nread(l) >= 5 /\ ValidTime(t)
      <4>1. Mask /\ GoWrite(TimeRegs, t) /\ UNCHANGED cmd
        BY <3>2, <3>3
      <4> HIDE DEF t
      <4>2. cmd' = "settime" /\ at' = "writing" /\ iflag' = FALSE
        BY <3>1, <4>1 DEF Mask, GoWrite
      <4>3. ValidWrites(cmd', todo')
        BY <3>3, <4>1, <4>2, TimeWrites DEF GoWrite
      <4> QED  BY <2>0, <3>1, <4>2, <4>3 DEF ClockInv, RtcInv, MaskInv, TodoInv
    <3>4. CASE ~(nread(l) >= 5 /\ ValidTime(t))
      <4>1. Return /\ UNCHANGED iflag
        BY <3>2, <3>4
      <4>2. iflag' = TRUE
        BY <2>0, <3>1, <4>1 DEF MaskInv
      <4> QED  BY <2>0, <3>1, <4>1, <4>2, ReturnInv
    <3> QED  BY <3>3, <3>4
  <2>4. ASSUME NEW l \in Lines, AlarmTime(l) PROVE ClockInv'
    BY <2>0, <2>4 DEF AlarmTime, ClockInv, RtcInv, MaskInv, TodoInv
  <2>5. ASSUME NEW l \in Lines, AlarmName(l) PROVE ClockInv'
    <3>1. at = "alarm name" /\ UNCHANGED rtc /\ (Stop \/ (at' = "reading" /\ UNCHANGED iflag))
      BY <2>5 DEF AlarmName, world, GoRead
    <3>2. CASE Stop
      BY <2>0, <3>1, <3>2, StopInv
    <3>3. CASE at' = "reading" /\ UNCHANGED iflag
      BY <2>0, <3>1, <3>3 DEF ClockInv, RtcInv, MaskInv, TodoInv
    <3> QED  BY <3>1, <3>2, <3>3
  <2>6. CASE WriteRegister
    <3>1. /\ at = "writing" /\ at' = at /\ cmd' = cmd /\ iflag' = iflag
          /\ todo # << >> /\ todo' = Tail(todo)
          /\ rtc' = [rtc EXCEPT ![todo[1][1]] = todo[1][2]]
      BY <2>6 DEF WriteRegister
    <3>2. RtcInv' /\ ValidWrites(cmd, todo')
      BY <2>0, <3>1, WriteInv DEF TodoInv
    <3> QED  BY <2>0, <3>1, <3>2 DEF ClockInv, MaskInv, TodoInv
  <2>7. CASE ReadRegister
    BY <2>0, <2>7 DEF ReadRegister, ClockInv, RtcInv, MaskInv, TodoInv
  <2>8. CASE Written
    BY <2>0, <2>8, ReturnInv DEF Written, world
  <2>9. CASE ShowDate \/ ShowTime
    <3>1. Return /\ UNCHANGED <<iflag, rtc>> /\ at = "reading"
      BY <2>9 DEF ShowDate, ShowTime
    <3>2. iflag' = TRUE
      BY <2>0, <3>1 DEF MaskInv
    <3> QED  BY <2>0, <3>1, <3>2, ReturnInv
  <2>10. CASE AlarmCheck
    <3>1. at = "reading" /\ cmd = "alarm" /\ UNCHANGED rtc /\ iflag
      BY <2>0, <2>10 DEF AlarmCheck, MaskInv
    <3>2. PICK j \in Junk, k \in Junk :
            \/ Stop
            \/ /\ ValidTime(Parsed(buf, j, k))
               /\ GoWrite(AlarmRegs, Parsed(buf, j, k)) /\ UNCHANGED <<cmd, iflag>>
            \/ Return /\ UNCHANGED iflag
      BY <2>10 DEF AlarmCheck
    <3> DEFINE t == Parsed(buf, j, k)
    <3>3. CASE Stop
      BY <2>0, <3>1, <3>3, StopInv
    <3>4. CASE ValidTime(t) /\ GoWrite(AlarmRegs, t) /\ UNCHANGED <<cmd, iflag>>
      <4> HIDE DEF t
      <4>1. cmd' = "alarm" /\ at' = "writing" /\ iflag' = iflag
        BY <3>1, <3>4 DEF GoWrite
      <4>2. ValidWrites(cmd', todo')
        BY <3>4, <4>1, TimeWrites DEF GoWrite
      <4> QED  BY <2>0, <3>1, <4>1, <4>2 DEF ClockInv, RtcInv, MaskInv, TodoInv
    <3>5. CASE Return /\ UNCHANGED iflag
      <4>1. iflag' = TRUE
        BY <2>0, <3>1, <3>5 DEF MaskInv
      <4> QED  BY <2>0, <3>1, <3>5, <4>1, ReturnInv
    <3> QED  BY <3>2, <3>3, <3>4, <3>5
  <2>11. CASE AlarmProcess
    <3>1. at = "writing" /\ cmd = "alarm" /\ UNCHANGED rtc /\ iflag
      BY <2>0, <2>11 DEF AlarmProcess, MaskInv
    <3>2. Stop \/ (Return /\ UNCHANGED iflag)
      BY <2>11 DEF AlarmProcess
    <3>3. CASE Stop
      BY <2>0, <3>1, <3>3, StopInv
    <3>4. CASE Return /\ UNCHANGED iflag
      <4>1. iflag' = TRUE
        BY <2>0, <3>1, <3>4 DEF MaskInv
      <4> QED  BY <2>0, <3>1, <3>4, <4>1, ReturnInv
    <3> QED  BY <3>2, <3>3, <3>4
  <2>12. CASE Tick
    <3>1. PICK m \in Moments :
            rtc' = [r \in DOMAIN rtc |-> IF r \in Running THEN m[r] ELSE rtc[r]]
      BY <2>12 DEF Tick
    <3>2. DOMAIN rtc = AllRegs
      BY <2>0 DEF RtcInv
    <3>3. RtcInv'
      BY <2>0, <3>1, <3>2, MomentInv DEF RtcInv
    <3> QED  BY <2>0, <2>12, <3>3 DEF Tick, ClockInv, MaskInv, TodoInv
  <2>13. CASE UNCHANGED vars
    BY <2>0, <2>13 DEF vars, ClockInv, RtcInv, MaskInv, TodoInv
  <2> QED
    BY <2>1, <2>2, <2>3, <2>4, <2>5, <2>6, <2>7, <2>8, <2>9, <2>10, <2>11, <2>12,
       <2>13 DEF Next, Run
<1> QED  BY <1>1, <1>2, PTL DEF Spec

\* Every way back to the menu has enabled interrupts again.
THEOREM AlwaysBack == Spec => []InterruptsBack
<1>1. ClockInv => InterruptsBack
  BY DEF ClockInv, MaskInv, InterruptsBack
<1> QED  BY <1>1, ClockInvariant, PTL

\* No line typed and no tick leaves the date or the alarm registers invalid.
THEOREM AlwaysValid == Spec => []RegistersValid
<1>1. ClockInv => RegistersValid
  <2> SUFFICES ASSUME ClockInv PROVE RegistersValid
    OBVIOUS
  <2>1. \A r \in AllRegs : Valid(r, rtc[r])
    BY DEF ClockInv, RtcInv
  <2>2. {"DAY", "MONTH", "YEAR", "ALARM_HR", "ALARM_MIN", "ALARM_SEC"} \subseteq AllRegs
    BY RegNames DEF AllRegs, Running
  <2> QED  BY <2>1, <2>2 DEF Valid, RegistersValid
<1> QED  BY <1>1, ClockInvariant, PTL

\* The program writes the date and the time registers with interrupts disabled
\* only.
THEOREM AlwaysMasked == Spec => WritesMasked
<1>1. ClockInv /\ [Next]_vars =>
        [(\E r \in Running : rtc'[r] # rtc[r]) => ~iflag \/ Tick]_vars
  <2> SUFFICES ASSUME ClockInv, Next, NEW r \in Running, rtc'[r] # rtc[r], iflag
               PROVE  Tick
    BY DEF vars
  <2>1. CASE WriteRegister
    <3>1. /\ at = "writing" /\ todo # << >>
          /\ rtc' = [rtc EXCEPT ![todo[1][1]] = todo[1][2]]
      BY <2>1 DEF WriteRegister
    <3>2. cmd = "alarm" /\ ValidWrites(cmd, todo)
      BY <3>1 DEF ClockInv, MaskInv, TodoInv
    <3>3. 1 \in DOMAIN todo
      BY <3>1, <3>2 DEF ValidWrites
    <3>4. todo[1][1] \in Regs(AlarmRegs)
      BY <3>2, <3>3 DEF ValidWrites
    <3>5. todo[1][1] # r
      BY <3>4, RegNames DEF Running
    <3>6. rtc \in [AllRegs -> Byte] /\ r \in AllRegs
      BY DEF ClockInv, RtcInv, AllRegs
    <3>7. rtc'[r] = rtc[r]
      BY <3>1, <3>5, <3>6
    <3> QED  BY <3>7
  <2>2. CASE Next /\ ~WriteRegister /\ ~Tick
    <3>1. rtc' = rtc
      BY <2>2 DEF Next, Command, Run, set_date, get_date, get_time, set_time, alarm,
         DateLine, TimeLine, AlarmTime, AlarmName, ReadRegister, Written, ShowDate,
         ShowTime, AlarmCheck, AlarmProcess, world
    <3> QED  BY <3>1
  <2> QED  BY <2>1, <2>2
<1> QED  BY <1>1, ClockInvariant, PTL DEF Spec, WritesMasked
-----------------------------------------------------------------------------
(***************************************************************************)
(* What is set is what is shown.  DateShown and TimeShown speak of the last*)
(* step of a command alone: their invariant follows the values from the    *)
(* line into the list of writes, the registers and the list of reads.      *)
(***************************************************************************)

\* v is what the register r has after st was set.
Holds(st, r, v) ==
  /\ st.date # NONE => \A k \in 1 .. 3 : r = DateRegs[k] => v = Bcd(st.date[k])
  /\ st.time # NONE => \A k \in 1 .. 3 : r = TimeRegs[k] => v = st.time[k]

\* The register r is still to be written.
Pending(r) == at = "writing" /\ \E i \in DOMAIN todo : todo[i][1] = r

StoredInv ==
  /\ set = [date |-> set.date, time |-> set.time]
  /\ set.date # NONE => ValidDate(set.date)
  /\ set.time # NONE => ValidTime(set.time)
  /\ \A r \in AllRegs : Holds(set, r, rtc[r]) \/ Pending(r)
  /\ at = "writing" => \A i \in DOMAIN todo : Holds(set, todo[i][1], todo[i][2])

ReadFrom(c) == IF c = "getdate" THEN DateRegs ELSE TimeRegs

\* What has been read of the registers in regs, and what is still to be read.
Reads(st, regs, g, t) ==
  /\ g \in Seq(Byte) /\ t \in Seq(AllRegs)
  /\ Len(g) + Len(t) = 3
  /\ \A k \in 1 .. Len(g) : Holds(st, regs[k], g[k])
  /\ \A i \in 1 .. Len(t) : t[i] = regs[Len(g) + i]

ReadInv == at = "reading" => Reads(set, ReadFrom(cmd), got, todo)

ShownInv == StoredInv /\ ReadInv /\ DateShown /\ TimeShown

\* A BCD byte gives back the two characters of its number.
LEMMA BcdShown ==
  ASSUME NEW v \in 0 .. 99
  PROVE  <<(Bcd(v) \div 16) + 48, (Bcd(v) % 16) + 48>> = Digits(v)
<1> DEFINE a == Bcd(v) \div 16
           b == Bcd(v) % 16
<1>1. Bcd(v) \in 0 .. 255 /\ a <= 9 /\ b <= 9 /\ 10 * a + b = v
  BY BcdDigits DEF Byte
<1>2. a \in 0 .. 9 /\ b \in 0 .. 9
  BY <1>1
<1> HIDE DEF a, b
<1>3. v \div 10 = a /\ v % 10 = b
  BY <1>1, <1>2
<1>4. <<a + 48, b + 48>> = Digits(v)
  BY <1>2, <1>3 DEF Digits
<1> QED  BY <1>4 DEF a, b

\* A binary value below 16 is the same in BCD, and no hour from 4 on wraps.
LEMMA SmallShown ==
  ASSUME NEW v \in 0 .. 15
  PROVE  FromBcd(v) = v /\ (v >= 4 => Est(FromBcd(v)) = v - 4)
<1>1. FromBcd(v) = v
  BY DEF FromBcd
<1> QED  BY <1>1 DEF Est

\* Where the names of the registers differ.
LEMMA RegPlaces ==
  /\ \A j, k \in 1 .. 3 : DateRegs[j] = DateRegs[k] => j = k
  /\ \A j, k \in 1 .. 3 : TimeRegs[j] = TimeRegs[k] => j = k
  /\ \A j, k \in 1 .. 3 : DateRegs[j] # TimeRegs[k]
  /\ \A j, k \in 1 .. 3 : DateRegs[j] # AlarmRegs[k] /\ TimeRegs[j] # AlarmRegs[k]
  /\ DateRegs \in Seq(AllRegs) /\ TimeRegs \in Seq(AllRegs)
  /\ Len(DateRegs) = 3 /\ Len(TimeRegs) = 3
<1>1. /\ \A j, k \in 1 .. 3 : DateRegs[j] = DateRegs[k] => j = k
      /\ \A j, k \in 1 .. 3 : TimeRegs[j] = TimeRegs[k] => j = k
      /\ \A j, k \in 1 .. 3 : DateRegs[j] # TimeRegs[k]
      /\ \A j, k \in 1 .. 3 : DateRegs[j] # AlarmRegs[k] /\ TimeRegs[j] # AlarmRegs[k]
  BY DEF DateRegs, TimeRegs, AlarmRegs
<1>2. {"DAY", "MONTH", "YEAR", "HOURS", "MINUTES", "SECONDS"} \subseteq AllRegs
  BY RegNames DEF AllRegs, Running
<1>3. DateRegs \in Seq(AllRegs) /\ TimeRegs \in Seq(AllRegs)
      /\ Len(DateRegs) = 3 /\ Len(TimeRegs) = 3
  BY <1>2 DEF DateRegs, TimeRegs
<1> QED  BY <1>1, <1>3

\* Reading starts with nothing read.
LEMMA ReadsBegin ==
  ASSUME NEW st, NEW regs \in {DateRegs, TimeRegs}
  PROVE  Reads(st, regs, << >>, regs)
<1>1. << >> \in Seq(Byte) /\ Len(<< >>) = 0
  BY EmptySeq
<1> QED  BY <1>1, RegPlaces DEF Reads

\* A list of three writes.
LEMMA WritesAre ==
  ASSUME NEW regs, NEW vals, NEW s, s = Writes(regs, vals)
  PROVE  /\ DOMAIN s = 1 .. 3
         /\ \A k \in 1 .. 3 : s[k][1] = regs[k] /\ s[k][2] = vals[k]
BY DEF Writes

\* A command that leaves the registers alone, and neither shows nor sets.
LEMMA StoredSame ==
  ASSUME StoredInv, at # "writing" \/ todo = << >>, at' # "writing", UNCHANGED <<rtc, set>>
  PROVE  StoredInv'
<1>1. \A r \in AllRegs : ~Pending(r)
  BY DEF Pending
<1> QED  BY <1>1 DEF StoredInv, Pending

\* Back at the menu or stopped, with nothing written since.
LEMMA ShownSame ==
  ASSUME ShownInv, at # "writing" \/ todo = << >>, at' \notin {"writing", "reading"},
         UNCHANGED <<rtc, set>>, shown' \in {shown, NOTHING}
  PROVE  ShownInv'
<1>1. StoredInv'
  BY StoredSame DEF ShownInv
<1>2. DateShown' /\ TimeShown'
  BY DEF ShownInv, DateShown, TimeShown, NOTHING
<1> QED  BY <1>1, <1>2 DEF ShownInv, ReadInv

\* A command goes on to read three registers.
LEMMA ShownRead ==
  ASSUME ShownInv, at # "writing", GoRead(ReadFrom(cmd')), UNCHANGED <<rtc, set>>,
         shown' \in {shown, NOTHING}
  PROVE  ShownInv'
<1>1. at' = "reading" /\ todo' = ReadFrom(cmd') /\ got' = << >>
  BY DEF GoRead
<1>2. StoredInv'
  BY <1>1, StoredSame DEF ShownInv
<1>3. ReadInv'
  BY <1>1, ReadsBegin DEF ReadInv, ReadFrom
<1>4. DateShown' /\ TimeShown'
  BY DEF ShownInv, DateShown, TimeShown, NOTHING
<1> QED  BY <1>2, <1>3, <1>4 DEF ShownInv

\* setdate accepts a date.
LEMMA ShownDateLine ==
  ASSUME ShownInv, at # "writing", NEW d, ValidDate(d),
         GoWrite(DateRegs, <<Bcd(d[1]), Bcd(d[2]), Bcd(d[3])>>),
         set' = [date |-> d, time |-> set.time], UNCHANGED <<rtc, shown>>
  PROVE  ShownInv'
<1> DEFINE v == <<Bcd(d[1]), Bcd(d[2]), Bcd(d[3])>>
<1>1. /\ at' = "writing" /\ todo' = Writes(DateRegs, v)
      /\ set' = [date |-> d, time |-> set.time]
  BY DEF GoWrite
<1>2. \A k \in 1 .. 3 : v[k] = Bcd(d[k])
  OBVIOUS
<1> HIDE DEF v
<1>3. /\ DOMAIN todo' = 1 .. 3
      /\ \A k \in 1 .. 3 : todo'[k][1] = DateRegs[k] /\ todo'[k][2] = v[k]
  BY <1>1, WritesAre
<1>4. \A r \in AllRegs : Holds(set, r, rtc[r])
  BY DEF ShownInv, StoredInv, Pending
<1>5. \A r \in AllRegs : Holds(set', r, rtc[r]) \/ Pending(r)'
  <2> SUFFICES ASSUME NEW r \in AllRegs, ~Pending(r)'
               PROVE  Holds(set', r, rtc[r])
    OBVIOUS
  <2>1. ASSUME NEW k \in 1 .. 3, r = DateRegs[k] PROVE FALSE
    <3>1. k \in DOMAIN todo' /\ todo'[k][1] = r
      BY <1>3, <2>1
    <3> QED  BY <1>1, <3>1 DEF Pending
  <2> QED  BY <1>1, <1>4, <2>1 DEF Holds
<1>6. \A i \in DOMAIN todo' : Holds(set', todo'[i][1], todo'[i][2])
  <2> TAKE i \in DOMAIN todo'
  <2>1. i \in 1 .. 3 /\ todo'[i][1] = DateRegs[i] /\ todo'[i][2] = Bcd(d[i])
    BY <1>2, <1>3
  <2>2. set'.date = d
    BY <1>1
  <2>3. Holds(set', DateRegs[i], Bcd(d[i]))
    BY <2>1, <2>2, RegPlaces DEF Holds
  <2> QED  BY <2>1, <2>3
<1>7. StoredInv'
  <2>1. set'.date = d /\ set'.time = set.time
    BY <1>1
  <2> QED  BY <1>1, <1>5, <1>6, <2>1 DEF ShownInv, StoredInv
<1>8. DateShown' /\ TimeShown'
  BY DEF ShownInv, DateShown, TimeShown
<1> QED  BY <1>1, <1>7, <1>8 DEF ShownInv, ReadInv

\* settime accepts a time.
LEMMA ShownTimeLine ==
  ASSUME ShownInv, at # "writing", NEW t, ValidTime(t), GoWrite(TimeRegs, t),
         set' = [date |-> set.date, time |-> t], UNCHANGED <<rtc, shown>>
  PROVE  ShownInv'
<1>1. /\ at' = "writing" /\ todo' = Writes(TimeRegs, t)
      /\ set' = [date |-> set.date, time |-> t]
  BY DEF GoWrite
<1>2. /\ DOMAIN todo' = 1 .. 3
      /\ \A k \in 1 .. 3 : todo'[k][1] = TimeRegs[k] /\ todo'[k][2] = t[k]
  BY <1>1, WritesAre
<1>3. \A r \in AllRegs : Holds(set, r, rtc[r])
  BY DEF ShownInv, StoredInv, Pending
<1>4. \A r \in AllRegs : Holds(set', r, rtc[r]) \/ Pending(r)'
  <2> SUFFICES ASSUME NEW r \in AllRegs, ~Pending(r)'
               PROVE  Holds(set', r, rtc[r])
    OBVIOUS
  <2>1. ASSUME NEW k \in 1 .. 3, r = TimeRegs[k] PROVE FALSE
    <3>1. k \in DOMAIN todo' /\ todo'[k][1] = r
      BY <1>2, <2>1
    <3> QED  BY <1>1, <3>1 DEF Pending
  <2> QED  BY <1>1, <1>3, <2>1 DEF Holds
<1>5. \A i \in DOMAIN todo' : Holds(set', todo'[i][1], todo'[i][2])
  <2> TAKE i \in DOMAIN todo'
  <2>1. i \in 1 .. 3 /\ todo'[i][1] = TimeRegs[i] /\ todo'[i][2] = t[i]
    BY <1>2
  <2>2. set'.time = t
    BY <1>1
  <2>3. Holds(set', TimeRegs[i], t[i])
    BY <2>1, <2>2, RegPlaces DEF Holds
  <2> QED  BY <2>1, <2>3
<1>6. StoredInv'
  <2>1. set'.date = set.date /\ set'.time = t
    BY <1>1
  <2> QED  BY <1>1, <1>4, <1>5, <2>1 DEF ShownInv, StoredInv
<1>7. DateShown' /\ TimeShown'
  BY DEF ShownInv, DateShown, TimeShown
<1> QED  BY <1>1, <1>6, <1>7 DEF ShownInv, ReadInv

\* One register is written.
LEMMA ShownWrite ==
  ASSUME ClockInv, ShownInv, WriteRegister
  PROVE  ShownInv'
<1>1. /\ at = "writing" /\ at' = at /\ todo # << >> /\ todo' = Tail(todo)
      /\ rtc' = [rtc EXCEPT ![todo[1][1]] = todo[1][2]]
      /\ UNCHANGED <<set, shown>>
  BY DEF WriteRegister
<1>2. todo \in Seq(AllRegs \X Byte) /\ rtc \in [AllRegs -> Byte]
  BY <1>1 DEF ClockInv, TodoInv, RtcInv, ValidWrites
<1>3. /\ DOMAIN todo = 1 .. Len(todo) /\ Len(todo) \in Nat \ {0}
      /\ DOMAIN todo' = 1 .. (Len(todo) - 1)
      /\ \A i \in 1 .. (Len(todo) - 1) : todo'[i] = todo[i + 1]
  <2>1. Len(todo) \in Nat \ {0} /\ DOMAIN todo = 1 .. Len(todo)
    BY <1>1, <1>2, EmptySeq, LenProperties
  <2>2. /\ Tail(todo) \in Seq(AllRegs \X Byte) /\ Len(Tail(todo)) = Len(todo) - 1
        /\ \A i \in 1 .. Len(Tail(todo)) : Tail(todo)[i] = todo[i + 1]
    BY <1>1, <1>2, HeadTailProperties
  <2>3. DOMAIN Tail(todo) = 1 .. Len(Tail(todo))
    BY <2>2, LenProperties
  <2> QED  BY <1>1, <2>1, <2>2, <2>3
<1>4. \A i \in DOMAIN todo : Holds(set, todo[i][1], todo[i][2])
  BY <1>1 DEF ShownInv, StoredInv
<1>5. \A i \in DOMAIN todo' : Holds(set, todo'[i][1], todo'[i][2])
  BY <1>3, <1>4
<1>6. \A r \in AllRegs : Holds(set, r, rtc'[r]) \/ Pending(r)'
  <2> TAKE r \in AllRegs
  <2>1. CASE r = todo[1][1]
    BY <1>1, <1>2, <1>3, <1>4, <2>1
  <2>2. CASE r # todo[1][1] /\ Holds(set, r, rtc[r])
    BY <1>1, <1>2, <2>2
  <2>3. CASE r # todo[1][1] /\ Pending(r)
    <3>1. PICK i \in 1 .. Len(todo) : todo[i][1] = r
      BY <1>3, <2>3 DEF Pending
    <3>2. i - 1 \in DOMAIN todo' /\ todo'[i - 1] = todo[i]
      BY <1>3, <2>3, <3>1
    <3> QED  BY <1>1, <3>1, <3>2 DEF Pending
  <2> QED  BY <2>1, <2>2, <2>3 DEF ShownInv, StoredInv
<1>7. StoredInv'
  BY <1>1, <1>5, <1>6 DEF ShownInv, StoredInv
<1>8. DateShown' /\ TimeShown'
  BY <1>1 DEF ShownInv, DateShown, TimeShown
<1> QED  BY <1>1, <1>7, <1>8 DEF ShownInv, ReadInv

\* One register is read.
LEMMA ShownReadOne ==
  ASSUME ClockInv, ShownInv, ReadRegister
  PROVE  ShownInv'
<1> DEFINE regs == ReadFrom(cmd)
<1>1. /\ at = "reading" /\ at' = at /\ todo # << >> /\ todo' = Tail(todo)
      /\ got' = Append(got, rtc[todo[1]])
      /\ UNCHANGED <<cmd, rtc, set, shown>>
  BY DEF ReadRegister
<1>2. Reads(set, regs, got, todo)
  BY <1>1 DEF ShownInv, ReadInv
<1> HIDE DEF regs
<1>3. got \in Seq(Byte) /\ todo \in Seq(AllRegs)
  BY <1>2 DEF Reads
<1>4. Len(got) \in Nat /\ Len(todo) \in Nat \ {0} /\ todo[1] \in AllRegs
  BY <1>1, <1>3, EmptySeq, LenProperties, ElementOfSeq
<1>5. rtc[todo[1]] \in Byte /\ todo[1] = regs[Len(got) + 1]
  BY <1>2, <1>4 DEF ClockInv, RtcInv, Reads
<1>6. Holds(set, todo[1], rtc[todo[1]])
  BY <1>1, <1>4 DEF ShownInv, StoredInv, Pending
<1>7. /\ got' \in Seq(Byte) /\ Len(got') = Len(got) + 1
      /\ \A k \in 1 .. Len(got) : got'[k] = got[k]
      /\ got'[Len(got) + 1] = rtc[todo[1]]
  BY <1>1, <1>3, <1>4, <1>5, AppendProperties
<1>8. /\ todo' \in Seq(AllRegs) /\ Len(todo') = Len(todo) - 1
      /\ \A i \in 1 .. (Len(todo) - 1) : todo'[i] = todo[i + 1]
  <2>1. /\ Tail(todo) \in Seq(AllRegs) /\ Len(Tail(todo)) = Len(todo) - 1
        /\ \A i \in 1 .. Len(Tail(todo)) : Tail(todo)[i] = todo[i + 1]
    BY <1>1, <1>3, HeadTailProperties
  <2> QED  BY <1>1, <2>1
<1>9. Reads(set, regs, got', todo')
  <2>1. Len(got') + Len(todo') = 3
    BY <1>2, <1>4, <1>7, <1>8 DEF Reads
  <2>2. \A k \in 1 .. Len(got') : Holds(set, regs[k], got'[k])
    <3> TAKE k \in 1 .. Len(got')
    <3>1. CASE k = Len(got) + 1
      BY <1>5, <1>6, <1>7, <3>1
    <3>2. CASE k \in 1 .. Len(got)
      BY <1>2, <1>7, <3>2 DEF Reads
    <3> QED  BY <1>4, <1>7, <3>1, <3>2
  <2>3. \A i \in 1 .. Len(todo') : todo'[i] = regs[Len(got') + i]
    <3> TAKE i \in 1 .. Len(todo')
    <3>1. i + 1 \in 1 .. Len(todo) /\ todo'[i] = todo[i + 1]
      BY <1>4, <1>8
    <3>2. todo[i + 1] = regs[Len(got) + (i + 1)] /\ Len(got) + (i + 1) = Len(got') + i
      BY <1>2, <1>4, <1>7, <3>1 DEF Reads
    <3> QED  BY <3>1, <3>2
  <2> QED  BY <1>7, <1>8, <2>1, <2>2, <2>3 DEF Reads
<1>10. StoredInv'
  BY <1>1, StoredSame DEF ShownInv
<1>11. DateShown' /\ TimeShown'
  BY <1>1 DEF ShownInv, DateShown, TimeShown
<1> QED  BY <1>1, <1>9, <1>10, <1>11 DEF ShownInv, ReadInv, regs

\* The three registers that were read are the ones that were set.
LEMMA AllRead ==
  ASSUME ShownInv, at = "reading", todo = << >>
  PROVE  \A k \in 1 .. 3 : Holds(set, ReadFrom(cmd)[k], got[k])
<1>1. Reads(set, ReadFrom(cmd), got, << >>)
  BY DEF ShownInv, ReadInv
<1>2. Len(got) \in Nat /\ Len(got) + Len(<< >>) = 3 /\ Len(<< >>) = 0
  BY <1>1, LenProperties, EmptySeq DEF Reads
<1> QED  BY <1>1, <1>2 DEF Reads

\* getdate shows its registers.
LEMMA ShownDate ==
  ASSUME ShownInv, ShowDate
  PROVE  DateShown' /\ TimeShown'
<1>1. /\ shown' = [what |-> "date",
                   value |-> [k \in 1 .. 3 |-> <<(got[k] \div 16) + 48, (got[k] % 16) + 48>>],
                   expected |-> set.date]
      /\ at = "reading" /\ todo = << >> /\ cmd = "getdate"
  BY DEF ShowDate
<1>2. ASSUME set.date # NONE
      PROVE  \A k \in 1 .. 3 :
               <<(got[k] \div 16) + 48, (got[k] % 16) + 48>> = Digits(set.date[k])
  <2> TAKE k \in 1 .. 3
  <2>1. got[k] = Bcd(set.date[k])
    BY <1>1, <1>2, AllRead DEF Holds, ReadFrom
  <2>2. set.date[k] \in 0 .. 99
    BY <1>2 DEF ShownInv, StoredInv, ValidDate
  <2> QED  BY <2>1, <2>2, BcdShown
<1>3. /\ shown'.what = "date" /\ shown'.expected = set.date
      /\ shown'.value = [k \in 1 .. 3 |-> <<(got[k] \div 16) + 48, (got[k] % 16) + 48>>]
  BY <1>1
<1> QED  BY <1>2, <1>3 DEF DateShown, TimeShown

\* gettime and alarm show theirs, or nothing.
LEMMA ShownTime ==
  ASSUME ShownInv, at = "reading", todo = << >>, cmd # "getdate", ShowsTime
  PROVE  DateShown' /\ TimeShown'
<1>1. CASE free > 0
  <2>1. shown' = [what |-> "time", value |-> TimeString, expected |-> set.time]
    BY <1>1 DEF ShowsTime
  <2>2. ASSUME set.time # NONE
        PROVE  /\ set.time[1] \in 4 .. 15 => TimeString[1] = Digits(set.time[1] - 4)
               /\ \A k \in 2 .. 3 :
                    set.time[k] < 16 => TimeString[k] = Digits(set.time[k])
    <3>1. \A k \in 1 .. 3 : got[k] = set.time[k]
      <4> TAKE k \in 1 .. 3
      <4> QED  BY <2>2, AllRead DEF Holds, ReadFrom
    <3>2. set.time[1] \in 0 .. 23 /\ set.time[2] \in 0 .. 59 /\ set.time[3] \in 0 .. 59
      BY <2>2 DEF ShownInv, StoredInv, ValidTime
    <3>3. /\ TimeString[1] = Digits(Est(FromBcd(got[1])))
          /\ TimeString[2] = Digits(FromBcd(got[2]))
          /\ TimeString[3] = Digits(FromBcd(got[3]))
      BY DEF TimeString
    <3>4. set.time[1] \in 4 .. 15 => TimeString[1] = Digits(set.time[1] - 4)
      <4> SUFFICES ASSUME set.time[1] \in 4 .. 15
                   PROVE  TimeString[1] = Digits(set.time[1] - 4)
        OBVIOUS
      <4>1. Est(FromBcd(set.time[1])) = set.time[1] - 4
        BY SmallShown
      <4> QED  BY <3>1, <3>3, <4>1
    <3>5. \A v \in 0 .. 59 : v < 16 => FromBcd(v) = v
      BY SmallShown
    <3>6. \A k \in 2 .. 3 : set.time[k] < 16 => TimeString[k] = Digits(set.time[k])
      <4> SUFFICES ASSUME NEW k \in 2 .. 3, set.time[k] < 16
                   PROVE  TimeString[k] = Digits(set.time[k])
        OBVIOUS
      <4>1. (k = 2 \/ k = 3) /\ k \in 1 .. 3
        OBVIOUS
      <4>2. set.time[k] \in 0 .. 59
        BY <3>2, <4>1
      <4>3. FromBcd(set.time[k]) = set.time[k]
        BY <3>5, <4>2
      <4>4. TimeString[k] = Digits(FromBcd(got[k]))
        BY <3>3, <4>1
      <4> QED  BY <3>1, <4>1, <4>3, <4>4
    <3> QED  BY <3>4, <3>6
  <2>3. shown'.what = "time" /\ shown'.expected = set.time /\ shown'.value = TimeString
    BY <2>1
  <2> HIDE DEF TimeString
  <2> QED  BY <2>2, <2>3 DEF DateShown, TimeShown
<1>2. CASE ~(free > 0)
  BY <1>2 DEF ShowsTime, ShownInv, DateShown, TimeShown
<1> QED  BY <1>1, <1>2

\* The place after a step that ends a command.
LEMMA ShownEnd ==
  ASSUME ShownInv, at # "writing" \/ todo = << >>, Return \/ Stop,
         UNCHANGED <<rtc, set, shown>>
  PROVE  ShownInv'
<1>1. at' \notin {"writing", "reading"}
  BY DEF Return, Stop
<1> QED  BY <1>1, ShownSame

\* Every step keeps the invariant.
LEMMA ShownNext ==
  ASSUME ClockInv, ShownInv, [Next]_vars
  PROVE  ShownInv'
<1>1. CASE set_date \/ set_time \/ alarm
  <2>1. at # "writing" /\ at' \notin {"writing", "reading"}
    BY <1>1, Zenon DEF set_date, set_time, alarm, Typed
  <2>2. UNCHANGED <<rtc, set>> /\ shown' = NOTHING
    BY <1>1 DEF set_date, set_time, alarm, Typed
  <2> QED  BY <2>1, <2>2, ShownSame
<1>2. CASE get_date
  <2>1. at # "writing" /\ GoRead(ReadFrom(cmd')) /\ shown' = NOTHING
    BY <1>2 DEF get_date, Typed, ReadFrom
  <2> QED  BY <1>2, <2>1, ShownRead DEF get_date
<1>3. CASE get_time
  <2>1. at # "writing" /\ GoRead(ReadFrom(cmd')) /\ shown' = NOTHING
    BY <1>3 DEF get_time, Typed, ReadFrom
  <2> QED  BY <1>3, <2>1, ShownRead DEF get_time
<1>4. ASSUME NEW l \in Lines, DateLine(l) PROVE ShownInv'
  <2> DEFINE w == Word(Polled(l, NUL))
             d == <<Pair(w, 1), Pair(w, 4), Pair(w, 7)>>
  <2>1. at # "writing"
    BY <1>4, Zenon DEF DateLine
  <2>2. \/ (Return \/ Stop) /\ UNCHANGED set
        \/ /\ ValidDate(d)
           /\ GoWrite(DateRegs, <<Bcd(d[1]), Bcd(d[2]), Bcd(d[3])>>)
           /\ set' = [set EXCEPT !.date = d]
    BY <1>4, Zenon DEF DateLine, DateRefused
  <2>3. UNCHANGED <<rtc, shown>>
    BY <1>4, Zenon DEF DateLine
  <2> HIDE DEF d
  <2>4. CASE (Return \/ Stop) /\ UNCHANGED set
    BY <2>1, <2>3, <2>4, ShownEnd
  <2>5. CASE /\ ValidDate(d)
             /\ GoWrite(DateRegs, <<Bcd(d[1]), Bcd(d[2]), Bcd(d[3])>>)
             /\ set' = [set EXCEPT !.date = d]
    <3>1. set' = [date |-> d, time |-> set.time]
      BY <2>5 DEF ShownInv, StoredInv
    <3> QED  BY <2>1, <2>3, <2>5, <3>1, ShownDateLine
  <2> QED  BY <2>2, <2>4, <2>5
<1>5. ASSUME NEW l \in Lines, TimeLine(l) PROVE ShownInv'
  <2>1. at # "writing" /\ UNCHANGED <<rtc, shown>>
    BY <1>5, Zenon DEF TimeLine
  <2>2. PICK rest \in Junk, j \in Junk, k \in Junk :
          LET t == Parsed(Polled(l, rest), j, k)
          IN  IF nread(l) >= 5 /\ ValidTime(t)
              THEN /\ Mask /\ GoWrite(TimeRegs, t)
                   /\ set' = [set EXCEPT !.time = t]
                   /\ UNCHANGED <<cmd, got, input, buf>>
              ELSE Return /\ UNCHANGED <<iflag, set>>
    BY <1>5, Zenon DEF TimeLine
  <2> DEFINE t == Parsed(Polled(l, rest), j, k)
  <2>3. CASE nread(l) >= 5 /\ ValidTime(t)
    <3>1. GoWrite(TimeRegs, t) /\ set' = [set EXCEPT !.time = t]
      BY <2>2, <2>3
    <3> HIDE DEF t
    <3>2. set' = [date |-> set.date, time |-> t]
      BY <3>1 DEF ShownInv, StoredInv
    <3> QED  BY <2>1, <2>3, <3>1, <3>2, ShownTimeLine
  <2>4. CASE ~(nread(l) >= 5 /\ ValidTime(t))
    <3>1. Return /\ UNCHANGED set
      BY <2>2, <2>4
    <3> QED  BY <2>1, <3>1, ShownEnd
  <2> QED  BY <2>3, <2>4
<1>6. ASSUME NEW l \in Lines, AlarmTime(l) PROVE ShownInv'
  <2>1. at # "writing" /\ at' \notin {"writing", "reading"}
    BY <1>6, Zenon DEF AlarmTime
  <2>2. UNCHANGED <<rtc, set, shown>>
    BY <1>6, Zenon DEF AlarmTime
  <2> QED  BY <2>1, <2>2, ShownSame
<1>7. ASSUME NEW l \in Lines, AlarmName(l) PROVE ShownInv'
  <2>1. at # "writing" /\ cmd # "getdate" /\ UNCHANGED <<rtc, set, shown>>
    BY <1>7, Zenon DEF AlarmName, world, ClockInv, MaskInv
  <2>2. Stop \/ (GoRead(TimeRegs) /\ UNCHANGED cmd)
    BY <1>7, Zenon DEF AlarmName
  <2>3. CASE Stop
    BY <2>1, <2>3, ShownEnd
  <2>4. CASE GoRead(TimeRegs) /\ UNCHANGED cmd
    BY <2>1, <2>4, ShownRead DEF ReadFrom
  <2> QED  BY <2>2, <2>3, <2>4
<1>8. CASE Written
  BY <1>8, ShownEnd DEF Written, world
<1>9. CASE ShowDate
  <2>1. StoredInv' /\ at' = "menu"
    BY <1>9, StoredSame DEF ShowDate, Return, ShownInv
  <2> QED  BY <1>9, <2>1, ShownDate DEF ShownInv, ReadInv
<1>10. CASE ShowTime
  <2>1. StoredInv' /\ at' = "menu"
    BY <1>10, StoredSame DEF ShowTime, Return, ShownInv
  <2>2. DateShown' /\ TimeShown'
    BY <1>10, ShownTime DEF ShowTime
  <2> QED  BY <2>1, <2>2 DEF ShownInv, ReadInv
<1>11. CASE AlarmCheck
  <2>1. /\ at = "reading" /\ todo = << >> /\ cmd = "alarm" /\ ShowsTime
        /\ UNCHANGED <<rtc, set>>
    BY <1>11 DEF AlarmCheck
  <2>2. DateShown' /\ TimeShown'
    BY <2>1, ShownTime
  <2>3. \/ at' \notin {"writing", "reading"}
        \/ \E t : GoWrite(AlarmRegs, t)
    BY <1>11, Zenon DEF AlarmCheck, Stop, Return
  <2>4. CASE at' \notin {"writing", "reading"}
    <3>1. StoredInv'
      BY <2>1, <2>4, StoredSame DEF ShownInv
    <3> QED  BY <2>2, <2>4, <3>1 DEF ShownInv, ReadInv
  <2>5. ASSUME NEW t, GoWrite(AlarmRegs, t) PROVE ShownInv'
    <3>1. at' = "writing" /\ todo' = Writes(AlarmRegs, t)
      BY <2>5 DEF GoWrite
    <3>2. /\ DOMAIN todo' = 1 .. 3
          /\ \A k \in 1 .. 3 : todo'[k][1] = AlarmRegs[k] /\ todo'[k][2] = t[k]
      BY <3>1, WritesAre
    <3>3. \A i \in DOMAIN todo' : Holds(set, todo'[i][1], todo'[i][2])
      BY <3>2, RegPlaces DEF Holds
    <3>4. \A r \in AllRegs : Holds(set, r, rtc[r])
      BY <2>1 DEF ShownInv, StoredInv, Pending
    <3>5. StoredInv'
      BY <2>1, <3>3, <3>4 DEF ShownInv, StoredInv
    <3> QED  BY <2>2, <3>1, <3>5 DEF ShownInv, ReadInv
  <2> QED  BY <2>3, <2>4, <2>5
<1>12. CASE AlarmProcess
  <2>1. /\ todo = << >> /\ UNCHANGED <<rtc, set, shown>>
        /\ Return \/ Stop
    BY <1>12 DEF AlarmProcess
  <2> QED  BY <2>1, ShownEnd
<1>13. CASE Tick
  <2>1. set' = [date |-> NONE, time |-> NONE] /\ UNCHANGED <<at, cmd, todo, got, shown>>
    BY <1>13 DEF Tick
  <2>2. set'.date = NONE /\ set'.time = NONE
    BY <2>1
  <2>3. \A r, v : Holds(set', r, v)
    BY <2>2 DEF Holds
  <2>4. StoredInv'
    BY <2>1, <2>2, <2>3 DEF StoredInv
  <2>5. ReadInv'
    BY <2>1, <2>3 DEF ShownInv, ReadInv, Reads
  <2>6. DateShown' /\ TimeShown'
    BY <2>1 DEF ShownInv, DateShown, TimeShown
  <2> QED  BY <2>4, <2>5, <2>6 DEF ShownInv
<1>14. CASE UNCHANGED vars
  BY <1>14 DEF vars, ShownInv, StoredInv, Pending, ReadInv, DateShown, TimeShown
<1> QED
  BY <1>1, <1>2, <1>3, <1>4, <1>5, <1>6, <1>7, <1>8, <1>9, <1>10, <1>11, <1>12,
     <1>13, <1>14, ShownWrite, ShownReadOne DEF Next, Command, Run

\* The invariant holds in every state.
LEMMA ShownAlways == Spec => []ShownInv
<1>1. Init => ShownInv
  <2> SUFFICES ASSUME Init PROVE ShownInv
    OBVIOUS
  <2>1. set = [date |-> NONE, time |-> NONE] /\ at = "menu" /\ shown = NOTHING
    BY DEF Init
  <2>2. set.date = NONE /\ set.time = NONE
    BY <2>1
  <2>3. StoredInv
    BY <2>1, <2>2 DEF StoredInv, Holds
  <2>4. DateShown /\ TimeShown
    BY <2>1 DEF DateShown, TimeShown, NOTHING
  <2> QED  BY <2>1, <2>3, <2>4 DEF ShownInv, ReadInv
<1>2. ClockInv /\ ShownInv /\ [Next]_vars => ShownInv'
  BY ShownNext
<1> QED  BY <1>1, <1>2, ClockInvariant, PTL DEF Spec

\* Whatever is typed, and whenever the clock ticks: getdate shows a date that
\* setdate accepted as it was typed, unless the clock has ticked since.
THEOREM AlwaysDateShown == Spec => []DateShown
<1>1. ShownInv => DateShown
  BY DEF ShownInv
<1> QED  BY <1>1, ShownAlways, PTL

\* Whatever is typed, and whenever the clock ticks: gettime shows the minutes and
\* seconds below 16 that settime accepted, and hours from 4 to 15 four hours
\* earlier, unless the clock has ticked since.
THEOREM AlwaysTimeShown == Spec => []TimeShown
<1>1. ShownInv => TimeShown
  BY DEF ShownInv
<1> QED  BY <1>1, ShownAlways, PTL
-----------------------------------------------------------------------------
(***************************************************************************)
(* serial_poll: the properties of SerialPoll for every size of the array,  *)
(* every width of size_t and every alphabet.                               *)
(***************************************************************************)

\* While the call goes on, and after it returned with a count, the first
\* bytes_read bytes are what was typed and not erased: the NULs among them are
\* the received ones, and an Enter is at most in the last place of a line that
\* has ended.
Prefix ==
  result # BUFFER_OVERFLOW =>
    /\ bytes_read <= Size
    /\ \A i \in 0 .. bytes_read - 1 : buffer[i] \in Characters \cup Enters
    /\ \A i \in 0 .. bytes_read - 2 : buffer[i] \in Characters
    /\ result = READING =>
         \A i \in 0 .. bytes_read - 1 : buffer[i] \in Characters
    /\ result # READING => result = bytes_read
    /\ nuls \subseteq 0 .. bytes_read - 1
    /\ \A i \in 0 .. bytes_read - 1 : buffer[i] = Terminator <=> i \in nuls

\* Where the call may have written so far.
Touches ==
  /\ touched \subseteq Places
  /\ -1 \in touched => result = BUFFER_OVERFLOW
  /\ Size \in touched => result = Size /\ Entered

PollInv == PollTypeOK /\ Prefix /\ Touches /\ StaysNear /\ LineIsString

\* The call starts with nothing read and nothing written.
LEMMA InitPollInv == PollInit => PollInv
  <1> SUFFICES ASSUME PollInit PROVE PollInv
    OBVIOUS
  <1> USE PollAssumption DEF PollInit, READING, BUFFER_OVERFLOW, Places
  <1>1. PollTypeOK
    BY DEF PollTypeOK, Bytes
  <1>2. Prefix /\ Touches /\ StaysNear /\ LineIsString
    BY DEF Prefix, Touches, StaysNear, LineIsString, Entered
  <1> QED
    BY <1>1, <1>2 DEF PollInv

\* The place that a byte is stored in lies inside the array.
LEMMA ReadingPlace ==
  ASSUME PollTypeOK, Reading
  PROVE  /\ bytes_read \in 0 .. Size - 1
         /\ bytes_read \in Places /\ bytes_read + 1 \in Places /\ bytes_read - 1 \in Places
  BY PollAssumption DEF PollTypeOK, Reading, Places, READING

\* An ordinary character extends the line.
LEMMA CharacterInv ==
  ASSUME PollInv, NEW c \in Characters, Character(c)
  PROVE  PollInv'
  <1> USE PollAssumption DEF READING, BUFFER_OVERFLOW
  <1>1. /\ bytes_read \in 0 .. Size - 1 /\ result = READING
        /\ bytes_read \in Places
    BY ReadingPlace DEF PollInv, Character, Reading
  <1>2. /\ bytes_read' = bytes_read + 1
        /\ buffer' = [buffer EXCEPT ![bytes_read] = c]
        /\ touched' = touched \cup {bytes_read}
        /\ result' = IF bytes_read + 1 = Size THEN Size ELSE READING
        /\ nuls' = IF c = Terminator THEN nuls \cup {bytes_read} ELSE nuls
    BY <1>1 DEF Character, Outcome
  <1>3. buffer \in [Places -> Bytes] /\ c \in Bytes
    BY DEF PollInv, PollTypeOK, Bytes
  <1>4. PollTypeOK'
    BY <1>1, <1>2, <1>3 DEF PollInv, PollTypeOK, Bytes
  <1>5. /\ \A i \in 0 .. bytes_read : buffer'[i] \in Characters
        /\ nuls' \subseteq 0 .. bytes_read
        /\ \A i \in 0 .. bytes_read : buffer'[i] = Terminator <=> i \in nuls'
    BY <1>1, <1>2, <1>3 DEF PollInv, Prefix, Places
  <1>6. Prefix'
    BY <1>1, <1>2, <1>5 DEF Prefix
  <1>7. ~Entered'
    BY <1>1, <1>2, <1>5 DEF Entered
  <1>8. Touches' /\ StaysNear'
    BY <1>1, <1>2 DEF PollInv, Touches, StaysNear, Places
  <1>9. LineIsString'
    BY <1>7 DEF LineIsString
  <1> QED
    BY <1>4, <1>6, <1>8, <1>9 DEF PollInv

\* A backspace takes the last character back, or ends the call with an error.
LEMMA BackspaceInv ==
  ASSUME PollInv, NEW c \in Backspaces, Backspace(c)
  PROVE  PollInv'
  <1> USE PollAssumption DEF READING, BUFFER_OVERFLOW
  <1>1. /\ bytes_read \in 0 .. Size - 1 /\ result = READING
        /\ bytes_read \in Places /\ bytes_read - 1 \in Places
    BY ReadingPlace DEF PollInv, Backspace, Reading
  <1>2. bytes_read' = IF bytes_read = 0 THEN SizeMod - 1 ELSE bytes_read - 1
    BY <1>1 DEF Backspace
  <1>3. result' = IF bytes_read = 0 THEN BUFFER_OVERFLOW ELSE READING
    BY <1>1, <1>2 DEF Backspace, Outcome
  <1>4. /\ buffer' = [buffer EXCEPT ![bytes_read] = c, ![bytes_read - 1] = Terminator]
        /\ touched' = touched \cup {bytes_read, bytes_read - 1}
        /\ nuls' = nuls \ {bytes_read - 1}
    BY DEF Backspace
  <1>5. buffer \in [Places -> Bytes] /\ c \in Bytes /\ Terminator \in Bytes
    BY DEF PollInv, PollTypeOK, Bytes
  <1>6. PollTypeOK'
    BY <1>1, <1>2, <1>3, <1>4, <1>5 DEF PollInv, PollTypeOK, Bytes
  <1>7. Prefix'
    BY <1>1, <1>2, <1>3, <1>4, <1>5 DEF PollInv, Prefix, Places
  <1>8. ~Entered'
    BY <1>3 DEF Entered
  <1>9. Touches' /\ StaysNear'
    BY <1>1, <1>3, <1>4 DEF PollInv, Touches, StaysNear, Places
  <1>10. LineIsString'
    BY <1>8 DEF LineIsString
  <1> QED
    BY <1>6, <1>7, <1>9, <1>10 DEF PollInv

\* Enter ends the line and terminates it.
LEMMA NewlineInv ==
  ASSUME PollInv, NEW c \in Enters, Newline(c)
  PROVE  PollInv'
  <1> USE PollAssumption DEF READING, BUFFER_OVERFLOW
  <1>1. /\ bytes_read \in 0 .. Size - 1 /\ result = READING
        /\ bytes_read \in Places /\ bytes_read + 1 \in Places
    BY ReadingPlace DEF PollInv, Newline, Reading
  <1>2. /\ bytes_read' = bytes_read + 1 /\ result' = bytes_read + 1
        /\ buffer' = [buffer EXCEPT ![bytes_read] = c, ![bytes_read + 1] = Terminator]
        /\ touched' = touched \cup {bytes_read, bytes_read + 1}
        /\ nuls' = nuls
    BY DEF Newline
  <1>3. buffer \in [Places -> Bytes] /\ c \in Bytes /\ Terminator \in Bytes
    BY DEF PollInv, PollTypeOK, Bytes
  <1>4. PollTypeOK'
    BY <1>1, <1>2, <1>3 DEF PollInv, PollTypeOK, Bytes
  <1>5. /\ \A i \in 0 .. bytes_read - 1 : buffer'[i] \in Characters
        /\ nuls \subseteq 0 .. bytes_read - 1
        /\ \A i \in 0 .. bytes_read - 1 : buffer'[i] = Terminator <=> i \in nuls
        /\ buffer'[bytes_read] = c
        /\ buffer'[bytes_read + 1] = Terminator
    BY <1>1, <1>2, <1>3 DEF PollInv, Prefix, Places
  <1>10. \A i \in 0 .. bytes_read' - 1 :
           /\ buffer'[i] \in Characters \cup Enters
           /\ i < bytes_read => buffer'[i] \in Characters
           /\ buffer'[i] = Terminator <=> i \in nuls'
    <2> TAKE i \in 0 .. bytes_read' - 1
    <2>1. i = bytes_read \/ i \in 0 .. bytes_read - 1
      BY <1>1, <1>2
    <2>2. CASE i = bytes_read
      <3>1. bytes_read \notin nuls
        BY <1>1, <1>5
      <3>2. buffer'[i] = c /\ i \notin nuls'
        BY <1>2, <1>5, <2>2, <3>1, Zenon
      <3>3. c # Terminator /\ ~(i < bytes_read)
        BY <1>1, <2>2
      <3> QED
        BY <3>2, <3>3, Zenon
    <2>3. CASE i \in 0 .. bytes_read - 1
      BY <1>2, <1>5, <2>3, Zenon
    <2> QED
      BY <2>1, <2>2, <2>3
  <1>6. Prefix'
    <2>1. \A i \in 0 .. bytes_read' - 2 : i \in 0 .. bytes_read' - 1 /\ i < bytes_read
      BY <1>1, <1>2
    <2>2. /\ \A i \in 0 .. bytes_read' - 1 : buffer'[i] \in Characters \cup Enters
          /\ \A i \in 0 .. bytes_read' - 2 : buffer'[i] \in Characters
          /\ \A i \in 0 .. bytes_read' - 1 : buffer'[i] = Terminator <=> i \in nuls'
      BY <1>10, <2>1
    <2>3. /\ bytes_read' <= Size /\ result' # READING /\ result' = bytes_read'
          /\ nuls' \subseteq 0 .. bytes_read' - 1
      BY <1>1, <1>2, <1>5
    <2> QED
      BY <2>2, <2>3 DEF Prefix
  <1>7. Entered'
    BY <1>1, <1>2, <1>5 DEF Entered
  <1>8. Touches' /\ StaysNear'
    BY <1>1, <1>2, <1>7 DEF PollInv, Touches, StaysNear, Places
  <1>9. LineIsString'
    BY <1>1, <1>2, <1>5, <1>10 DEF LineIsString
  <1> QED
    BY <1>4, <1>6, <1>8, <1>9 DEF PollInv

\* Every byte received keeps the invariant.
LEMMA NextPollInv == PollInv /\ [PollNext]_pvars => PollInv'
  <1> SUFFICES ASSUME PollInv, [PollNext]_pvars PROVE PollInv'
    OBVIOUS
  <1>1. CASE \E c \in Characters : Character(c)
    BY <1>1, CharacterInv
  <1>2. CASE \E c \in Backspaces : Backspace(c)
    BY <1>2, BackspaceInv
  <1>3. CASE \E c \in Enters : Newline(c)
    BY <1>3, NewlineInv
  <1>4. CASE UNCHANGED pvars
    BY <1>4 DEF pvars, PollInv, PollTypeOK, Prefix, Touches, StaysNear, LineIsString, Entered
  <1> QED
    BY <1>1, <1>2, <1>3, <1>4 DEF PollNext

\* The invariant holds throughout every call of serial_poll.
THEOREM PollInvariant == PollSpec => []PollInv
  BY InitPollInv, NextPollInv, PTL DEF PollSpec

\* serial_poll never writes further than one byte outside the caller's array,
\* and only in the two cases that StaysNear names.
THEOREM AlwaysStaysNear == PollSpec => []StaysNear
  <1>1. PollInv => StaysNear
    BY DEF PollInv
  <1> QED
    BY <1>1, PollInvariant, PTL

\* After Enter the caller has a C string, and it is as long as serial_poll says
\* unless a NUL was typed.
THEOREM AlwaysString == PollSpec => []LineIsString
  <1>1. PollInv => LineIsString
    BY DEF PollInv
  <1> QED
    BY <1>1, PollInvariant, PTL

\* bytes_read stays below len while the call goes on.
THEOREM PollTypes == PollSpec => []PollTypeOK
  <1>1. PollInv => PollTypeOK
    BY DEF PollInv
  <1> QED
    BY <1>1, PollInvariant, PTL
-----------------------------------------------------------------------------
(***************************************************************************)
(* The refinement.                                                         *)
(***************************************************************************)

\* The bytes of the array that make up a line of n bytes.
Bytes1(b, n) == [i \in 1 .. n |-> b[i - 1]]

\* The line that the array holds is a sequence.
LEMMA LineSeq ==
  ASSUME NEW b, NEW n \in Nat, \A i \in 0 .. n - 1 : b[i] \in Bytes
  PROVE  Bytes1(b, n) \in Seq(Bytes) /\ Len(Bytes1(b, n)) = n
  <1>1. \A i \in 1 .. n : i - 1 \in 0 .. n - 1
    OBVIOUS
  <1>2. Bytes1(b, n) \in [1 .. n -> Bytes]
    BY <1>1 DEF Bytes1
  <1> QED
    BY <1>2 DEF Bytes1

\* While the call goes on the abstract editor is typing the line in the array.
LEMMA ReadingLine ==
  ASSUME PollInv, Reading
  PROVE  /\ TheLine = Bytes1(buffer, bytes_read) /\ TheOutcome = "typing"
         /\ TheLine \in Seq(Bytes) /\ Len(TheLine) = bytes_read
         /\ bytes_read \in 0 .. Size - 1
         /\ Editor!Room
  <1>1. result = READING /\ bytes_read \in 0 .. Size - 1 /\ buffer \in [Places -> Bytes]
    BY ReadingPlace DEF PollInv, Reading, PollTypeOK
  <1>2. TheLine = Bytes1(buffer, bytes_read) /\ TheOutcome = "typing"
    BY <1>1 DEF TheLine, TheOutcome, Bytes1, READING, BUFFER_OVERFLOW
  <1>3. \A i \in 0 .. bytes_read - 1 : buffer[i] \in Bytes
    BY <1>1, PollAssumption DEF Places
  <1>4. TheLine \in Seq(Bytes) /\ Len(TheLine) = bytes_read
    BY <1>1, <1>2, <1>3, LineSeq
  <1> QED
    BY <1>1, <1>2, <1>4, PollAssumption DEF Editor!Room

\* A byte that is stored behind the line is appended to the abstract line.
LEMMA Extends ==
  ASSUME PollInv, Reading, NEW c \in Bytes, PollInv',
         bytes_read' = bytes_read + 1, result' # BUFFER_OVERFLOW,
         \A i \in 0 .. bytes_read - 1 : buffer'[i] = buffer[i],
         buffer'[bytes_read] = c
  PROVE  TheLine' = Append(TheLine, c)
  <1>0. /\ TheLine \in Seq(Bytes) /\ Len(TheLine) = bytes_read /\ bytes_read \in Nat
        /\ TheLine = Bytes1(buffer, bytes_read)
    BY ReadingLine
  <1>1. TheLine' = Bytes1(buffer', bytes_read + 1)
    BY DEF TheLine, Bytes1
  <1>2. ASSUME NEW i \in 0 .. bytes_read PROVE buffer'[i] \in Bytes
    BY <1>0, <1>2, PollAssumption DEF PollInv, PollTypeOK, Prefix, Places
  <1>3. TheLine' \in Seq(Bytes) /\ Len(TheLine') = bytes_read + 1
    BY <1>0, <1>1, <1>2, LineSeq
  <1>4. /\ Append(TheLine, c) \in Seq(Bytes)
        /\ Len(Append(TheLine, c)) = bytes_read + 1
        /\ \A i \in 1 .. bytes_read : Append(TheLine, c)[i] = TheLine[i]
        /\ Append(TheLine, c)[bytes_read + 1] = c
    BY <1>0, AppendProperties
  <1>5. ASSUME NEW i \in 1 .. bytes_read + 1
        PROVE  TheLine'[i] = Append(TheLine, c)[i]
    <2>1. CASE i = bytes_read + 1
      BY <1>0, <1>1, <1>4, <2>1 DEF Bytes1
    <2>2. CASE i # bytes_read + 1
      <3>1. i \in 1 .. bytes_read /\ i - 1 \in 0 .. bytes_read - 1
        BY <1>0, <2>2
      <3> QED
        BY <1>0, <1>1, <1>4, <3>1 DEF Bytes1
    <2> QED
      BY <2>1, <2>2
  <1> QED
    BY <1>3, <1>4, <1>5, SeqEqual, Zenon

\* Each byte that serial_poll takes is one step of the editor.
LEMMA PollStep ==
  ASSUME PollInv, PollInv', [PollNext]_pvars
  PROVE  [Editor!Next]_(Editor!evars)
  <1> USE PollAssumption DEF READING, BUFFER_OVERFLOW
  <1>1. ASSUME NEW c \in Characters, Character(c)
        PROVE  Editor!Insert(c)
    <2>1. /\ Reading /\ bytes_read' = bytes_read + 1 /\ c \in Bytes
          /\ buffer' = [buffer EXCEPT ![bytes_read] = c]
      BY <1>1 DEF Character, Bytes
    <2>2. /\ bytes_read \in 0 .. Size - 1 /\ bytes_read \in Places
          /\ buffer \in [Places -> Bytes] /\ Editor!Room /\ Len(TheLine) = bytes_read
      BY <2>1, ReadingLine, ReadingPlace DEF PollInv, PollTypeOK
    <2>3. result' = IF bytes_read + 1 = Size THEN Size ELSE READING
      BY <1>1, <2>1, <2>2 DEF Character, Outcome
    <2>4. buffer'[bytes_read] = c /\ \A i \in 0 .. bytes_read - 1 : buffer'[i] = buffer[i]
      BY <2>1, <2>2 DEF Places
    <2>5. TheLine' = Append(TheLine, c)
      BY <2>1, <2>2, <2>3, <2>4, Extends
    <2>6. TheOutcome' = IF bytes_read + 1 = Size THEN "full" ELSE "typing"
      BY <2>1, <2>2, <2>3, <2>4 DEF TheOutcome, Entered
    <2> QED
      BY <2>2, <2>5, <2>6 DEF Editor!Insert
  <1>2. ASSUME NEW c \in Backspaces, Backspace(c)
        PROVE  Editor!Erase \/ Editor!EraseNothing
    <2>1. Reading /\ buffer' = [buffer EXCEPT ![bytes_read] = c, ![bytes_read - 1] = Terminator]
      BY <1>2 DEF Backspace
    <2>2. /\ bytes_read \in 0 .. Size - 1 /\ bytes_read \in Places /\ bytes_read - 1 \in Places
          /\ buffer \in [Places -> Bytes] /\ Editor!Room /\ Len(TheLine) = bytes_read
          /\ TheLine \in Seq(Bytes)
          /\ TheLine = Bytes1(buffer, bytes_read) /\ TheOutcome = "typing"
      BY <2>1, ReadingLine, ReadingPlace DEF PollInv, PollTypeOK
    <2>3. CASE bytes_read = 0
      <3>1. result' = BUFFER_OVERFLOW
        <4>1. bytes_read' = SizeMod - 1
          BY <1>2, <2>3 DEF Backspace
        <4>2. result' = Outcome(bytes_read')
          BY <1>2 DEF Backspace
        <4> QED
          BY <4>1, <4>2 DEF Outcome
      <3>2. TheLine' = <<>> /\ TheOutcome' = "error"
        BY <3>1 DEF TheLine, TheOutcome
      <3>3. TheLine = <<>>
        BY <2>2, <2>3
      <3> QED
        BY <2>2, <3>2, <3>3 DEF Editor!EraseNothing
    <2>4. CASE bytes_read # 0
      <3>0. bytes_read' = IF bytes_read = 0 THEN SizeMod - 1 ELSE bytes_read - 1
        BY <1>2, <2>2 DEF Backspace
      <3>1. bytes_read' = bytes_read - 1 /\ result' = READING
        BY <1>2, <2>2, <2>4, <3>0 DEF Backspace, Outcome
      <3>2. \A i \in 1 .. bytes_read - 1 : buffer'[i - 1] = buffer[i - 1]
        BY <2>1, <2>2, <2>4 DEF Places
      <3>3. TheLine' = [i \in 1 .. bytes_read - 1 |-> buffer'[i - 1]]
        BY <3>1 DEF TheLine
      <3>4. SubSeq(TheLine, 1, Len(TheLine) - 1) = [i \in 1 .. bytes_read - 1 |-> TheLine[i]]
        BY <2>2, <2>4
      <3>5. \A i \in 1 .. bytes_read - 1 : TheLine[i] = buffer[i - 1]
        BY <2>2, <2>4 DEF Bytes1
      <3>6. TheLine' = SubSeq(TheLine, 1, Len(TheLine) - 1)
        BY <3>2, <3>3, <3>4, <3>5
      <3>7. TheOutcome' = "typing" /\ TheLine # <<>>
        BY <2>2, <2>4, <3>1 DEF TheOutcome
      <3> QED
        BY <2>2, <3>6, <3>7 DEF Editor!Erase
    <2> QED
      BY <2>3, <2>4
  <1>3. ASSUME NEW c \in Enters, Newline(c)
        PROVE  Editor!Enter(c)
    <2>1. /\ Reading /\ bytes_read' = bytes_read + 1 /\ c \in Bytes
          /\ result' = bytes_read + 1
          /\ buffer' = [buffer EXCEPT ![bytes_read] = c, ![bytes_read + 1] = Terminator]
      BY <1>3 DEF Newline, Bytes
    <2>2. /\ bytes_read \in 0 .. Size - 1 /\ bytes_read \in Places /\ bytes_read + 1 \in Places
          /\ buffer \in [Places -> Bytes] /\ Editor!Room
      BY <2>1, ReadingLine, ReadingPlace DEF PollInv, PollTypeOK
    <2>3. buffer'[bytes_read] = c /\ \A i \in 0 .. bytes_read - 1 : buffer'[i] = buffer[i]
      BY <2>1, <2>2 DEF Places
    <2>4. TheLine' = Append(TheLine, c)
      <3>1. result' # BUFFER_OVERFLOW
        BY <2>1, <2>2
      <3> QED
        BY <2>1, <2>3, <3>1, Extends
    <2>5. TheOutcome' = "line"
      BY <2>1, <2>2, <2>3 DEF TheOutcome, Entered
    <2> QED
      BY <2>2, <2>4, <2>5 DEF Editor!Enter
  <1>4. CASE UNCHANGED pvars
    BY <1>4 DEF pvars, Editor!evars, TheLine, TheOutcome, Entered
  <1> QED
    BY <1>1, <1>2, <1>3, <1>4 DEF PollNext, Editor!Next

\* serial_poll implements the line editor, for every array and alphabet.
THEOREM PollRefinement == PollSpec => ImplementsEditor
  <1>1. PollInit => Editor!Init
    <2> SUFFICES ASSUME PollInit PROVE TheLine = <<>> /\ TheOutcome = "typing"
      BY DEF Editor!Init
    <2> QED
      BY DEF PollInit, TheLine, TheOutcome, READING, BUFFER_OVERFLOW
  <1>2. PollInv /\ PollInv' /\ [PollNext]_pvars => [Editor!Next]_(Editor!evars)
    BY PollStep
  <1> QED
    BY <1>1, <1>2, PollInvariant, PTL DEF PollSpec, ImplementsEditor, Editor!Spec
-----------------------------------------------------------------------------
(***************************************************************************)
(* Searching.  The loops of the library look for the first place of a      *)
(* string that is in a set of places.                                      *)
(***************************************************************************)

\* A set of natural numbers that is not empty has a least element.
LEMMA LeastOf ==
  ASSUME NEW T, T \subseteq Nat, T # {}
  PROVE  \E m \in T : \A n \in T : m <= n
<1> DEFINE R == {ss \in Nat \X Nat : ss[1] < ss[2]}
<1>1. IsWellFoundedOn(R, Nat)
  BY NatLessThanWellFounded DEF OpToRel
<1>2. PICK m \in T : \A n \in T : ~(<<n, m>> \in R)
  BY <1>1, WFMin
<1>3. ASSUME NEW n \in T PROVE m <= n
  <2>1. n \in Nat /\ m \in Nat /\ (n < m => <<n, m>> \in R)
    OBVIOUS
  <2> QED  BY <2>1, <1>2
<1> QED  BY <1>3

\* Counting up to n, as a statement about a set.
LEMMA Counting ==
  ASSUME NEW n \in Nat, NEW S, 0 \in S,
         \A i \in 0 .. n - 1 : i \in S => i + 1 \in S
  PROVE  n \in S
<1> SUFFICES ASSUME n \notin S PROVE FALSE
  OBVIOUS
<1> DEFINE T == {j \in 0 .. n : j \notin S}
<1>1. T \subseteq Nat /\ n \in T
  OBVIOUS
<1>2. PICK m \in T : \A j \in T : m <= j
  BY <1>1, LeastOf
<1>3. m # 0 /\ m - 1 \in 0 .. n - 1 /\ m - 1 \notin T
  BY <1>2
<1> QED  BY <1>2, <1>3

\* The first element of T that is not below i.
First(T, i) == CHOOSE e \in T : i <= e /\ \A j \in T : i <= j => e <= j

\* It exists when T reaches i, and is the one from i + 1 on unless i is in T.
LEMMA FirstIs ==
  ASSUME NEW T, T \subseteq Nat, NEW i \in Nat, NEW n \in T, i <= n
  PROVE  /\ First(T, i) \in T /\ i <= First(T, i) /\ First(T, i) <= n
         /\ \A j \in T : i <= j => First(T, i) <= j
         /\ i \in T => First(T, i) = i
         /\ i \notin T => First(T, i) = First(T, i + 1)
<1> DEFINE U == {j \in T : i <= j}
<1>1. U \subseteq Nat /\ n \in U
  OBVIOUS
<1>2. PICK m \in U : \A j \in U : m <= j
  BY <1>1, LeastOf
<1>3. /\ First(T, i) \in T /\ i <= First(T, i)
      /\ \A j \in T : i <= j => First(T, i) <= j
  BY <1>2 DEF First
<1> DEFINE e == First(T, i)
           d == First(T, i + 1)
<1> HIDE DEF e, d
<1>4. e \in T /\ e \in Nat /\ i <= e /\ e <= n /\ \A j \in T : i <= j => e <= j
  BY <1>3 DEF e
<1>5. i \in T => e = i
  BY <1>4
<1>6. ASSUME i \notin T PROVE e = d
  <2>1. e # i /\ i + 1 <= e
    BY <1>4, <1>6
  <2>2. \A j \in T : i + 1 <= j => e <= j
    BY <1>4
  <2>3. d \in T /\ i + 1 <= d /\ \A j \in T : i + 1 <= j => d <= j
    BY <1>4, <2>1, <2>2 DEF First, d
  <2>4. d <= e /\ e <= d /\ d \in Nat
    BY <1>4, <2>1, <2>3
  <2> QED  BY <1>4, <2>4
<1> QED  BY <1>4, <1>5, <1>6 DEF e, d

\* A loop that stops in the places of T, with the result v, and may count its
\* turns (c = 1).
Search(L, T, v, c) ==
  /\ L \in Nat /\ T \subseteq 1 .. L /\ L \in T
  /\ c = 0 \/ (c = 1 /\ v \in [1 .. L -> Int])

Turn(T, v, c, f, i) ==
  IF i \in T THEN v[i] ELSE IF c = 1 THEN 1 + f[i + 1] ELSE f[i + 1]

Found(T, v, c, i) ==
  IF c = 1 THEN v[First(T, i)] + (First(T, i) - i) ELSE v[First(T, i)]

Loop(L, T, v, c, f) == f = [i \in 1 .. L |-> Turn(T, v, c, f, i)]

\* There is a function that does what the loop does ...
LEMMA LoopExists ==
  ASSUME NEW L, NEW T, NEW v, NEW c, Search(L, T, v, c)
  PROVE  \E f : Loop(L, T, v, c, f)
<1> USE DEF Search
<1> DEFINE f == [i \in 1 .. L |-> Found(T, v, c, i)]
<1>1. ASSUME NEW i \in 1 .. L PROVE f[i] = Turn(T, v, c, f, i)
  <2> DEFINE e == First(T, i)
  <2>1. T \subseteq Nat /\ i \in Nat /\ i <= L
    OBVIOUS
  <2>2. e \in T /\ (i \in T => e = i) /\ (i \notin T => e = First(T, i + 1))
    BY <2>1, FirstIs
  <2> HIDE DEF e
  <2>3. e \in 1 .. L /\ (c = 1 => v[e] \in Int)
    <3>1. e \in 1 .. L
      BY <2>2
    <3>2. ASSUME c = 1 PROVE v[e] \in Int
      <4>1. v \in [1 .. L -> Int]
        BY <3>2
      <4> QED  BY <3>1, <4>1
    <3> QED  BY <3>1, <3>2
  <2>4. CASE i \in T
    BY <2>2, <2>3, <2>4 DEF Turn, Found, e
  <2>5. CASE i \notin T
    <3>1. i + 1 \in 1 .. L
      BY <2>5
    <3>2. /\ f[i] = IF c = 1 THEN v[e] + (e - i) ELSE v[e]
          /\ f[i + 1] = IF c = 1 THEN v[e] + (e - (i + 1)) ELSE v[e]
      BY <2>2, <2>5, <3>1 DEF Found, e
    <3>3. Turn(T, v, c, f, i) = IF c = 1 THEN 1 + f[i + 1] ELSE f[i + 1]
      BY <2>5 DEF Turn
    <3> HIDE DEF f
    <3>4. CASE c = 0
      BY <3>2, <3>3, <3>4
    <3>5. CASE c = 1
      BY <2>3, <3>2, <3>3, <3>5
    <3> QED  BY <3>4, <3>5
  <2> QED  BY <2>4, <2>5
<1>2. Loop(L, T, v, c, f)
  BY <1>1 DEF Loop
<1> HIDE DEF f
<1> QED  BY <1>2

\* ... and it finds the first place of T.
LEMMA LoopFinds ==
  ASSUME NEW L, NEW T, NEW v, NEW c, Search(L, T, v, c),
         NEW f, Loop(L, T, v, c, f)
  PROVE  f[1] = Found(T, v, c, 1)
<1> USE DEF Search
<1> DEFINE e == First(T, 1)
           S == {k \in 0 .. e - 1 : f[e - k] = IF c = 1 THEN v[e] + k ELSE v[e]}
<1>0. \A i \in 1 .. L : f[i] = Turn(T, v, c, f, i)
  BY DEF Loop
<1>1. e \in T /\ e \in 1 .. L /\ \A j \in 1 .. L : j < e => j \notin T
  <2>1. T \subseteq Nat /\ 1 \in Nat /\ 1 <= L
    OBVIOUS
  <2>2. First(T, 1) \in T /\ \A j \in T : 1 <= j => First(T, 1) <= j
    BY <2>1, FirstIs
  <2> HIDE DEF e
  <2>3. e \in T /\ \A j \in T : 1 <= j => e <= j
    BY <2>2 DEF e
  <2>4. e \in 1 .. L
    BY <2>3
  <2>5. ASSUME NEW j \in 1 .. L, j < e PROVE j \notin T
    BY <2>3, <2>4, <2>5
  <2> QED  BY <2>3, <2>4, <2>5
<1> HIDE DEF e
<1>2. (c = 1 => v[e] \in Int) /\ e \in Nat
  BY <1>1
<1>3. 0 \in S
  <2>1. e - 0 = e /\ 0 \in 0 .. e - 1 /\ f[e] = v[e] /\ (c = 1 => v[e] + 0 = v[e])
    BY <1>0, <1>1, <1>2 DEF Turn
  <2> QED  BY <2>1
<1>4. ASSUME NEW k \in 0 .. (e - 1) - 1, k \in S PROVE k + 1 \in S
  <2>1. e - (k + 1) \in 1 .. L /\ e - (k + 1) < e /\ (e - (k + 1)) + 1 = e - k
    BY <1>1
  <2>2. f[e - (k + 1)] = IF c = 1 THEN 1 + f[e - k] ELSE f[e - k]
    BY <1>0, <1>1, <2>1 DEF Turn
  <2>3. (f[e - k] = IF c = 1 THEN v[e] + k ELSE v[e]) /\ k + 1 \in 0 .. e - 1 /\ k \in Int
    BY <1>2, <1>4
  <2> HIDE DEF S
  <2>4. f[e - (k + 1)] = IF c = 1 THEN v[e] + (k + 1) ELSE v[e]
    <3>1. CASE c = 0
      BY <2>2, <2>3, <3>1
    <3>2. CASE c = 1
      <4>1. f[e - (k + 1)] = 1 + (v[e] + k) /\ v[e] \in Int
        BY <1>2, <2>2, <2>3, <3>2
      <4> DEFINE y == v[e]
      <4> HIDE DEF y
      <4>2. 1 + (y + k) = y + (k + 1)
        BY <2>3, <4>1 DEF y
      <4> QED  BY <3>2, <4>1, <4>2 DEF y
    <3> QED  BY <3>1, <3>2
  <2> QED  BY <2>3, <2>4 DEF S
<1> HIDE DEF S
<1>5. e - 1 \in S
  <2>1. e - 1 \in Nat
    BY <1>1
  <2> QED  BY <1>3, <1>4, <2>1, Counting
<1>6. e - (e - 1) = 1
  BY <1>1
<1> QED  BY <1>5, <1>6 DEF S, e, Found
-----------------------------------------------------------------------------
(***************************************************************************)
(* What strlen, strcmp and strcpy return.                                  *)
(***************************************************************************)
CString(s) == s \in Seq(Int) /\ Len(s) > 0 /\ s[Len(s)] = NUL

Nuls(s) == {j \in 1 .. Len(s) : s[j] = NUL}

\* strlen counts the characters before the first NUL.
LEMMA StrlenIs ==
  ASSUME NEW s, CString(s), NEW e \in 1 .. Len(s), s[e] = NUL,
         \A j \in 1 .. e - 1 : s[j] # NUL
  PROVE  strlen(s) = e - 1
<1> DEFINE L == Len(s)
           T == Nuls(s)
           v == [i \in 1 .. L |-> 0]
           Body(f) == [i \in 1 .. L |-> IF s[i] = NUL THEN 0 ELSE 1 + f[i + 1]]
           len == CHOOSE f : f = Body(f)
<1>1. strlen(s) = len[1]
  BY DEF strlen
<1>2. L \in Nat /\ T \subseteq 1 .. L /\ Search(L, T, v, 1)
  BY DEF CString, Nuls, Search
<1>3. \A f : \A i \in 1 .. L : Body(f)[i] = Turn(T, v, 1, f, i)
  BY DEF Turn, Nuls
<1>4. PICK f : Loop(L, T, v, 1, f)
  <2> HIDE DEF L, T, v, Body
  <2> QED  BY <1>2, LoopExists
<1>5. f = Body(f)
  <2>1. Body(f) = [i \in 1 .. L |-> Turn(T, v, 1, f, i)]
    BY <1>3
  <2> QED  BY <1>4, <2>1 DEF Loop
<1>6. len = Body(len)
  <2> HIDE DEF Body
  <2> QED  BY <1>5
<1> HIDE DEF len
<1>7. Loop(L, T, v, 1, len)
  <2>1. Body(len) = [i \in 1 .. L |-> Turn(T, v, 1, len, i)]
    BY <1>3
  <2> QED  BY <1>6, <2>1 DEF Loop
<1>8. len[1] = Found(T, v, 1, 1)
  <2> HIDE DEF L, T, v, Body
  <2> QED  BY <1>2, <1>7, LoopFinds
<1>9. First(T, 1) = e
  <2>1. T \subseteq Nat /\ 1 \in Nat /\ e \in T /\ 1 <= e /\ L \in Nat
    BY <1>2 DEF Nuls
  <2> HIDE DEF T
  <2>2. First(T, 1) \in T /\ First(T, 1) <= e /\ 1 <= First(T, 1)
    BY <2>1, FirstIs
  <2>3. First(T, 1) \in 1 .. L /\ s[First(T, 1)] = NUL
    BY <2>2 DEF T, Nuls
  <2> QED  BY <2>1, <2>2, <2>3
<1>10. Found(T, v, 1, 1) = 0 + (e - 1)
  BY <1>9 DEF Found
<1> QED  BY <1>1, <1>2, <1>8, <1>10

\* Where a comparison of s and t ends.
Apart(s, t) == {j \in 1 .. Len(s) : s[j] = NUL \/ s[j] # t[j]}

\* strcmp compares the strings where they differ first, or at their ends.
LEMMA StrcmpIs ==
  ASSUME NEW s, NEW t, CString(s), CString(t),
         \A j \in 1 .. Len(t) - 1 : t[j] # NUL
  PROVE  \E e \in 1 .. Len(s) :
           /\ e <= Len(t)
           /\ s[e] = NUL \/ s[e] # t[e]
           /\ \A j \in 1 .. e - 1 : s[j] # NUL /\ s[j] = t[j]
           /\ strcmp(s, t) = s[e] - t[e]
<1> DEFINE L == Len(s)
           T == Apart(s, t)
           e == First(T, 1)
           v == [i \in 1 .. L |-> s[i] - t[i]]
           Body(f) == [i \in 1 .. L |-> IF s[i] # NUL /\ s[i] = t[i] THEN f[i + 1]
                                                                   ELSE s[i] - t[i]]
           cmp == CHOOSE f : f = Body(f)
<1>1. strcmp(s, t) = cmp[1]
  BY DEF strcmp
<1>2. L \in Nat /\ T \subseteq 1 .. L /\ L \in T /\ Search(L, T, v, 0)
  <2>1. L \in Nat /\ L \in 1 .. L /\ s[L] = NUL
    BY DEF CString
  <2>2. T \subseteq 1 .. L /\ L \in T
    BY <2>1 DEF Apart
  <2> HIDE DEF L, T, v
  <2> QED  BY <2>1, <2>2 DEF Search
<1>3. \A f : \A i \in 1 .. L : Body(f)[i] = Turn(T, v, 0, f, i)
  BY DEF Turn, Apart
<1>4. PICK f : Loop(L, T, v, 0, f)
  <2> HIDE DEF L, T, v, Body
  <2> QED  BY <1>2, LoopExists
<1>5. f = Body(f)
  <2>1. Body(f) = [i \in 1 .. L |-> Turn(T, v, 0, f, i)]
    BY <1>3
  <2> QED  BY <1>4, <2>1 DEF Loop
<1>6. cmp = Body(cmp)
  <2> HIDE DEF Body
  <2> QED  BY <1>5
<1> HIDE DEF cmp
<1>7. Loop(L, T, v, 0, cmp)
  <2>1. Body(cmp) = [i \in 1 .. L |-> Turn(T, v, 0, cmp, i)]
    BY <1>3
  <2> QED  BY <1>6, <2>1 DEF Loop
<1>8. cmp[1] = v[e]
  <2> HIDE DEF L, T, v, Body
  <2>1. cmp[1] = Found(T, v, 0, 1)
    BY <1>2, <1>7, LoopFinds
  <2> QED  BY <2>1 DEF Found
<1>9. e \in T /\ \A j \in T : 1 <= j => e <= j
  <2>1. T \subseteq Nat /\ 1 \in Nat /\ 1 <= L
    BY <1>2
  <2> HIDE DEF T, L
  <2> QED  BY <1>2, <2>1, FirstIs
<1> HIDE DEF e
<1>10. /\ e \in 1 .. L /\ (s[e] = NUL \/ s[e] # t[e])
       /\ \A j \in 1 .. e - 1 : s[j] # NUL /\ s[j] = t[j]
  <2>1. e \in 1 .. L /\ (s[e] = NUL \/ s[e] # t[e])
    BY <1>9 DEF Apart
  <2>2. ASSUME NEW j \in 1 .. e - 1 PROVE s[j] # NUL /\ s[j] = t[j]
    <3>1. j \in 1 .. L /\ j \notin T
      BY <1>2, <1>9, <2>1
    <3> QED  BY <3>1 DEF Apart
  <2> QED  BY <2>1, <2>2
<1>11. e <= Len(t)
  <2>1. Len(t) \in Nat /\ Len(t) > 0 /\ t[Len(t)] = NUL
    BY DEF CString
  <2> QED  BY <1>2, <1>10, <2>1
<1>12. cmp[1] = s[e] - t[e]
  BY <1>8, <1>10
<1> QED  BY <1>1, <1>10, <1>11, <1>12

\* A string that ends where its sequence ends.
Plain(s) == CString(s) /\ \A j \in 1 .. Len(s) - 1 : s[j] # NUL

\* strcmp is the order of the dictionary, and 0 for equal strings only.
LEMMA StrcmpOrders ==
  ASSUME NEW s, NEW t, Plain(s), Plain(t)
  PROVE  /\ strcmp(s, t) = 0 <=> s = t
         /\ strcmp(s, t) < 0 <=> Less(s, t)
<1>0. /\ s \in Seq(Int) /\ Len(s) \in Nat /\ Len(s) > 0 /\ s[Len(s)] = NUL
      /\ t \in Seq(Int) /\ Len(t) \in Nat /\ Len(t) > 0 /\ t[Len(t)] = NUL
      /\ DOMAIN s = 1 .. Len(s) /\ DOMAIN t = 1 .. Len(t)
      /\ \A j \in 1 .. Len(s) - 1 : s[j] # NUL
      /\ \A j \in 1 .. Len(t) - 1 : t[j] # NUL
  BY DEF Plain, CString
<1>1. PICK e \in 1 .. Len(s) :
        /\ e <= Len(t)
        /\ s[e] = NUL \/ s[e] # t[e]
        /\ \A j \in 1 .. e - 1 : s[j] # NUL /\ s[j] = t[j]
        /\ strcmp(s, t) = s[e] - t[e]
  <2>1. CString(s) /\ CString(t) /\ \A j \in 1 .. Len(t) - 1 : t[j] # NUL
    BY DEF Plain
  <2> QED  BY <2>1, StrcmpIs
<1>2. s[e] \in Int /\ t[e] \in Int /\ e \in 1 .. Len(t) /\ NUL = 0
  BY <1>0, <1>1 DEF NUL
<1>3. s[e] = t[e] => s = t
  <2> HAVE s[e] = t[e]
  <2>1. e = Len(s) /\ e = Len(t)
    <3>1. s[e] = NUL /\ t[e] = NUL
      BY <1>1
    <3>2. ~(e \in 1 .. Len(s) - 1) /\ ~(e \in 1 .. Len(t) - 1)
      BY <1>0, <3>1
    <3>3. \A m, k \in Nat : k \in 1 .. m /\ ~(k \in 1 .. m - 1) => k = m
      OBVIOUS
    <3>4. e \in Nat /\ e \in 1 .. Len(s) /\ e \in 1 .. Len(t) /\ Len(s) \in Nat /\ Len(t) \in Nat
      BY <1>0, <1>2
    <3> QED  BY <3>2, <3>3, <3>4, Zenon
  <2>2. \A j \in 1 .. Len(s) : s[j] = t[j]
    BY <1>0, <1>1, <2>1
  <2> QED  BY <1>0, <2>1, <2>2, SeqEqual
<1>4. s = t => s[e] = t[e]
  OBVIOUS
<1>5. s[e] < t[e] => Less(s, t)
  <2> HAVE s[e] < t[e]
  <2>1. e \in DOMAIN s \cap DOMAIN t /\ \A j \in 1 .. e - 1 : s[j] = t[j]
    BY <1>0, <1>1, <1>2
  <2> QED  BY <2>1 DEF Less
<1>6. Less(s, t) => s[e] < t[e]
  <2> HAVE Less(s, t)
  <2>1. PICK i \in 1 .. Len(s) : i <= Len(t) /\ s[i] < t[i] /\ \A j \in 1 .. i - 1 : s[j] = t[j]
    <3>1. PICK i \in DOMAIN s \cap DOMAIN t : s[i] < t[i] /\ \A j \in 1 .. i - 1 : s[j] = t[j]
      BY DEF Less
    <3>2. i \in 1 .. Len(s) /\ i \in 1 .. Len(t)
      BY <1>0, <3>1
    <3>3. i <= Len(t)
      BY <3>2
    <3> QED  BY <3>1, <3>2, <3>3
  <2>2. s[i] \in Int /\ t[i] \in Int
    BY <1>0, <2>1
  <2>a. s[i] # t[i] /\ i \in Int /\ e \in Int /\ 1 <= i /\ 1 <= e
    <3>1. \A a, b \in Int : a < b => a # b
      OBVIOUS
    <3>2. s[i] \in Int /\ t[i] \in Int
      BY <2>2
    <3> QED  BY <1>0, <2>1, <3>1, <3>2
  <2>3. i = e
    <3>1. ~(i < e)
      <4> SUFFICES ASSUME i < e PROVE FALSE
        OBVIOUS
      <4>1. i \in 1 .. e - 1
        BY <2>a
      <4> QED  BY <1>1, <2>a, <4>1
    <3>2. ~(e < i)
      <4> SUFFICES ASSUME e < i PROVE FALSE
        OBVIOUS
      <4>0. e \in 1 .. i - 1 /\ i <= Len(s)
        BY <1>0, <2>a
      <4>1. s[e] = t[e] /\ s[e] = NUL
        BY <1>1, <2>1, <4>0
      <4>2. e \in 1 .. Len(s) - 1
        BY <1>0, <2>a, <4>0
      <4> QED  BY <1>0, <4>1, <4>2
    <3> QED  BY <2>a, <3>1, <3>2
  <2> QED  BY <2>1, <2>3
<1>7. (s[e] - t[e] = 0 <=> s[e] = t[e]) /\ (s[e] - t[e] < 0 <=> s[e] < t[e])
  <2>1. \A a, b \in Int : (a - b = 0 <=> a = b) /\ (a - b < 0 <=> a < b)
    OBVIOUS
  <2>2. s[e] \in Int /\ t[e] \in Int
    BY <1>2
  <2> QED  BY <2>1, <2>2
<1> QED  BY <1>1, <1>3, <1>4, <1>5, <1>6, <1>7
-----------------------------------------------------------------------------
(***************************************************************************)
(* strtok.                                                                 *)
(***************************************************************************)

\* strtok's pointers stay in the string; from the cursor on nothing is cut, and
\* what it returned is still there.
StrtokInv ==
  /\ line \in Strings
  /\ str \in Seq(Int) /\ Len(str) = Len(line) /\ str[Len(str)] = NUL
  /\ phase \in {"out", "skip", "scan"}
  /\ p \in 1 .. Len(Delims) + 1
  /\ Cursor \in 0 .. Len(str)
  /\ \A j \in Cursor .. Len(str) - 1 : Cursor # NULL => str[j] # NUL
  /\ phase # "out" => s1 # NULL
  /\ phase = "skip" => \A k \in 1 .. p - 1 : Delims[k] # str[s1]
  /\ phase = "scan" => /\ tok_tmp \in s1 .. Len(str)
                       /\ str[s1] # NUL /\ str[s1] \notin Range(Delims)
                       /\ \A j \in s1 .. tok_tmp - 1 : str[j] \notin Range(Delims)
  /\ phase = "out" /\ ret # NULL => /\ ret \in 1 .. Len(str)
                                    /\ word = WordFrom(str, ret)

\* A line is a string that ends where its sequence ends.
LEMMA LinePlain ==
  ASSUME NEW s \in Strings
  PROVE  Plain(s)
<1>1. PICK n \in 0 .. MaxLine : \E f \in [1 .. n -> Alphabet] : s = Append(f, NUL)
  BY DEF Strings
<1>l. PICK l \in [1 .. n -> Alphabet] : s = Append(l, NUL)
  BY <1>1
<1>2. n \in Nat /\ Alphabet \subseteq Int /\ NUL \in Int /\ NUL \notin Alphabet
  BY StrtokAssumption DEF NUL
<1>3. l \in Seq(Int) /\ Len(l) = n
  <2>1. l \in [1 .. n -> Int]
    BY <1>2
  <2> QED  BY <1>2, <2>1
<1>4. /\ s \in Seq(Int) /\ Len(s) = n + 1
      /\ \A i \in 1 .. n : s[i] = l[i]
      /\ s[n + 1] = NUL
  BY <1>l, <1>2, <1>3, AppendProperties
<1>5. \A j \in 1 .. Len(s) - 1 : s[j] # NUL
  <2>1. \A j \in 1 .. n : s[j] \in Alphabet
    BY <1>4
  <2>2. Len(s) - 1 = n
    BY <1>2, <1>4
  <2> QED  BY <1>2, <2>1, <2>2
<1> QED  BY <1>2, <1>4, <1>5 DEF Plain, CString

\* Where a string that begins inside another one ends.
LEMMA FromString ==
  ASSUME NEW b, CString(b), NEW i \in 1 .. Len(b)
  PROVE  \E e \in i .. Len(b) :
           /\ b[e] = NUL /\ \A j \in i .. e - 1 : b[j] # NUL
           /\ CString(From(b, i))
           /\ strlen(From(b, i)) = e - i
           /\ \A k \in 1 .. e - i + 1 : From(b, i)[k] = b[i + k - 1]
<1> DEFINE L == Len(b)
           e == First(Nuls(b), i)
           s == From(b, i)
<1>0. b \in Seq(Int) /\ L \in Nat /\ L > 0 /\ b[L] = NUL /\ i \in Nat /\ 1 <= i /\ i <= L
  BY DEF CString
<1>1. s \in Seq(Int) /\ Len(s) = L - i + 1 /\ \A k \in 1 .. L - i + 1 : s[k] = b[i + k - 1]
  <2>1. i \in Int /\ L \in Int /\ \A j \in i .. L : b[j] \in Int
    BY <1>0
  <2> HIDE DEF L
  <2>2. SubSeq(b, i, L) \in Seq(Int) /\ Len(SubSeq(b, i, L)) = L - i + 1
        /\ \A k \in 1 .. L - i + 1 : SubSeq(b, i, L)[k] = b[i + k - 1]
    BY <1>0, <2>1, SubSeqProperties
  <2> QED  BY <2>2 DEF From, L
<1>2. /\ e \in i .. L /\ b[e] = NUL
      /\ \A j \in i .. e - 1 : b[j] # NUL
  <2>1. Nuls(b) \subseteq Nat /\ L \in Nuls(b)
    BY <1>0 DEF Nuls
  <2>2. e \in Nuls(b) /\ i <= e /\ \A j \in Nuls(b) : i <= j => e <= j
    BY <1>0, <2>1, FirstIs
  <2> HIDE DEF e, L
  <2>3. e \in Nat /\ e <= L /\ b[e] = NUL
    BY <2>2 DEF Nuls, L
  <2>4. ASSUME NEW j \in i .. e - 1 PROVE b[j] # NUL
    <3>1. j \in 1 .. L /\ ~(e <= j) /\ i <= j
      BY <1>0, <2>3
    <3>2. j \notin Nuls(b)
      BY <2>2, <3>1
    <3> QED  BY <3>1, <3>2 DEF Nuls, L
  <2> QED  BY <1>0, <2>2, <2>3, <2>4
<1> HIDE DEF e, L, s
<1>3. e \in Nat /\ i <= e /\ e <= L
  BY <1>0, <1>2
<1>4. CString(s)
  <2>1. Len(s) \in 1 .. L - i + 1 /\ i + Len(s) - 1 = L /\ Len(s) > 0
    BY <1>0, <1>1
  <2> QED  BY <1>0, <1>1, <2>1 DEF CString
<1>5. strlen(s) = (e - i + 1) - 1
  <2>1. e - i + 1 \in 1 .. Len(s) /\ i + (e - i + 1) - 1 = e
    BY <1>0, <1>1, <1>3
  <2>2. s[e - i + 1] = NUL
    BY <1>1, <1>2, <2>1
  <2>3. ASSUME NEW k \in 1 .. (e - i + 1) - 1 PROVE s[k] # NUL
    <3>1. k \in 1 .. L - i + 1 /\ i + k - 1 \in i .. e - 1
      BY <1>0, <1>3
    <3> QED  BY <1>1, <1>2, <3>1
  <2> HIDE DEF s
  <2> QED  BY <1>4, <2>1, <2>2, <2>3, StrlenIs
<1>6. (e - i + 1) - 1 = e - i /\ \A k \in 1 .. e - i + 1 : k \in 1 .. L - i + 1
  BY <1>0, <1>3
<1> QED  BY <1>1, <1>2, <1>4, <1>5, <1>6 DEF s, L

\* What strtok looks for: the delimiters, and then a NUL.
LEMMA Delimiters ==
  /\ Len(Delims) \in Nat
  /\ \A k \in 1 .. Len(Delims) : s2[k] = Delims[k] /\ Delims[k] # NUL
  /\ s2[Len(Delims) + 1] = NUL
  /\ Range(Delims) = {Delims[k] : k \in 1 .. Len(Delims)}
  /\ NUL \notin Range(Delims)
<1>1. Delims \in Seq(Int) /\ Len(Delims) \in Nat /\ DOMAIN Delims = 1 .. Len(Delims)
  <2> DEFINE S == 1 .. 255
             n == Len(Delims)
  <2>1. S \subseteq Int /\ Delims \in Seq(S)
    BY StrtokAssumption
  <2> HIDE DEF S
  <2>2. Delims \in [1 .. n -> S] /\ n \in Nat
    BY <2>1
  <2> HIDE DEF n
  <2>3. Delims \in [1 .. n -> Int]
    BY <2>1, <2>2
  <2>4. Delims \in Seq(Int)
    BY <2>2, <2>3
  <2> QED  BY <2>2, <2>4 DEF n
<1>2. \A k \in 1 .. Len(Delims) : Delims[k] # NUL
  <2> DEFINE S == 1 .. 255
  <2>1. NUL \notin S /\ Delims \in Seq(S)
    BY StrtokAssumption DEF NUL
  <2> HIDE DEF S
  <2> QED  BY <2>1
<1>3. \A k \in 1 .. Len(Delims) : s2[k] = Delims[k]
  BY <1>1, AppendProperties DEF s2, NUL
<1>4. s2[Len(Delims) + 1] = NUL
  BY <1>1, AppendProperties DEF s2, NUL
<1>5. Range(Delims) = {Delims[k] : k \in 1 .. Len(Delims)}
  BY <1>1 DEF Range
<1> QED  BY <1>1, <1>2, <1>3, <1>4, <1>5

\* Before the first call, the buffer is the line.
LEMMA InitStrtokInv == StrtokInit => StrtokInv
<1> SUFFICES ASSUME StrtokInit PROVE StrtokInv
  OBVIOUS
<1>1. Plain(line)
  BY LinePlain DEF StrtokInit
<1>2. /\ str = line /\ phase = "out" /\ p = 1 /\ tok_tmp = 1 /\ ret = NULL /\ Cursor = 1
      /\ line \in Strings
  BY DEF StrtokInit, Cursor
<1>3. str \in Seq(Int) /\ Len(str) > 0 /\ Len(str) \in Nat /\ str[Len(str)] = NUL
      /\ \A j \in 1 .. Len(str) - 1 : str[j] # NUL
  BY <1>1, <1>2 DEF Plain, CString
<1>4. p \in 1 .. Len(Delims) + 1
  BY <1>2, Delimiters
<1> QED  BY <1>2, <1>3, <1>4 DEF StrtokInv

\* A call of strtok, and every turn of its loops, preserves it.
LEMMA NextStrtokInv == StrtokInv /\ [StrtokNext]_svars => StrtokInv'
<1> SUFFICES ASSUME StrtokInv, [StrtokNext]_svars PROVE StrtokInv'
  OBVIOUS
<1> DEFINE L == Len(str)
<1>0. /\ line \in Strings /\ str \in Seq(Int) /\ Len(str) = Len(line) /\ L \in Nat
      /\ str[L] = NUL /\ Cursor \in 0 .. L
      /\ \A j \in Cursor .. L - 1 : Cursor # NULL => str[j] # NUL
  BY DEF StrtokInv
<1>1. CASE Call
  <2>1. phase = "out" /\ UNCHANGED <<line, str, tok_tmp>> /\ Cursor = tok_tmp
    BY <1>1 DEF Call, Cursor
  <2>2. CASE tok_tmp = NULL
    <3>1. ret' = NULL /\ UNCHANGED <<phase, s1, p>> /\ Cursor' = Cursor
      BY <1>1, <2>1, <2>2 DEF Call, Cursor
    <3> QED  BY <2>1, <3>1 DEF StrtokInv
  <2>3. CASE tok_tmp # NULL
    <3>1. s1' = tok_tmp /\ p' = 1 /\ phase' = "skip" /\ Cursor' = Cursor
      BY <1>1, <2>1, <2>3 DEF Call, Cursor
    <3>2. 1 \in 1 .. Len(Delims) + 1 /\ \A k \in 1 .. 1 - 1 : FALSE
      BY Delimiters
    <3> QED  BY <2>1, <2>3, <3>1, <3>2 DEF StrtokInv
  <2> QED  BY <2>2, <2>3
<1>2. CASE Skip
  <2>1. /\ phase = "skip" /\ UNCHANGED <<line, str>> /\ Cursor = s1 /\ s1 # NULL
        /\ p \in 1 .. Len(Delims) + 1 /\ \A k \in 1 .. p - 1 : Delims[k] # str[s1]
    BY <1>2 DEF Skip, Cursor, StrtokInv
  <2>2. CASE s2[p] # NUL /\ str[s1] # NUL /\ SkipOne /\ UNCHANGED <<phase, tok_tmp, ret, word>>
    <3>1. p \in 1 .. Len(Delims) /\ s2[p] = Delims[p]
      BY <2>1, <2>2, Delimiters
    <3>2. CASE str[s1] = s2[p]
      <4>1. s1' = s1 + 1 /\ p' = 1 /\ Cursor' = s1 + 1 /\ phase' = "skip"
        BY <2>1, <2>2, <3>2 DEF SkipOne, Cursor
      <4>2. s1 + 1 \in 0 .. L /\ s1 + 1 # NULL /\ \A j \in s1 + 1 .. L - 1 : j \in s1 .. L - 1
        BY <1>0, <2>1, <2>2 DEF NULL
      <4>3. 1 \in 1 .. Len(Delims) + 1 /\ \A k \in 1 .. 1 - 1 : FALSE
        BY Delimiters
      <4>4. \A j \in s1 + 1 .. L - 1 : str[j] # NUL
        BY <1>0, <2>1, <4>2
      <4> QED  BY <1>0, <2>1, <4>1, <4>2, <4>3, <4>4 DEF StrtokInv
    <3>3. CASE str[s1] # s2[p]
      <4>1. s1' = s1 /\ p' = p + 1 /\ Cursor' = Cursor /\ phase' = "skip"
        BY <2>1, <2>2, <3>3 DEF SkipOne, Cursor
      <4>2. p + 1 \in 1 .. Len(Delims) + 1 /\ \A k \in 1 .. (p + 1) - 1 : k \in 1 .. p - 1 \/ k = p
        BY <3>1, Delimiters
      <4>3. \A k \in 1 .. (p + 1) - 1 : Delims[k] # str[s1]
        BY <2>1, <3>1, <3>3, <4>2
      <4> QED  BY <1>0, <2>1, <4>1, <4>2, <4>3 DEF StrtokInv
    <3> QED  BY <3>2, <3>3
  <2>3. CASE str[s1] = NUL /\ tok_tmp' = NULL /\ ret' = NULL /\ phase' = "out" /\ UNCHANGED <<s1, p>>
    <3>1. Cursor' = NULL /\ NULL \in 0 .. L
      BY <1>0, <2>3 DEF Cursor, NULL
    <3> QED  BY <1>0, <2>1, <2>3, <3>1 DEF StrtokInv
  <2>4. CASE /\ s2[p] = NUL /\ str[s1] # NUL
             /\ tok_tmp' = s1 /\ phase' = "scan" /\ UNCHANGED <<s1, p, ret, word>>
    <3>1. p = Len(Delims) + 1
      BY <2>1, <2>4, Delimiters
    <3>2. str[s1] \notin Range(Delims)
      <4>1. \A k \in 1 .. Len(Delims) : k \in 1 .. p - 1
        BY <3>1, Delimiters
      <4> QED  BY <2>1, <4>1, Delimiters
    <3>3. Cursor' = Cursor /\ s1 \in s1 .. L /\ \A j \in s1 .. s1 - 1 : FALSE
      BY <1>0, <2>1, <2>4 DEF Cursor
    <3> QED  BY <1>0, <2>1, <2>4, <3>2, <3>3 DEF StrtokInv
  <2> QED  BY <1>2, <2>2, <2>3, <2>4 DEF Skip
<1>3. CASE Scan
  <2>1. /\ phase = "scan" /\ UNCHANGED <<line, s1, p>> /\ Cursor = s1 /\ s1 # NULL
        /\ p \in 1 .. Len(Delims) + 1
        /\ tok_tmp \in s1 .. L /\ str[s1] # NUL /\ str[s1] \notin Range(Delims)
        /\ \A j \in s1 .. tok_tmp - 1 : str[j] \notin Range(Delims)
    BY <1>3 DEF Scan, Cursor, StrtokInv
  <2>0. s1 \in Nat /\ tok_tmp \in Nat /\ 1 <= s1 /\ s1 <= L /\ tok_tmp <= L /\ s1 <= tok_tmp
    BY <1>0, <2>1 DEF NULL
  <2>2. CASE /\ str[tok_tmp] # NUL /\ str[tok_tmp] \notin Range(Delims)
             /\ ScanOne /\ UNCHANGED <<str, phase, ret, word>>
    <3>1. tok_tmp' = tok_tmp + 1 /\ Cursor' = Cursor
      BY <2>1, <2>2 DEF ScanOne, Cursor
    <3>2. /\ tok_tmp + 1 \in s1 .. L
          /\ \A j \in s1 .. (tok_tmp + 1) - 1 : j \in s1 .. tok_tmp - 1 \/ j = tok_tmp
      BY <1>0, <2>0, <2>2
    <3> QED  BY <1>0, <2>1, <2>2, <3>1, <3>2 DEF StrtokInv
  <2>3. CASE /\ str[tok_tmp] \in Range(Delims) /\ EndWord
             /\ ret' = s1 /\ word' = WordFrom(str', s1) /\ phase' = "out"
    <3>1. tok_tmp' = tok_tmp + 1 /\ Cursor' = tok_tmp + 1 /\ str' = [str EXCEPT ![tok_tmp] = NUL]
      BY <2>3 DEF EndWord, Cursor
    <3>2. tok_tmp # L /\ tok_tmp \in 1 .. L /\ NUL \in Int
      BY <1>0, <2>0, <2>3, Delimiters DEF NUL
    <3>3. /\ str' \in Seq(Int) /\ Len(str') = L
          /\ \A j \in 1 .. L : str'[j] = IF j = tok_tmp THEN NUL ELSE str[j]
      BY <1>0, <3>1, <3>2, ExceptSeq
    <3>4. /\ tok_tmp + 1 \in 1 .. L /\ s1 \in 1 .. L /\ L \in 1 .. L /\ tok_tmp + 1 \in 0 .. L
          /\ \A j \in tok_tmp + 1 .. L - 1 : j \in s1 .. L - 1 /\ j \in 1 .. L /\ j # tok_tmp
      BY <1>0, <2>0, <3>2
    <3>5. str'[L] = NUL /\ \A j \in tok_tmp + 1 .. L - 1 : str'[j] # NUL
      BY <1>0, <2>1, <3>2, <3>3, <3>4
    <3> QED  BY <1>0, <2>1, <2>3, <3>1, <3>3, <3>4, <3>5 DEF StrtokInv
  <2>4. CASE /\ str[tok_tmp] = NUL /\ tok_tmp' = NULL
             /\ ret' = s1 /\ word' = WordFrom(str, s1) /\ phase' = "out" /\ UNCHANGED str
    <3>1. Cursor' = NULL /\ NULL \in 0 .. L /\ s1 \in 1 .. L
      BY <1>0, <2>0, <2>4 DEF Cursor, NULL
    <3> QED  BY <1>0, <2>1, <2>4, <3>1 DEF StrtokInv
  <2> QED  BY <1>3, <2>2, <2>3, <2>4 DEF Scan
<1>4. CASE UNCHANGED svars
  BY <1>4 DEF svars, StrtokInv, Cursor
<1> QED  BY <1>1, <1>2, <1>3, <1>4 DEF StrtokNext, strtok

\* strtok's pointers stay in the string, whatever the line.
THEOREM StrtokInvariant == StrtokSpec => []StrtokInv
<1> QED  BY InitStrtokInv, NextStrtokInv, PTL DEF StrtokSpec

\* The word that strtok returned fits into the block that setPCBpriority
\* measures with strlen afterwards, and is copied whole.
LEMMA CopyFitsNow == StrtokInv => CopyFits
<1> SUFFICES ASSUME StrtokInv, phase = "out", ret # NULL,
                    \A i \in 1 .. ret - 1 : str[i] # NUL
             PROVE  LET name == [i \in 1 .. strlen(str) + 1 |-> 255]
                        src == From(str, ret)
                    IN  /\ strlen(src) < Len(name)
                        /\ SubSeq(strcpy(name, src), 1, Len(word) + 1) = Append(word, NUL)
  BY DEF CopyFits
<1> DEFINE name == [i \in 1 .. strlen(str) + 1 |-> 255]
           src == From(str, ret)
           c == strcpy(name, src)
           L == Len(str)
<1>0. L \in Nat /\ L > 0 /\ CString(str) /\ ret \in 1 .. L /\ word = WordFrom(str, ret)
  <2>1. str \in Seq(Int) /\ L \in Nat /\ str[L] = NUL /\ ret \in 1 .. L /\ word = WordFrom(str, ret)
    BY DEF StrtokInv
  <2>2. L > 0
    BY <2>1
  <2> QED  BY <2>1, <2>2 DEF CString
<1>1. PICK e \in ret .. L :
        /\ str[e] = NUL /\ \A j \in ret .. e - 1 : str[j] # NUL
        /\ CString(src) /\ strlen(src) = e - ret
        /\ \A k \in 1 .. e - ret + 1 : src[k] = str[ret + k - 1]
  BY <1>0, FromString
<1> DEFINE n == e - ret + 1
<1>2. /\ ret \in Nat /\ e \in Nat /\ 1 <= ret /\ ret <= e /\ e <= L /\ n \in Nat /\ n <= e
      /\ n >= 1 /\ ret + (e - ret) - 1 = e - 1
  BY <1>0
<1>3. strlen(str) = e - 1
  <2>1. e \in 1 .. Len(str)
    BY <1>0, <1>2
  <2>2. \A j \in 1 .. e - 1 : str[j] # NUL
    <3>1. \A j \in 1 .. e - 1 : j \in 1 .. ret - 1 \/ j \in ret .. e - 1
      BY <1>2
    <3> QED  BY <1>1, <3>1
  <2> QED  BY <1>0, <1>1, <2>1, <2>2, StrlenIs
<1>4. name = [i \in 1 .. e |-> 255] /\ Len(name) = e /\ DOMAIN name = 1 .. e
  <2>1. strlen(str) + 1 = e
    BY <1>2, <1>3
  <2>2. name = [i \in 1 .. e |-> 255]
    BY <2>1
  <2> HIDE DEF name
  <2> QED  BY <1>2, <2>2
<1>5. word \in Seq(Int) /\ Len(word) = n - 1 /\ \A k \in 1 .. n - 1 : word[k] = str[ret + k - 1]
  <2>1. word = SubSeq(str, ret, e - 1)
    BY <1>0, <1>1, <1>2 DEF WordFrom
  <2>2. ret \in Int /\ e - 1 \in Int /\ \A i \in ret .. e - 1 : str[i] \in Int
    <3>1. \A i \in ret .. e - 1 : i \in 1 .. L
      BY <1>2
    <3> QED  BY <1>0, <1>2, <3>1 DEF CString
  <2>3. /\ word \in Seq(Int)
        /\ Len(word) = IF ret <= e - 1 THEN (e - 1) - ret + 1 ELSE 0
        /\ \A i \in 1 .. (e - 1) - ret + 1 : word[i] = str[ret + i - 1]
    BY <2>1, <2>2, SubSeqProperties
  <2>4. (IF ret <= e - 1 THEN (e - 1) - ret + 1 ELSE 0) = n - 1 /\ (e - 1) - ret + 1 = n - 1
    BY <1>2
  <2> QED  BY <2>3, <2>4
<1>6. \A i \in 1 .. n : c[i] = str[ret + i - 1]
  <2>1. c = [i \in DOMAIN name |-> IF i <= strlen(src) + 1 THEN src[i] ELSE name[i]]
    BY DEF strcpy
  <2>2. ASSUME NEW i \in 1 .. n PROVE c[i] = str[ret + i - 1]
    <3>1. i \in 1 .. e /\ i <= (e - ret) + 1 /\ i \in 1 .. e - ret + 1
      BY <1>2
    <3>2. c[i] = src[i]
      BY <1>1, <1>4, <2>1, <3>1
    <3> QED  BY <1>1, <3>1, <3>2
  <2> QED  BY <2>2
<1> DEFINE a == SubSeq(c, 1, n)
           b == Append(word, NUL)
<1>7. /\ a \in Seq(Int) /\ Len(a) = n
      /\ \A i \in 1 .. n : a[i] = str[ret + i - 1]
  <2>1. \A i \in 1 .. n : str[ret + i - 1] \in Int
    <3>1. \A i \in 1 .. n : ret + i - 1 \in 1 .. L
      BY <1>2
    <3> QED  BY <1>0, <3>1 DEF CString
  <2> HIDE DEF c, n
  <2>2. n \in Int /\ 1 \in Int /\ 1 <= n /\ \A i \in 1 .. n : c[i] \in Int
    <3>1. \A i \in 1 .. n : c[i] \in Int
      BY <1>6, <2>1, Zenon
    <3>2. n \in Int /\ 1 <= n
      BY <1>2
    <3> QED  BY <3>1, <3>2
  <2>3. /\ a \in Seq(Int)
        /\ Len(a) = IF 1 <= n THEN n - 1 + 1 ELSE 0
        /\ \A i \in 1 .. n - 1 + 1 : a[i] = c[1 + i - 1]
    BY <2>2, SubSeqProperties
  <2>4. n - 1 + 1 = n /\ \A i \in 1 .. n : 1 + i - 1 = i
    BY <2>2
  <2> QED  BY <1>6, <2>2, <2>3, <2>4
<1>8. /\ b \in Seq(Int) /\ Len(b) = n
      /\ \A i \in 1 .. n : b[i] = str[ret + i - 1]
  <2>1. NUL \in Int /\ (n - 1) + 1 = n /\ ret + n - 1 = e
    BY <1>2 DEF NUL
  <2> HIDE DEF n
  <2>2. /\ b \in Seq(Int) /\ Len(b) = n /\ b[n] = NUL
        /\ \A i \in 1 .. n - 1 : b[i] = word[i]
    BY <1>5, <2>1, AppendProperties
  <2>3. \A i \in 1 .. n : i = n \/ i \in 1 .. n - 1
    BY <1>2
  <2> QED  BY <1>1, <1>5, <2>1, <2>2, <2>3
<1>9. a = b
  <2> HIDE DEF a, b, n
  <2>1. Len(a) = Len(b) /\ \A i \in 1 .. Len(a) : a[i] = b[i]
    BY <1>7, <1>8
  <2> QED  BY <1>7, <1>8, <2>1, SeqEqual
<1>10. strlen(src) < Len(name)
  <2>1. e - ret < e
    BY <1>2
  <2> HIDE DEF src, name
  <2> QED  BY <1>1, <1>4, <2>1
<1>11. Len(word) + 1 = n
  BY <1>2, <1>5
<1> HIDE DEF n
<1> QED  BY <1>9, <1>10, <1>11

\* A name or a word that strtok found is copied whole, with its NUL, into a
\* block of strlen(buf) + 1 characters.
THEOREM AlwaysCopyFits == StrtokSpec => []CopyFits
<1> QED  BY StrtokInvariant, CopyFitsNow, PTL
-----------------------------------------------------------------------------
(***************************************************************************)
(* The k-th element of a finite set of numbers.                            *)
(***************************************************************************)

\* No two elements have the same rank.
LEMMA RankAgree ==
  ASSUME NEW S, IsFiniteSet(S), S \subseteq Nat, NEW i \in S, NEW j \in S,
         Rank(S, i) = Rank(S, j)
  PROVE  i = j
<1>1. ASSUME NEW a \in S, NEW b \in S, a < b, Rank(S, a) = Rank(S, b) PROVE FALSE
  <2> DEFINE A == {m \in S : m <= a}
             B == {m \in S : m <= b}
  <2>1. IsFiniteSet(B)
    BY FS_Subset
  <2>2. A \in SUBSET B /\ b \in B /\ b \notin A
    <3>1. a \in Nat /\ b \in Nat
      OBVIOUS
    <3>2. b \in B /\ b \notin A
      BY <1>1, <3>1
    <3>3. ASSUME NEW m \in S, m <= a PROVE m <= b
      <4>1. m \in Nat
        OBVIOUS
      <4> QED  BY <1>1, <3>1, <3>3, <4>1
    <3>4. A \in SUBSET B
      BY <3>3
    <3> QED  BY <3>2, <3>4
  <2>3. Cardinality(A) = Cardinality(B)
    BY <1>1 DEF Rank
  <2> HIDE DEF A, B
  <2>4. B = A
    BY <2>1, <2>2, <2>3, FS_Subset
  <2> QED  BY <2>2, <2>4
<1>2. i \in Nat /\ j \in Nat
  OBVIOUS
<1> QED  BY <1>1, <1>2

\* For every k up to the size of the set there is a k-th element.
LEMMA NthIs ==
  ASSUME NEW S, IsFiniteSet(S), S \subseteq Nat, NEW k \in 1 .. Cardinality(S)
  PROVE  Nth(S, k) \in S /\ Rank(S, Nth(S, k)) = k
<1> DEFINE n == Cardinality(S)
           K == {c \in 0 .. n : c = 0 \/ \E j \in S : Rank(S, j) = c}
<1>1. n \in Nat
  BY FS_CardinalityType
<1>2. 0 \in K
  BY <1>1
<1>3. ASSUME NEW c \in 0 .. n - 1, c \in K PROVE c + 1 \in K
  <2>1. PICK A \in SUBSET S : /\ Cardinality(A) = c
                              /\ \A a \in A : \A m \in S \ A : a < m
    <3>1. CASE c = 0
      <4>1. {} \in SUBSET S /\ Cardinality({}) = 0
        BY FS_EmptySet
      <4> QED  BY <3>1, <4>1
    <3>2. CASE c # 0
      <4>1. PICK j \in S : Rank(S, j) = c
        BY <1>3, <3>2
      <4> DEFINE A == {m \in S : m <= j}
      <4>2. A \in SUBSET S /\ Cardinality(A) = c
        BY <4>1 DEF Rank
      <4>3. \A a \in A : \A m \in S \ A : a < m
        OBVIOUS
      <4> HIDE DEF A
      <4> QED  BY <4>2, <4>3
    <3> QED  BY <3>1, <3>2
  <2>2. S \ A \subseteq Nat /\ S \ A # {}
    <3>1. A # S
      BY <1>1, <1>3, <2>1
    <3> QED  BY <2>1, <3>1
  <2>3. PICK j \in S \ A : \A m \in S \ A : j <= m
    BY <2>2, LeastOf
  <2>4. {m \in S : m <= j} = A \cup {j}
    <3>1. j \in Nat /\ \A m \in S : m \in Nat
      OBVIOUS
    <3>2. ASSUME NEW m \in S PROVE m <= j <=> m \in A \/ m = j
      BY <2>1, <2>3, <3>1
    <3> QED  BY <2>1, <3>2
  <2>5. IsFiniteSet(A)
    BY <2>1, FS_Subset
  <2>6. Rank(S, j) = c + 1
    <3>1. Cardinality(A \cup {j}) = c + 1
      BY <2>1, <2>3, <2>5, FS_AddElement
    <3> QED  BY <2>4, <3>1 DEF Rank
  <2> QED  BY <1>1, <2>3, <2>6
<1>4. k \in Nat /\ k # 0 /\ k <= n
  BY <1>1
<1> HIDE DEF K, n
<1>5. \A c \in 0 .. k - 1 : c \in K => c + 1 \in K
  BY <1>1, <1>3, <1>4
<1>6. k \in K
  BY <1>2, <1>4, <1>5, Counting
<1>7. \E j \in S : Rank(S, j) = k
  BY <1>4, <1>6 DEF K
<1> QED  BY <1>7 DEF Nth

\* Without the least element, every other one comes one place earlier.
LEMMA NthRest ==
  ASSUME NEW S, IsFiniteSet(S), S \subseteq Nat, NEW i \in S, \A j \in S : i <= j
  PROVE  /\ IsFiniteSet(S \ {i}) /\ Cardinality(S) = Cardinality(S \ {i}) + 1
         /\ Nth(S, 1) = i
         /\ \A k \in 1 .. Cardinality(S \ {i}) : Nth(S, k + 1) = Nth(S \ {i}, k)
<1> DEFINE T == S \ {i}
<1>1. /\ IsFiniteSet(T) /\ Cardinality(T) \in Nat
      /\ Cardinality(S) = Cardinality(T) + 1
  <2>1. IsFiniteSet(T) /\ Cardinality(T) = Cardinality(S) - 1
    BY FS_RemoveElement
  <2>2. Cardinality(S) \in Nat /\ Cardinality(T) \in Nat
    BY <2>1, FS_CardinalityType
  <2> QED  BY <2>1, <2>2
<1>2. Rank(S, i) = 1
  <2>1. {m \in S : m <= i} = {i}
    <3>1. i \in Nat /\ \A m \in S : m \in Nat
      OBVIOUS
    <3>2. ASSUME NEW m \in S PROVE m <= i <=> m = i
      BY <3>1
    <3> QED  BY <3>2
  <2> QED  BY <2>1, FS_Singleton DEF Rank
<1>3. ASSUME NEW j \in T PROVE Rank(S, j) = Rank(T, j) + 1
  <2> DEFINE B == {m \in T : m <= j}
  <2>1. IsFiniteSet(B) /\ i \notin B
    BY <1>1, FS_Subset
  <2>2. {m \in S : m <= j} = B \cup {i}
    OBVIOUS
  <2> HIDE DEF B
  <2>3. Cardinality(B \cup {i}) = Cardinality(B) + 1
    BY <2>1, FS_AddElement
  <2> QED  BY <2>2, <2>3 DEF Rank, B
<1> HIDE DEF T
<1>4. Nth(S, 1) = i
  <2>1. 1 \in 1 .. Cardinality(S)
    BY <1>1
  <2>2. Nth(S, 1) \in S /\ Rank(S, Nth(S, 1)) = 1
    BY <2>1, NthIs
  <2> QED  BY <1>2, <2>2, RankAgree
<1>5. ASSUME NEW k \in 1 .. Cardinality(T) PROVE Nth(S, k + 1) = Nth(T, k)
  <2>1. k + 1 \in 1 .. Cardinality(S)
    BY <1>1
  <2>2. Nth(S, k + 1) \in S /\ Rank(S, Nth(S, k + 1)) = k + 1
    BY <2>1, NthIs
  <2>3. T \subseteq Nat /\ T \subseteq S
    BY DEF T
  <2>4. Nth(T, k) \in T /\ Rank(T, Nth(T, k)) = k
    BY <1>1, <2>3, NthIs
  <2>5. Rank(S, Nth(T, k)) = k + 1 /\ Nth(T, k) \in S
    BY <1>3, <2>3, <2>4
  <2> QED  BY <2>2, <2>5, RankAgree
<1> QED  BY <1>1, <1>4, <1>5 DEF T
-----------------------------------------------------------------------------
(***************************************************************************)
(* The words of what is left of a string.                                  *)
(***************************************************************************)

\* From i on, b is whole.
Whole(b, i) ==
  /\ CString(b) /\ i \in 1 .. Len(b)
  /\ \A j \in i .. Len(b) - 1 : b[j] # NUL

\* A word of b goes from j to e.
IsWord(b, j, e) ==
  /\ e \in j .. Len(b) - 1
  /\ \A k \in j .. e : b[k] \notin Range(Delims)
  /\ e + 1 = Len(b) \/ b[e + 1] \in Range(Delims)

\* In a string that is not cut, the words are the runs between delimiters.
LEMMA WholeFacts ==
  ASSUME NEW b, NEW i, Whole(b, i)
  PROVE  /\ b \in Seq(Int) /\ Len(b) \in Nat /\ i \in Nat /\ 1 <= i /\ i <= Len(b)
         /\ End(b, i) = Len(b)
         /\ \A j \in Int : InWord(b, i, j) <=> i <= j /\ j < Len(b) /\ b[j] \notin Range(Delims)
         /\ Starts(b, i) = {j \in i .. Len(b) - 1 :
              b[j] \notin Range(Delims) /\ (j = i \/ b[j - 1] \in Range(Delims))}
         /\ IsFiniteSet(Starts(b, i)) /\ Starts(b, i) \subseteq Nat
<1> DEFINE L == Len(b)
<1>1. b \in Seq(Int) /\ L \in Nat /\ i \in Nat /\ 1 <= i /\ i <= L /\ b[L] = NUL
  BY DEF Whole, CString
<1>2. End(b, i) = L
  <2>1. L \in i .. L /\ \A j \in i .. L - 1 : b[j] # NUL
    BY <1>1 DEF Whole
  <2>2. ASSUME NEW e \in i .. L, b[e] = NUL PROVE e = L
    <3>1. ~(e \in i .. L - 1)
      BY <2>1, <2>2
    <3> HIDE DEF L
    <3> QED  BY <1>1, <3>1
  <2> HIDE DEF L
  <2>3. End(b, i) = CHOOSE e \in i .. L : b[e] = NUL /\ \A j \in i .. e - 1 : b[j] # NUL
    BY DEF End, L
  <2> QED  BY <1>1, <2>1, <2>2, <2>3
<1>3. ASSUME NEW j \in Int
      PROVE  InWord(b, i, j) <=> i <= j /\ j < L /\ b[j] \notin Range(Delims)
  <2> HIDE DEF L
  <2>1. j \in i .. L - 1 <=> i <= j /\ j < L
    BY <1>1
  <2> QED  BY <1>2, <2>1 DEF InWord
<1> DEFINE S == {j \in i .. L - 1 :
                   b[j] \notin Range(Delims) /\ (j = i \/ b[j - 1] \in Range(Delims))}
<1> HIDE DEF L
<1>4. Starts(b, i) = S
  <2>1. Starts(b, i) = {j \in i .. L - 1 : InWord(b, i, j) /\ ~InWord(b, i, j - 1)}
    BY <1>2 DEF Starts
  <2>2. ASSUME NEW j \in i .. L - 1
        PROVE  InWord(b, i, j) /\ ~InWord(b, i, j - 1)
               <=> b[j] \notin Range(Delims) /\ (j = i \/ b[j - 1] \in Range(Delims))
    <3>1. /\ j \in Int /\ j - 1 \in Int /\ i <= j /\ j < L /\ j - 1 < L
          /\ i <= j - 1 <=> j # i
      BY <1>1
    <3> QED  BY <1>3, <3>1
  <2> QED  BY <2>1, <2>2
<1>5. IsFiniteSet(S) /\ S \subseteq Nat
  <2>1. i \in Int /\ L - 1 \in Int /\ i .. L - 1 \subseteq Nat
    BY <1>1
  <2>2. IsFiniteSet(i .. L - 1)
    BY <2>1, FS_Interval
  <2>3. S \in SUBSET (i .. L - 1)
    OBVIOUS
  <2> HIDE DEF S
  <2> QED  BY <2>1, <2>2, <2>3, FS_Subset
<1> QED  BY <1>1, <1>2, <1>3, <1>4, <1>5 DEF L

\* Every word ends somewhere.
LEMMA WordEnds ==
  ASSUME NEW b, NEW i, Whole(b, i), NEW j \in i .. Len(b) - 1, b[j] \notin Range(Delims)
  PROVE  \E e : IsWord(b, j, e)
<1> DEFINE L == Len(b)
           T == {k \in j .. L : k = L \/ b[k] \in Range(Delims)}
           f == First(T, j)
<1>1. L \in Nat /\ j \in Nat /\ j < L
  BY WholeFacts
<1> HIDE DEF L
<1>2. T \subseteq Nat /\ L \in T
  BY <1>1
<1>3. f \in T /\ \A k \in T : j <= k => f <= k
  <2> HIDE DEF T
  <2>1. j <= L
    BY <1>1
  <2> QED  BY <1>1, <1>2, <2>1, FirstIs
<1> HIDE DEF f
<1>4. f \in j .. L /\ (f = L \/ b[f] \in Range(Delims)) /\ f # j /\ f \in Int
  BY <1>1, <1>3 DEF L
<1>5. ASSUME NEW k \in j .. f - 1 PROVE b[k] \notin Range(Delims)
  <2>1. k \in j .. L /\ k \notin T
    BY <1>1, <1>3, <1>4
  <2> QED  BY <2>1
<1>6. f - 1 \in j .. L - 1 /\ (f - 1) + 1 = f
  BY <1>1, <1>4
<1>7. IsWord(b, j, f - 1)
  BY <1>4, <1>5, <1>6 DEF IsWord, L
<1> QED  BY <1>7

\* A run that is bounded on both sides is the word that begins there.
LEMMA WordInIs ==
  ASSUME NEW b, NEW i, Whole(b, i), NEW j \in i .. Len(b) - 1, NEW e, IsWord(b, j, e)
  PROVE  WordIn(b, i, j) = SubSeq(b, j, e)
<1> DEFINE L == Len(b)
           P(c) == (\A k \in j .. c : InWord(b, i, k)) /\ ~InWord(b, i, c + 1)
<1>1. /\ L \in Nat /\ j \in Nat /\ i \in Nat /\ i <= j /\ j < L /\ End(b, i) = L
      /\ \A k \in Int : InWord(b, i, k) <=> i <= k /\ k < L /\ b[k] \notin Range(Delims)
  BY WholeFacts
<1>2. /\ e \in j .. L - 1 /\ \A k \in j .. e : b[k] \notin Range(Delims)
      /\ e + 1 = L \/ b[e + 1] \in Range(Delims)
  BY DEF IsWord
<1> HIDE DEF L
<1>3. e \in Nat /\ j <= e /\ e < L
  BY <1>1, <1>2
<1>4. P(e)
  <2>1. \A k \in j .. e : k \in Int /\ i <= k /\ k < L
    BY <1>1, <1>3
  <2>2. \A k \in j .. e : InWord(b, i, k)
    BY <1>1, <1>2, <2>1
  <2>3. ~InWord(b, i, e + 1)
    BY <1>1, <1>2, <1>3
  <2> QED  BY <2>2, <2>3
<1>5. ASSUME NEW c \in j .. L - 1, P(c) PROVE c = e
  <2>1. c \in Nat /\ j <= c /\ c < L /\ ~InWord(b, i, c + 1) /\ ~InWord(b, i, e + 1)
        /\ (\A k \in j .. c : InWord(b, i, k)) /\ (\A k \in j .. e : InWord(b, i, k))
    BY <1>1, <1>4, <1>5
  <2>2. ~(c < e)
    <3>1. c < e => c + 1 \in j .. e
      BY <1>3, <2>1
    <3> QED  BY <2>1, <3>1
  <2>3. ~(e < c)
    <3>1. e < c => e + 1 \in j .. c
      BY <1>3, <2>1
    <3> QED  BY <2>1, <3>1
  <2> QED  BY <1>3, <2>1, <2>2, <2>3
<1>6. WordIn(b, i, j) = SubSeq(b, j, CHOOSE c \in j .. L - 1 : P(c))
  BY <1>1 DEF WordIn
<1>7. (CHOOSE c \in j .. L - 1 : P(c)) = e
  <2> HIDE DEF P
  <2> QED  BY <1>2, <1>4, <1>5
<1> QED  BY <1>6, <1>7

LEMMA EmptyWords ==
  ASSUME NEW b, NEW i, Whole(b, i), i = Len(b)
  PROVE  Words(b, i) = << >>
<1>1. Starts(b, i) = {}
  <2>1. i \in Nat /\ Starts(b, i) \subseteq i .. Len(b) - 1
    BY WholeFacts
  <2>2. i .. i - 1 = {}
    BY <2>1
  <2> QED  BY <2>1, <2>2
<1>2. Cardinality(Starts(b, i)) = 0
  BY <1>1, FS_EmptySet
<1> QED  BY <1>2 DEF Words

\* Words, when each of them is known.
LEMMA WordsAre ==
  ASSUME NEW b, NEW i, Whole(b, i)
  PROVE  LET n == Cardinality(Starts(b, i))
             w == Words(b, i)
         IN  /\ n \in Nat /\ Len(w) = n /\ DOMAIN w = 1 .. n
             /\ \A k \in 1 .. n : LET j == Nth(Starts(b, i), k)
                                  IN  /\ j \in Starts(b, i)
                                      /\ \A e : IsWord(b, j, e) => w[k] = SubSeq(b, j, e)
             /\ \A S : (\A k \in 1 .. n : w[k] \in S) => w \in Seq(S)
<1> DEFINE S == Starts(b, i)
           n == Cardinality(S)
           w == Words(b, i)
<1>1. IsFiniteSet(S) /\ S \subseteq Nat /\ \A j \in S : j \in i .. Len(b) - 1
  BY WholeFacts
<1>2. n \in Nat
  BY <1>1, FS_CardinalityType
<1>3. w = [k \in 1 .. n |-> WordIn(b, i, Nth(S, k))]
  BY DEF Words
<1> HIDE DEF S
<1>4. ASSUME NEW k \in 1 .. n
      PROVE  /\ Nth(S, k) \in S
             /\ \A e : IsWord(b, Nth(S, k), e) => w[k] = SubSeq(b, Nth(S, k), e)
  <2>1. Nth(S, k) \in S
    BY <1>1, NthIs
  <2>2. w[k] = WordIn(b, i, Nth(S, k))
    BY <1>3
  <2>3. Nth(S, k) \in i .. Len(b) - 1
    BY <1>1, <2>1
  <2> QED  BY <2>1, <2>2, <2>3, WordInIs
<1> HIDE DEF n, w
<1>5. Len(w) = n /\ DOMAIN w = 1 .. n
  BY <1>2, <1>3
<1>6. ASSUME NEW V, \A k \in 1 .. n : w[k] \in V PROVE w \in Seq(V)
  <2>1. w \in [1 .. n -> V]
    BY <1>3, <1>6
  <2> QED  BY <1>2, <2>1
<1> QED  BY <1>2, <1>4, <1>5, <1>6 DEF S, n, w

\* A delimiter in front of the words does not change them.
LEMMA SkipWords ==
  ASSUME NEW b, NEW i, Whole(b, i), b[i] \in Range(Delims)
  PROVE  Whole(b, i + 1) /\ Words(b, i + 1) = Words(b, i)
<1> DEFINE L == Len(b)
           D == Range(Delims)
<1>1. /\ b \in Seq(Int) /\ L \in Nat /\ i \in Nat /\ 1 <= i /\ i <= L /\ b[L] = NUL
      /\ Starts(b, i) = {j \in i .. L - 1 : b[j] \notin D /\ (j = i \/ b[j - 1] \in D)}
      /\ IsFiniteSet(Starts(b, i)) /\ Starts(b, i) \subseteq Nat
  BY WholeFacts DEF Whole, CString
<1>2. i # L
  BY <1>1, Delimiters
<1>3. Whole(b, i + 1)
  <2> HIDE DEF L
  <2>1. i + 1 \in 1 .. L /\ \A j \in i + 1 .. L - 1 : j \in i .. L - 1
    BY <1>1, <1>2
  <2> QED  BY <2>1 DEF Whole, L
<1>4. Starts(b, i + 1) = {j \in i + 1 .. L - 1 : b[j] \notin D /\ (j = i + 1 \/ b[j - 1] \in D)}
  BY <1>3, WholeFacts
<1> HIDE DEF L, D
<1>5. Starts(b, i + 1) = Starts(b, i)
  <2>1. ASSUME NEW j
        PROVE  /\ j \in i .. L - 1 /\ b[j] \notin D /\ (j = i \/ b[j - 1] \in D)
               <=> /\ j \in i + 1 .. L - 1 /\ b[j] \notin D /\ (j = i + 1 \/ b[j - 1] \in D)
    <3>1. j = i => b[j] \in D
      BY DEF D
    <3>2. j = i + 1 => b[j - 1] \in D
      <4>1. (i + 1) - 1 = i
        BY <1>1
      <4> QED  BY <4>1 DEF D
    <3>3. j \in i + 1 .. L - 1 <=> j \in i .. L - 1 /\ j # i
      BY <1>1
    <3>4. j \in i + 1 .. L - 1 => j # i
      BY <3>3
    <3> QED  BY <3>1, <3>2, <3>3, <3>4
  <2> QED  BY <1>1, <1>4, <2>1
<1>6. Words(b, i + 1) = Words(b, i)
  <2> DEFINE n == Cardinality(Starts(b, i))
             v == Words(b, i)
             w == Words(b, i + 1)
  <2>1. Len(v) = n /\ Len(w) = n /\ n \in Nat /\ DOMAIN v = 1 .. n /\ DOMAIN w = 1 .. n
    BY <1>3, <1>5, WordsAre
  <2>2. ASSUME NEW k \in 1 .. n PROVE v[k] = w[k]
    <3> DEFINE j == Nth(Starts(b, i), k)
    <3>1. j \in Starts(b, i) /\ \A e : IsWord(b, j, e) => v[k] = SubSeq(b, j, e)
      BY WordsAre
    <3>2. \A e : IsWord(b, j, e) => w[k] = SubSeq(b, j, e)
      BY <1>3, <1>5, WordsAre
    <3> HIDE DEF j
    <3>3. j \in i .. Len(b) - 1 /\ b[j] \notin Range(Delims)
      BY <1>1, <3>1 DEF L, D
    <3>4. PICK e : IsWord(b, j, e)
      BY <3>3, WordEnds
    <3> QED  BY <3>1, <3>2, <3>4
  <2>3. v = [k \in 1 .. n |-> v[k]] /\ w = [k \in 1 .. n |-> w[k]]
    <3>1. v = [k \in 1 .. n |-> WordIn(b, i, Nth(Starts(b, i), k))]
      BY DEF Words
    <3>2. w = [k \in 1 .. n |-> WordIn(b, i + 1, Nth(Starts(b, i), k))]
      BY <1>5 DEF Words
    <3> HIDE DEF v, w, n
    <3> QED  BY <3>1, <3>2
  <2> HIDE DEF v, w, n
  <2> QED  BY <2>2, <2>3 DEF v, w
<1> QED  BY <1>3, <1>6

LEMMA SubSeqSame ==
  ASSUME NEW u, NEW v, NEW j \in Int, NEW m \in Int,
         \A k \in j .. m : u[k] = v[k] /\ v[k] \in Int
  PROVE  SubSeq(u, j, m) = SubSeq(v, j, m)
<1> DEFINE a == SubSeq(u, j, m)
           b == SubSeq(v, j, m)
           n == IF j <= m THEN m - j + 1 ELSE 0
<1>1. a \in Seq(Int) /\ Len(a) = n /\ \A k \in 1 .. m - j + 1 : a[k] = u[j + k - 1]
  <2>1. \A k \in j .. m : u[k] \in Int
    OBVIOUS
  <2> QED  BY <2>1, SubSeqProperties
<1>2. b \in Seq(Int) /\ Len(b) = n /\ \A k \in 1 .. m - j + 1 : b[k] = v[j + k - 1]
  BY SubSeqProperties
<1>3. \A k \in 1 .. n : k \in 1 .. m - j + 1 /\ j + k - 1 \in j .. m
  OBVIOUS
<1> HIDE DEF a, b, n
<1>4. \A k \in 1 .. n : a[k] = b[k]
  BY <1>1, <1>2, <1>3
<1>5. a = b
  BY <1>1, <1>2, <1>4, SeqEqual
<1> QED  BY <1>5 DEF a, b

\* Cutting off the first word leaves the others.
LEMMA FirstWord ==
  ASSUME NEW b, NEW i, Whole(b, i), i < Len(b), NEW e, IsWord(b, i, e), e + 1 < Len(b)
  PROVE  LET c == [b EXCEPT ![e + 1] = NUL]
         IN  /\ Whole(c, e + 2)
             /\ Starts(c, e + 2) = Starts(b, i) \ {i}
             /\ \A j, m : j \in Starts(c, e + 2) /\ IsWord(c, j, m) =>
                  IsWord(b, j, m) /\ SubSeq(c, j, m) = SubSeq(b, j, m)
<1> DEFINE L == Len(b)
           D == Range(Delims)
           c == [b EXCEPT ![e + 1] = NUL]
<1>1. /\ b \in Seq(Int) /\ L \in Nat /\ i \in Nat /\ 1 <= i /\ i < L /\ b[L] = NUL
      /\ Starts(b, i) = {j \in i .. L - 1 : b[j] \notin D /\ (j = i \/ b[j - 1] \in D)}
  BY WholeFacts DEF Whole, CString
<1>2. /\ e \in i .. L - 1 /\ \A k \in i .. e : b[k] \notin D
      /\ b[e + 1] \in D
  BY DEF IsWord
<1> HIDE DEF L, D
<1>3. e \in Nat /\ i <= e /\ e + 1 < L /\ e + 1 \in 1 .. L
  BY <1>1, <1>2 DEF L
<1>4. c \in Seq(Int) /\ Len(c) = L /\ \A j \in 1 .. L : c[j] = IF j = e + 1 THEN NUL ELSE b[j]
  <2>1. e + 1 \in 1 .. Len(b) /\ NUL \in Int
    BY <1>3 DEF L, NUL
  <2> QED  BY <1>1, <2>1, ExceptSeq DEF L
<1> HIDE DEF c
<1>5. Whole(c, e + 2)
  <2>1. e + 2 \in 1 .. L /\ L \in 1 .. L /\ L # e + 1
    BY <1>1, <1>3
  <2>2. \A j \in e + 2 .. L - 1 : j \in 1 .. L /\ j # e + 1 /\ j \in i .. L - 1
    BY <1>1, <1>3
  <2>3. \A j \in e + 2 .. L - 1 : c[j] # NUL
    BY <1>4, <2>2 DEF Whole, L
  <2>4. c[L] = NUL /\ L > 0
    BY <1>1, <1>4, <2>1
  <2> QED  BY <1>4, <2>1, <2>3, <2>4 DEF Whole, CString
<1>6. Starts(c, e + 2) = {j \in e + 2 .. L - 1 : c[j] \notin D /\ (j = e + 2 \/ c[j - 1] \in D)}
  <2>1. Starts(c, e + 2) = {j \in e + 2 .. Len(c) - 1 :
            c[j] \notin Range(Delims) /\ (j = e + 2 \/ c[j - 1] \in Range(Delims))}
    BY <1>5, WholeFacts
  <2> QED  BY <1>4, <2>1 DEF D
<1>7. Starts(c, e + 2) = Starts(b, i) \ {i}
  <2>1. ASSUME NEW j \in e + 2 .. L - 1
        PROVE  /\ j \in i .. L - 1 /\ j # i
               /\ c[j] = b[j] /\ (j # e + 2 => c[j - 1] = b[j - 1])
               /\ j = e + 2 => b[j - 1] \in D
    <3>1. j \in 1 .. L /\ j # e + 1 /\ j # i /\ j \in i .. L - 1 /\ j - 1 \in 1 .. L
      BY <1>1, <1>3
    <3>2. j # e + 2 => j - 1 # e + 1
      BY <1>3
    <3>3. j = e + 2 => j - 1 = e + 1
      BY <1>3
    <3> QED  BY <1>2, <1>4, <3>1, <3>2, <3>3
  <2>2. ASSUME NEW j \in i .. L - 1, j # i, b[j] \notin D, b[j - 1] \in D
        PROVE  j \in e + 2 .. L - 1
    <3>1. ~(j - 1 \in i .. e) /\ ~(j = e + 1)
      BY <1>2, <2>2
    <3> QED  BY <1>1, <1>3, <2>2, <3>1
  <2>3. ASSUME NEW j, j \in Starts(c, e + 2) PROVE j \in Starts(b, i) /\ j # i
    BY <1>1, <1>6, <2>1, <2>3
  <2>4. ASSUME NEW j, j \in Starts(b, i), j # i PROVE j \in Starts(c, e + 2)
    <3>1. j \in i .. L - 1 /\ b[j] \notin D /\ b[j - 1] \in D
      BY <1>1, <2>4
    <3>2. j \in e + 2 .. L - 1
      BY <2>2, <2>4, <3>1
    <3> QED  BY <1>6, <2>1, <3>1, <3>2
  <2> QED  BY <2>3, <2>4
<1>8. ASSUME NEW j, NEW m, j \in Starts(c, e + 2), IsWord(c, j, m)
      PROVE  IsWord(b, j, m) /\ SubSeq(c, j, m) = SubSeq(b, j, m)
  <2>1. j \in e + 2 .. L - 1
    BY <1>6, <1>8
  <2>2. /\ m \in j .. L - 1 /\ \A k \in j .. m : c[k] \notin D
        /\ m + 1 = L \/ c[m + 1] \in D
    BY <1>4, <1>8 DEF IsWord, D
  <2>3. j \in Int /\ m \in Int /\ m + 1 \in 1 .. L /\ m + 1 # e + 1
        /\ \A k \in j .. m : k \in 1 .. L /\ k # e + 1
    BY <1>1, <1>3, <2>1, <2>2
  <2>4. c[m + 1] = b[m + 1] /\ \A k \in j .. m : c[k] = b[k] /\ b[k] \in Int
    <3>1. \A k \in 1 .. L : b[k] \in Int
      BY <1>1 DEF L
    <3> QED  BY <1>4, <2>3, <3>1
  <2>5. IsWord(b, j, m)
    BY <2>2, <2>4 DEF IsWord, L, D
  <2>6. SubSeq(c, j, m) = SubSeq(b, j, m)
    BY <2>3, <2>4, SubSeqSame
  <2> QED  BY <2>5, <2>6
<1> QED  BY <1>5, <1>7, <1>8 DEF c

\* What is left when the first word, from i to e, has been cut off.
Left(b, e) ==
  IF e + 1 = Len(b) THEN << >> ELSE Words([b EXCEPT ![e + 1] = NUL], e + 2)

\* The first word is the run from i to e; cutting the string behind it leaves
\* the others.
LEMMA HeadAndTail ==
  ASSUME NEW b, NEW i, Whole(b, i), i < Len(b), NEW e, IsWord(b, i, e)
  PROVE  /\ Words(b, i) # << >>
         /\ Head(Words(b, i)) = SubSeq(b, i, e)
         /\ Tail(Words(b, i)) = Left(b, e)
<1> DEFINE S == Starts(b, i)
           n == Cardinality(S)
           w == Words(b, i)
           T == S \ {i}
           V == {w[k] : k \in 1 .. n}
<1>1. /\ S = {j \in i .. Len(b) - 1 : b[j] \notin Range(Delims)
                                     /\ (j = i \/ b[j - 1] \in Range(Delims))}
      /\ i \in Nat /\ Len(b) \in Nat /\ IsFiniteSet(S) /\ S \subseteq Nat
      /\ e \in i .. Len(b) - 1 /\ b[i] \notin Range(Delims)
  <2>1. e \in i .. Len(b) - 1 /\ \A k \in i .. e : b[k] \notin Range(Delims)
    BY DEF IsWord
  <2>2. i \in Nat /\ Len(b) \in Nat
    BY WholeFacts
  <2>3. i \in i .. e
    BY <2>1, <2>2
  <2> QED  BY <2>1, <2>2, <2>3, WholeFacts
<1>2. i \in S /\ \A j \in S : i <= j
  <2>1. i \in i .. Len(b) - 1 /\ \A j \in i .. Len(b) - 1 : i <= j
    BY <1>1
  <2> QED  BY <1>1, <2>1
<1>3. /\ n \in Nat /\ Len(w) = n /\ DOMAIN w = 1 .. n
      /\ \A k \in 1 .. n : /\ Nth(S, k) \in S
                           /\ \A m : IsWord(b, Nth(S, k), m) => w[k] = SubSeq(b, Nth(S, k), m)
      /\ w \in Seq(V)
  <2>1. \A k \in 1 .. n : w[k] \in V
    OBVIOUS
  <2> QED  BY <2>1, WordsAre
<1> HIDE DEF S, n, w, V
<1>4. /\ n = Cardinality(T) + 1 /\ Cardinality(T) \in Nat /\ IsFiniteSet(T)
      /\ Nth(S, 1) = i
      /\ \A k \in 1 .. Cardinality(T) : Nth(S, k + 1) = Nth(T, k)
  <2>0. IsFiniteSet(S) /\ S \subseteq Nat /\ i \in S /\ \A j \in S : i <= j
    BY <1>1, <1>2
  <2>1. /\ Cardinality(S) = Cardinality(T) + 1 /\ IsFiniteSet(T) /\ Nth(S, 1) = i
        /\ \A k \in 1 .. Cardinality(T) : Nth(S, k + 1) = Nth(T, k)
    BY <2>0, NthRest
  <2>2. n = Cardinality(S)
    BY DEF n
  <2> HIDE DEF T
  <2> QED  BY <2>1, <2>2, FS_CardinalityType
<1> HIDE DEF T
<1>5. w # << >> /\ w[1] = SubSeq(b, i, e)
  <2>1. 1 \in 1 .. n
    BY <1>4
  <2> QED  BY <1>3, <1>4, <2>1
<1>6. Head(w) = w[1]
  BY <1>3, <1>5
<1>7. /\ Tail(w) \in Seq(V) /\ Len(Tail(w)) = n - 1
      /\ \A k \in 1 .. n - 1 : Tail(w)[k] = w[k + 1]
  BY <1>3, <1>5, HeadTailProperties
<1>8. Tail(w) = Left(b, e)
  <2>1. CASE e + 1 = Len(b)
    <3>1. T = {}
      <4> SUFFICES ASSUME NEW j \in S, j # i PROVE FALSE
        BY DEF T
      <4>1. j \in i .. Len(b) - 1 /\ j - 1 \in i .. e /\ b[j - 1] \in Range(Delims)
        BY <1>1, <2>1
      <4>2. \A k \in i .. e : b[k] \notin Range(Delims)
        BY DEF IsWord
      <4> QED  BY <4>1, <4>2
    <3>2. Len(Tail(w)) = 0
      <4>1. Cardinality(T) = 0
        BY <3>1, FS_EmptySet
      <4>2. n - 1 = 0
        BY <1>4, <4>1
      <4> QED  BY <1>7, <4>2
    <3>3. Tail(w) = << >>
      BY <1>7, <3>2, EmptySeq
    <3> QED  BY <2>1, <3>3 DEF Left
  <2>2. CASE e + 1 # Len(b)
    <3> DEFINE c == [b EXCEPT ![e + 1] = NUL]
               v == Words(c, e + 2)
    <3>1. e + 1 < Len(b)
      BY <1>1, <2>2
    <3>2. /\ Whole(c, e + 2) /\ Starts(c, e + 2) = T
          /\ \A j, m : j \in Starts(c, e + 2) /\ IsWord(c, j, m) =>
               IsWord(b, j, m) /\ SubSeq(c, j, m) = SubSeq(b, j, m)
      BY <3>1, FirstWord DEF S, T
    <3> HIDE DEF c
    <3> DEFINE U == {v[k] : k \in 1 .. n - 1}
    <3>3. /\ Len(v) = n - 1 /\ DOMAIN v = 1 .. n - 1
          /\ \A k \in 1 .. n - 1 :
               /\ Nth(T, k) \in T
               /\ \A m : IsWord(c, Nth(T, k), m) => v[k] = SubSeq(c, Nth(T, k), m)
          /\ v \in Seq(U)
      <4>1. Cardinality(Starts(c, e + 2)) = n - 1
        BY <1>4, <3>2
      <4>2. \A k \in 1 .. n - 1 : v[k] \in U
        OBVIOUS
      <4> HIDE DEF U, v
      <4> QED  BY <3>2, <4>1, <4>2, WordsAre DEF v
    <3>4. ASSUME NEW k \in 1 .. n - 1 PROVE Tail(w)[k] = v[k]
      <4>1. k + 1 \in 1 .. n /\ k \in 1 .. Cardinality(T)
        BY <1>3, <1>4
      <4> DEFINE j == Nth(T, k)
      <4>2. Nth(S, k + 1) = j /\ j \in T
        BY <1>4, <3>3, <4>1
      <4> HIDE DEF j, v
      <4>3. /\ \A m : IsWord(b, j, m) => w[k + 1] = SubSeq(b, j, m)
            /\ \A m : IsWord(c, j, m) => v[k] = SubSeq(c, j, m)
        BY <1>3, <3>3, <4>1, <4>2 DEF j
      <4>4. j \in e + 2 .. Len(c) - 1 /\ c[j] \notin Range(Delims)
        BY <3>2, <4>2, WholeFacts
      <4>5. PICK m : IsWord(c, j, m)
        BY <3>2, <4>4, WordEnds
      <4>6. IsWord(b, j, m) /\ SubSeq(c, j, m) = SubSeq(b, j, m)
        BY <3>2, <4>2, <4>5
      <4> QED  BY <1>7, <4>3, <4>5, <4>6
    <3>5. Tail(w) = v
      <4> HIDE DEF U, v
      <4>1. Tail(w) \in Seq(V \cup U) /\ v \in Seq(V \cup U)
        BY <1>7, <3>3, SeqMonotonic
      <4>2. Len(Tail(w)) = Len(v) /\ \A k \in 1 .. Len(v) : Tail(w)[k] = v[k]
        BY <1>7, <3>3, <3>4
      <4> QED  BY <4>1, <4>2, SeqEqual
    <3> QED  BY <2>2, <3>5 DEF Left, c
  <2> QED  BY <2>1, <2>2
<1> QED  BY <1>5, <1>6, <1>8 DEF w

\* strtok against Tokenizer: what is left from the cursor on.
Rest == IF Cursor = NULL THEN << >> ELSE Words(str, Cursor)

\* From the cursor on the buffer is whole.
LEMMA CursorWhole == StrtokInv /\ Cursor # NULL => Whole(str, Cursor)
<1> SUFFICES ASSUME StrtokInv, Cursor # NULL PROVE Whole(str, Cursor)
  OBVIOUS
<1> DEFINE L == Len(str)
           i == Cursor
<1>1. /\ str \in Seq(Int) /\ L \in Nat /\ str[L] = NUL /\ i \in 0 .. L
      /\ \A j \in i .. L - 1 : str[j] # NUL
  BY DEF StrtokInv
<1> HIDE DEF L, i
<1>2. i \in 1 .. L /\ L > 0
  <2>1. i # 0
    BY DEF i, NULL
  <2> QED  BY <1>1, <2>1
<1> QED  BY <1>1, <1>2 DEF Whole, CString, L, i

\* The word that strtok returns is the one that it has walked over.
LEMMA WordIsCut ==
  ASSUME NEW b, CString(b), NEW i \in 1 .. Len(b), NEW e \in i .. Len(b) - 1,
         b[e + 1] = NUL, \A j \in i .. e : b[j] # NUL
  PROVE  WordFrom(b, i) = SubSeq(b, i, e)
<1> DEFINE L == Len(b)
<1>1. L \in Nat /\ i \in Nat /\ e \in Nat /\ i <= e /\ e < L
  BY DEF CString
<1>2. PICK m \in i .. Len(b) :
        /\ b[m] = NUL /\ \A j \in i .. m - 1 : b[j] # NUL
        /\ strlen(From(b, i)) = m - i
  BY FromString
<1>3. m \in Nat /\ i <= m /\ e + 1 \in Nat
  BY <1>1
<1>4. m = e + 1
  <2>1. ~(m < e + 1)
    <3>1. m < e + 1 => m \in i .. e
      BY <1>1, <1>3
    <3> QED  BY <1>2, <3>1
  <2>2. ~(e + 1 < m)
    <3>1. e + 1 < m => e + 1 \in i .. m - 1
      BY <1>1, <1>3
    <3> QED  BY <1>2, <3>1
  <2> QED  BY <1>3, <2>1, <2>2
<1>5. i + (m - i) - 1 = e
  BY <1>1, <1>4
<1> QED  BY <1>2, <1>5 DEF WordFrom

\* Every step of strtok returns the next word, says that there is none, or
\* changes nothing that Tokenizer sees.
LEMMA TokenStep ==
  StrtokInv /\ [StrtokNext]_svars =>
    \/ Rest # << >> /\ word' = Head(Rest) /\ Rest' = Tail(Rest)
    \/ Rest = << >> /\ word' = <<NUL>> /\ UNCHANGED Rest
    \/ UNCHANGED <<Rest, word>>
<1> SUFFICES ASSUME StrtokInv, [StrtokNext]_svars
             PROVE  \/ Rest # << >> /\ word' = Head(Rest) /\ Rest' = Tail(Rest)
                    \/ Rest = << >> /\ word' = <<NUL>> /\ UNCHANGED Rest
                    \/ UNCHANGED <<Rest, word>>
  OBVIOUS
<1>1. CASE Call
  <2>1. phase = "out" /\ UNCHANGED <<str, tok_tmp>> /\ Cursor = tok_tmp
    BY <1>1 DEF Call, Cursor
  <2>2. Cursor' = Cursor /\ Rest' = Rest
    <3>1. Cursor' = Cursor
      BY <1>1, <2>1 DEF Call, Cursor
    <3> QED  BY <2>1, <3>1 DEF Rest, Words, WordIn, Nth, Rank, Starts, InWord, End
  <2>3. tok_tmp = NULL => Rest = << >> /\ word' = <<NUL>>
    BY <1>1, <2>1 DEF Call, Rest
  <2>4. tok_tmp # NULL => word' = word
    BY <1>1 DEF Call
  <2> QED  BY <2>2, <2>3, <2>4
<1>2. CASE Skip
  <2>1. phase = "skip" /\ UNCHANGED str /\ Cursor = s1 /\ s1 # NULL
    BY <1>2 DEF Skip, Cursor, StrtokInv
  <2>2. Whole(str, s1) /\ Rest = Words(str, s1)
    BY <2>1, CursorWhole DEF Rest
  <2>3. CASE s2[p] # NUL /\ str[s1] # NUL /\ SkipOne /\ UNCHANGED <<phase, tok_tmp, ret, word>>
    <3>1. CASE str[s1] = s2[p]
      <4>1. Cursor' = s1 + 1
        BY <2>1, <2>3, <3>1 DEF SkipOne, Cursor
      <4>2. p \in 1 .. Len(Delims)
        <5>1. p \in 1 .. Len(Delims) + 1
          BY DEF StrtokInv
        <5> QED  BY <2>3, <5>1, Delimiters
      <4>3. str[s1] \in Range(Delims)
        BY <3>1, <4>2, Delimiters
      <4>4. Words(str, s1 + 1) = Words(str, s1) /\ s1 + 1 # NULL
        <5>1. s1 \in Nat
          BY <2>2, WholeFacts
        <5>2. s1 + 1 # NULL
          BY <5>1 DEF NULL
        <5> QED  BY <2>2, <4>3, <5>2, SkipWords
      <4>5. Rest' = Words(str, s1 + 1)
        BY <2>1, <4>1, <4>4 DEF Rest
      <4> QED  BY <2>2, <2>3, <4>4, <4>5
    <3>2. CASE str[s1] # s2[p]
      <4>1. Cursor' = Cursor
        BY <2>1, <2>3, <3>2 DEF SkipOne, Cursor
      <4>2. Rest' = Rest
        BY <2>1, <4>1 DEF Rest
      <4> QED  BY <2>3, <4>2
    <3> QED  BY <3>1, <3>2
  <2>4. CASE str[s1] = NUL /\ tok_tmp' = NULL /\ word' = <<NUL>> /\ phase' = "out"
    <3>1. Rest' = << >>
      BY <2>4 DEF Rest, Cursor
    <3>2. s1 = Len(str)
      <4>1. /\ s1 \in Nat /\ Len(str) \in Nat /\ s1 <= Len(str)
            /\ \A j \in s1 .. Len(str) - 1 : str[j] # NUL
        BY <2>2, WholeFacts DEF Whole
      <4>2. s1 < Len(str) => s1 \in s1 .. Len(str) - 1
        BY <4>1
      <4> QED  BY <2>4, <4>1, <4>2
    <3>3. Rest = << >>
      BY <2>2, <3>2, EmptyWords
    <3> QED  BY <2>4, <3>1, <3>3
  <2>5. CASE tok_tmp' = s1 /\ phase' = "scan" /\ UNCHANGED <<s1, word>>
    <3>1. Cursor' = Cursor
      BY <2>1, <2>5 DEF Cursor
    <3>2. Rest' = Rest
      BY <2>1, <3>1 DEF Rest
    <3> QED  BY <2>5, <3>2
  <2> QED  BY <1>2, <2>3, <2>4, <2>5 DEF Skip
<1>3. CASE Scan
  <2>1. /\ phase = "scan" /\ Cursor = s1 /\ s1 # NULL /\ s1' = s1
        /\ tok_tmp \in s1 .. Len(str)
        /\ str[s1] # NUL /\ str[s1] \notin Range(Delims)
        /\ \A j \in s1 .. tok_tmp - 1 : str[j] \notin Range(Delims)
    BY <1>3 DEF Scan, Cursor, StrtokInv
  <2>2. Whole(str, s1) /\ Rest = Words(str, s1)
    BY <2>1, CursorWhole DEF Rest
  <2>3. /\ str \in Seq(Int) /\ Len(str) \in Nat /\ s1 \in Nat /\ 1 <= s1 /\ s1 <= Len(str)
        /\ str[Len(str)] = NUL /\ CString(str)
        /\ \A j \in s1 .. Len(str) - 1 : str[j] # NUL
    BY <2>2, WholeFacts DEF Whole, CString
  <2>4. CASE str[tok_tmp] # NUL /\ str[tok_tmp] \notin Range(Delims)
             /\ ScanOne /\ UNCHANGED <<str, phase, ret, word>>
    <3>1. Cursor' = Cursor
      BY <2>1, <2>4 DEF Cursor
    <3>2. Rest' = Rest
      BY <2>4, <3>1 DEF Rest
    <3> QED  BY <2>4, <3>2
  <2> DEFINE e == tok_tmp - 1
  <2>5. ASSUME str[tok_tmp] = NUL \/ str[tok_tmp] \in Range(Delims)
        PROVE  /\ IsWord(str, s1, e) /\ e \in s1 .. Len(str) - 1 /\ e + 1 = tok_tmp
               /\ s1 < Len(str) /\ (str[tok_tmp] = NUL <=> tok_tmp = Len(str))
               /\ \A j \in s1 .. e : str[j] # NUL
    <3>1. tok_tmp # s1 /\ tok_tmp \in Nat
      BY <2>1, <2>3, <2>5
    <3>2. e \in s1 .. Len(str) - 1 /\ e + 1 = tok_tmp /\ s1 < Len(str)
      BY <2>1, <2>3, <3>1
    <3>3. str[tok_tmp] = NUL <=> tok_tmp = Len(str)
      <4>1. tok_tmp # Len(str) => tok_tmp \in s1 .. Len(str) - 1
        BY <2>1, <2>3, <3>1
      <4> QED  BY <2>3, <4>1
    <3>4. \A j \in s1 .. e : str[j] # NUL
      <4>1. \A j \in s1 .. e : j \in s1 .. Len(str) - 1
        BY <2>3, <3>2
      <4> QED  BY <2>3, <4>1
    <3>5. IsWord(str, s1, e)
      BY <2>1, <2>5, <3>2, <3>3 DEF IsWord
    <3> QED  BY <3>2, <3>3, <3>4, <3>5
  <2>6. CASE /\ str[tok_tmp] \in Range(Delims) /\ EndWord
             /\ word' = WordFrom(str', s1) /\ phase' = "out"
    <3>0. str[tok_tmp] # NUL
      BY <2>6, Delimiters
    <3>1. /\ IsWord(str, s1, e) /\ e \in s1 .. Len(str) - 1 /\ e + 1 = tok_tmp
          /\ s1 < Len(str) /\ tok_tmp # Len(str)
          /\ \A j \in s1 .. e : str[j] # NUL
      BY <2>5, <2>6, <3>0
    <3>2. str' = [str EXCEPT ![tok_tmp] = NUL] /\ Cursor' = tok_tmp + 1
      BY <2>6 DEF EndWord, Cursor
    <3> HIDE DEF e
    <3>3. e \in Nat /\ tok_tmp = e + 1 /\ tok_tmp + 1 = e + 2 /\ tok_tmp + 1 # NULL
          /\ tok_tmp \in 1 .. Len(str) /\ NUL \in Int
      BY <2>3, <3>1 DEF NULL, NUL
    <3>4. Rest' = Left(str, e)
      <4>1. Rest' = Words(str', tok_tmp + 1)
        BY <3>2, <3>3 DEF Rest
      <4> QED  BY <3>1, <3>2, <3>3, <4>1 DEF Left
    <3>5. word' = SubSeq(str, s1, e)
      <4>1. /\ str' \in Seq(Int) /\ Len(str') = Len(str)
            /\ \A j \in 1 .. Len(str) : str'[j] = IF j = tok_tmp THEN NUL ELSE str[j]
        BY <2>3, <3>2, <3>3, ExceptSeq
      <4>2. \A j \in s1 .. e : j \in 1 .. Len(str) /\ j # tok_tmp
        BY <2>3, <3>1, <3>3
      <4>3. \A j \in s1 .. e : str'[j] = str[j] /\ str[j] \in Int
        BY <2>3, <4>1, <4>2
      <4>4. CString(str') /\ s1 \in 1 .. Len(str') /\ e \in s1 .. Len(str') - 1
            /\ str'[e + 1] = NUL /\ \A j \in s1 .. e : str'[j] # NUL
        <5>1. Len(str) \in 1 .. Len(str) /\ Len(str) > 0
          BY <2>3
        <5>2. CString(str')
          BY <2>3, <3>1, <4>1, <5>1 DEF CString
        <5>3. s1 \in 1 .. Len(str)
          BY <2>3
        <5> QED  BY <3>1, <3>3, <4>1, <4>3, <5>2, <5>3
      <4>5. WordFrom(str', s1) = SubSeq(str', s1, e)
        BY <4>4, WordIsCut
      <4>6. SubSeq(str', s1, e) = SubSeq(str, s1, e)
        BY <2>3, <3>3, <4>3, SubSeqSame
      <4> QED  BY <2>6, <4>5, <4>6
    <3> QED  BY <2>2, <3>1, <3>4, <3>5, HeadAndTail
  <2>7. CASE /\ str[tok_tmp] = NUL /\ tok_tmp' = NULL
             /\ word' = WordFrom(str, s1) /\ phase' = "out" /\ UNCHANGED str
    <3>1. /\ IsWord(str, s1, e) /\ e \in s1 .. Len(str) - 1 /\ e + 1 = tok_tmp
          /\ s1 < Len(str) /\ tok_tmp = Len(str)
          /\ \A j \in s1 .. e : str[j] # NUL
      BY <2>5, <2>7
    <3>2. Rest' = << >>
      BY <2>7 DEF Rest, Cursor
    <3> HIDE DEF e
    <3>3. Left(str, e) = << >>
      BY <3>1 DEF Left
    <3>4. word' = SubSeq(str, s1, e)
      <4>0. str[e + 1] = NUL
        BY <2>7, <3>1
      <4>1. s1 \in 1 .. Len(str) /\ str[e + 1] = NUL
        BY <2>3, <4>0
      <4>2. WordFrom(str, s1) = SubSeq(str, s1, e)
        BY <2>3, <3>1, <4>1, WordIsCut
      <4> QED  BY <2>7, <4>2
    <3> QED  BY <2>2, <3>1, <3>2, <3>3, <3>4, HeadAndTail
  <2> QED  BY <1>3, <2>4, <2>6, <2>7 DEF Scan
<1>4. CASE UNCHANGED svars
  <2>1. UNCHANGED <<str, Cursor, word>>
    BY <1>4 DEF svars, Cursor
  <2> QED  BY <2>1 DEF Rest
<1> QED  BY <1>1, <1>2, <1>3, <1>4 DEF StrtokNext, strtok

\* strtok, call after call, returns the words of the line, each once and in
\* order, and then NULL: it implements Tokenizer.
THEOREM StrtokRefinement == StrtokSpec => ImplementsTokenizer
<1>1. StrtokInit => Abstract!Init
  <2> SUFFICES ASSUME StrtokInit PROVE Abstract!Init
    OBVIOUS
  <2>1. str = line /\ Cursor = 1 /\ word = <<NUL>> /\ 1 # NULL
    BY DEF StrtokInit, Cursor, NULL
  <2> QED  BY <2>1 DEF Abstract!Init
<1>2. StrtokInv /\ [StrtokNext]_svars
      => [Abstract!Next]_(<<Words(line, 1), Rest, word>>)
  <2> SUFFICES ASSUME StrtokInv, [StrtokNext]_svars
               PROVE  Abstract!Next \/ UNCHANGED <<Words(line, 1), Rest, word>>
    OBVIOUS
  <2>1. line' = line
    BY DEF StrtokNext, Call, strtok, Skip, Scan, svars
  <2>2. Words(line, 1)' = Words(line, 1)
    BY <2>1 DEF Words, WordIn, Nth, Rank, Starts, InWord, End
  <2> QED  BY <2>2, TokenStep DEF Abstract!Next, Abstract!NextWord, Abstract!NoMore, Rest
<1> QED  BY <1>1, <1>2, StrtokInvariant, PTL
         DEF StrtokSpec, ImplementsTokenizer, Abstract!Spec, Rest
-----------------------------------------------------------------------------
(***************************************************************************)
(* Numbers.  The digits that itoa writes, and the number that atoi reads.   *)
(***************************************************************************)

\* An int is not changed when it is stored in an int; only the number that has
\* no negative comes back as itself.
LEMMA Int32Is ==
  /\ \A v \in INT_MIN .. INT_MAX : Int32(v) = v
  /\ Int32(-INT_MIN) = INT_MIN
  /\ \A v \in Int : Int32(v) \in Int
<1>1. ASSUME NEW m \in Nat, m > 0, NEW x \in 0 .. m - 1 PROVE x % m = x
  BY <1>1
<1>2. ASSUME NEW v \in INT_MIN .. INT_MAX PROVE Int32(v) = v
  BY <1>1, IntAssumption DEF INT_MIN, Int32
<1>3. Int32(-INT_MIN) = INT_MIN
  BY IntAssumption DEF INT_MIN, Int32
<1>4. ASSUME NEW v \in Int PROVE Int32(v) \in Int
  BY IntAssumption DEF INT_MIN, Int32
<1> QED  BY <1>2, <1>3, <1>4

Abs(n) == IF n < 0 THEN -n ELSE n

\* Division by ten, rounding towards zero, brings a number nearer to zero.
LEMMA TenIs ==
  ASSUME NEW n \in Int
  PROVE  /\ Quot(n, 10) \in Int /\ Rem(n, 10) \in Int
         /\ n = 10 * Quot(n, 10) + Rem(n, 10)
         /\ Rem(n, 10) < 10 /\ -10 < Rem(n, 10)
         /\ n > 0 => Rem(n, 10) >= 0 /\ Quot(n, 10) >= 0
         /\ n < 0 => Rem(n, 10) <= 0 /\ Quot(n, 10) <= 0
         /\ n # 0 => Abs(Quot(n, 10)) < Abs(n)
         /\ n # 0 /\ Quot(n, 10) = 0 => Rem(n, 10) # 0
<1>1. CASE n >= 0
  BY <1>1 DEF Quot, Rem, Abs
<1>2. CASE n < 0
  <2> DEFINE m == -n
  <2>1. m \in Nat /\ m > 0 /\ n = -m
    BY <1>2
  <2>2. Quot(n, 10) = -(m \div 10) /\ Rem(n, 10) = n - 10 * (-(m \div 10))
    BY <1>2 DEF Quot, Rem
  <2> HIDE DEF m
  <2>3. m \div 10 \in Nat /\ 10 * (m \div 10) <= m /\ m < 10 * (m \div 10) + 10
    BY <2>1
  <2> QED  BY <1>2, <2>1, <2>2, <2>3 DEF Abs
<1> QED  BY <1>1, <1>2

\* One turn of itoa's loop: the last digit, and the rest of the number.
Last10(n) == Rem(n, 10) + 48
Turn10(g, n) == IF n = 0 THEN << >> ELSE <<Last10(n)>> \o g[Quot(n, 10)]

\* g holds the digits of the numbers up to N.
DigitsUpTo(N, g) ==
  /\ g \in [Int -> Seq(Int)]
  /\ \A n \in Int : Abs(n) <= N => g[n] = Turn10(g, n)

\* A turn of the loop makes a sequence.
LEMMA TurnType ==
  ASSUME NEW g \in [Int -> Seq(Int)], NEW n \in Int
  PROVE  Turn10(g, n) \in Seq(Int)
<1>1. Quot(n, 10) \in Int /\ Last10(n) \in Int
  <2>1. Quot(n, 10) \in Int /\ Rem(n, 10) \in Int
    BY TenIs
  <2> QED  BY <2>1 DEF Last10
<1>2. <<Last10(n)>> \in Seq(Int) /\ g[Quot(n, 10)] \in Seq(Int)
  BY <1>1
<1>3. <<Last10(n)>> \o g[Quot(n, 10)] \in Seq(Int)
  BY <1>2, ConcatProperties
<1> QED  BY <1>3 DEF Turn10

\* There are digits for the numbers up to any bound ...
LEMMA DigitsExist ==
  ASSUME NEW N \in Nat
  PROVE  \E g : DigitsUpTo(N, g)
<1> DEFINE S == {k \in 0 .. N : \E g : DigitsUpTo(k, g)}
<1>1. 0 \in S
  <2> DEFINE g == [n \in Int |-> << >>]
  <2>1. g \in [Int -> Seq(Int)]
    OBVIOUS
  <2>2. ASSUME NEW n \in Int, Abs(n) <= 0 PROVE g[n] = Turn10(g, n)
    BY <2>2 DEF Abs, Turn10
  <2>3. DigitsUpTo(0, g)
    BY <2>1, <2>2 DEF DigitsUpTo
  <2> QED  BY <2>3
<1>2. ASSUME NEW k \in 0 .. N - 1, k \in S PROVE k + 1 \in S
  <2>1. PICK g : DigitsUpTo(k, g)
    BY <1>2
  <2> DEFINE h == [n \in Int |-> Turn10(g, n)]
  <2>2. g \in [Int -> Seq(Int)]
    BY <2>1 DEF DigitsUpTo
  <2>3. h \in [Int -> Seq(Int)]
    BY <2>2, TurnType
  <2>4. ASSUME NEW n \in Int, Abs(n) <= k + 1 PROVE h[n] = Turn10(h, n)
    <3>1. CASE n = 0
      BY <3>1 DEF Turn10
    <3>2. CASE n # 0
      <4> DEFINE q == Quot(n, 10)
      <4>1. q \in Int /\ Abs(q) < Abs(n)
        BY <3>2, TenIs
      <4>2. Abs(q) <= k
        <5>1. Abs(q) \in Int /\ Abs(n) \in Int
          BY <4>1 DEF Abs
        <5> QED  BY <2>4, <4>1, <5>1
      <4>3. g[q] = Turn10(g, q)
        BY <2>1, <4>1, <4>2 DEF DigitsUpTo
      <4>4. h[q] = g[q]
        BY <4>1, <4>3
      <4> QED  BY <3>2, <4>4 DEF Turn10
    <3> QED  BY <3>1, <3>2
  <2>5. DigitsUpTo(k + 1, h)
    <3> HIDE DEF h
    <3> QED  BY <2>3, <2>4 DEF DigitsUpTo
  <2> HIDE DEF h
  <2> QED  BY <2>5
<1> HIDE DEF S
<1>3. N \in S
  BY <1>1, <1>2, Counting
<1> QED  BY <1>3 DEF S

\* ... and a number has no others.
LEMMA DigitsUnique ==
  ASSUME NEW N \in Nat, NEW g, DigitsUpTo(N, g), NEW M \in Nat, NEW h, DigitsUpTo(M, h),
         NEW n \in Int, Abs(n) <= N, Abs(n) <= M
  PROVE  g[n] = h[n]
<1> SUFFICES ASSUME g[n] # h[n] PROVE FALSE
  OBVIOUS
<1> DEFINE Ok(x) == x \in Int /\ Abs(x) <= N /\ Abs(x) <= M /\ g[x] # h[x]
           T == {k \in Nat : \E x \in Int : Ok(x) /\ Abs(x) = k}
<1>1. Abs(n) \in T /\ T \subseteq Nat
  BY DEF Abs
<1>2. PICK m \in T : \A k \in T : m <= k
  <2> HIDE DEF T
  <2> QED  BY <1>1, LeastOf
<1>3. PICK x \in Int : Ok(x) /\ Abs(x) = m
  BY <1>2
<1>4. g[x] = Turn10(g, x) /\ h[x] = Turn10(h, x)
  BY <1>3 DEF DigitsUpTo
<1>5. CASE x = 0
  BY <1>3, <1>4, <1>5 DEF Turn10
<1>6. CASE x # 0
  <2> DEFINE q == Quot(x, 10)
  <2>1. q \in Int /\ Abs(q) < Abs(x) /\ Abs(q) \in Nat /\ Abs(x) \in Nat
    <3>1. q \in Int /\ Abs(q) < Abs(x)
      BY <1>6, TenIs
    <3> HIDE DEF q
    <3> QED  BY <3>1 DEF Abs
  <2> HIDE DEF q
  <2>2. ~Ok(q)
    <3>1. Abs(q) \notin T
      <4> HIDE DEF T
      <4>1. m \in Nat
        BY <1>1, <1>2
      <4> QED  BY <1>2, <1>3, <2>1, <4>1
    <3> QED  BY <2>1, <3>1
  <2>3. Abs(q) <= N /\ Abs(q) <= M
    BY <1>3, <2>1
  <2>4. g[q] = h[q]
    BY <2>1, <2>2, <2>3
  <2> QED  BY <1>3, <1>4, <1>6, <2>4 DEF Turn10, q
<1> QED  BY <1>5, <1>6

\* The function that itoa's loop is.
TenDigits(d) == d \in [Int -> Seq(Int)] /\ \A n \in Int : d[n] = Turn10(d, n)

\* There is such a function: the digits of each number up to itself.
LEMMA TenDigitsExist == \E d : TenDigits(d)
<1> DEFINE G(N) == CHOOSE g : DigitsUpTo(N, g)
           d == [n \in Int |-> G(Abs(n))[n]]
<1>1. ASSUME NEW N \in Nat PROVE DigitsUpTo(N, G(N))
  <2>1. \E g : DigitsUpTo(N, g)
    BY DigitsExist
  <2> QED  BY <2>1
<1>2. \A n \in Int : Abs(n) \in Nat
  BY DEF Abs
<1>3. d \in [Int -> Seq(Int)]
  <2>1. ASSUME NEW n \in Int PROVE G(Abs(n))[n] \in Seq(Int)
    <3>1. DigitsUpTo(Abs(n), G(Abs(n)))
      BY <1>1, <1>2
    <3> HIDE DEF G
    <3> QED  BY <3>1 DEF DigitsUpTo
  <2> HIDE DEF G
  <2> QED  BY <2>1
<1>4. ASSUME NEW n \in Int PROVE d[n] = Turn10(d, n)
  <2>1. d[n] = G(Abs(n))[n] /\ DigitsUpTo(Abs(n), G(Abs(n)))
    BY <1>1, <1>2
  <2> HIDE DEF G
  <2>2. d[n] = Turn10(G(Abs(n)), n)
    BY <2>1, <1>2 DEF DigitsUpTo
  <2>3. CASE n = 0
    BY <2>2, <2>3 DEF Turn10
  <2>4. CASE n # 0
    <3> DEFINE q == Quot(n, 10)
    <3>1. q \in Int /\ Abs(q) < Abs(n)
      BY <2>4, TenIs
    <3> HIDE DEF q
    <3>2. DigitsUpTo(Abs(q), G(Abs(q))) /\ d[q] = G(Abs(q))[q]
      BY <1>1, <1>2, <3>1
    <3> HIDE DEF d
    <3>3. d[q] = G(Abs(n))[q]
      <4>1. Abs(q) \in Nat /\ Abs(n) \in Nat /\ Abs(q) <= Abs(n) /\ Abs(q) <= Abs(q)
        BY <1>2, <3>1
      <4> QED  BY <2>1, <3>1, <3>2, <4>1, DigitsUnique
    <3> QED  BY <2>2, <2>4, <3>3 DEF Turn10, q
  <2> QED  BY <2>3, <2>4
<1>5. TenDigits(d)
  <2> HIDE DEF d
  <2> QED  BY <1>3, <1>4 DEF TenDigits
<1> HIDE DEF d
<1> QED  BY <1>5

\* A function that does what the loop does writes sequences.
LEMMA TenDigitsType ==
  ASSUME NEW d, d = [n \in Int |-> Turn10(d, n)]
  PROVE  TenDigits(d)
<1>1. \A n \in Int : d[n] = Turn10(d, n)
  OBVIOUS
<1>2. ASSUME NEW n \in Int PROVE d[n] \in Seq(Int)
  <2> SUFFICES ASSUME d[n] \notin Seq(Int) PROVE FALSE
    OBVIOUS
  <2> DEFINE T == {k \in Nat : \E x \in Int : d[x] \notin Seq(Int) /\ Abs(x) = k}
  <2>1. Abs(n) \in T /\ T \subseteq Nat
    BY DEF Abs
  <2>2. PICK m \in T : \A k \in T : m <= k
    <3> HIDE DEF T
    <3> QED  BY <2>1, LeastOf
  <2>3. PICK x \in Int : d[x] \notin Seq(Int) /\ Abs(x) = m
    BY <2>2
  <2>4. x # 0
    <3>1. Turn10(d, 0) = << >> /\ << >> \in Seq(Int)
      BY DEF Turn10
    <3> QED  BY <1>1, <2>3, <3>1
  <2> DEFINE q == Quot(x, 10)
  <2>5. q \in Int /\ Abs(q) < Abs(x) /\ Abs(q) \in Nat /\ Abs(x) \in Nat /\ Last10(x) \in Int
    <3>1. q \in Int /\ Rem(x, 10) \in Int /\ Abs(q) < Abs(x)
      BY <2>4, TenIs
    <3> HIDE DEF q
    <3> QED  BY <3>1 DEF Abs, Last10
  <2> HIDE DEF q
  <2>6. d[q] \in Seq(Int)
    <3>1. Abs(q) \notin T
      <4> HIDE DEF T
      <4>1. m \in Nat
        BY <2>1, <2>2
      <4> QED  BY <2>2, <2>3, <2>5, <4>1
    <3> QED  BY <2>5, <3>1
  <2>7. d[x] = <<Last10(x)>> \o d[q]
    BY <1>1, <2>4 DEF Turn10, q
  <2>8. <<Last10(x)>> \o d[q] \in Seq(Int)
    <3>1. <<Last10(x)>> \in Seq(Int)
      BY <2>5
    <3> QED  BY <2>6, <3>1, ConcatProperties
  <2> QED  BY <2>3, <2>7, <2>8
<1> QED  BY <1>1, <1>2 DEF TenDigits

\* The last digit comes first; the others are those of the quotient.
LEMMA DigitsAre ==
  ASSUME NEW d, TenDigits(d), NEW n \in Int
  PROVE  /\ Len(d[n]) \in Nat /\ d[n] \in Seq(Int)
         /\ n = 0 => Len(d[n]) = 0
         /\ n # 0 => /\ Len(d[n]) = Len(d[Quot(n, 10)]) + 1
                     /\ d[n][1] = Last10(n)
                     /\ \A k \in 1 .. Len(d[Quot(n, 10)]) : d[n][k + 1] = d[Quot(n, 10)][k]
<1> DEFINE q == Quot(n, 10)
<1>1. q \in Int /\ Last10(n) \in Int
  <2>1. q \in Int /\ Rem(n, 10) \in Int
    BY TenIs
  <2> QED  BY <2>1 DEF Last10
<1>2. d[n] = Turn10(d, n) /\ d[n] \in Seq(Int) /\ d[q] \in Seq(Int)
  BY <1>1 DEF TenDigits
<1>3. n = 0 => d[n] = << >>
  BY <1>2 DEF Turn10
<1>4. n # 0 => d[n] = <<Last10(n)>> \o d[q]
  BY <1>2 DEF Turn10
<1> HIDE DEF q
<1>5. ASSUME n # 0
      PROVE  /\ Len(d[n]) = Len(d[q]) + 1 /\ d[n][1] = Last10(n)
             /\ \A k \in 1 .. Len(d[q]) : d[n][k + 1] = d[q][k]
  <2>1. <<Last10(n)>> \in Seq(Int) /\ Len(<<Last10(n)>>) = 1 /\ <<Last10(n)>>[1] = Last10(n)
    BY <1>1
  <2> DEFINE a == <<Last10(n)>>
  <2> HIDE DEF a
  <2>2. a \in Seq(Int) /\ Len(a) = 1 /\ a[1] = Last10(n) /\ d[n] = a \o d[q]
    BY <1>4, <1>5, <2>1 DEF a
  <2>3. /\ Len(a \o d[q]) = Len(a) + Len(d[q])
        /\ \A i \in 1 .. Len(a) + Len(d[q]) :
             (a \o d[q])[i] = IF i <= Len(a) THEN a[i] ELSE d[q][i - Len(a)]
    BY <1>2, <2>2, ConcatProperties
  <2>4. Len(d[q]) \in Nat
    BY <1>2
  <2>5. Len(d[n]) = Len(d[q]) + 1 /\ d[n][1] = Last10(n)
    BY <2>2, <2>3, <2>4
  <2>6. ASSUME NEW k \in 1 .. Len(d[q]) PROVE d[n][k + 1] = d[q][k]
    <3>1. k + 1 \in 1 .. Len(a) + Len(d[q]) /\ ~(k + 1 <= Len(a)) /\ k + 1 - Len(a) = k
      BY <2>2, <2>4
    <3> QED  BY <2>2, <2>3, <3>1
  <2> QED  BY <2>5, <2>6
<1> QED  BY <1>2, <1>3, <1>5 DEF q

\* Below zero, the first digit is written last, and comes out below '0'.
LEMMA NegativeLeads ==
  ASSUME NEW d, TenDigits(d), NEW n \in Int, n < 0
  PROVE  Len(d[n]) > 0 /\ ~IsDigit(d[n][Len(d[n])]) /\ d[n][Len(d[n])] \in Int
<1> SUFFICES ASSUME ~(Len(d[n]) > 0 /\ ~IsDigit(d[n][Len(d[n])]) /\ d[n][Len(d[n])] \in Int)
             PROVE  FALSE
  OBVIOUS
<1> DEFINE Bad(x) == ~(Len(d[x]) > 0 /\ ~IsDigit(d[x][Len(d[x])]) /\ d[x][Len(d[x])] \in Int)
           T == {k \in Nat : \E x \in Int : x < 0 /\ Bad(x) /\ Abs(x) = k}
<1>1. Abs(n) \in T /\ T \subseteq Nat
  BY DEF Abs
<1>2. PICK m \in T : \A k \in T : m <= k
  <2> HIDE DEF T
  <2> QED  BY <1>1, LeastOf
<1>3. PICK x \in Int : x < 0 /\ Bad(x) /\ Abs(x) = m
  BY <1>2
<1> DEFINE q == Quot(x, 10)
<1>4. /\ q \in Int /\ q <= 0 /\ Rem(x, 10) \in Int /\ Rem(x, 10) <= 0
      /\ Abs(q) < Abs(x) /\ (q = 0 => Rem(x, 10) # 0)
  BY <1>3, TenIs
<1>5. /\ Len(d[q]) \in Nat /\ (q = 0 => Len(d[q]) = 0)
      /\ Len(d[x]) = Len(d[q]) + 1 /\ d[x][1] = Last10(x)
      /\ \A k \in 1 .. Len(d[q]) : d[x][k + 1] = d[q][k]
  <2>1. q \in Int /\ x # 0
    BY <1>3, <1>4
  <2>2. Len(d[q]) \in Nat /\ (q = 0 => Len(d[q]) = 0)
    <3> HIDE DEF q
    <3> QED  BY <2>1, DigitsAre
  <2>3. /\ Len(d[x]) = Len(d[q]) + 1 /\ d[x][1] = Last10(x)
        /\ \A k \in 1 .. Len(d[q]) : d[x][k + 1] = d[q][k]
    BY <2>1, DigitsAre
  <2> QED  BY <2>2, <2>3
<1> HIDE DEF q
<1>6. CASE q = 0
  <2>1. Len(d[x]) = 1 /\ d[x][1] \in Int /\ ~IsDigit(d[x][1])
    BY <1>4, <1>5, <1>6 DEF Last10, IsDigit
  <2> QED  BY <1>3, <2>1
<1>7. CASE q # 0
  <2>1. q < 0 /\ Abs(q) \in Nat /\ Abs(x) \in Nat
    BY <1>4, <1>7 DEF Abs
  <2>2. ~Bad(q)
    <3>1. Abs(q) \notin T
      <4> HIDE DEF T
      <4>1. m \in Nat
        BY <1>1, <1>2
      <4> QED  BY <1>2, <1>3, <1>4, <2>1, <4>1
    <3> QED  BY <1>4, <2>1, <3>1
  <2> DEFINE K == Len(d[q])
  <2>3. K > 0 /\ K \in Nat /\ ~IsDigit(d[q][K]) /\ d[q][K] \in Int
    BY <1>5, <2>2
  <2>4. Len(d[x]) = K + 1 /\ d[x][K + 1] = d[q][K]
    <3>1. K \in 1 .. K
      BY <2>3
    <3> QED  BY <1>5, <3>1
  <2>5. Len(d[x]) > 0 /\ ~IsDigit(d[x][Len(d[x])]) /\ d[x][Len(d[x])] \in Int
    <3> HIDE DEF K
    <3> QED  BY <2>3, <2>4 DEF K
  <2> QED  BY <1>3, <2>5
<1> QED  BY <1>6, <1>7

\* One turn of atoi's loop over the digits of s, from first on.
Read(s, first, r, i) ==
  IF i = first THEN 0 ELSE Int32(r[i - 1] * 10 + (s[i - 1] - 48))

ReadsOn(s, first, r) == \A i \in first .. Len(s) : r[i] = Read(s, first, r, i)

\* There is a function that does what the loop does.
LEMMA ReadsExist ==
  ASSUME NEW s, NEW first \in Int, Len(s) \in Nat, first <= Len(s)
  PROVE  \E r : r = [i \in first .. Len(s) |-> Read(s, first, r, i)]
<1> DEFINE L == Len(s)
           D == first .. L
           Upto(k, r) == \A i \in D : i - first <= k => r[i] = Read(s, first, r, i)
           S == {k \in 0 .. L - first : \E r : Upto(k, r)}
<1>1. 0 \in S
  <2> DEFINE r == [i \in D |-> 0]
  <2>1. Upto(0, r)
    BY DEF Read
  <2> HIDE DEF r
  <2> QED  BY <2>1
<1>2. ASSUME NEW k \in 0 .. (L - first) - 1, k \in S PROVE k + 1 \in S
  <2>1. PICK r : Upto(k, r)
    BY <1>2
  <2> DEFINE h == [i \in D |-> Read(s, first, r, i)]
  <2>2. ASSUME NEW i \in D, i - first <= k + 1 PROVE h[i] = Read(s, first, h, i)
    <3>1. CASE i = first
      BY <3>1 DEF Read
    <3>2. CASE i # first
      <4>1. i - 1 \in D /\ (i - 1) - first <= k
        BY <2>2, <3>2
      <4>2. h[i - 1] = r[i - 1]
        BY <2>1, <4>1
      <4>3. h[i] = Read(s, first, r, i)
        OBVIOUS
      <4> HIDE DEF h
      <4> QED  BY <3>2, <4>2, <4>3 DEF Read
    <3> QED  BY <3>1, <3>2
  <2>3. Upto(k + 1, h)
    <3> HIDE DEF h
    <3> QED  BY <2>2
  <2> HIDE DEF h, Upto
  <2>4. k + 1 \in 0 .. L - first
    OBVIOUS
  <2> QED  BY <2>3, <2>4
<1>3. L - first \in S
  <2> HIDE DEF S, L
  <2>1. L - first \in Nat
    BY DEF L
  <2> QED  BY <1>1, <1>2, <2>1, Counting
<1>4. PICK r : Upto(L - first, r)
  BY <1>3
<1> DEFINE h == [i \in D |-> Read(s, first, r, i)]
<1>5. ASSUME NEW i \in D PROVE h[i] = r[i]
  <2>1. i - first <= L - first
    OBVIOUS
  <2> QED  BY <1>4, <2>1
<1>6. ASSUME NEW i \in D PROVE h[i] = Read(s, first, h, i)
  <2>1. h[i] = Read(s, first, r, i)
    OBVIOUS
  <2>2. i # first => i - 1 \in D
    OBVIOUS
  <2>3. i # first => h[i - 1] = r[i - 1]
    BY <1>5, <2>2
  <2> HIDE DEF h
  <2> QED  BY <2>1, <2>3 DEF Read
<1>7. h = [i \in D |-> Read(s, first, h, i)]
  <2> DEFINE hh == [i \in D |-> Read(s, first, h, i)]
  <2>1. \A i \in D : h[i] = hh[i]
    <3> HIDE DEF h
    <3> QED  BY <1>6
  <2>2. h = [i \in D |-> h[i]] /\ hh = [i \in D |-> hh[i]]
    OBVIOUS
  <2> HIDE DEF h, hh
  <2>3. h = hh
    BY <2>1, <2>2
  <2> QED  BY <2>3 DEF hh
<1> HIDE DEF h
<1> QED  BY <1>7

\* The loop ends at the first character that is no digit.
LEMMA NumberIs ==
  ASSUME NEW s, NEW first \in Int, Len(s) \in Nat, first <= Len(s)
  PROVE  \E r : /\ ReadsOn(s, first, r)
                /\ \A e \in first .. Len(s) :
                     ~IsDigit(s[e]) /\ (\A j \in first .. e - 1 : IsDigit(s[j]))
                       => Number(s, first) = r[e]
<1> DEFINE Body(f) == [i \in first .. Len(s) |->
                         IF i = first THEN 0
                         ELSE Int32(f[i - 1] * 10 + (s[i - 1] - 48))]
           res == CHOOSE f : f = Body(f)
           Ends(e) == ~IsDigit(s[e]) /\ \A j \in first .. e - 1 : IsDigit(s[j])
           end == CHOOSE e \in first .. Len(s) : Ends(e)
<1>1. Number(s, first) = res[end]
  BY DEF Number
<1>2. \A f : Body(f) = [i \in first .. Len(s) |-> Read(s, first, f, i)]
  BY DEF Read
<1>3. PICK r : r = Body(r)
  <2> HIDE DEF Body
  <2> QED  BY <1>2, ReadsExist
<1>4. res = Body(res)
  <2> HIDE DEF Body
  <2> QED  BY <1>3
<1> HIDE DEF res
<1>5. ReadsOn(s, first, res)
  <2>1. res = [i \in first .. Len(s) |-> Read(s, first, res, i)]
    BY <1>2, <1>4
  <2> QED  BY <2>1 DEF ReadsOn
<1>6. ASSUME NEW e \in first .. Len(s), Ends(e) PROVE end = e
  <2>1. end \in first .. Len(s) /\ Ends(end)
    <3> HIDE DEF Ends
    <3> QED  BY <1>6
  <2> HIDE DEF end
  <2>2. ~(end < e) /\ ~(e < end)
    BY <1>6, <2>1
  <2> QED  BY <2>1, <2>2
<1> HIDE DEF Body, end
<1> QED  BY <1>1, <1>5, <1>6

\* d[m], written backwards from s[first] on.
Holds10(s, first, d, m) ==
  /\ first + Len(d[m]) <= Len(s)
  /\ \A k \in 1 .. Len(d[m]) : s[first + Len(d[m]) - k] = d[m][k]

\* Read from the front, the digits of m make m.
LEMMA DigitsRead ==
  ASSUME NEW d, TenDigits(d), NEW s, NEW first \in Int, Len(s) \in Nat,
         NEW r, ReadsOn(s, first, r), NEW m \in 0 .. INT_MAX, Holds10(s, first, d, m)
  PROVE  /\ r[first + Len(d[m])] = m
         /\ \A j \in first .. first + Len(d[m]) - 1 : IsDigit(s[j])
<1> DEFINE Good(x) == /\ r[first + Len(d[x])] = x
                      /\ \A j \in first .. first + Len(d[x]) - 1 : IsDigit(s[j])
           T == {x \in 0 .. INT_MAX : Holds10(s, first, d, x) /\ ~Good(x)}
<1> SUFFICES ASSUME m \in T PROVE FALSE
  OBVIOUS
<1>1. INT_MAX \in Nat /\ T \subseteq Nat
  BY IntAssumption
<1>2. PICK x \in T : \A y \in T : x <= y
  <2> HIDE DEF T
  <2> QED  BY <1>1, LeastOf
<1>3. x \in 0 .. INT_MAX /\ Holds10(s, first, d, x) /\ ~Good(x)
  BY <1>2
<1> HIDE DEF T
<1> DEFINE K == Len(d[x])
<1>4. K \in Nat /\ first + K <= Len(s) /\ \A k \in 1 .. K : s[first + K - k] = d[x][k]
  <2>1. x \in Int
    BY <1>1, <1>3
  <2> QED  BY <1>3, <2>1, DigitsAre DEF Holds10
<1>5. CASE x = 0
  <2>1. K = 0
    BY <1>5, DigitsAre
  <2>2. first \in first .. Len(s)
    BY <1>4, <2>1
  <2>3. r[first] = 0
    BY <2>2 DEF ReadsOn, Read
  <2> QED  BY <1>3, <1>5, <2>1, <2>3
<1>6. CASE x # 0
  <2> DEFINE q == Quot(x, 10)
             B == Rem(x, 10)
             N == Len(d[q])
  <2>1. /\ q \in Int /\ B \in Int /\ x = 10 * q + B /\ B < 10 /\ B >= 0
        /\ q >= 0 /\ Abs(q) < Abs(x) /\ x \in Int /\ x > 0
    <3>1. x \in Int /\ x > 0
      BY <1>1, <1>3, <1>6
    <3> QED  BY <3>1, TenIs
  <2>2. /\ K = N + 1 /\ d[x][1] = Last10(x) /\ N \in Nat
        /\ \A k \in 1 .. N : d[x][k + 1] = d[q][k]
    <3>1. N \in Nat
      <4> HIDE DEF q
      <4> QED  BY <2>1, DigitsAre
    <3> QED  BY <1>6, <2>1, <3>1, DigitsAre
  <2>3. Last10(x) = B + 48
    BY DEF Last10
  <2> HIDE DEF q, B
  <2>4. q < x /\ q \in 0 .. INT_MAX
    <3>1. q < x
      BY <2>1 DEF Abs
    <3> QED  BY <1>1, <1>3, <2>1, <3>1
  <2> HIDE DEF K, N
  <2>5. Holds10(s, first, d, q)
    <3>1. first + N <= Len(s)
      BY <1>4, <2>2
    <3>2. ASSUME NEW k \in 1 .. N PROVE s[first + N - k] = d[q][k]
      <4>1. k + 1 \in 1 .. K /\ first + K - (k + 1) = first + N - k
        BY <2>2
      <4> QED  BY <1>4, <2>2, <4>1
    <3> QED  BY <3>1, <3>2 DEF Holds10, N
  <2>6. Good(q)
    <3>1. q \notin T
      BY <1>1, <1>2, <2>1, <2>4
    <3> QED  BY <2>4, <2>5, <3>1 DEF T
  <2>7. r[first + N] = q /\ \A j \in first .. first + N - 1 : IsDigit(s[j])
    BY <2>6 DEF N
  <2>8. s[first + N] = B + 48
    <3>1. 1 \in 1 .. K /\ first + K - 1 = first + N
      BY <2>2
    <3> QED  BY <1>4, <2>2, <2>3, <3>1
  <2>9. r[first + K] = x
    <3>1. first + K \in first .. Len(s) /\ first + K # first /\ (first + K) - 1 = first + N
      BY <1>4, <2>2
    <3>2. r[first + K] = Int32(r[first + N] * 10 + (s[first + N] - 48))
      BY <3>1 DEF ReadsOn, Read
    <3>3. q * 10 + ((B + 48) - 48) = x
      BY <2>1
    <3>4. Int32(x) = x
      <4>1. x \in INT_MIN .. INT_MAX
        BY <1>1, <1>3 DEF INT_MIN
      <4> QED  BY <4>1, Int32Is
    <3> QED  BY <2>7, <2>8, <3>2, <3>3, <3>4
  <2>10. ASSUME NEW j \in first .. first + K - 1 PROVE IsDigit(s[j])
    <3>1. CASE j = first + N
      BY <2>1, <2>8, <3>1 DEF IsDigit
    <3>2. CASE j # first + N
      <4>1. j \in first .. first + N - 1
        BY <2>2, <3>2
      <4> QED  BY <2>7, <4>1
    <3> QED  BY <3>1, <3>2
  <2> QED  BY <1>3, <2>9, <2>10 DEF K
<1> QED  BY <1>5, <1>6

\* What itoa takes the digits of, and how many characters it puts before them.
Magnitude(n) == IF n < 0 THEN Int32(-n) ELSE n
Sign(n) == IF n < 0 THEN 1 ELSE 0

Spelled(t, d, n) ==
  /\ Len(t) = Sign(n) + Len(d[Magnitude(n)]) + 1
  /\ t \in Seq(Int) /\ t[Len(t)] = NUL
  /\ n < 0 => t[1] = 45
  /\ Holds10(t, 1 + Sign(n), d, Magnitude(n))

\* itoa writes the sign, the digits from the first to the last, and a NUL.
LEMMA ItoaIs ==
  ASSUME NEW n \in Int, n # 0
  PROVE  \E d : TenDigits(d) /\ Spelled(itoa(n, 10), d, n)
<1> DEFINE Body(f) == [k \in Int |->
                         IF k = 0 THEN << >>
                         ELSE <<IF Rem(k, 10) > 9 THEN Rem(k, 10) - 10 + 97
                                                  ELSE Rem(k, 10) + 48>>
                              \o f[Quot(k, 10)]]
           d == CHOOSE f : f = Body(f)
           cs == d[Magnitude(n)] \o (IF n < 0 THEN <<45>> ELSE << >>)
           rev == [i \in DOMAIN cs |-> cs[Len(cs) + 1 - i]]
<1>1. itoa(n, 10) = rev \o <<NUL>>
  <2> DEFINE neg == n < 0 /\ 10 = 10
             st == d[IF neg THEN Int32(-n) ELSE n] \o (IF neg THEN <<45>> ELSE << >>)
  <2>1. itoa(n, 10) = [i \in DOMAIN st |-> st[Len(st) + 1 - i]] \o <<NUL>>
    BY DEF itoa
  <2> HIDE DEF d
  <2>2. neg = (n < 0)
    OBVIOUS
  <2>3. st = cs
    BY <2>2 DEF Magnitude
  <2> HIDE DEF st
  <2> QED  BY <2>1, <2>3
<1>2. \A f : Body(f) = [k \in Int |-> Turn10(f, k)]
  <2>1. ASSUME NEW f, NEW k \in Int
        PROVE  (IF k = 0 THEN << >>
                ELSE <<IF Rem(k, 10) > 9 THEN Rem(k, 10) - 10 + 97 ELSE Rem(k, 10) + 48>>
                     \o f[Quot(k, 10)])
               = Turn10(f, k)
    <3>1. ~(Rem(k, 10) > 9)
      <4>1. Rem(k, 10) \in Int /\ Rem(k, 10) < 10
        BY TenIs
      <4> QED  BY <4>1
    <3> QED  BY <3>1 DEF Turn10, Last10
  <2> QED  BY <2>1
<1> HIDE DEF Body
<1>3. PICK f : f = Body(f)
  <2>1. PICK g : TenDigits(g)
    BY TenDigitsExist
  <2>2. g = [k \in Int |-> Turn10(g, k)]
    <3> DEFINE h == [k \in Int |-> Turn10(g, k)]
    <3>1. \A k \in Int : g[k] = h[k]
      BY <2>1 DEF TenDigits
    <3>2. g = [k \in Int |-> g[k]] /\ h = [k \in Int |-> h[k]]
      BY <2>1 DEF TenDigits
    <3> HIDE DEF h
    <3>3. g = h
      BY <3>1, <3>2
    <3> QED  BY <3>3 DEF h
  <2> QED  BY <1>2, <2>2
<1>4. d = Body(d)
  BY <1>3
<1> HIDE DEF d
<1>5. TenDigits(d)
  <2>1. d = [k \in Int |-> Turn10(d, k)]
    BY <1>2, <1>4
  <2> QED  BY <2>1, TenDigitsType
<1> DEFINE m == Magnitude(n)
           K == Len(d[m])
           b == Sign(n)
           tail == IF n < 0 THEN <<45>> ELSE << >>
           t == rev \o <<NUL>>
<1>6. m \in Int /\ d[m] \in Seq(Int) /\ K \in Nat
  <2>1. m \in Int
    BY Int32Is DEF Magnitude
  <2> QED  BY <1>5, <2>1, DigitsAre
<1>7. b \in 0 .. 1 /\ tail \in Seq(Int) /\ Len(tail) = b /\ (n < 0 => b = 1 /\ tail[1] = 45)
  <2>1. <<45>> \in Seq(Int) /\ Len(<<45>>) = 1 /\ <<45>>[1] = 45
    OBVIOUS
  <2>2. << >> \in Seq(Int) /\ Len(<< >>) = 0
    OBVIOUS
  <2> QED  BY <2>1, <2>2 DEF Sign
<1>8. cs = d[m] \o tail
  OBVIOUS
<1> HIDE DEF m, b, tail
<1>9. /\ cs \in Seq(Int) /\ Len(cs) = K + b
      /\ \A i \in 1 .. K + b : cs[i] = IF i <= K THEN d[m][i] ELSE tail[i - K]
  <2> DEFINE a == d[m]
  <2> HIDE DEF cs, a
  <2>1. a \in Seq(Int) /\ K = Len(a) /\ tail \in Seq(Int) /\ cs = a \o tail
    BY <1>6, <1>7, <1>8 DEF a
  <2>2. /\ cs \in Seq(Int) /\ Len(cs) = Len(a) + Len(tail)
        /\ \A i \in 1 .. Len(a) + Len(tail) :
             cs[i] = IF i <= Len(a) THEN a[i] ELSE tail[i - Len(a)]
    BY <2>1, ConcatProperties
  <2> HIDE DEF K
  <2> QED  BY <1>7, <2>1, <2>2 DEF a
<1> HIDE DEF cs
<1> DEFINE R == K + b
<1>10. R \in Nat /\ rev \in Seq(Int) /\ Len(rev) = R /\ \A i \in 1 .. R : rev[i] = cs[R + 1 - i]
  <2>1. R \in Nat
    BY <1>6, <1>7
  <2>2. DOMAIN cs = 1 .. R /\ Len(cs) = R /\ cs \in [1 .. R -> Int]
    BY <1>9
  <2>3. rev = [i \in 1 .. R |-> cs[R + 1 - i]]
    BY <2>2
  <2> HIDE DEF R
  <2>4. \A i \in 1 .. R : R + 1 - i \in 1 .. R
    BY <2>1
  <2>5. rev \in [1 .. R -> Int]
    BY <2>2, <2>3, <2>4
  <2>6. rev \in Seq(Int)
    BY <2>1, <2>5
  <2>7. Len(rev) = R
    BY <2>1, <2>3
  <2> QED  BY <2>1, <2>3, <2>6, <2>7
<1> HIDE DEF rev, K
<1>11. /\ t \in Seq(Int) /\ Len(t) = R + 1 /\ t[R + 1] = NUL
       /\ \A i \in 1 .. R : t[i] = cs[R + 1 - i]
  <2>1. <<NUL>> \in Seq(Int) /\ Len(<<NUL>>) = 1 /\ <<NUL>>[1] = NUL
    BY DEF NUL
  <2> DEFINE z == <<NUL>>
  <2> HIDE DEF z, R
  <2>2. z \in Seq(Int) /\ Len(z) = 1 /\ z[1] = NUL /\ t = rev \o z
    BY <2>1 DEF z
  <2>3. /\ Len(rev \o z) = Len(rev) + Len(z) /\ rev \o z \in Seq(Int)
        /\ \A i \in 1 .. Len(rev) + Len(z) :
             (rev \o z)[i] = IF i <= Len(rev) THEN rev[i] ELSE z[i - Len(rev)]
    BY <1>10, <2>2, ConcatProperties
  <2>4. R + 1 \in 1 .. R + 1 /\ (R + 1) - R = 1
    BY <1>10
  <2>5. t \in Seq(Int) /\ Len(t) = R + 1 /\ t[R + 1] = NUL
    BY <1>10, <2>2, <2>3, <2>4
  <2>6. ASSUME NEW i \in 1 .. R PROVE t[i] = cs[R + 1 - i]
    BY <1>10, <2>2, <2>3
  <2> QED  BY <2>5, <2>6
<1> HIDE DEF t
<1>12. n < 0 => t[1] = 45
  <2> SUFFICES ASSUME n < 0 PROVE t[1] = 45
    OBVIOUS
  <2>1. b = 1 /\ 1 \in 1 .. R /\ R + 1 - 1 = K + 1 /\ K + 1 \in 1 .. K + b
        /\ ~(K + 1 <= K) /\ (K + 1) - K = 1
    BY <1>6, <1>7 DEF K
  <2> QED  BY <1>7, <1>9, <1>11, <2>1
<1>13. Holds10(t, 1 + b, d, m)
  <2>0. K \in Nat
    BY <1>6 DEF K
  <2>1. (1 + b) + K <= Len(t)
    BY <1>7, <1>11, <2>0
  <2>2. ASSUME NEW k \in 1 .. K PROVE t[(1 + b) + K - k] = d[m][k]
    <3>1. /\ (1 + b) + K - k \in 1 .. R /\ R + 1 - ((1 + b) + K - k) = k
          /\ k \in 1 .. K + b /\ k <= K
      BY <1>7, <2>0
    <3> QED  BY <1>9, <1>11, <3>1
  <2> QED  BY <2>1, <2>2 DEF Holds10, K
<1>14. Len(t) = b + K + 1 /\ t[Len(t)] = NUL
  <2>1. K \in Nat
    BY <1>6 DEF K
  <2> QED  BY <1>7, <1>11, <2>1
<1>15. Spelled(t, d, n)
  BY <1>11, <1>12, <1>13, <1>14 DEF Spelled, K, b, m
<1> QED  BY <1>1, <1>5, <1>15 DEF t

\* atoi of a string that begins with no space.
LEMMA AtoiIs ==
  ASSUME NEW s, CString(s), ~isspace(s[1])
  PROVE  atoi(s) = IF s[1] = 45 THEN Int32(-Number(s, 2))
                   ELSE Number(s, IF s[1] = 43 THEN 2 ELSE 1)
<1> DEFINE L == Len(s)
           T == {j \in 1 .. L : ~isspace(s[j])}
           v == [i \in 1 .. L |-> i]
           Body(f) == [i \in 1 .. L |-> IF isspace(s[i]) THEN f[i + 1] ELSE i]
           skip == CHOOSE f : f = Body(f)
           first == IF s[skip[1]] \in {45, 43} THEN skip[1] + 1 ELSE skip[1]
<1>1. atoi(s) = IF s[skip[1]] = 45 THEN Int32(-Number(s, first)) ELSE Number(s, first)
  BY DEF atoi
<1>2. L \in Nat /\ T \subseteq 1 .. L /\ L \in T /\ Search(L, T, v, 0)
  <2>1. L \in Nat /\ L \in 1 .. L /\ s[L] = 0
    BY DEF CString, NUL
  <2>2. T \subseteq 1 .. L /\ L \in T
    BY <2>1 DEF isspace
  <2> HIDE DEF L, T, v
  <2> QED  BY <2>1, <2>2 DEF Search
<1>3. \A f : \A i \in 1 .. L : Body(f)[i] = Turn(T, v, 0, f, i)
  BY DEF Turn
<1>4. PICK f : Loop(L, T, v, 0, f)
  <2> HIDE DEF L, T, v, Body
  <2> QED  BY <1>2, LoopExists
<1>5. f = Body(f)
  <2>1. Body(f) = [i \in 1 .. L |-> Turn(T, v, 0, f, i)]
    BY <1>3
  <2> QED  BY <1>4, <2>1 DEF Loop
<1>6. skip = Body(skip)
  <2> HIDE DEF Body
  <2> QED  BY <1>5
<1>7. skip[1] = 1
  <2> HIDE DEF skip
  <2>1. 1 \in 1 .. L
    BY <1>2
  <2>2. Body(skip)[1] = 1
    BY <2>1
  <2> QED  BY <1>6, <2>2
<1> HIDE DEF skip
<1>8. s[1] = 45 => first = 2
  BY <1>7
<1>9. s[1] # 45 => first = IF s[1] = 43 THEN 2 ELSE 1
  BY <1>7
<1> HIDE DEF first
<1>10. CASE s[1] = 45
  BY <1>1, <1>7, <1>8, <1>10
<1>11. CASE s[1] # 45
  BY <1>1, <1>7, <1>9, <1>11
<1> QED  BY <1>10, <1>11

\* The smallest int has no digits that can be read back.
LEMMA SmallestIsLost ==
  ASSUME NEW d, TenDigits(d), NEW t, Spelled(t, d, INT_MIN)
  PROVE  CString(t) /\ t[1] = 45 /\ Number(t, 2) = 0
<1> DEFINE m == INT_MIN
           K == Len(d[m])
<1>1. m \in Int /\ m < 0 /\ Magnitude(m) = m /\ Sign(m) = 1
  <2>1. m \in Int /\ m < 0
    BY IntAssumption DEF INT_MIN
  <2>2. Int32(-m) = m
    BY Int32Is
  <2> QED  BY <2>1, <2>2 DEF Magnitude, Sign
<1>2. K > 0 /\ ~IsDigit(d[m][K]) /\ K \in Nat
  <2> HIDE DEF m
  <2> QED  BY <1>1, NegativeLeads, DigitsAre
<1> HIDE DEF m
<1>3. /\ Len(t) = 1 + K + 1 /\ t \in Seq(Int) /\ t[Len(t)] = NUL /\ t[1] = 45
      /\ \A k \in 1 .. K : t[(1 + 1) + K - k] = d[m][k]
  <2>1. Spelled(t, d, m)
    BY DEF m
  <2> QED  BY <1>1, <2>1 DEF Spelled, Holds10
<1>4. t[2] = d[m][K]
  <2>1. K \in 1 .. K /\ (1 + 1) + K - K = 2
    BY <1>2
  <2> QED  BY <1>3, <2>1
<1> HIDE DEF K
<1>5. CString(t) /\ Len(t) \in Nat /\ 2 <= Len(t)
  BY <1>2, <1>3 DEF CString
<1>6. PICK r : /\ ReadsOn(t, 2, r)
               /\ \A e \in 2 .. Len(t) :
                    ~IsDigit(t[e]) /\ (\A j \in 2 .. e - 1 : IsDigit(t[j]))
                      => Number(t, 2) = r[e]
  BY <1>5, NumberIs
<1>7. 2 \in 2 .. Len(t) /\ ~IsDigit(t[2]) /\ \A j \in 2 .. 2 - 1 : IsDigit(t[j])
  BY <1>2, <1>4, <1>5
<1>8. Number(t, 2) = r[2]
  BY <1>6, <1>7
<1>9. r[2] = 0
  BY <1>6, <1>7 DEF ReadsOn, Read
<1> QED  BY <1>3, <1>5, <1>8, <1>9

\* From behind the sign on, the number is the magnitude.
LEMMA MagnitudeIsRead ==
  ASSUME NEW d, TenDigits(d), NEW t, NEW n \in INT_MIN + 1 .. INT_MAX, n # 0,
         Spelled(t, d, n)
  PROVE  /\ CString(t) /\ Number(t, 1 + Sign(n)) = Abs(n)
         /\ IF n < 0 THEN t[1] = 45 ELSE IsDigit(t[1])
<1> DEFINE m == Magnitude(n)
           b == Sign(n)
           K == Len(d[m])
<1>1. n \in Int /\ m = Abs(n) /\ m \in 1 .. INT_MAX /\ INT_MAX \in Nat
  <2>1. n \in Int /\ INT_MAX \in Nat /\ INT_MIN + 1 = -INT_MAX /\ INT_MIN \in Int
    BY IntAssumption DEF INT_MIN
  <2>2. Abs(n) \in 1 .. INT_MAX
    BY <2>1 DEF Abs
  <2>3. Int32(Abs(n)) = Abs(n)
    <3>1. Abs(n) \in INT_MIN .. INT_MAX
      BY <2>1, <2>2
    <3> QED  BY <3>1, Int32Is
  <2>4. m = Abs(n)
    BY <2>3 DEF Magnitude, Abs
  <2> QED  BY <2>1, <2>2, <2>4
<1>2. b \in 0 .. 1 /\ (n < 0 <=> b = 1)
  BY DEF Sign
<1>3. /\ Len(t) = b + K + 1 /\ t \in Seq(Int) /\ t[Len(t)] = NUL
      /\ (n < 0 => t[1] = 45) /\ Holds10(t, 1 + b, d, m)
  BY DEF Spelled
<1>4. K \in Nat /\ K > 0
  <2>1. m \in Int /\ m # 0 /\ Quot(m, 10) \in Int
    BY <1>1, TenIs
  <2> HIDE DEF m
  <2>2. K \in Nat /\ K = Len(d[Quot(m, 10)]) + 1 /\ Len(d[Quot(m, 10)]) \in Nat
    BY <2>1, DigitsAre
  <2> QED  BY <2>2
<1> HIDE DEF m, b, K
<1>5. CString(t) /\ Len(t) \in Nat /\ 1 + b \in Int /\ 1 + b <= Len(t)
  BY <1>2, <1>3, <1>4 DEF CString
<1>6. PICK r : /\ ReadsOn(t, 1 + b, r)
               /\ \A e \in 1 + b .. Len(t) :
                    ~IsDigit(t[e]) /\ (\A j \in 1 + b .. e - 1 : IsDigit(t[j]))
                      => Number(t, 1 + b) = r[e]
  BY <1>5, NumberIs
<1> DEFINE stop == 1 + b + K
<1>7. r[stop] = m /\ \A j \in 1 + b .. stop - 1 : IsDigit(t[j])
  <2>1. m \in 0 .. INT_MAX
    BY <1>1
  <2>2. /\ r[1 + b + Len(d[m])] = m
        /\ \A j \in 1 + b .. 1 + b + Len(d[m]) - 1 : IsDigit(t[j])
    <3> HIDE DEF stop
    <3> QED  BY <1>3, <1>5, <1>6, <2>1, DigitsRead
  <2>3. K = Len(d[m]) /\ 1 + b + K - 1 = stop - 1
    BY <1>2, <1>4 DEF K
  <2> QED  BY <2>2, <2>3
<1>8. stop \in 1 + b .. Len(t) /\ t[stop] = NUL /\ ~IsDigit(NUL)
  BY <1>2, <1>3, <1>4 DEF IsDigit, NUL
<1>9. Number(t, 1 + b) = m
  BY <1>6, <1>7, <1>8
<1>10. ~(n < 0) => IsDigit(t[1])
  <2> SUFFICES ASSUME ~(n < 0) PROVE IsDigit(t[1])
    OBVIOUS
  <2>1. b = 0
    BY <1>2
  <2>2. 1 \in 1 + b .. stop - 1
    BY <1>4, <2>1
  <2> QED  BY <1>7, <2>2
<1> QED  BY <1>1, <1>3, <1>5, <1>9, <1>10 DEF b

\* atoi reads every int that itoa writes, but for the one that has no negative.
LEMMA NumbersRoundTrip ==
  ASSUME NEW n \in INT_MIN .. INT_MAX
  PROVE  (n # INT_MIN) <=> (atoi(itoa(n, 10)) = n)
<1> DEFINE t == itoa(n, 10)
<1>1. n \in Int /\ INT_MAX \in Nat /\ INT_MIN \in Int /\ INT_MIN < 0
  BY IntAssumption DEF INT_MIN
<1>2. CASE n = 0
  <2>1. t = <<48, 0>>
    BY <1>2 DEF itoa, NUL
  <2> HIDE DEF t
  <2>2. /\ Len(t) = 2 /\ t[1] = 48 /\ t[2] = 0 /\ t \in Seq(Int)
    BY <2>1
  <2>3. CString(t) /\ ~isspace(t[1])
    BY <2>2 DEF CString, isspace, NUL
  <2>4. atoi(t) = Number(t, 1)
    BY <2>2, <2>3, AtoiIs
  <2>5. PICK r : /\ ReadsOn(t, 1, r)
                 /\ \A e \in 1 .. Len(t) :
                      ~IsDigit(t[e]) /\ (\A j \in 1 .. e - 1 : IsDigit(t[j]))
                        => Number(t, 1) = r[e]
    <3>1. Len(t) \in Nat /\ 1 <= Len(t)
      BY <2>2
    <3> QED  BY <3>1, NumberIs
  <2>6. 2 \in 1 .. Len(t) /\ ~IsDigit(t[2]) /\ \A j \in 1 .. 2 - 1 : IsDigit(t[j])
    BY <2>2 DEF IsDigit
  <2>7. Number(t, 1) = r[2]
    BY <2>5, <2>6
  <2>8. r[1] = 0
    BY <2>2, <2>5 DEF ReadsOn, Read
  <2>9. r[2] = 0
    <3>1. r[2] = Int32(r[1] * 10 + (t[1] - 48))
      BY <2>2, <2>5 DEF ReadsOn, Read
    <3>2. 0 * 10 + (48 - 48) = 0
      OBVIOUS
    <3>3. Int32(0) = 0
      <4>1. 0 \in INT_MIN .. INT_MAX
        BY <1>1
      <4> QED  BY <4>1, Int32Is
    <3> QED  BY <2>2, <2>8, <3>1, <3>2, <3>3
  <2> QED  BY <1>1, <1>2, <2>4, <2>7, <2>9 DEF t
<1>3. CASE n # 0
  <2>1. PICK d : TenDigits(d) /\ Spelled(t, d, n)
    BY <1>1, <1>3, ItoaIs
  <2> HIDE DEF t
  <2>2. CASE n = INT_MIN
    <3>1. CString(t) /\ t[1] = 45 /\ Number(t, 2) = 0
      BY <2>1, <2>2, SmallestIsLost
    <3>2. ~isspace(t[1])
      BY <3>1 DEF isspace
    <3>3. atoi(t) = Int32(-Number(t, 2))
      BY <3>1, <3>2, AtoiIs
    <3>4. -Number(t, 2) = 0
      <4>1. \A z \in Int : -z \in Int /\ -z + z = 0
        OBVIOUS
      <4> DEFINE z == Number(t, 2)
                 y == -z
      <4>2. z \in Int /\ z = 0
        BY <3>1
      <4> HIDE DEF z
      <4>3. y \in Int /\ y + z = 0
        BY <4>1, <4>2
      <4> HIDE DEF y
      <4>4. y = 0
        BY <4>2, <4>3
      <4> QED  BY <4>4 DEF y, z
    <3>5. Int32(-Number(t, 2)) = 0
      <4>1. 0 \in INT_MIN .. INT_MAX
        BY <1>1
      <4> QED  BY <3>4, <4>1, Int32Is
    <3> QED  BY <1>1, <2>2, <3>3, <3>5 DEF t
  <2>3. CASE n # INT_MIN
    <3>1. n \in INT_MIN + 1 .. INT_MAX
      BY <1>1, <2>3
    <3>2. /\ CString(t) /\ Number(t, 1 + Sign(n)) = Abs(n)
          /\ IF n < 0 THEN t[1] = 45 ELSE IsDigit(t[1])
      BY <1>3, <2>1, <3>1, MagnitudeIsRead
    <3>3. CASE n < 0
      <4>1. t[1] = 45 /\ ~isspace(t[1]) /\ Number(t, 2) = -n
        BY <3>2, <3>3 DEF isspace, Sign, Abs
      <4>2. atoi(t) = Int32(-(-n))
        BY <3>2, <4>1, AtoiIs
      <4>3. -(-n) = n
        BY <1>1
      <4>4. Int32(n) = n
        BY Int32Is
      <4> QED  BY <2>3, <4>2, <4>3, <4>4 DEF t
    <3>4. CASE ~(n < 0)
      <4>1. IsDigit(t[1]) /\ Number(t, 1) = n
        BY <3>2, <3>4 DEF Sign, Abs
      <4>2. t[1] \notin {45, 43} /\ ~isspace(t[1])
        <5>1. t[1] \in Int
          BY <3>2 DEF CString
        <5> QED  BY <4>1, <5>1 DEF IsDigit, isspace
      <4>3. atoi(t) = n
        BY <3>2, <4>1, <4>2, AtoiIs
      <4> QED  BY <2>3, <4>3 DEF t
    <3> QED  BY <3>3, <3>4
  <2> QED  BY <2>2, <2>3
<1> QED  BY <1>2, <1>3

\* The library does what it is for: the order of strcmp, and numbers that come
\* back from the strings they were written to.
LEMMA LibraryNow == line \in Strings => LibraryAgrees
<1> SUFFICES ASSUME line \in Strings PROVE LibraryAgrees
  OBVIOUS
<1>1. ASSUME NEW t \in Strings
      PROVE  (strcmp(line, t) = 0 <=> line = t) /\ (strcmp(line, t) < 0 <=> Less(line, t))
  <2>1. Plain(line) /\ Plain(t)
    BY LinePlain
  <2> QED  BY <2>1, StrcmpOrders
<1>2. \A n \in INT_MIN .. INT_MAX : (n # INT_MIN) <=> (atoi(itoa(n, 10)) = n)
  BY NumbersRoundTrip
<1> QED  BY <1>1, <1>2 DEF LibraryAgrees

\* strcmp orders strings as a dictionary does, and atoi reads every int that
\* itoa writes except INT_MIN, for every width of int and all lines.
THEOREM LibraryAlwaysAgrees == StrtokSpec => []LibraryAgrees
<1>1. StrtokInv => line \in Strings
  BY DEF StrtokInv
<1> QED  BY <1>1, StrtokInvariant, LibraryNow, PTL
=============================================================================
