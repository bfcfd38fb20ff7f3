------------------------------- MODULE Clock --------------------------------
(***************************************************************************)
(* The clock commands of user/commhand.c (setdate, getdate, settime,       *)
(* gettime, alarm) and the registers of the real-time clock behind them.   *)
(*                                                                         *)
(* A register is a byte, and every outb to or inb from one is a step: the  *)
(* clock ticks between any two of them, whatever the interrupt flag says.  *)
(* A line arrives as serial_poll delivers it (SerialPoll): the characters, *)
(* the carriage return, which is counted, and a NUL.  Reports on the       *)
(* terminal are left out, except the date and the time shown.              *)
(***************************************************************************)
EXTENDS CLib

CONSTANTS
  Lines,    \* what the operator types before ENTER
  Moments,  \* the register contents that the running clock passes through
  Junk,     \* the bytes that an uninitialised char may hold
  InUse,    \* the names of the processes at the start
  Blocks,   \* the free heap, in blocks of the 12 bytes that get_time takes
  PcbCost   \* what a struct pcb takes, in such blocks

DateRegs == <<"DAY", "MONTH", "YEAR">>
TimeRegs == <<"HOURS", "MINUTES", "SECONDS">>
AlarmRegs == <<"ALARM_HR", "ALARM_MIN", "ALARM_SEC">>
Regs(s) == {s[k] : k \in DOMAIN s}
Running == Regs(DateRegs) \cup Regs(TimeRegs)   \* what the clock itself changes
Byte == 0 .. 255

BACKSPACE == 8
CR == 13
SLASH == 47
Whitespace == {10, 13, 9, 32}   \* the delimiters passed to strtok

\* The bytes whose two nibbles are the digits of a number in S.
BcdIn(S) == {b \in Byte : b \div 16 <= 9 /\ b % 16 <= 9 /\ 10 * (b \div 16) + (b % 16) \in S}

\* The buffers of these commands take every line whole, and the clock counts in
\* BCD.
ASSUME ClockAssumption ==
  /\ \A l \in Lines : Len(l) <= 10 /\ \A k \in DOMAIN l : l[k] \in 1 .. 255
  /\ Moments # {} /\ Moments \subseteq [Running -> Byte]
  /\ \A m \in Moments : /\ m["DAY"] \in BcdIn(1 .. 31)
                        /\ m["MONTH"] \in BcdIn(1 .. 12)
                        /\ m["YEAR"] \in BcdIn(0 .. 99)
  /\ Junk \subseteq Byte /\ Junk # {}
  /\ Blocks \in Nat /\ PcbCost \in Nat

NONE == << >>
NOTHING == [what |-> "nothing", value |-> NONE, expected |-> NONE]

VARIABLES
  rtc,      \* the registers
  at,       \* what the Command Handler is doing
  cmd,      \* in which command
  todo,     \* the registers it has yet to read or to write, with the values
  got,      \* the registers it has read, newest last
  iflag,    \* the interrupt flag
  input,    \* alarm: where strtok found the time (an index, or NULL)
  buf,      \* alarm: its buffer
  free,     \* blocks left in the heap
  names,    \* the names in use
  set,      \* history: date and time accepted since the last tick, else NONE
  shown     \* history: what the last command showed, and what set said then

vars == <<rtc, at, cmd, todo, got, iflag, input, buf, free, names, set, shown>>
world == <<rtc, free, names, set, shown>>
-----------------------------------------------------------------------------
(***************************************************************************)
(* Strings and registers.                                                  *)
(***************************************************************************)

\* An array of size 20 after serial_poll, its other places holding `rest'.  A
\* backspace on the empty line is stored and ends the call (see SerialPoll).
Polled(l, rest) ==
  LET text == IF l # << >> /\ l[1] = BACKSPACE THEN <<BACKSPACE>> ELSE l \o <<CR, NUL>>
  IN  [k \in 1 .. 20 |-> IF k <= Len(text) THEN text[k] ELSE rest]

\* What serial_poll returns.
nread(l) == IF l # << >> /\ l[1] = BACKSPACE THEN -1 ELSE Len(l) + 1

\* Where the first word that strtok finds in b begins, or NULL.
WordAt(b) ==
  LET skip[k \in 1 .. Len(b)] ==
        IF b[k] = NUL THEN NULL ELSE IF b[k] \in Whitespace THEN skip[k + 1] ELSE k
  IN  skip[1]

\* The buffer once strtok has cut that word off.
Cut(b) ==
  LET end[k \in 1 .. Len(b)] ==
        IF b[k] = NUL \/ b[k] \in Whitespace THEN k ELSE end[k + 1]
  IN  IF WordAt(b) = NULL THEN b ELSE [b EXCEPT ![end[WordAt(b)]] = NUL]

Word(b) == SubSeq(From(b, WordAt(b)), 1, strlen(From(Cut(b), WordAt(b))))

\* atoi of the two characters at k of a word.
Pair(w, k) == atoi(<<w[k], w[k + 1], NUL>>)

\* Mutant: the value is written as it is.
Bcd_Binary(v) == v % 256

\* Decimal digits to nibbles.
Bcd(v) == (Quot(v, 10) * 16 + Rem(v, 10)) % 256

\* Nibbles to a number, as get_time does it; a uint8_t.
FromBcd(b) == ((b % 16) + (b \div 16) * 10) % 256
-----------------------------------------------------------------------------
Init ==
  /\ \E m \in Moments :
       rtc = [r \in Running \cup Regs(AlarmRegs) |-> IF r \in Running THEN m[r] ELSE 0]
  /\ at = "menu" /\ cmd = "none" /\ todo = << >> /\ got = << >>
  /\ iflag = TRUE
  /\ input = NULL /\ buf = << >>
  /\ free = Blocks /\ names = InUse
  /\ set = [date |-> NONE, time |-> NONE]
  /\ shown = NOTHING

\* kpanic(): a NULL was followed, or memory was freed twice.
Stop == at' = "stopped" /\ UNCHANGED <<cmd, todo, got, iflag, input, buf>>

\* A command returns to the menu.
Return == at' = "menu" /\ cmd' = "none" /\ todo' = << >> /\ got' = << >>
          /\ input' = NULL /\ buf' = << >>

\* The clock itself.  It goes on whatever the program does.
Tick ==
  /\ at # "stopped"
  /\ \E m \in Moments :
       rtc' = [r \in DOMAIN rtc |-> IF r \in Running THEN m[r] ELSE rtc[r]]
  /\ set' = [date |-> NONE, time |-> NONE]
  /\ UNCHANGED <<at, cmd, todo, got, iflag, input, buf, free, names, shown>>

\* One outb to RTC_ADDR_PORT and one to RTC_DATA_PORT.
WriteRegister ==
  /\ at = "writing" /\ todo # << >>
  /\ rtc' = [rtc EXCEPT ![todo[1][1]] = todo[1][2]]
  /\ todo' = Tail(todo)
  /\ UNCHANGED <<at, cmd, got, iflag, input, buf, free, names, set, shown>>

\* One outb to RTC_ADDR_PORT and one inb from RTC_DATA_PORT.
ReadRegister ==
  /\ at = "reading" /\ todo # << >>
  /\ got' = Append(got, rtc[todo[1]])
  /\ todo' = Tail(todo)
  /\ UNCHANGED <<at, cmd, iflag, input, buf, rtc, free, names, set, shown>>

Writes(regs, values) == [k \in 1 .. 3 |-> <<regs[k], values[k]>>]

\* Goes on to write three registers, or to read three.
GoWrite(regs, values) == at' = "writing" /\ todo' = Writes(regs, values)
GoRead(regs) == at' = "reading" /\ todo' = regs /\ got' = << >>

\* The Command Handler calls the command typed.
Typed(c) == at = "menu" /\ cmd' = c /\ shown' = NOTHING
-----------------------------------------------------------------------------
(***************************************************************************)
(* setdate                                                                 *)
(***************************************************************************)

\* cli(), and the prompt.
set_date ==
  /\ Typed("setdate")
  /\ iflag' = FALSE /\ at' = "date line"
  /\ UNCHANGED <<todo, got, input, buf, rtc, free, names, set>>

DateFormat(w) == Len(w) = 8 /\ w[3] = SLASH /\ w[6] = SLASH

\* Mutant: a negative year is accepted.
ValidDate_AnyYear(d) ==
  d[1] \in 1 .. 31 /\ d[2] \in 1 .. 12 /\ d[3] <= 99

ValidDate(d) == d[1] \in 1 .. 31 /\ d[2] \in 1 .. 12 /\ d[3] \in 0 .. 99

\* Mutant: this return forgets sti().
DateRefused_NoSti == Return /\ UNCHANGED iflag

\* An error return: report, sti().
DateRefused == Return /\ iflag' = TRUE

\* The line is there.  strtok returns NULL for a blank one, and strlen follows
\* it.
DateLine(l) ==
  /\ at = "date line"
  /\ LET b == Polled(l, NUL)
         w == Word(b)
         d == <<Pair(w, 1), Pair(w, 4), Pair(w, 7)>>
     IN  \/ /\ nread(l) = -1
            /\ DateRefused /\ UNCHANGED set
         \/ /\ nread(l) # -1 /\ WordAt(b) = NULL
            /\ Stop /\ UNCHANGED set
         \/ /\ nread(l) # -1 /\ WordAt(b) # NULL
            /\ IF DateFormat(w) /\ ValidDate(d)
               THEN /\ GoWrite(DateRegs, <<Bcd(d[1]), Bcd(d[2]), Bcd(d[3])>>)
                    /\ set' = [set EXCEPT !.date = d]
                    /\ UNCHANGED <<cmd, got, iflag, input, buf>>
               ELSE DateRefused /\ UNCHANGED set
  /\ UNCHANGED <<rtc, free, names, shown>>

\* The end of set_date and of set_time: sti().
Written ==
  /\ at = "writing" /\ todo = << >> /\ cmd \in {"setdate", "settime"}
  /\ Return /\ iflag' = TRUE
  /\ UNCHANGED world
-----------------------------------------------------------------------------
(***************************************************************************)
(* getdate and gettime                                                     *)
(***************************************************************************)
get_date ==
  /\ Typed("getdate")
  /\ GoRead(DateRegs)
  /\ UNCHANGED <<iflag, input, buf, rtc, free, names, set>>

\* Two characters for each register.
ShowDate ==
  /\ at = "reading" /\ todo = << >> /\ cmd = "getdate"
  /\ shown' = [what |-> "date",
               value |-> [k \in 1 .. 3 |-> <<(got[k] \div 16) + 48, (got[k] % 16) + 48>>],
               expected |-> set.date]
  /\ Return
  /\ UNCHANGED <<iflag, rtc, free, names, set>>

get_time ==
  /\ Typed("gettime")
  /\ GoRead(TimeRegs)
  /\ UNCHANGED <<iflag, input, buf, rtc, free, names, set>>

\* hours is a uint8_t: it wraps, and is never below 0.
Est(h) == (h - 4) % 256

\* The two characters of a number.
Digits(v) == <<48 + (v \div 10), 48 + (v % 10)>>

\* Mutant: the lines that write the minutes, copied, write the seconds.
TimeString_Minutes ==
  <<Digits(Est(FromBcd(got[1]))), Digits(FromBcd(got[2])), Digits(FromBcd(got[2]))>>

\* What get_time writes into its string.
TimeString ==
  <<Digits(Est(FromBcd(got[1]))), Digits(FromBcd(got[2])), Digits(FromBcd(got[3]))>>

\* The string is allocated, shown and never freed; without memory nothing is
\* shown.
ShowsTime ==
  IF free > 0
  THEN /\ free' = free - 1
       /\ shown' = [what |-> "time", value |-> TimeString, expected |-> set.time]
  ELSE UNCHANGED <<free, shown>>

ShowTime ==
  /\ at = "reading" /\ todo = << >> /\ cmd = "gettime"
  /\ ShowsTime
  /\ Return
  /\ UNCHANGED <<iflag, rtc, names, set>>
-----------------------------------------------------------------------------
(***************************************************************************)
(* settime                                                                 *)
(***************************************************************************)
set_time ==
  /\ Typed("settime")
  /\ at' = "time line"
  /\ UNCHANGED <<todo, got, iflag, input, buf, rtc, free, names, set>>

\* The strings hour, minutes and seconds that set_time and alarm take from
\* their buffer: the second character of minutes comes from the seconds, and
\* seconds has a first character only; j and k are what its other places hold, and
\* what is behind them is taken to be no digit.
Parsed(b, j, k) ==
  <<atoi(<<b[1], b[2], NUL>>), atoi(<<b[4], b[8], NUL>>), atoi(<<b[7], j, k, NUL>>)>>

ValidTime(t) == t[1] \in 0 .. 23 /\ t[2] \in 0 .. 59 /\ t[3] \in 0 .. 59

\* Mutant: interrupts stay enabled.
Mask_Not == iflag' = iflag

\* cli()
Mask == iflag' = FALSE

\* The values are written as they are, not as BCD.
TimeLine(l) ==
  /\ at = "time line"
  /\ \E rest, j, k \in Junk :
       LET t == Parsed(Polled(l, rest), j, k)
       IN  IF nread(l) >= 5 /\ ValidTime(t)
           THEN /\ Mask /\ GoWrite(TimeRegs, t)
                /\ set' = [set EXCEPT !.time = t]
                /\ UNCHANGED <<cmd, got, input, buf>>
           ELSE Return /\ UNCHANGED <<iflag, set>>
  /\ UNCHANGED <<rtc, free, names, shown>>
-----------------------------------------------------------------------------
(***************************************************************************)
(* alarm, as the Command Handler runs it                                   *)
(***************************************************************************)
alarm ==
  /\ Typed("alarm")
  /\ at' = "alarm time"
  /\ UNCHANGED <<todo, got, iflag, input, buf, rtc, free, names, set>>

\* The time is typed; only the place of its first word is kept.
AlarmTime(l) ==
  /\ at = "alarm time"
  /\ input' = WordAt(Polled(l, NUL))
  /\ at' = "alarm name"
  /\ UNCHANGED <<cmd, todo, got, iflag, buf, rtc, free, names, set, shown>>

\* The name is typed into the same buffer.  pcb_find follows a NULL; a name in
\* use is only reported.  Then get_time.
AlarmName(l) ==
  /\ at = "alarm name"
  /\ LET b == Polled(l, NUL)
     IN  IF WordAt(b) = NULL
         THEN Stop
         ELSE /\ buf' = Cut(b) /\ GoRead(TimeRegs)
              /\ UNCHANGED <<cmd, iflag, input>>
  /\ UNCHANGED world

\* atoi follows the NULL of a get_time that found no memory and that of a
\* blank time.  The registers get what the name's characters stand for.
AlarmCheck ==
  /\ at = "reading" /\ todo = << >> /\ cmd = "alarm"
  /\ ShowsTime
  /\ \E j, k \in Junk :
       LET t == Parsed(buf, j, k)
       IN  IF free = 0 \/ input = NULL
           THEN Stop
           ELSE IF ValidTime(t)
           THEN GoWrite(AlarmRegs, t) /\ UNCHANGED <<cmd, got, iflag, input, buf>>
           ELSE Return /\ UNCHANGED iflag
  /\ UNCHANGED <<rtc, names, set>>

\* get_time_int == alarm_time_int
HourEquals ==
  atoi(TimeString[1] \o <<58, NUL>>) = atoi(From(buf, input))

\* The process is set up and inserted, and the Command Handler yields.  A
\* pcb_setup that fails is followed all the same.  When the hours agree the
\* command ends in sys_req(EXIT), and pcb_free frees the PCB twice.
AlarmProcess ==
  /\ at = "writing" /\ todo = << >> /\ cmd = "alarm"
  /\ LET n == Word(buf)
     IN  IF free < PcbCost \/ Len(n) < 2 \/ n \in names
         THEN Stop /\ UNCHANGED <<free, names>>
         ELSE /\ free' = free - PcbCost /\ names' = names \cup {n}
              /\ IF HourEquals THEN Stop ELSE Return /\ UNCHANGED iflag
  /\ UNCHANGED <<rtc, set, shown>>
-----------------------------------------------------------------------------
Command == set_date \/ get_date \/ get_time \/ set_time \/ alarm

\* What the program does without the operator.
Run ==
  \/ WriteRegister \/ ReadRegister
  \/ Written \/ ShowDate \/ ShowTime \/ AlarmCheck \/ AlarmProcess

Next ==
  \/ Command
  \/ \E l \in Lines : DateLine(l) \/ TimeLine(l) \/ AlarmTime(l) \/ AlarmName(l)
  \/ Run
  \/ Tick

Spec == Init /\ [][Next]_vars
-----------------------------------------------------------------------------
\* setdate and settime enable interrupts again on every way back to the menu,
\* so the serial port's interrupts do not stay masked.
InterruptsBack == at = "menu" => iflag

\* Whatever is typed and whenever the clock ticks, even between two writes, the
\* date registers hold a day, a month and a year in BCD, and the alarm registers a
\* time of day.
RegistersValid ==
  /\ rtc["DAY"] \in BcdIn(1 .. 31)
  /\ rtc["MONTH"] \in BcdIn(1 .. 12)
  /\ rtc["YEAR"] \in BcdIn(0 .. 99)
  /\ rtc["ALARM_HR"] \in 0 .. 23
  /\ rtc["ALARM_MIN"] \in 0 .. 59 /\ rtc["ALARM_SEC"] \in 0 .. 59

\* A date that setdate accepted is shown by getdate as the operator typed it, if
\* the clock has not ticked since: parsing, BCD and back again.
DateShown ==
  shown.what = "date" /\ shown.expected # NONE =>
    shown.value = [k \in 1 .. 3 |-> Digits(shown.expected[k])]

\* After settime, with no tick since, gettime shows what was set, the hour four
\* hours earlier, as far as the code can: for minutes and seconds below 16, which
\* are the same in binary and in BCD, and for hours from 4 to 15.  Of the other
\* hours nothing is promised: below 4 the unsigned subtraction wraps.
TimeShown ==
  shown.what = "time" /\ shown.expected # NONE =>
    /\ shown.expected[1] \in 4 .. 15 => shown.value[1] = Digits(shown.expected[1] - 4)
    /\ \A k \in 2 .. 3 :
         shown.expected[k] < 16 => shown.value[k] = Digits(shown.expected[k])

\* The program changes the date and the time registers only while interrupts
\* are disabled; otherwise only the clock does.
WritesMasked ==
  [][(\E r \in Running : rtc'[r] # rtc[r]) => ~iflag \/ Tick]_vars

=============================================================================
