----------------------------- MODULE SerialPoll -----------------------------
(***************************************************************************)
(* serial_poll of kernel/serial.c, through which every command reads its   *)
(* input: one call, from the empty line to its return, one action for each *)
(* received byte.  The turns of the loop that find no byte change nothing, *)
(* and the echo on the terminal is left out.                               *)
(*                                                                         *)
(* buffer has a place on either side of the caller's array: 0 .. Size - 1  *)
(* is the array, -1 and Size are whatever lies next to it.  Any byte may   *)
(* arrive, a NUL too, which is stored like a letter.  touched and nuls are *)
(* history: the places that the call has written to, and the places of the *)
(* NULs that were received and not erased.                                 *)
(***************************************************************************)
EXTENDS Integers, Sequences

CONSTANTS
  Size,        \* len, the size of the caller's array
  SizeMod,     \* size_t counts modulo SizeMod
  Characters,  \* bytes that are neither of the next two; '\0' may be one
  Backspaces,  \* 8 and 127
  Enters,      \* '\n' and '\r'
  Terminator,  \* '\0'
  Contents     \* what the array may hold at the call: NUL, or anything

ASSUME PollAssumption ==
  /\ Size \in Nat \ {0} /\ SizeMod \in Nat /\ SizeMod > Size + 1
  /\ Characters \cap Backspaces = {} /\ Characters \cap Enters = {}
  /\ Backspaces \cap Enters = {}
  /\ Terminator \notin Backspaces \cup Enters

VARIABLES buffer, bytes_read, result, touched, nuls

pvars == <<buffer, bytes_read, result, touched, nuls>>

BUFFER_OVERFLOW == -1
READING == -2        \* the call has not returned
Places == -1 .. Size
Bytes == Characters \cup Backspaces \cup Enters \cup {Terminator} \cup Contents

\* Most commands clear their array first, set_date, set_time and shutdown do
\* not.
PollInit ==
  /\ \E c \in Contents : buffer = [i \in Places |-> c]
  /\ bytes_read = 0
  /\ result = READING
  /\ touched = {} /\ nuls = {}

\* The head of the loop.
Reading == result = READING /\ bytes_read < Size

\* Mutant: the test at the foot of the loop is missing.
Outcome_NoTest(n) ==
  CASE n < Size -> READING
    [] OTHER -> n

\* The test at the foot of the loop, and the loop's condition.
Outcome(n) ==
  CASE n > Size -> BUFFER_OVERFLOW
    [] n = Size -> Size
    [] n < Size -> READING

\* buffer[bytes_read++] = c
Character(c) ==
  /\ Reading
  /\ buffer' = [buffer EXCEPT ![bytes_read] = c]
  /\ touched' = touched \cup {bytes_read}
  /\ nuls' = IF c = Terminator THEN nuls \cup {bytes_read} ELSE nuls
  /\ bytes_read' = bytes_read + 1
  /\ result' = Outcome(bytes_read')

\* Mutant: the backspace is not stored and counted first.
Backspace_NotCounted(c) ==
  /\ Reading
  /\ bytes_read' = IF bytes_read > 0 THEN (bytes_read - 2) % SizeMod ELSE 0
  /\ buffer' = [buffer EXCEPT ![bytes_read - 2] = Terminator]
  /\ touched' = touched \cup {bytes_read - 2}
  /\ nuls' = nuls \ {bytes_read - 1}
  /\ result' = Outcome(bytes_read')

\* The backspace itself is stored and counted, so `bytes_read > 0' always
\* holds; then bytes_read goes down twice, below 0 for an empty line.
Backspace(c) ==
  /\ Reading
  /\ buffer' = [buffer EXCEPT ![bytes_read] = c, ![bytes_read - 1] = Terminator]
  /\ touched' = touched \cup {bytes_read, bytes_read - 1}
  /\ nuls' = nuls \ {bytes_read - 1}
  /\ bytes_read' = (bytes_read - 1) % SizeMod
  /\ result' = Outcome(bytes_read')

\* Mutant: no terminator.
Newline_Open(c) ==
  /\ Reading
  /\ buffer' = [buffer EXCEPT ![bytes_read] = c]
  /\ touched' = touched \cup {bytes_read}
  /\ bytes_read' = bytes_read + 1
  /\ result' = bytes_read'
  /\ UNCHANGED nuls

Newline(c) ==
  /\ Reading
  /\ buffer' = [buffer EXCEPT ![bytes_read] = c, ![bytes_read + 1] = Terminator]
  /\ touched' = touched \cup {bytes_read, bytes_read + 1}
  /\ bytes_read' = bytes_read + 1
  /\ result' = bytes_read'
  /\ UNCHANGED nuls

PollNext ==
  \/ \E c \in Characters : Character(c)
  \/ \E c \in Backspaces : Backspace(c)
  \/ \E c \in Enters : Newline(c)

PollSpec == PollInit /\ [][PollNext]_pvars
-----------------------------------------------------------------------------
\* Types; and bytes_read stays below len until the call returns.
PollTypeOK ==
  /\ buffer \in [Places -> Bytes]
  /\ bytes_read \in 0 .. SizeMod - 1
  /\ result \in {READING, BUFFER_OVERFLOW} \cup 1 .. Size
  /\ touched \subseteq Int /\ nuls \subseteq Nat
  /\ result = READING => bytes_read < Size

\* The call returned at Enter.
Entered == result \in 1 .. Size /\ buffer[result - 1] \in Enters

\* Outside the caller's array the call writes to at most one byte.  The byte
\* before it only when an erase of an empty line is about to be reported as
\* BUFFER_OVERFLOW, and the byte behind it only for the terminator of a line
\* whose Enter took the last place.
StaysNear ==
  /\ touched \subseteq Places
  /\ -1 \in touched => result = BUFFER_OVERFLOW
  /\ Size \in touched => result = Size /\ Entered
  /\ ~({-1, Size} \subseteq touched)

\* After Enter a NUL follows the line, and the only ones inside it are those
\* that were typed and stayed: none is left behind by an erase or by what the
\* array held before.  So the array holds a C string of exactly the length that
\* is returned when no NUL was typed, and a shorter one, with the rest of the
\* line behind its end, when one was.
LineIsString ==
  Entered => /\ buffer[result] = Terminator
             /\ \A i \in 0 .. result - 1 : buffer[i] = Terminator <=> i \in nuls

\* The line as it stands, and how the call ended.
TheLine ==
  [i \in 1 .. (IF result = BUFFER_OVERFLOW THEN 0 ELSE bytes_read) |-> buffer[i - 1]]

TheOutcome ==
  IF result = READING THEN "typing"
  ELSE IF result = BUFFER_OVERFLOW THEN "error"
  ELSE IF Entered THEN "line" ELSE "full"

Editor == INSTANCE LineEditor WITH
  Capacity <- Size, line <- TheLine, outcome <- TheOutcome

\* serial_poll edits the line as a line editor does: the two decrements of a
\* backspace cancel the backspace and the character before it, and nothing
\* else, at every length of the line.
ImplementsEditor == Editor!Spec
=============================================================================
