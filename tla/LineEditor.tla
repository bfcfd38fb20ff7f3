----------------------------- MODULE LineEditor -----------------------------
(***************************************************************************)
(* What reading a line from a terminal promises: characters are appended,  *)
(* an erase takes the last one back, Enter ends the line, and a line that  *)
(* fills the buffer ends by itself.  An erase of an empty line ends the    *)
(* input with an error.                                                    *)
(***************************************************************************)
EXTENDS Naturals, Sequences

CONSTANTS
  Characters,  \* ordinary characters
  Enters,      \* the characters that end a line
  Capacity     \* how long a line may be

VARIABLES
  line,     \* the characters of the line, the Enter included
  outcome   \* "typing", "line", "full" or "error"

evars == <<line, outcome>>

Init == line = <<>> /\ outcome = "typing"

Room == outcome = "typing" /\ Len(line) < Capacity

Insert(c) ==
  /\ Room
  /\ line' = Append(line, c)
  /\ outcome' = IF Len(line) + 1 = Capacity THEN "full" ELSE "typing"

Erase ==
  /\ Room
  /\ line # <<>>
  /\ line' = SubSeq(line, 1, Len(line) - 1)
  /\ UNCHANGED outcome

EraseNothing ==
  /\ Room
  /\ line = <<>>
  /\ outcome' = "error"
  /\ UNCHANGED line

Enter(c) ==
  /\ Room
  /\ line' = Append(line, c)
  /\ outcome' = "line"

Next ==
  \/ \E c \in Characters : Insert(c)
  \/ Erase
  \/ EraseNothing
  \/ \E c \in Enters : Enter(c)

Spec == Init /\ [][Next]_evars
=============================================================================
