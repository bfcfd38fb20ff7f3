------------------------------ MODULE MCClock -------------------------------
(***************************************************************************)
(* An instance of the clock commands: lines that are right, wrong in each  *)
(* of the ways the commands look for, and in the ways they do not.         *)
(***************************************************************************)
EXTENDS Clock

\* "31/12/99", "10/02/-5", "32/01/00", "1/2/03", blank, backspace.
MCDates == {<<51, 49, 47, 49, 50, 47, 57, 57>>, <<49, 48, 47, 48, 50, 47, 45, 53>>,
            <<51, 50, 47, 48, 49, 47, 48, 48>>, <<49, 47, 50, 47, 48, 51>>, <<32>>, <<8>>}

\* "12:30", "03:15:20", "17:45:10", "24:00:00", "7:5".
MCTimes == {<<49, 50, 58, 51, 48>>, <<48, 51, 58, 49, 53, 58, 50, 48>>,
            <<49, 55, 58, 52, 53, 58, 49, 48>>,
            <<50, 52, 58, 48, 48, 58, 48, 48>>, <<55, 58, 53>>}

\* "ab", "a", "ch".
MCNames == {<<97, 98>>, <<97>>, <<99, 104>>}

MCLines == MCDates \cup MCTimes \cup MCNames
MCInUse == {<<99, 104>>}

Moment(d, m, y, h, mi, s) ==
  [r \in Running |-> CASE r = "DAY" -> d [] r = "MONTH" -> m [] r = "YEAR" -> y
                       [] r = "HOURS" -> h [] r = "MINUTES" -> mi [] r = "SECONDS" -> s]

\* The second before midnight on the last of August, and midnight, in BCD.
MCMoments == {Moment(49, 8, 36, 35, 89, 89), Moment(1, 9, 36, 0, 0, 0)}

\* NUL, a digit.
MCJunk == {0, 53}
=============================================================================
