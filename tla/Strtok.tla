------------------------------- MODULE Strtok -------------------------------
(***************************************************************************)
(* strtok of lib/string.c, with one action for each turn of its loops, and *)
(* what holds of the library on the strings that it cuts up.               *)
(*                                                                         *)
(* str holds the caller's string; a pointer into it is an index, or NULL.   *)
(***************************************************************************)
EXTENDS CLib, SequencesExt

CONSTANTS
  Alphabet,  \* the characters of a line, by code
  MaxLine,   \* bound on the length of a line
  Delims     \* the delimiters passed to strtok (s2)

ASSUME StrtokAssumption ==
  /\ Alphabet \subseteq 1 .. 255 /\ MaxLine \in Nat
  /\ Delims \in Seq(1 .. 255)

VARIABLES
  line,    \* what the buffer held before the first call (history)
  str,     \* the buffer
  phase,   \* where strtok is: "out", "skip", "scan"
  s1, p,   \* its pointers into the string and into the delimiters
  tok_tmp,
  ret,     \* its last result
  word     \* the word ret points to when strtok returns (history)

svars == <<line, str, phase, s1, p, tok_tmp, ret, word>>

s2 == Append(Delims, NUL)
WordFrom(b, i) == SubSeq(b, i, i + strlen(From(b, i)) - 1)

Strings == {Append(l, NUL) : l \in UNION {[1 .. n -> Alphabet] : n \in 0 .. MaxLine}}

\* The operator's line, NUL-terminated by serial_poll.
StrtokInit ==
  /\ line \in Strings
  /\ str = line
  /\ phase = "out" /\ s1 = NULL /\ p = 1
  /\ tok_tmp = 1            \* strtok(buf, s2) comes next
  /\ ret = NULL /\ word = <<NUL>>

\* strtok begins.  A first call passes the buffer, the others NULL.
Call ==
  /\ phase = "out"
  /\ IF tok_tmp = NULL
     THEN /\ ret' = NULL /\ word' = <<NUL>>
          /\ UNCHANGED <<phase, s1, p>>
     ELSE /\ s1' = tok_tmp /\ p' = 1 /\ phase' = "skip"
          /\ UNCHANGED <<ret, word>>
  /\ UNCHANGED <<line, str, tok_tmp>>

\* Mutant: p is not reset, so the delimiters before it are not looked for again.
SkipOne_NoReset ==
  IF str[s1] = s2[p] THEN s1' = s1 + 1 /\ p' = p
                     ELSE s1' = s1 /\ p' = p + 1

\* One turn of the loop over leading delimiters.
SkipOne ==
  IF str[s1] = s2[p] THEN s1' = s1 + 1 /\ p' = 1
                     ELSE s1' = s1 /\ p' = p + 1

Skip ==
  /\ phase = "skip"
  /\ \/ /\ s2[p] # NUL /\ str[s1] # NUL
        /\ SkipOne
        /\ UNCHANGED <<phase, tok_tmp, ret, word>>
     \/ /\ str[s1] = NUL
        /\ tok_tmp' = NULL /\ ret' = NULL /\ word' = <<NUL>>
        /\ phase' = "out"
        /\ UNCHANGED <<s1, p>>
     \/ /\ s2[p] = NUL /\ str[s1] # NUL
        /\ tok_tmp' = s1
        /\ phase' = "scan"
        /\ UNCHANGED <<s1, p, ret, word>>
  /\ UNCHANGED <<line, str>>

\* The delimiter behind the word is overwritten.
EndWord == str' = [str EXCEPT ![tok_tmp] = NUL] /\ tok_tmp' = tok_tmp + 1

ScanOne == tok_tmp' = tok_tmp + 1

\* One turn of the loop over the word.
Scan ==
  /\ phase = "scan"
  /\ \/ /\ str[tok_tmp] # NUL /\ str[tok_tmp] \notin Range(Delims)
        /\ ScanOne
        /\ UNCHANGED <<str, phase, ret, word>>
     \/ /\ str[tok_tmp] \in Range(Delims)
        /\ EndWord
        /\ ret' = s1 /\ word' = WordFrom(str', s1) /\ phase' = "out"
     \/ /\ str[tok_tmp] = NUL
        /\ tok_tmp' = NULL
        /\ ret' = s1 /\ word' = WordFrom(str, s1) /\ phase' = "out"
        /\ UNCHANGED str
  /\ UNCHANGED <<line, s1, p>>

strtok == Skip \/ Scan

StrtokNext == Call \/ strtok

StrtokSpec == StrtokInit /\ [][StrtokNext]_svars
-----------------------------------------------------------------------------
(***************************************************************************)
(* Reference definitions and properties.                                   *)
(***************************************************************************)

\* The words of the string in b from i on: its longest runs of characters that
\* are no delimiters, in the order in which they begin.
End(b, i) == CHOOSE e \in i .. Len(b) : b[e] = NUL /\ \A j \in i .. e - 1 : b[j] # NUL
InWord(b, i, j) == j \in i .. End(b, i) - 1 /\ b[j] \notin Range(Delims)
Starts(b, i) == {j \in i .. End(b, i) - 1 : InWord(b, i, j) /\ ~InWord(b, i, j - 1)}
WordIn(b, i, j) == SubSeq(b, j, CHOOSE e \in j .. End(b, i) - 1 :
                   (\A k \in j .. e : InWord(b, i, k)) /\ ~InWord(b, i, e + 1))
Rank(S, j) == Cardinality({m \in S : m <= j})
Nth(S, k) == CHOOSE j \in S : Rank(S, j) = k
Words(b, i) == [k \in 1 .. Cardinality(Starts(b, i)) |-> WordIn(b, i, Nth(Starts(b, i), k))]

Cursor == IF phase = "out" THEN tok_tmp ELSE s1

Abstract == INSTANCE Tokenizer WITH
  NoWord <- <<NUL>>, words <- Words(line, 1), result <- word,
  rest <- IF Cursor = NULL THEN << >> ELSE Words(str, Cursor)

\* strtok, which changes the buffer as it goes, implements Tokenizer: call
\* after call it returns the words of the line the operator typed.
ImplementsTokenizer == Abstract!Spec

\* The calls that pass a buffer, with nothing done to the line yet.
Fresh == phase = "out" /\ tok_tmp = 1

\* setPCBpriority copies the word that strtok returned to a block of
\* strlen(buf) + 1 characters, measured after strtok has changed buf: the block
\* holds the whole word with its NUL.
CopyFits ==
  phase = "out" /\ ret # NULL /\ (\A i \in 1 .. ret - 1 : str[i] # NUL) =>
    LET name == [i \in 1 .. strlen(str) + 1 |-> 255]
        src == From(str, ret)
    IN  /\ strlen(src) < Len(name)
        /\ SubSeq(strcpy(name, src), 1, Len(word) + 1) = Append(word, NUL)

Less(a, b) == \E i \in DOMAIN a \cap DOMAIN b :
                a[i] < b[i] /\ \A j \in 1 .. i - 1 : a[j] = b[j]

\* The functions that only compute agree with what they are for.  strcmp is the
\* order of the dictionary, and 0 for equal strings only: a name or a command is
\* never taken for one that it begins with.  atoi reads every int that itoa
\* writes, but for the one that has no negative.
LibraryAgrees ==
  /\ Fresh => \A t \in Strings : /\ strcmp(line, t) = 0 <=> line = t
                               /\ strcmp(line, t) < 0 <=> Less(line, t)
  /\ Fresh /\ line = <<NUL>> => \A n \in INT_MIN .. INT_MAX :
       (n # INT_MIN) <=> (atoi(itoa(n, 10)) = n)
=============================================================================
