----------------------------- MODULE Tokenizer ------------------------------
(***************************************************************************)
(* What strtok promises: the words of a string, one per call, each once    *)
(* and in order, and then "no more".                                       *)
(***************************************************************************)
EXTENDS Sequences

CONSTANT NoWord

VARIABLES
  words,  \* of the string
  rest,   \* those that have not been returned yet
  result  \* of the last call

Init == rest = words /\ result = NoWord

NextWord == rest # << >> /\ result' = Head(rest) /\ rest' = Tail(rest)

NoMore == rest = << >> /\ result' = NoWord /\ UNCHANGED rest

Next == (NextWord \/ NoMore) /\ UNCHANGED words

Spec == Init /\ [][Next]_<<words, rest, result>>
=============================================================================
