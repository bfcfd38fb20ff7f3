------------------------------ MODULE MCStrtok ------------------------------
(***************************************************************************)
(* Strtok with lines over a newline, a space, '1' and 'b', and 8-bit ints. *)
(***************************************************************************)
EXTENDS Strtok

MCDelims == <<10, 32>>
=============================================================================
