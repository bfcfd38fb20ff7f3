----------------------------- MODULE MCContext ------------------------------
(***************************************************************************)
(* Context with one process of kmain, one of load_r3 and kmain itself.     *)
(***************************************************************************)
EXTENDS Context
=============================================================================
