------------------------------ MODULE MCSerial ------------------------------
(***************************************************************************)
(* The serial driver with two buffers and requests of zero to two bytes.   *)
(* The driver only hands the process of a request back, so one will do.    *)
(***************************************************************************)
EXTENDS Serial

CONSTANTS p1, b1, b2

MCProcs == {p1}
MCBufs == {b1, b2}
MCLens == {0, 1, 2}
MCLensOne == {1}
=============================================================================
