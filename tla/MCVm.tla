-------------------------------- MODULE MCVm --------------------------------
(***************************************************************************)
(* A machine of 30 frames with pages of 4 bytes and tables of 5 pages.     *)
(***************************************************************************)
EXTENDS Vm

MCKernelEnds == 4 .. 40
MCRequests == {2, 3, 5}
=============================================================================
