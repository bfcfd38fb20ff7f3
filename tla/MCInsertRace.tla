---------------------------- MODULE MCInsertRace ----------------------------
(***************************************************************************)
(* An instance of the race: a queue of up to two processes and two that    *)
(* the handler unblocks, with every order of their priorities.             *)
(***************************************************************************)
EXTENDS InsertRace

MCOld == <<1, 2>>
=============================================================================
