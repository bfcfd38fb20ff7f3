---------------------------- MODULE MCSerialPoll ----------------------------
(***************************************************************************)
(* serial_poll with an array of five bytes.                                *)
(***************************************************************************)
EXTENDS SerialPoll
=============================================================================
