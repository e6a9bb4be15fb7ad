-------------------------- MODULE MCAccountCapture --------------------------
(* Three rows that change three times while they are read. *)
EXTENDS AccountCapture
=============================================================================
