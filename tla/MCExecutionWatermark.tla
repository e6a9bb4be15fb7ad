----------------------- MODULE MCExecutionWatermark -----------------------
(* Five numbers in any order, and checkpoints over a clock of three moments. *)
EXTENDS ExecutionWatermark
=============================================================================
