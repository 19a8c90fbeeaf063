---------------------------- MODULE MCExecution -----------------------------
(***************************************************************************)
(* Execution on two items, the second of a confidential project, with two  *)
(* gates, the thirty minutes of a thread as two units of time, and files   *)
(* that may hold one record: with both items known they are too large.     *)
(***************************************************************************)
EXTENDS Execution, TLC

TwoGates == <<"lint", "test">>
=============================================================================
