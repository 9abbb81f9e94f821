-------------------------- MODULE MCPeriodicTask --------------------------
(* A period of 2 ms on a clock of 16 values, and a one-shot task that may  *)
(* be queued between its runs.                                             *)
EXTENDS PeriodicTask
MCThunks == {"cycle", "other"}
=============================================================================
