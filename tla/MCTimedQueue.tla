---------------------------- MODULE MCTimedQueue ----------------------------
(* The abstract queue on a clock of 12 values that wraps during the run.   *)
EXTENDS TimedQueue
CONSTANTS a, b

MCThunks == {a, b}
MCSymmetry == Permutations(MCThunks)
=============================================================================
