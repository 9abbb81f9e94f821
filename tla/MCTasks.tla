------------------------------ MODULE MCTasks ------------------------------
(* One scheduler with an id and one-shot callers share the queue with the  *)
(* thunk that an interrupt handler passes on.                              *)
EXTENDS Tasks
CONSTANTS a, p1

MCThunks == {a}
MCIsrThunks == {p1}
=============================================================================
