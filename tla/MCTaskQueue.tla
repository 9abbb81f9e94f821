---------------------------- MODULE MCTaskQueue ----------------------------
(* The node pool under every order of calls, on a clock that wraps.        *)
EXTENDS TaskQueue
CONSTANT a

MCThunks == {a}
=============================================================================
