------------------------------ MODULE MCRelay ------------------------------
(* One relay and one entry of another module in a queue with room for all  *)
(* timers; the clock wraps during the run.                                 *)
EXTENDS Relay
MCThunks == {"turnOff", "other"}
=============================================================================
