------------------------------ MODULE BlinkLed ------------------------------
(***************************************************************************)
(* og3::BlinkLed: an LED that is switched by its callers and by the        *)
(* callback it schedules under one task id.  A callback that is queued     *)
(* runs at some time; the time itself is left out.                         *)
(***************************************************************************)
EXTENDS Integers

CONSTANT MaxBlinks        \* bound: the largest number of blinks asked for, below 2^8

ASSUME MaxBlinksAssumption == MaxBlinks \in Nat

VARIABLES led,            \* m_is_on
          blinks,         \* m_num_blinks
          scheduled,      \* the callback is queued
          flashes,        \* times the LED was switched on for the last blink() (history)
          due             \* what blink() asked for, 0 if another call came later (history)

ledVars == <<led, blinks, scheduled, flashes, due>>

LedInit == led = FALSE /\ blinks = 0 /\ scheduled = FALSE /\ flashes = 0 /\ due = 0

(* on() and off(), called directly: a blinking that is under way goes on.  *)
LedOn == led' = TRUE /\ due' = 0 /\ UNCHANGED <<blinks, scheduled, flashes>>
LedOff == led' = FALSE /\ due' = 0 /\ UNCHANGED <<blinks, scheduled, flashes>>

(* runIn() under the id replaces what is queued; a full queue refuses it.  *)
Schedule(asked) ==
  \/ scheduled' = TRUE /\ due' = asked
  \/ scheduled' = scheduled /\ due' = 0

(* Fault: the blink that starts now is counted again.                      *)
BlinkOneMore(num) ==
  /\ blinks' = num /\ led' = TRUE /\ flashes' = 1
  /\ Schedule(num)

(* blink() of at least one: none returns at once.                           *)
Blink(num) ==
  /\ blinks' = num - 1 /\ led' = TRUE /\ flashes' = 1
  /\ Schedule(num)

(* It starts with the LED off, or ends a blink that is under way.          *)
DelayedBlink(num) ==
  /\ blinks' = num /\ UNCHANGED <<led, flashes>>
  /\ Schedule(0)

(* The callback left the queue, so there is room for the next.             *)
BlinkCallback ==
  /\ scheduled
  /\ led' = ~led
  /\ scheduled' = (~led \/ blinks > 0)
  /\ blinks' = IF led /\ blinks > 0 THEN blinks - 1 ELSE blinks
  /\ flashes' = IF ~led /\ flashes <= MaxBlinks THEN flashes + 1 ELSE flashes
  /\ UNCHANGED due

LedNext ==
  \/ \E num \in 1 .. MaxBlinks : Blink(num)
  \/ \E num \in 0 .. MaxBlinks : DelayedBlink(num)
  \/ LedOn \/ LedOff \/ BlinkCallback

LedSpec == LedInit /\ [][LedNext]_ledVars
-----------------------------------------------------------------------------
(* blink(num) makes num flashes and leaves the LED off, whatever state a   *)
(* call or a blinking before it left (blink(), blinkCallback()): the LED   *)
(* stays on only while its callback is queued.                             *)
BlinksAsAsked ==
  due > 0 => /\ led => scheduled
             /\ flashes <= due
             /\ ~scheduled => flashes = due
=============================================================================
