-------------------------------- MODULE Pir --------------------------------
(***************************************************************************)
(* og3::Pir on og3::DIn: the interrupt of a motion sensor's pin hands the  *)
(* callback to Tasks::run_next(), and the main loop runs it.  The callback *)
(* and the slot of run_next() are static: all sensors share them.          *)
(***************************************************************************)
CONSTANTS Sensors,        \* the Pir objects
          Nobody          \* no sensor

ASSUME NobodyAssumption == Nobody \notin Sensors

VARIABLES pin,            \* external: the level of each pin
          isHigh,         \* m_is_high of each DIn
          callback,       \* s_motion_callback: the sensor whose callback it is
          attached,       \* the sensor whose pin has the interrupt, once s_interrupt_setup
          slot,           \* s_run_next: the sensor whose callback it holds
          loop,           \* the sensor whose callback the main loop is running
          unread          \* sensors whose pin changed since it was read or since their
                          \*   callback was set (history)

pirVars == <<pin, isHigh, callback, attached, slot, loop, unread>>

PirInit ==
  /\ pin \in [Sensors -> BOOLEAN] /\ isHigh = [s \in Sensors |-> FALSE]
  /\ callback = Nobody /\ attached = Nobody /\ slot = Nobody /\ loop = Nobody
  /\ unread = {}

(* callOnMotion(): the last caller's callback stays, the first one's pin.  *)
CallOnMotion(s) ==
  /\ loop = Nobody
  /\ callback' = s
  /\ attached' = IF attached = Nobody THEN s ELSE attached
  /\ unread' = IF callback = s THEN unread ELSE unread \ {s}
  /\ UNCHANGED <<pin, isHigh, slot, loop>>

(* DIn::read(), of a DIn that does not invert its pin.                      *)
ReadsPin(s) ==
  /\ isHigh' = [isHigh EXCEPT ![s] = pin[s]]
  /\ unread' = unread \ {s}

ReadSensor(s) == loop = Nobody /\ ReadsPin(s) /\ UNCHANGED <<pin, callback, attached, slot, loop>>

(* A pin changes; the interrupt may come at any point of the main loop.    *)
PinChanges(s) ==
  /\ pin' = [pin EXCEPT ![s] = ~@]
  /\ unread' = unread \cup {s}
  /\ slot' = IF s = attached THEN callback ELSE slot
  /\ UNCHANGED <<isHigh, callback, attached, loop>>

(* Tasks::loop() takes the callback out of the slot with interrupts off... *)
TakeCallback ==
  /\ slot # Nobody /\ loop = Nobody
  /\ loop' = slot /\ slot' = Nobody
  /\ UNCHANGED <<pin, isHigh, callback, attached, unread>>

(* Fault: the slot is cleared when the callback has returned.              *)
RunCallbackThenClear ==
  /\ loop # Nobody /\ loop' = Nobody /\ slot' = Nobody
  /\ ReadsPin(loop)
  /\ UNCHANGED <<pin, callback, attached>>

(* ... and runs it; a callback reads its sensor.                           *)
RunCallback ==
  /\ loop # Nobody /\ loop' = Nobody
  /\ ReadsPin(loop)
  /\ UNCHANGED <<pin, callback, attached, slot>>

PirNext ==
  \/ \E s \in Sensors : CallOnMotion(s) \/ ReadSensor(s) \/ PinChanges(s)
  \/ TakeCallback \/ RunCallback

PirSpec == PirInit /\ [][PirNext]_pirVars
-----------------------------------------------------------------------------
(* No change of the pin is lost between the interrupt and the loop: as     *)
(* long as one was not read, a callback that will read it waits or runs    *)
(* (callOnMotion(), _onMotion(), getThunk()).  It is about the sensor that *)
(* alone called callOnMotion().                                            *)
MotionNotLost ==
  attached # Nobody /\ callback = attached /\ attached \in unread => attached \in {slot, loop}
=============================================================================
