------------------------------- MODULE Relay -------------------------------
(***************************************************************************)
(* og3::Relay on og3::DOut: a relay switched on for a time by tasks it     *)
(* queues, among the tasks of other modules, in the queue of Tasks.  The   *)
(* timer entries carry no id, so a new one never replaces an old one.      *)
(***************************************************************************)
EXTENDS TimedThunks

CONSTANTS OnLevel,            \* "kHigh" or "kLow"
          Callbacks,          \* the off_fn that callers pass, "again" calls turnOn() itself
          AgainMsec,          \* for how long "again" switches the relay on
          OffInDelays,        \* the delays callers pass to turnOffIn() themselves
          MaxTimers,          \* bound: timers of this relay queued at once
          MaxOneShots         \* bound: entries of other modules queued at once

ASSUME RelayAssumption ==
  /\ OnLevel \in {"kHigh", "kLow"} /\ "null" \notin Callbacks
  /\ AgainMsec \in 1 .. Horizon /\ OffInDelays \subseteq 0 .. Horizon
  /\ {"turnOff", "other"} \subseteq Thunks
  /\ MaxTimers \in Nat /\ MaxOneShots \in Nat

VARIABLES relay,    \* m_is_high, m_off_callback, m_last_on_msec and the queue of m_tasks
          started,  \* the start function of DOut has run
          now,      \* millis()
          until     \* the end of the timed "on" last asked for, -1 if none is due (history)
vars == <<relay, started, now, until>>

Off(r) == r.high = (OnLevel = "kLow")
On(r) == ~Off(r)

(* DOut::set(): the pin and m_is_high always agree.                        *)
Set(r, high) == [r EXCEPT !.high = high]

TurnedOffIn(r, msec, fn) ==
  [r EXCEPT !.offFn = fn,
            !.queue = Inserted(@, [msec |-> Plus(now, msec), thunk |-> "turnOff", id |-> NoId])]

(* Fault: the shortest time gets no timer.                                 *)
TurnedOnOffByOne(r, msec, fn) ==
  LET on == [Set(r, OnLevel = "kHigh") EXCEPT !.lastOn = now]
  IN  IF msec > 1 THEN TurnedOffIn(on, msec, fn) ELSE on

TurnedOn(r, msec, fn) ==
  LET on == [Set(r, OnLevel = "kHigh") EXCEPT !.lastOn = now]
  IN  IF msec > 0 THEN TurnedOffIn(on, msec, fn) ELSE on

(* The callback runs inside turnOff(), which forgets it only afterwards.   *)
Called(r, fn) == IF fn = "again" THEN TurnedOn(r, AgainMsec, "quiet") ELSE r

TurnedOff(r) ==
  LET off == Set(r, OnLevel # "kHigh")
      called == IF off.offFn = "null" THEN off ELSE [Called(off, off.offFn) EXCEPT !.offFn = "null"]
  IN  IF On(r) THEN [called EXCEPT !.lastOn = now] ELSE called
-----------------------------------------------------------------------------
(* The constructor ends with turnOff().                                    *)
Init ==
  /\ now = 0 /\ started = FALSE /\ until = -1
  /\ relay = TurnedOff([high |-> FALSE, offFn |-> "null", lastOn |-> 0, queue |-> <<>>])

Tick ==
  /\ \A i \in DOMAIN relay.queue : Age(now, relay.queue[i].msec) > 0
  /\ now' = Plus(now, 1)
  /\ UNCHANGED <<relay, started, until>>

(* DOut's start function: set(initial_val), and Relay passes false.        *)
Start ==
  /\ ~started /\ started' = TRUE
  /\ relay' = Set(relay, FALSE)
  /\ UNCHANGED <<now, until>>

Count(thunk) == Cardinality({ i \in DOMAIN relay.queue : relay.queue[i].thunk = thunk })

TurnOn(msec, fn) ==
  /\ started
  /\ msec > 0 => Count("turnOff") < MaxTimers
  /\ relay' = TurnedOn(relay, msec, fn)
  /\ until' = IF msec > 0 THEN Plus(now, msec) ELSE -1
  /\ UNCHANGED <<started, now>>

TurnOffIn(msec, fn) ==
  /\ started /\ Count("turnOff") < MaxTimers
  /\ relay' = TurnedOffIn(relay, msec, fn)
  /\ UNCHANGED <<started, now, until>>

(* A turn-off ends the request, unless its callback makes another one.     *)
Asked == until' = IF relay.offFn = "again" THEN Plus(now, AgainMsec) ELSE -1

TurnOff == started /\ relay' = TurnedOff(relay) /\ Asked /\ UNCHANGED <<started, now>>

HeadDue(thunk) ==
  relay.queue # <<>> /\ relay.queue[1].thunk = thunk /\ IsBefore(relay.queue[1].msec, now)

Popped == [relay EXCEPT !.queue = Tail(@)]

TimerRuns == HeadDue("turnOff") /\ relay' = TurnedOff(Popped) /\ Asked /\ UNCHANGED <<started, now>>

OneShot(delay) ==
  /\ Count("other") < MaxOneShots
  /\ relay' = [relay EXCEPT !.queue =
                 Inserted(@, [msec |-> Plus(now, delay), thunk |-> "other", id |-> NoId])]
  /\ UNCHANGED <<started, now, until>>

OneShotRuns == HeadDue("other") /\ relay' = Popped /\ UNCHANGED <<started, now, until>>

Next ==
  \/ Tick
  \/ Start
  \/ \E fn \in Callbacks \cup {"null"} :
       \/ \E msec \in 0 .. Horizon : TurnOn(msec, fn)
       \/ \E msec \in OffInDelays : TurnOffIn(msec, fn)
  \/ TurnOff
  \/ TimerRuns
  \/ \E delay \in 0 .. Horizon : OneShot(delay)
  \/ OneShotRuns

(* Time passes, and the main loop runs what is due.                        *)
Fairness == WF_vars(Tick) /\ WF_vars(Start) /\ WF_vars(TimerRuns \/ OneShotRuns)

Spec == Init /\ [][Next]_vars /\ Fairness
-----------------------------------------------------------------------------
(* A relay that is on for a time has a timer queued that ends it in time,  *)
(* and an off_fn that waits has a timer that calls it, whatever other      *)
(* calls came in between.  It needs room in the queue for the timers.      *)
Timers == { relay.queue[i].msec : i \in { j \in DOMAIN relay.queue : relay.queue[j].thunk = "turnOff" } }

OffTimerQueued ==
  /\ started /\ On(relay) /\ until # -1 => \E msec \in Timers : IsBefore(msec, until)
  /\ relay.offFn # "null" => Timers # {}

(* A timed "on" ends.                                                      *)
TimedOnEnds == (started /\ On(relay) /\ until # -1) ~> (Off(relay) \/ until = -1)

(* A timer does not end an "on" before the time last asked for (relay.h,   *)
(* turnOn(): the relay turns off "after this many milliseconds").          *)
OnForTheTimeAsked ==
  [][ HeadDue("turnOff") /\ relay'.queue = Tail(relay.queue) /\ On(relay) /\ Off(relay')
        => until # -1 /\ IsBefore(until, now) ]_vars
=============================================================================
