---------------------------- MODULE Relay_proofs ----------------------------
(***************************************************************************)
(* Proofs about Relay: a relay that is on for a time always has the timer  *)
(* that ends it in the queue, whatever calls and callbacks come between.   *)
(***************************************************************************)
EXTENDS Relay, TimedThunks_proofs

-----------------------------------------------------------------------------
(* What each call does to the two fields that matter.                      *)
IsRelay(r) ==
  r = [high |-> r.high, offFn |-> r.offFn, lastOn |-> r.lastOn, queue |-> r.queue]

OffTimer(delay) == [msec |-> Plus(now, delay), thunk |-> "turnOff", id |-> NoId]

(* Setting the pin leaves the rest of a relay alone.                       *)
LEMMA SetFields ==
  ASSUME NEW r, IsRelay(r), NEW high
  PROVE  /\ IsRelay(Set(r, high))
         /\ Set(r, high).offFn = r.offFn /\ Set(r, high).queue = r.queue
BY DEF Set, IsRelay

(* turnOffIn() keeps the callback and queues a timer.                      *)
LEMMA TurnedOffInFields ==
  ASSUME NEW r, IsRelay(r), NEW msec, NEW fn
  PROVE  /\ IsRelay(TurnedOffIn(r, msec, fn))
         /\ TurnedOffIn(r, msec, fn).offFn = fn
         /\ TurnedOffIn(r, msec, fn).queue = Inserted(r.queue, OffTimer(msec))
<1> DEFINE q == Inserted(r.queue, OffTimer(msec))
<1>1. TurnedOffIn(r, msec, fn) = [r EXCEPT !.offFn = fn, !.queue = q]
  BY DEF TurnedOffIn, OffTimer
<1> HIDE DEF q
<1> DEFINE s == [r EXCEPT !.offFn = fn]
           t == [s EXCEPT !.queue = q]
<1>2. IsRelay(s) /\ s.offFn = fn
  BY DEF IsRelay
<1>3. [r EXCEPT !.offFn = fn, !.queue = q] = t
  OBVIOUS
<1> HIDE DEF s
<1>4. IsRelay(t) /\ t.offFn = s.offFn /\ t.queue = q
  BY <1>2 DEF IsRelay
<1> QED
  BY <1>1, <1>2, <1>3, <1>4 DEF q

(* turnOn() queues a timer if a time is given, and only then.              *)
LEMMA TurnedOnFields ==
  ASSUME NEW r, IsRelay(r), NEW msec, NEW fn
  PROVE  /\ IsRelay(TurnedOn(r, msec, fn))
         /\ TurnedOn(r, msec, fn).offFn = IF msec > 0 THEN fn ELSE r.offFn
         /\ TurnedOn(r, msec, fn).queue =
              IF msec > 0 THEN Inserted(r.queue, OffTimer(msec)) ELSE r.queue
<1> DEFINE on == [Set(r, OnLevel = "kHigh") EXCEPT !.lastOn = now]
<1>1. IsRelay(on) /\ on.offFn = r.offFn /\ on.queue = r.queue
  <2> DEFINE s == Set(r, OnLevel = "kHigh")
  <2>1. IsRelay(s) /\ s.offFn = r.offFn /\ s.queue = r.queue
    BY SetFields
  <2> HIDE DEF s
  <2>2. IsRelay([s EXCEPT !.lastOn = now]) /\ [s EXCEPT !.lastOn = now].offFn = s.offFn
        /\ [s EXCEPT !.lastOn = now].queue = s.queue
    BY <2>1 DEF IsRelay
  <2> QED
    BY <2>1, <2>2 DEF s
<1>2. TurnedOn(r, msec, fn) = IF msec > 0 THEN TurnedOffIn(on, msec, fn) ELSE on
  BY DEF TurnedOn
<1> HIDE DEF on
<1> QED
  BY <1>1, <1>2, TurnedOffInFields

(* turnOff() takes the callback, which may turn the relay on again.        *)
LEMMA TurnedOffFields ==
  ASSUME NEW r, IsRelay(r)
  PROVE  /\ IsRelay(TurnedOff(r))
         /\ TurnedOff(r).offFn = "null"
         /\ TurnedOff(r).queue =
              IF r.offFn = "again" THEN Inserted(r.queue, OffTimer(AgainMsec)) ELSE r.queue
<1> DEFINE off == Set(r, OnLevel # "kHigh")
           c == Called(off, off.offFn)
           called == IF off.offFn = "null" THEN off ELSE [c EXCEPT !.offFn = "null"]
<1>1. IsRelay(off) /\ off.offFn = r.offFn /\ off.queue = r.queue
  BY SetFields
<1>2. TurnedOff(r) = IF On(r) THEN [called EXCEPT !.lastOn = now] ELSE called
  BY DEF TurnedOff
<1> HIDE DEF off
<1>3. /\ IsRelay(c)
      /\ c.queue = IF r.offFn = "again" THEN Inserted(r.queue, OffTimer(AgainMsec)) ELSE r.queue
  <2>1. AgainMsec > 0
    BY RelayAssumption
  <2> QED
    BY <1>1, <2>1, TurnedOnFields DEF Called
<1> HIDE DEF c
<1>4. /\ IsRelay(called) /\ called.offFn = "null"
      /\ called.queue = IF r.offFn = "again" THEN Inserted(r.queue, OffTimer(AgainMsec)) ELSE r.queue
  <2>1. CASE off.offFn = "null"
    BY <1>1, <2>1
  <2>2. CASE off.offFn # "null"
    BY <1>3, <2>2 DEF IsRelay
  <2> QED
    BY <2>1, <2>2
<1> HIDE DEF called
<1>5. /\ IsRelay([called EXCEPT !.lastOn = now])
      /\ [called EXCEPT !.lastOn = now].offFn = called.offFn
      /\ [called EXCEPT !.lastOn = now].queue = called.queue
  BY <1>4 DEF IsRelay
<1> QED
  BY <1>2, <1>4, <1>5

-----------------------------------------------------------------------------
(* A node is free for each timer and each entry of another module: the off *)
(* timer is never refused.                                                 *)
Room == MaxTimers + MaxOneShots < Capacity

OffTimers == { t \in TimedThunk : t.thunk = "turnOff" /\ t.id = NoId }
Others == { t \in TimedThunk : t.thunk = "other" /\ t.id = NoId }

CountIn(q, X) == Cardinality(Positions(q, X))

QueueOk(q) ==
  /\ WellFormed(now, q) /\ Len(q) <= Capacity
  /\ \A t \in Entries(q) : t \in OffTimers \/ t \in Others
  /\ CountIn(q, Others) <= MaxOneShots /\ CountIn(q, OffTimers) <= MaxTimers + 1

(* The inductive invariant.  It says of a request for a time, and of an    *)
(* off_fn that waits, that a timer is queued, also while the relay is off; *)
(* and it counts the timers, for turnOff() itself may queue one more.      *)
RelayInv ==
  /\ now \in Time /\ until \in Time \cup {-1}
  /\ IsRelay(relay) /\ QueueOk(relay.queue)
  /\ relay.offFn # "null" => CountIn(relay.queue, OffTimers) <= MaxTimers
  /\ relay.offFn # "null" => \E t \in Entries(relay.queue) : t.thunk = "turnOff"
  /\ until # -1 => \E t \in Entries(relay.queue) :
                     t.thunk = "turnOff" /\ IsBefore(t.msec, until)

(* The entries of a queue are timers and others.                           *)
LEMMA QueueCounts ==
  ASSUME now \in Time, NEW q, QueueOk(q)
  PROVE  /\ q \in Seq(TimedThunk) /\ Len(q) \in Nat /\ DOMAIN q = 1 .. Len(q)
         /\ \A i \in DOMAIN q : q[i] \in TimedThunk /\ q[i] \in Entries(q)
         /\ CountIn(q, Others) \in Nat /\ CountIn(q, OffTimers) \in Nat
         /\ Len(q) = CountIn(q, OffTimers) + CountIn(q, Others)
         /\ CountIn(q, OffTimers) = Cardinality({ i \in DOMAIN q : q[i].thunk = "turnOff" })
         /\ CountIn(q, Others) = Cardinality({ i \in DOMAIN q : q[i].thunk = "other" })
<1>1. /\ q \in Seq(TimedThunk) /\ Len(q) \in Nat /\ DOMAIN q = 1 .. Len(q)
      /\ \A i \in DOMAIN q : q[i] \in TimedThunk /\ q[i] \in Entries(q)
  BY EntryTypes DEF QueueOk, WellFormed, Entries
<1>2. /\ Positions(q, TimedThunk \ OffTimers) = Positions(q, Others)
      /\ Positions(q, OffTimers) = { i \in DOMAIN q : q[i].thunk = "turnOff" }
      /\ Positions(q, Others) = { i \in DOMAIN q : q[i].thunk = "other" }
  BY <1>1 DEF Positions, OffTimers, Others, QueueOk
<1>3. /\ CountIn(q, Others) \in Nat /\ CountIn(q, OffTimers) \in Nat
  BY <1>1, PositionsFinite DEF CountIn
<1>4. Len(q) = Cardinality(Positions(q, OffTimers)) + Cardinality(Positions(q, TimedThunk \ OffTimers))
  BY <1>1, PositionsFinite
<1> QED
  BY <1>1, <1>2, <1>3, <1>4 DEF CountIn

(* The assumptions, as one fact to be cited.                               *)
LEMMA RelayConstants ==
  /\ MaxTimers \in Nat /\ MaxOneShots \in Nat /\ Capacity \in Nat
  /\ AgainMsec \in 1 .. Horizon /\ AgainMsec \in 0 .. Horizon /\ OffInDelays \subseteq 0 .. Horizon
  /\ "turnOff" \in Thunks /\ "other" \in Thunks
BY RelayAssumption, Constants

(* turnOffIn() queues one more timer.                                      *)
LEMMA TimerAdded ==
  ASSUME now \in Time, NEW q, QueueOk(q), Room, CountIn(q, OffTimers) <= MaxTimers,
         NEW delay \in 0 .. Horizon
  PROVE  /\ QueueOk(Inserted(q, OffTimer(delay)))
         /\ Entries(Inserted(q, OffTimer(delay))) = Entries(q) \cup {OffTimer(delay)}
         /\ CountIn(Inserted(q, OffTimer(delay)), OffTimers) = CountIn(q, OffTimers) + 1
<1> DEFINE e == OffTimer(delay)
           r == Inserted(q, e)
<1>1. /\ e \in TimedThunk /\ Age(now, e.msec) <= Horizon + Lateness
      /\ e.id = NoId /\ e \in OffTimers /\ e \notin Others
  BY RequestFits, RelayConstants DEF OffTimer, OffTimers, Others
<1> HIDE DEF e
<1>2. Len(q) < Capacity
  <2> DEFINE c == CountIn(q, OffTimers)
             d == CountIn(q, Others)
  <2>1. c \in Nat /\ d \in Nat /\ c <= MaxTimers /\ d <= MaxOneShots /\ Len(q) = c + d
    BY QueueCounts DEF QueueOk
  <2> HIDE DEF c, d
  <2> QED
    BY <2>1, RelayConstants DEF Room
<1>3. WellFormed(now, r) /\ Len(r) <= Capacity
  BY <1>1, InsertionWellFormed DEF QueueOk
<1>4. /\ Entries(r) = { t \in Entries(q) : e.id = NoId \/ t.id # e.id } \cup {e}
      /\ CountIn(r, OffTimers) = CountIn(q, OffTimers) + 1
  BY <1>1, <1>2, InsertWithRoom DEF QueueOk, CountIn
<1>5. CountIn(r, Others) = CountIn(q, Others)
  BY <1>1, <1>2, InsertWithRoom DEF QueueOk, CountIn
<1>6. CountIn(r, OffTimers) <= MaxTimers + 1
  <2> DEFINE c == CountIn(q, OffTimers)
             k == CountIn(r, OffTimers)
  <2>1. c \in Nat /\ k = c + 1 /\ c <= MaxTimers
    BY <1>4, QueueCounts
  <2> HIDE DEF c, k
  <2>2. k <= MaxTimers + 1
    BY <2>1, RelayConstants
  <2> QED
    BY <2>2 DEF k
<1> HIDE DEF r
<1>7. QueueOk(r)
  BY <1>1, <1>3, <1>4, <1>5, <1>6 DEF QueueOk
<1> QED
  BY <1>1, <1>4, <1>7 DEF r, e

(* Another module queues an entry.                                         *)
LEMMA OtherAdded ==
  ASSUME now \in Time, NEW q, QueueOk(q), Room, CountIn(q, Others) < MaxOneShots,
         NEW e \in Others, Age(now, e.msec) <= Horizon + Lateness
  PROVE  /\ QueueOk(Inserted(q, e))
         /\ Entries(Inserted(q, e)) = Entries(q) \cup {e}
         /\ CountIn(Inserted(q, e), OffTimers) = CountIn(q, OffTimers)
<1> DEFINE r == Inserted(q, e)
<1>1. e \in TimedThunk /\ e.id = NoId /\ e \notin OffTimers
  BY DEF OffTimers, Others
<1>2. Len(q) < Capacity
  <2> DEFINE c == CountIn(q, OffTimers)
             d == CountIn(q, Others)
  <2>1. c \in Nat /\ d \in Nat /\ c <= MaxTimers + 1 /\ d < MaxOneShots /\ Len(q) = c + d
    BY QueueCounts DEF QueueOk
  <2> HIDE DEF c, d
  <2> QED
    BY <2>1, RelayConstants DEF Room
<1>3. WellFormed(now, r) /\ Len(r) <= Capacity
  BY <1>1, InsertionWellFormed DEF QueueOk
<1>4. /\ Entries(r) = { t \in Entries(q) : e.id = NoId \/ t.id # e.id } \cup {e}
      /\ CountIn(r, OffTimers) = CountIn(q, OffTimers)
  BY <1>1, <1>2, InsertWithRoom DEF QueueOk, CountIn
<1>5. CountIn(r, Others) = CountIn(q, Others) + 1
  BY <1>1, <1>2, InsertWithRoom DEF QueueOk, CountIn, Others
<1>6. CountIn(r, Others) <= MaxOneShots
  <2> DEFINE c == CountIn(q, Others)
             k == CountIn(r, Others)
  <2>1. c \in Nat /\ k = c + 1 /\ c < MaxOneShots
    BY <1>5, QueueCounts
  <2> HIDE DEF c, k
  <2>2. k <= MaxOneShots
    BY <2>1, RelayConstants
  <2> QED
    BY <2>2 DEF k
<1> HIDE DEF r
<1>7. QueueOk(r)
  BY <1>1, <1>3, <1>4, <1>6 DEF QueueOk
<1> QED
  BY <1>1, <1>4, <1>7 DEF r

(* The head is taken.                                                      *)
LEMMA HeadTaken ==
  ASSUME now \in Time, NEW q, QueueOk(q), q # <<>>
  PROVE  /\ QueueOk(Tail(q))
         /\ Entries(q) = Entries(Tail(q)) \cup {q[1]}
         /\ CountIn(Tail(q), OffTimers) =
              IF q[1] \in OffTimers THEN CountIn(q, OffTimers) - 1 ELSE CountIn(q, OffTimers)
         /\ q[1] \in Entries(q)
<1>1. WellFormed(now, Tail(q)) /\ Len(Tail(q)) <= Capacity
  BY TailWellFormed DEF QueueOk
<1>2. Entries(q) = Entries(Tail(q)) \cup {q[1]}
  BY TailEntries DEF QueueOk
<1>3. /\ CountIn(Tail(q), OffTimers) =
              IF q[1] \in OffTimers THEN CountIn(q, OffTimers) - 1 ELSE CountIn(q, OffTimers)
      /\ CountIn(Tail(q), Others) =
              IF q[1] \in Others THEN CountIn(q, Others) - 1 ELSE CountIn(q, Others)
  BY TailCount DEF QueueOk, CountIn
<1> DEFINE c == CountIn(q, OffTimers)
           d == CountIn(q, Others)
           k == CountIn(Tail(q), OffTimers)
           m == CountIn(Tail(q), Others)
<1>4. /\ c \in Nat /\ d \in Nat /\ c <= MaxTimers + 1 /\ d <= MaxOneShots
      /\ k = c \/ k = c - 1
      /\ m = d \/ m = d - 1
  BY <1>3, QueueCounts DEF QueueOk
<1> HIDE DEF c, d, k, m
<1>5. k <= MaxTimers + 1 /\ m <= MaxOneShots
  BY <1>4, RelayConstants
<1>6. QueueOk(Tail(q))
  BY <1>1, <1>2, <1>5 DEF QueueOk, k, m
<1> QED
  BY <1>2, <1>3, <1>6

-----------------------------------------------------------------------------
(* Nothing is queued at first.                                             *)
LEMMA InitRelayInv == Init => RelayInv
<1> SUFFICES ASSUME Init PROVE RelayInv
  OBVIOUS
<1> DEFINE r == [high |-> FALSE, offFn |-> "null", lastOn |-> 0, queue |-> <<>>]
<1>1. IsRelay(r) /\ r.offFn = "null" /\ r.queue = <<>>
  BY DEF IsRelay
<1>2. relay = TurnedOff(r) /\ now = 0 /\ until = -1
  BY DEF Init
<1> HIDE DEF r
<1>3. IsRelay(relay) /\ relay.offFn = "null" /\ relay.queue = <<>>
  BY <1>1, <1>2, TurnedOffFields
<1>4. /\ <<>> \in Seq(TimedThunk) /\ Len(<<>>) = 0 /\ Entries(<<>>) = {}
      /\ Positions(<<>>, Others) = {} /\ Positions(<<>>, OffTimers) = {}
  BY EmptySeq DEF Positions, Entries
<1>5. WellFormed(now, <<>>) /\ Len(<<>>) <= Capacity
  BY <1>4, Constants DEF WellFormed
<1>6. CountIn(<<>>, Others) <= MaxOneShots /\ CountIn(<<>>, OffTimers) <= MaxTimers + 1
  <2>1. CountIn(<<>>, Others) = 0 /\ CountIn(<<>>, OffTimers) = 0
    BY <1>4, FS_EmptySet DEF CountIn
  <2> QED
    BY <2>1, RelayConstants
<1>7. QueueOk(<<>>)
  BY <1>4, <1>5, <1>6 DEF QueueOk
<1>8. 0 \in Time
  BY Constants DEF Time
<1> QED
  BY <1>2, <1>3, <1>7, <1>8 DEF RelayInv

(* A timer set for a time is not after it.                                 *)
LEMMA TimerIsInTime ==
  ASSUME now \in Time, NEW delay \in 0 .. Horizon
  PROVE  /\ OffTimer(delay).msec = Plus(now, delay) /\ OffTimer(delay).thunk = "turnOff"
         /\ Plus(now, delay) \in Time /\ IsBefore(Plus(now, delay), Plus(now, delay))
BY Constants DEF OffTimer, Plus, IsBefore, Minus, Time

(* A call of turnOn().                                                     *)
LEMMA TurnOnKeepsInv ==
  ASSUME RelayInv, Room, NEW fn, NEW msec \in 0 .. Horizon, TurnOn(msec, fn)
  PROVE  RelayInv'
<1> USE DEF RelayInv
<1>1. /\ IsRelay(relay') /\ now' = now
      /\ relay'.offFn = IF msec > 0 THEN fn ELSE relay.offFn
      /\ relay'.queue = IF msec > 0 THEN Inserted(relay.queue, OffTimer(msec)) ELSE relay.queue
      /\ until' = IF msec > 0 THEN Plus(now, msec) ELSE -1
  BY TurnedOnFields DEF TurnOn
<1>2. CASE msec > 0
  <2> DEFINE q == relay.queue
             e == OffTimer(msec)
  <2>1. CountIn(q, OffTimers) \in Nat /\ CountIn(q, OffTimers) < MaxTimers
    BY <1>2, QueueCounts DEF TurnOn, Count
  <2>2. CountIn(q, OffTimers) <= MaxTimers /\ CountIn(q, OffTimers) + 1 <= MaxTimers
    <3> DEFINE c == CountIn(q, OffTimers)
    <3>1. c \in Nat /\ c < MaxTimers
      BY <2>1
    <3> HIDE DEF c
    <3>2. c <= MaxTimers /\ c + 1 <= MaxTimers
      BY <3>1, RelayConstants
    <3> QED
      BY <3>2 DEF c
  <2>3. /\ QueueOk(Inserted(q, e)) /\ Entries(Inserted(q, e)) = Entries(q) \cup {e}
        /\ CountIn(Inserted(q, e), OffTimers) <= MaxTimers
    BY <2>2, TimerAdded
  <2>4. /\ e.thunk = "turnOff" /\ IsBefore(e.msec, Plus(now, msec)) /\ Plus(now, msec) \in Time
    BY TimerIsInTime
  <2> HIDE DEF e
  <2>5. relay'.queue = Inserted(q, e) /\ until' = Plus(now, msec)
    BY <1>1, <1>2 DEF e
  <2> QED
    BY <1>1, <2>3, <2>4, <2>5 DEF QueueOk
<1>3. CASE ~(msec > 0)
  BY <1>1, <1>3 DEF QueueOk
<1> QED
  BY <1>2, <1>3

(* A call of turnOffIn().                                                  *)
LEMMA TurnOffInKeepsInv ==
  ASSUME RelayInv, Room, NEW fn, NEW msec \in OffInDelays, TurnOffIn(msec, fn)
  PROVE  RelayInv'
<1> USE DEF RelayInv
<1> DEFINE q == relay.queue
           e == OffTimer(msec)
<1>1. /\ IsRelay(relay') /\ relay'.offFn = fn /\ relay'.queue = Inserted(q, e)
      /\ now' = now /\ until' = until
  BY TurnedOffInFields DEF TurnOffIn
<1>2. CountIn(q, OffTimers) \in Nat /\ CountIn(q, OffTimers) < MaxTimers /\ msec \in 0 .. Horizon
  BY QueueCounts, RelayConstants DEF TurnOffIn, Count
<1>3. CountIn(q, OffTimers) <= MaxTimers /\ CountIn(q, OffTimers) + 1 <= MaxTimers
  <2> DEFINE c == CountIn(q, OffTimers)
  <2>1. c \in Nat /\ c < MaxTimers
    BY <1>2
  <2> HIDE DEF c
  <2>2. c <= MaxTimers /\ c + 1 <= MaxTimers
    BY <2>1, RelayConstants
  <2> QED
    BY <2>2 DEF c
<1>4. /\ QueueOk(Inserted(q, e)) /\ Entries(Inserted(q, e)) = Entries(q) \cup {e}
      /\ CountIn(Inserted(q, e), OffTimers) <= MaxTimers
  BY <1>2, <1>3, TimerAdded
<1>5. e.thunk = "turnOff"
  BY <1>2, TimerIsInTime
<1> HIDE DEF e
<1> QED
  BY <1>1, <1>4, <1>5 DEF QueueOk

(* turnOff(), called or run by a timer: whatever was asked for is over,    *)
(* unless the callback asked for more, and then its timer is queued.       *)
LEMMA TurnedOffKeepsInv ==
  ASSUME now \in Time, Room, NEW r, IsRelay(r), QueueOk(r.queue),
         r.offFn = "again" => CountIn(r.queue, OffTimers) <= MaxTimers,
         relay' = TurnedOff(r), now' = now,
         until' = IF r.offFn = "again" THEN Plus(now, AgainMsec) ELSE -1
  PROVE  RelayInv'
<1> DEFINE e == OffTimer(AgainMsec)
<1>1. /\ IsRelay(relay') /\ relay'.offFn = "null"
      /\ relay'.queue = IF r.offFn = "again" THEN Inserted(r.queue, e) ELSE r.queue
  BY TurnedOffFields
<1>2. CASE r.offFn = "again"
  <2>1. QueueOk(Inserted(r.queue, e)) /\ Entries(Inserted(r.queue, e)) = Entries(r.queue) \cup {e}
    BY <1>2, TimerAdded, RelayConstants
  <2>2. /\ e.thunk = "turnOff" /\ IsBefore(e.msec, Plus(now, AgainMsec))
        /\ Plus(now, AgainMsec) \in Time
    BY TimerIsInTime, RelayConstants
  <2> HIDE DEF e
  <2> QED
    BY <1>1, <1>2, <2>1, <2>2 DEF RelayInv, QueueOk
<1>3. CASE r.offFn # "again"
  BY <1>1, <1>3 DEF RelayInv, QueueOk
<1> QED
  BY <1>2, <1>3

(* A call of turnOff().                                                   *)
LEMMA TurnOffKeepsInv ==
  ASSUME RelayInv, Room, TurnOff PROVE RelayInv'
BY TurnedOffKeepsInv DEF RelayInv, TurnOff, Asked

(* A timer runs: the entry it leaves was its own.                          *)
LEMMA TimerRunsKeepsInv ==
  ASSUME RelayInv, Room, TimerRuns PROVE RelayInv'
<1> USE DEF RelayInv
<1> DEFINE q == relay.queue
<1>1. /\ q # <<>> /\ relay' = TurnedOff(Popped) /\ now' = now
      /\ until' = IF relay.offFn = "again" THEN Plus(now, AgainMsec) ELSE -1
  BY DEF TimerRuns, HeadDue, Asked
<1>2. IsRelay(Popped) /\ Popped.offFn = relay.offFn /\ Popped.queue = Tail(q)
  <2> DEFINE t == Tail(q)
  <2>1. Popped = [relay EXCEPT !.queue = t]
    BY DEF Popped
  <2> HIDE DEF t
  <2>2. LET s == [relay EXCEPT !.queue = t]
        IN  IsRelay(s) /\ s.offFn = relay.offFn /\ s.queue = t
    BY DEF IsRelay
  <2> QED
    BY <2>1, <2>2 DEF t
<1>3. QueueOk(Tail(q))
  BY <1>1, HeadTaken
<1>4. relay.offFn = "again" => CountIn(Tail(q), OffTimers) <= MaxTimers
  <2> SUFFICES ASSUME relay.offFn = "again" PROVE CountIn(Tail(q), OffTimers) <= MaxTimers
    OBVIOUS
  <2> DEFINE c == CountIn(q, OffTimers)
             k == CountIn(Tail(q), OffTimers)
  <2>1. c \in Nat /\ c <= MaxTimers /\ (k = c \/ k = c - 1)
    BY <1>1, HeadTaken, QueueCounts
  <2> HIDE DEF c, k
  <2>2. k <= MaxTimers
    BY <2>1, RelayConstants
  <2> QED
    BY <2>2 DEF k
<1> QED
  BY <1>1, <1>2, <1>3, <1>4, TurnedOffKeepsInv

(* A foreign task runs and leaves the queue.                               *)
LEMMA OneShotRunsKeepsInv ==
  ASSUME RelayInv, OneShotRuns PROVE RelayInv'
<1> USE DEF RelayInv
<1> DEFINE q == relay.queue
<1>1. /\ q # <<>> /\ q[1].thunk = "other" /\ relay' = Popped
      /\ now' = now /\ until' = until
  BY DEF OneShotRuns, HeadDue
<1>2. IsRelay(relay') /\ relay'.offFn = relay.offFn /\ relay'.queue = Tail(q)
  <2> DEFINE t == Tail(q)
  <2>1. Popped = [relay EXCEPT !.queue = t]
    BY DEF Popped
  <2> HIDE DEF t
  <2>2. LET s == [relay EXCEPT !.queue = t]
        IN  IsRelay(s) /\ s.offFn = relay.offFn /\ s.queue = t
    BY DEF IsRelay
  <2> QED
    BY <1>1, <2>1, <2>2 DEF t
<1>3. /\ QueueOk(Tail(q)) /\ Entries(q) = Entries(Tail(q)) \cup {q[1]}
      /\ CountIn(Tail(q), OffTimers) = CountIn(q, OffTimers)
  BY <1>1, HeadTaken DEF OffTimers
<1>4. \A t \in Entries(q) : t.thunk = "turnOff" => t \in Entries(Tail(q))
  BY <1>1, <1>3
<1> QED
  BY <1>1, <1>2, <1>3, <1>4 DEF QueueOk

(* A foreign task is queued.                                               *)
LEMMA OneShotKeepsInv ==
  ASSUME RelayInv, Room, NEW delay \in 0 .. Horizon, OneShot(delay)
  PROVE  RelayInv'
<1> USE DEF RelayInv
<1> DEFINE q == relay.queue
           e == [msec |-> Plus(now, delay), thunk |-> "other", id |-> NoId]
           r == Inserted(q, e)
<1>1. e \in Others /\ Age(now, e.msec) <= Horizon + Lateness
  BY RequestFits, RelayConstants DEF Others
<1>2. relay' = [relay EXCEPT !.queue = r] /\ now' = now /\ until' = until
  BY DEF OneShot
<1>3. CountIn(q, Others) < MaxOneShots
  BY QueueCounts DEF OneShot, Count
<1> HIDE DEF e
<1>4. /\ QueueOk(r) /\ Entries(r) = Entries(q) \cup {e}
      /\ CountIn(r, OffTimers) = CountIn(q, OffTimers)
  BY <1>1, <1>3, OtherAdded
<1> HIDE DEF r
<1>5. IsRelay(relay') /\ relay'.offFn = relay.offFn /\ relay'.queue = r
  BY <1>2 DEF IsRelay
<1> QED
  BY <1>2, <1>4, <1>5 DEF QueueOk

(* The clock ticks.                                                        *)
LEMMA TickKeepsInv ==
  ASSUME RelayInv, Tick PROVE RelayInv'
<1> USE DEF RelayInv
<1>1. \A i \in 1 .. Len(relay.queue) : Age(now, relay.queue[i].msec) > 0
  BY QueueCounts DEF Tick
<1>2. now' \in Time /\ WellFormed(now', relay.queue)
  BY <1>1, TickWellFormed DEF Tick, QueueOk
<1> QED
  BY <1>2 DEF Tick, QueueOk

(* The start function of DOut sets the pin.                                *)
LEMMA StartKeepsInv ==
  ASSUME RelayInv, Start PROVE RelayInv'
<1>1. IsRelay(relay') /\ relay'.offFn = relay.offFn /\ relay'.queue = relay.queue
  BY SetFields DEF Start, RelayInv
<1> QED
  BY <1>1 DEF Start, RelayInv, QueueOk

(* Every step keeps the invariant.                                         *)
LEMMA StepRelayInv ==
  ASSUME RelayInv, Room, [Next]_vars PROVE RelayInv'
<1>1. ASSUME NEW fn, NEW msec \in 0 .. Horizon, TurnOn(msec, fn) PROVE RelayInv'
  BY <1>1, TurnOnKeepsInv
<1>2. ASSUME NEW fn, NEW msec \in OffInDelays, TurnOffIn(msec, fn) PROVE RelayInv'
  BY <1>2, TurnOffInKeepsInv
<1>3. ASSUME NEW delay \in 0 .. Horizon, OneShot(delay) PROVE RelayInv'
  BY <1>3, OneShotKeepsInv
<1>4. CASE UNCHANGED vars
  BY <1>4 DEF vars, RelayInv, QueueOk
<1> QED
  BY <1>1, <1>2, <1>3, <1>4, TickKeepsInv, StartKeepsInv, TurnOffKeepsInv, TimerRunsKeepsInv,
     OneShotRunsKeepsInv DEF Next

(* No relay stays on for want of a timer: for every clock, pool with room, *)
(* set of callbacks and delays, a request for a time has its timer queued, *)
(* and so has an off_fn that waits.                                        *)
THEOREM TimerAlwaysQueued ==
  ASSUME Room PROVE Spec => []OffTimerQueued
<1>1. RelayInv /\ [Next]_vars => RelayInv'
  BY StepRelayInv
<1>2. RelayInv => OffTimerQueued
  <2> SUFFICES ASSUME RelayInv PROVE OffTimerQueued
    OBVIOUS
  <2>1. \A t \in Entries(relay.queue) : t.thunk = "turnOff" => t.msec \in Timers
    BY DEF Entries, Timers
  <2> QED
    BY <2>1 DEF RelayInv, OffTimerQueued
<1> QED
  BY <1>1, <1>2, InitRelayInv, PTL DEF Spec
=============================================================================
