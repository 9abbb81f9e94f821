------------------------ MODULE PeriodicTask_proofs -------------------------
(***************************************************************************)
(* Proofs about PeriodicTask: the arithmetic of the next run on the        *)
(* wrapping clock, and that the chain of runs is never doubled or cut.     *)
(***************************************************************************)
EXTENDS PeriodicTask, TimedThunks_proofs

-----------------------------------------------------------------------------
(* A sum of two clock values wraps at most once.                           *)
LEMMA WrapsOnce ==
  ASSUME NEW a \in Nat, a < 2 * Modulus
  PROVE  a % Modulus = IF a < Modulus THEN a ELSE a - Modulus
<1>1. Modulus \in Nat /\ Modulus > 0
  BY Constants
<1>2. a = Modulus * (a \div Modulus) + (a % Modulus) /\ a \div Modulus \in Int
  BY <1>1
<1> DEFINE q == a \div Modulus
           r == a % Modulus
<1>3. q \in Int /\ r \in 0 .. Modulus - 1 /\ a = Modulus * q + r
  BY <1>1, <1>2
<1> HIDE DEF q, r
<1>4. q >= 2 => Modulus * q >= Modulus * 2
  BY <1>1, <1>3
<1>5. q <= -1 => Modulus * q <= Modulus * (-1)
  BY <1>1, <1>3
<1>6. q = 0 \/ q = 1
  BY <1>1, <1>3, <1>4, <1>5
<1> QED
  BY <1>1, <1>3, <1>6 DEF r

(* The search of cycle(), which may have to skip any number of periods,    *)
(* finds a time in the future that is at most a period away; that it stops *)
(* there rests on the last anchor being in the window behind the clock.    *)
LEMMA NextMsecIsNext ==
  ASSUME now \in Time, prevMsec \in Time, Minus(now, prevMsec) <= Horizon + Lateness,
         Period > 0
  PROVE  \E x \in 1 .. Period : NextMsec = Plus(now, x)
<1> DEFINE d == Minus(now, prevMsec)
           q == d \div Period
           r == d % Period
           multiple(k) == (prevMsec + k * Period) % Modulus
           passed == { k \in 1 .. HalfRange : IsBefore(multiple(k), now) }
           T == (1 .. HalfRange) \ passed
<1>1. /\ Period \in Nat /\ Period > 0 /\ Period <= Horizon /\ d \in Nat
      /\ d <= Horizon + Lateness
      /\ now = IF prevMsec + d < Modulus THEN prevMsec + d ELSE prevMsec + d - Modulus
      /\ now \in Nat /\ now < Modulus /\ prevMsec \in Nat /\ prevMsec < Modulus
  BY PeriodicAssumption, Constants DEF Minus, Time
<1>2. NextMsec = multiple(Min(T))
  BY DEF NextMsec
<1>3. d = Period * q + r /\ q \in Int /\ r \in 0 .. Period - 1
  BY <1>1
<1> HIDE DEF d, q, r
<1>4. q \in Nat /\ q <= d
  <2>1. q <= -1 => Period * q <= Period * (-1)
    BY <1>1, <1>3
  <2>2. q >= 0 => Period * q >= q
    BY <1>1, <1>3
  <2> QED
    BY <1>1, <1>3, <2>1, <2>2
<1> DEFINE K == q + 1
           x == Period - r
<1>5. /\ K * Period = d + x /\ x \in 1 .. Period
  BY <1>1, <1>3, <1>4
<1>6. K \in 1 .. HalfRange
  BY <1>1, <1>4, Constants
<1>7. multiple(K) = Plus(now, x)
  <2>1. prevMsec + K * Period \in Nat /\ prevMsec + K * Period = prevMsec + d + x
        /\ prevMsec + K * Period < 2 * Modulus
    BY <1>1, <1>5, Constants
  <2> DEFINE s == prevMsec + K * Period
  <2> HIDE DEF s
  <2>2. s % Modulus = IF s < Modulus THEN s ELSE s - Modulus
    BY <2>1, WrapsOnce DEF s
  <2>3. s = prevMsec + d + x
    BY <2>1 DEF s
  <2>4. s % Modulus = Plus(now, x)
    BY <1>1, <1>5, <2>2, <2>3, Constants DEF Plus
  <2> QED
    BY <2>4 DEF s
<1>8. ~IsBefore(Plus(now, x), now)
  BY <1>1, <1>5, Constants DEF IsBefore, Minus, Plus
<1>9. ASSUME NEW j \in 1 .. HalfRange, j < K
      PROVE  IsBefore(multiple(j), now)
  <2>1. j * Period <= q * Period /\ j * Period \in Nat
    BY <1>1, <1>4, <1>9
  <2>2. j * Period <= d
    BY <1>1, <1>3, <1>4, <2>1
  <2> DEFINE y == j * Period
  <2>3. y \in Nat /\ y <= d
    BY <2>1, <2>2
  <2> HIDE DEF y
  <2> DEFINE s == prevMsec + y
  <2>4. s \in Nat /\ s < 2 * Modulus /\ s = prevMsec + y
    BY <1>1, <2>3, Constants
  <2> HIDE DEF s
  <2>5. s % Modulus = IF s < Modulus THEN s ELSE s - Modulus
    BY <2>4, WrapsOnce
  <2>6. Minus(now, s % Modulus) = d - y
    BY <1>1, <2>3, <2>4, <2>5, Constants DEF Minus
  <2>7. IsBefore(s % Modulus, now)
    BY <1>1, <2>3, <2>6, Constants DEF IsBefore
  <2> QED
    BY <2>7 DEF s, y
<1> HIDE DEF K, x, multiple
<1>10. K \in T /\ \A j \in T : j >= K
  BY <1>4, <1>6, <1>7, <1>8, <1>9 DEF K
<1>11. Min(T) = K
  <2>1. T \subseteq Nat /\ T # {}
    BY <1>10, Constants
  <2> HIDE DEF T
  <2>2. Min(T) \in T /\ \A j \in T : Min(T) <= j
    BY <2>1, MinProperties
  <2> DEFINE m == Min(T)
  <2>3. m \in T /\ m \in Nat /\ K \in Nat /\ m >= K /\ m <= K
    BY <1>10, <2>1, <2>2
  <2> HIDE DEF m
  <2>4. m = K
    BY <2>3
  <2> QED
    BY <2>4 DEF m
<1> QED
  BY <1>2, <1>5, <1>7, <1>11

-----------------------------------------------------------------------------
(* The task repeats, and the pool has a node more than this task and the   *)
(* one-shot tasks of the other modules use: insert() wants one that is     *)
(* free before it replaces a run.                                          *)
Room == Period > 0 /\ MaxOneShots + 1 < Capacity

Others == { t \in TimedThunk : t.thunk = "other" /\ t.id = NoId }

(* A queued run is at most Horizon after the anchor of the grid.           *)
IsRun(t) == t.thunk = "cycle" /\ t.id = Id /\ Minus(t.msec, prevMsec) <= Horizon

(* The inductive invariant: the list is in its window, each entry is a run *)
(* or a one-shot task, a task that waits has a run queued, and while it    *)
(* runs, the anchor is no further back than the search for the next        *)
(* multiple of the period can reach.                                       *)
PeriodicInv ==
  /\ now \in Time /\ prevMsec \in Time /\ cycleMsec \in Time
  /\ WellFormed(now, queue) /\ Len(queue) <= Capacity
  /\ Cardinality(Positions(queue, Others)) <= MaxOneShots
  /\ \A t \in Entries(queue) : IsRun(t) \/ t \in Others
  /\ state = "waiting" => \E t \in Entries(queue) : t.thunk = "cycle"
  /\ state = "running" => /\ Minus(now, cycleMsec) <= Lateness
                          /\ Minus(now, prevMsec) <= Minus(now, cycleMsec) + Horizon

(* The assumptions, as one fact to be cited.                               *)
LEMMA PeriodicConstants ==
  /\ Period \in 0 .. Horizon /\ InitialDelay \in 0 .. Horizon /\ MaxOneShots \in Nat
  /\ Id \in Ids /\ Id # NoId /\ "cycle" \in Thunks /\ "other" \in Thunks
BY PeriodicAssumption, IdsAssumption

(* The one-shot tasks are those that the guard of OneShot counts.          *)
LEMMA OthersCounted ==
  ASSUME PeriodicInv
  PROVE  /\ OneShots = Cardinality(Positions(queue, Others)) /\ OneShots \in Nat
         /\ queue \in Seq(TimedThunk) /\ Len(queue) \in Nat /\ DOMAIN queue = 1 .. Len(queue)
         /\ \A i \in DOMAIN queue : queue[i] \in TimedThunk /\ queue[i] \in Entries(queue)
<1>1. /\ queue \in Seq(TimedThunk) /\ Len(queue) \in Nat /\ DOMAIN queue = 1 .. Len(queue)
      /\ \A i \in DOMAIN queue : queue[i] \in TimedThunk /\ queue[i] \in Entries(queue)
  BY EntryTypes DEF PeriodicInv, WellFormed, Entries
<1>2. { i \in DOMAIN queue : queue[i].thunk = "other" } = Positions(queue, Others)
  BY <1>1 DEF Positions, Others, PeriodicInv, IsRun
<1>3. Cardinality(Positions(queue, Others)) \in Nat
  BY <1>1, PositionsFinite
<1> QED
  BY <1>1, <1>2, <1>3 DEF OneShots

(* At most one entry is a run, for they share an id.                       *)
LEMMA AtMostOneRun ==
  ASSUME PeriodicInv
  PROVE  /\ \A i, j \in CycleEntries : i = j
         /\ Cardinality(CycleEntries) \in Nat /\ Cardinality(CycleEntries) <= 1
         /\ CycleEntries # {} => Cardinality(CycleEntries) = 1
         /\ CycleEntries = Positions(queue, TimedThunk \ Others)
<1>1. \A i \in CycleEntries : i \in 1 .. Len(queue) /\ queue[i].id = Id
  BY OthersCounted DEF CycleEntries, PeriodicInv, IsRun, Others
<1>2. \A i, j \in CycleEntries : i = j
  BY <1>1, PeriodicConstants DEF PeriodicInv, WellFormed
<1>3. CycleEntries = {} \/ \E i : CycleEntries = {i}
  BY <1>2
<1>4. CycleEntries = Positions(queue, TimedThunk \ Others)
  BY OthersCounted DEF CycleEntries, Positions, PeriodicInv, IsRun, Others
<1>5. CASE CycleEntries = {}
  BY <1>2, <1>4, <1>5, FS_EmptySet
<1>6. ASSUME NEW i, CycleEntries = {i}
      PROVE  Cardinality(CycleEntries) = 1
  BY <1>6, FS_Singleton
<1> QED
  BY <1>2, <1>3, <1>4, <1>5, <1>6

(* With room, the queue is never full.                                     *)
LEMMA RoomIsLeft ==
  ASSUME PeriodicInv, Room PROVE Len(queue) < Capacity
<1> DEFINE c == Cardinality(Positions(queue, Others))
           d == Cardinality(Positions(queue, TimedThunk \ Others))
<1>1. /\ c \in Nat /\ queue \in Seq(TimedThunk) /\ Len(queue) \in Nat
      /\ d \in Nat /\ d <= 1
  BY OthersCounted, AtMostOneRun
<1>2. Len(queue) = c + d
  BY <1>1, PositionsFinite
<1>3. c <= MaxOneShots /\ MaxOneShots \in Nat /\ MaxOneShots + 1 < Capacity /\ Capacity \in Nat
  BY PeriodicConstants, Constants DEF PeriodicInv, Room
<1> HIDE DEF c, d
<1> QED
  BY <1>1, <1>2, <1>3

(* start() and cycle() queue a run in place of the one that may be there.  *)
LEMMA RunReplaced ==
  ASSUME PeriodicInv, Room, NEW msec \in Time, Age(now, msec) <= Horizon + Lateness
  PROVE  LET q == Inserted(queue, Cycle(msec))
         IN  /\ WellFormed(now, q) /\ Len(q) <= Capacity
             /\ Cardinality(Positions(q, Others)) <= MaxOneShots
             /\ \A t \in Entries(q) : t = Cycle(msec) \/ t \in Others
             /\ Cycle(msec) \in Entries(q)
<1> DEFINE e == Cycle(msec)
           q == Inserted(queue, e)
<1>1. /\ e \in TimedThunk /\ e.msec = msec /\ e.id = Id /\ e \notin Others
      /\ \A t \in Others : t.id = NoId
  BY PeriodicConstants DEF Cycle, TimedThunk, Others
<1> HIDE DEF e
<1>2. Len(queue) < Capacity
  BY RoomIsLeft
<1>3. WellFormed(now, q) /\ Len(q) <= Capacity
  BY <1>1, InsertionWellFormed DEF PeriodicInv
<1>4. /\ Entries(q) = { t \in Entries(queue) : e.id = NoId \/ t.id # e.id } \cup {e}
      /\ Cardinality(Positions(q, Others)) =
           IF e \in Others THEN Cardinality(Positions(queue, Others)) + 1
           ELSE Cardinality(Positions(queue, Others))
  BY <1>1, <1>2, InsertWithRoom DEF PeriodicInv
<1>5. \A t \in Entries(q) : t = e \/ t \in Others
  BY <1>1, <1>4, PeriodicConstants DEF PeriodicInv, IsRun
<1>6. Cardinality(Positions(q, Others)) <= MaxOneShots
  BY <1>1, <1>4 DEF PeriodicInv
<1> QED
  BY <1>3, <1>4, <1>5, <1>6 DEF e

(* The distances that the invariant bounds, when the clock ticks, ...      *)
LEMMA TickKeepsDistances ==
  ASSUME NEW n \in Time, NEW c \in Time, NEW p \in Time,
         Minus(n, c) < Lateness, Minus(n, p) <= Minus(n, c) + Horizon
  PROVE  /\ Minus(Plus(n, 1), c) <= Lateness
         /\ Minus(Plus(n, 1), p) <= Minus(Plus(n, 1), c) + Horizon
BY Constants DEF Plus, Minus, Time

(* ... and when a run is taken that is due.                                *)
LEMMA DueDistances ==
  ASSUME NEW n \in Time, NEW t \in Time, NEW p \in Time,
         Age(n, t) <= Horizon + Lateness, IsBefore(t, n), Minus(t, p) <= Horizon
  PROVE  Minus(n, t) <= Lateness /\ Minus(n, p) <= Minus(n, t) + Horizon
BY Constants DEF Age, IsBefore, Plus, Minus, Time

(* A time that is asked for is as far after the clock as it was asked for. *)
LEMMA RequestDistance ==
  ASSUME NEW n \in Time, NEW x \in 0 .. Horizon
  PROVE  /\ Plus(n, x) \in Time /\ Age(n, Plus(n, x)) <= Horizon + Lateness
         /\ Minus(Plus(n, x), n) = x
         /\ Minus(n, n) = 0
BY Constants DEF Age, Plus, Minus, Time

(* Nothing is queued at first.                                             *)
LEMMA InitPeriodicInv == Init => PeriodicInv
<1> SUFFICES ASSUME Init PROVE PeriodicInv
  OBVIOUS
<1>1. /\ queue \in Seq(TimedThunk) /\ Len(queue) = 0 /\ DOMAIN queue = {}
      /\ Positions(queue, Others) = {} /\ Entries(queue) = {}
  BY EmptySeq DEF Init, Positions, Entries
<1>2. WellFormed(now, queue) /\ Len(queue) <= Capacity
  BY <1>1, Constants DEF WellFormed
<1>3. Cardinality(Positions(queue, Others)) <= MaxOneShots
  BY <1>1, FS_EmptySet, PeriodicConstants
<1>4. 0 \in Time
  BY Constants DEF Time
<1> QED
  BY <1>1, <1>2, <1>3, <1>4 DEF Init, PeriodicInv

(* start(), from setTasks() or runIn().                                    *)
LEMMA StartKeepsInv ==
  ASSUME PeriodicInv, Room, NEW delay \in 0 .. Horizon, Start(delay),
         now' = now, cycleMsec' = cycleMsec, state' \in {state, "waiting"}
  PROVE  PeriodicInv'
<1> DEFINE msec == Plus(now, delay)
<1>1. /\ msec \in Time /\ Age(now, msec) <= Horizon + Lateness /\ Minus(msec, now) = delay
      /\ Minus(now, now) = 0
  BY RequestDistance DEF PeriodicInv
<1>2. queue' = Inserted(queue, Cycle(msec)) /\ prevMsec' = now
  BY DEF Start
<1> HIDE DEF msec
<1>3. /\ WellFormed(now, queue') /\ Len(queue') <= Capacity
      /\ Cardinality(Positions(queue', Others)) <= MaxOneShots
      /\ \A t \in Entries(queue') : t = Cycle(msec) \/ t \in Others
      /\ Cycle(msec) \in Entries(queue')
  BY <1>1, <1>2, RunReplaced
<1>4. \A t \in Entries(queue') : IsRun(t)' \/ t \in Others
  BY <1>1, <1>2, <1>3 DEF IsRun, Cycle
<1>5. \E t \in Entries(queue') : t.thunk = "cycle"
  BY <1>3 DEF Cycle
<1>6. state' = "running" => /\ Minus(now, cycleMsec) <= Lateness
                            /\ Minus(now, prevMsec') <= Minus(now, cycleMsec) + Horizon
  <2>1. Minus(now, cycleMsec) >= 0 /\ Minus(now, cycleMsec) \in Int
    BY ClockTypes, Constants DEF PeriodicInv, Time, Minus
  <2> QED
    BY <1>1, <1>2, <2>1, Constants DEF PeriodicInv
<1> QED
  BY <1>2, <1>3, <1>4, <1>5, <1>6 DEF PeriodicInv

(* cycle() queues the next run, on the grid and in the future.             *)
LEMMA CycleEndQueuesNext ==
  ASSUME PeriodicInv, Room, CycleEnds
  PROVE  \E x \in 1 .. Period :
           /\ prevMsec' = Plus(now, x) /\ queue' = Inserted(queue, Cycle(Plus(now, x)))
           /\ x \in 0 .. Horizon
<1>1. /\ state = "running" /\ Period > 0
      /\ queue' = Inserted(queue, Cycle(NextMsec)) /\ prevMsec' = NextMsec
  BY PeriodicConstants DEF CycleEnds, Room
<1>2. Minus(now, prevMsec) <= Horizon + Lateness
  <2>1. /\ Minus(now, cycleMsec) \in Time /\ Minus(now, prevMsec) \in Time
        /\ Minus(now, cycleMsec) <= Lateness
        /\ Minus(now, prevMsec) <= Minus(now, cycleMsec) + Horizon
    BY <1>1, Constants DEF PeriodicInv, Minus, Time
  <2> QED
    BY <2>1, Constants DEF Time
<1>3. PICK x \in 1 .. Period : NextMsec = Plus(now, x)
  BY <1>1, <1>2, NextMsecIsNext DEF PeriodicInv
<1>4. x \in 0 .. Horizon
  BY PeriodicConstants, Constants
<1> QED
  BY <1>1, <1>3, <1>4

(* The end of cycle() queues the next run.                                 *)
LEMMA CycleEndsKeepsInv ==
  ASSUME PeriodicInv, Room, CycleEnds
  PROVE  PeriodicInv'
<1>1. PICK x \in 1 .. Period :
        /\ prevMsec' = Plus(now, x) /\ queue' = Inserted(queue, Cycle(Plus(now, x)))
        /\ x \in 0 .. Horizon
  BY CycleEndQueuesNext
<1> DEFINE msec == Plus(now, x)
<1>2. msec \in Time /\ Age(now, msec) <= Horizon + Lateness
  BY <1>1, RequestDistance DEF PeriodicInv
<1>3. Minus(msec, msec) = 0 /\ 0 <= Horizon
  BY <1>2, Constants DEF Minus, Time
<1>4. queue' = Inserted(queue, Cycle(msec)) /\ prevMsec' = msec
  BY <1>1
<1> HIDE DEF msec
<1>5. /\ WellFormed(now, queue') /\ Len(queue') <= Capacity
      /\ Cardinality(Positions(queue', Others)) <= MaxOneShots
      /\ \A t \in Entries(queue') : t = Cycle(msec) \/ t \in Others
      /\ Cycle(msec) \in Entries(queue')
  BY <1>2, <1>4, RunReplaced
<1>6. \A t \in Entries(queue') : IsRun(t)' \/ t \in Others
  BY <1>3, <1>4, <1>5 DEF IsRun, Cycle
<1>7. \E t \in Entries(queue') : t.thunk = "cycle"
  BY <1>5 DEF Cycle
<1>8. now' = now /\ cycleMsec' = cycleMsec /\ state' = "waiting"
  BY DEF CycleEnds
<1> QED
  BY <1>2, <1>4, <1>5, <1>6, <1>7, <1>8 DEF PeriodicInv

(* Another module queues a one-shot task.                                  *)
LEMMA OneShotKeepsInv ==
  ASSUME PeriodicInv, Room, NEW delay \in 0 .. Horizon, OneShot(delay)
  PROVE  PeriodicInv'
<1> DEFINE e == [msec |-> Plus(now, delay), thunk |-> "other", id |-> NoId]
<1>1. e \in TimedThunk /\ Age(now, e.msec) <= Horizon + Lateness /\ e \in Others /\ e.id = NoId
  BY RequestFits, PeriodicConstants DEF PeriodicInv, Others
<1>2. queue' = Inserted(queue, e) /\ OneShots < MaxOneShots
  BY DEF OneShot
<1> HIDE DEF e
<1>3. Len(queue) < Capacity
  BY RoomIsLeft
<1>4. WellFormed(now, queue') /\ Len(queue') <= Capacity
  BY <1>1, <1>2, InsertionWellFormed DEF PeriodicInv
<1>5. /\ Entries(queue') = { t \in Entries(queue) : e.id = NoId \/ t.id # e.id } \cup {e}
      /\ Cardinality(Positions(queue', Others)) = Cardinality(Positions(queue, Others)) + 1
  BY <1>1, <1>2, <1>3, InsertWithRoom DEF PeriodicInv
<1>6. Cardinality(Positions(queue', Others)) <= MaxOneShots
  BY <1>2, <1>5, OthersCounted, PeriodicConstants
<1>7. Entries(queue') = Entries(queue) \cup {e}
  BY <1>1, <1>5
<1>8. now' = now /\ UNCHANGED <<prevMsec, state, cycleMsec>>
  BY DEF OneShot
<1>9. \A t \in Entries(queue') : IsRun(t)' \/ t \in Others
  BY <1>1, <1>7, <1>8 DEF PeriodicInv, IsRun
<1> QED
  BY <1>4, <1>6, <1>7, <1>8, <1>9 DEF PeriodicInv

(* The head is taken and run.                                              *)
LEMMA HeadTaken ==
  ASSUME PeriodicInv, NEW thunk, HeadDue(thunk), queue' = Tail(queue)
  PROVE  /\ WellFormed(now, queue') /\ Len(queue') <= Capacity
         /\ queue[1] \in Entries(queue) /\ queue[1].thunk = thunk /\ queue[1].msec \in Time
         /\ Age(now, queue[1].msec) <= Horizon + Lateness /\ IsBefore(queue[1].msec, now)
         /\ Entries(queue) = Entries(queue') \cup {queue[1]}
         /\ Cardinality(Positions(queue', Others)) <= MaxOneShots
<1>1. queue # <<>> /\ queue[1].thunk = thunk /\ IsBefore(queue[1].msec, now)
  BY DEF HeadDue
<1>2. /\ WellFormed(now, queue') /\ Len(queue') <= Capacity
      /\ 1 \in 1 .. Len(queue) /\ queue[1].msec \in Time
      /\ Age(now, queue[1].msec) <= Horizon + Lateness
  BY <1>1, TailWellFormed DEF PeriodicInv
<1>3. Entries(queue) = Entries(queue') \cup {queue[1]}
  BY <1>1, TailEntries DEF PeriodicInv
<1> DEFINE c == Cardinality(Positions(queue, Others))
           k == Cardinality(Positions(queue', Others))
<1>4. c \in Nat /\ k = IF queue[1] \in Others THEN c - 1 ELSE c
  BY <1>1, TailCount DEF PeriodicInv
<1>5. c <= MaxOneShots /\ MaxOneShots \in Nat
  BY PeriodicConstants DEF PeriodicInv
<1> HIDE DEF c, k
<1>6. k = c \/ k = c - 1
  BY <1>4
<1>7. k <= MaxOneShots
  BY <1>4, <1>5, <1>6
<1> QED
  BY <1>1, <1>2, <1>3, <1>7 DEF k

(* The head of the queue runs and leaves it.                               *)
LEMMA HeadRunsKeepsInv ==
  ASSUME PeriodicInv, OneShotRuns \/ CycleStarts
  PROVE  PeriodicInv'
<1>1. CASE OneShotRuns
  <2>1. /\ HeadDue("other") /\ queue' = Tail(queue)
        /\ UNCHANGED <<now, prevMsec, state, cycleMsec>>
    BY <1>1 DEF OneShotRuns
  <2>2. /\ WellFormed(now, queue') /\ Len(queue') <= Capacity
        /\ queue[1].thunk = "other" /\ Entries(queue) = Entries(queue') \cup {queue[1]}
        /\ Cardinality(Positions(queue', Others)) <= MaxOneShots
    BY <2>1, HeadTaken
  <2>3. \A t \in Entries(queue') : IsRun(t)' \/ t \in Others
    BY <2>1, <2>2 DEF PeriodicInv, IsRun
  <2> QED
    BY <2>1, <2>2, <2>3 DEF PeriodicInv
<1>2. CASE CycleStarts
  <2>1. /\ HeadDue("cycle") /\ queue' = Tail(queue) /\ cycleMsec' = queue[1].msec
        /\ state' = "running" /\ UNCHANGED <<now, prevMsec>>
    BY <1>2 DEF CycleStarts
  <2>2. /\ WellFormed(now, queue') /\ Len(queue') <= Capacity
        /\ queue[1] \in Entries(queue) /\ queue[1].thunk = "cycle" /\ queue[1].msec \in Time
        /\ Age(now, queue[1].msec) <= Horizon + Lateness /\ IsBefore(queue[1].msec, now)
        /\ Entries(queue) = Entries(queue') \cup {queue[1]}
        /\ Cardinality(Positions(queue', Others)) <= MaxOneShots
    BY <2>1, HeadTaken
  <2>3. Minus(queue[1].msec, prevMsec) <= Horizon
    BY <2>2 DEF PeriodicInv, IsRun, Others
  <2>4. /\ Minus(now, queue[1].msec) <= Lateness
        /\ Minus(now, prevMsec) <= Minus(now, queue[1].msec) + Horizon
    BY <2>2, <2>3, DueDistances DEF PeriodicInv
  <2>5. \A t \in Entries(queue') : IsRun(t)' \/ t \in Others
    BY <2>1, <2>2 DEF PeriodicInv, IsRun
  <2> QED
    BY <2>1, <2>2, <2>4, <2>5 DEF PeriodicInv
<1> QED
  BY <1>1, <1>2

(* The clock ticks.                                                        *)
LEMMA TickKeepsInv ==
  ASSUME PeriodicInv, Tick PROVE PeriodicInv'
<1>1. \A i \in 1 .. Len(queue) : Age(now, queue[i].msec) > 0
  BY OthersCounted DEF Tick
<1>2. now' \in Time /\ WellFormed(now', queue)
  BY <1>1, TickWellFormed DEF Tick, PeriodicInv
<1>3. /\ now' = Plus(now, 1) /\ UNCHANGED <<queue, prevMsec, state, cycleMsec>>
      /\ state = "running" => Minus(now, cycleMsec) < Lateness
  BY DEF Tick
<1>4. state = "running" => /\ Minus(now', cycleMsec) <= Lateness
                           /\ Minus(now', prevMsec) <= Minus(now', cycleMsec) + Horizon
  BY <1>3, TickKeepsDistances DEF PeriodicInv
<1> QED
  BY <1>2, <1>3, <1>4 DEF PeriodicInv, IsRun

(* Every step keeps the invariant.                                         *)
LEMMA StepPeriodicInv ==
  ASSUME PeriodicInv, Room, [Next]_vars PROVE PeriodicInv'
<1>1. CASE SetTasks
  BY <1>1, StartKeepsInv, PeriodicConstants DEF SetTasks
<1>2. ASSUME NEW delay \in 0 .. Horizon, Move(delay) PROVE PeriodicInv'
  BY <1>2, StartKeepsInv DEF Move
<1>3. ASSUME NEW delay \in 0 .. Horizon, OneShot(delay) PROVE PeriodicInv'
  BY <1>3, OneShotKeepsInv
<1>4. CASE UNCHANGED vars
  BY <1>4 DEF vars, PeriodicInv, IsRun
<1> QED
  BY <1>1, <1>2, <1>3, <1>4, TickKeepsInv, HeadRunsKeepsInv, CycleEndsKeepsInv DEF Next

(* The invariant holds in every reachable state; fairness is not needed.   *)
LEMMA SpecPeriodicInv ==
  ASSUME Room PROVE Spec => []PeriodicInv
<1>1. PeriodicInv /\ [Next]_vars => PeriodicInv'
  BY StepPeriodicInv
<1> QED
  BY <1>1, InitPeriodicInv, PTL DEF Spec

-----------------------------------------------------------------------------
(* A repeated task that waits has exactly one run queued, for every clock, *)
(* period, pool with room, and calls of runIn() from anywhere.             *)
THEOREM ChainNotDoubledOrCut ==
  ASSUME Room PROVE Spec => []OneRunQueued
<1>1. PeriodicInv => OneRunQueued
  <2> SUFFICES ASSUME PeriodicInv, state = "waiting"
               PROVE  Cardinality(CycleEntries) = 1
    BY DEF OneRunQueued
  <2>1. PICK t \in Entries(queue) : t.thunk = "cycle"
    BY DEF PeriodicInv
  <2>2. CycleEntries # {}
    BY <2>1 DEF Entries, CycleEntries
  <2> QED
    BY <2>2, AtMostOneRun
<1> QED
  BY <1>1, SpecPeriodicInv, PTL

(* The run that the end of cycle() queues is at most a period ahead.       *)
LEMMA StepNextRun ==
  ASSUME PeriodicInv, Room, [Next]_vars, state = "running", state' = "waiting",
         NEW i \in DOMAIN queue', queue'[i].thunk = "cycle"
  PROVE  Minus(queue'[i].msec, now) \in 1 .. Period
<1>1. CycleEnds
  BY DEF Next, Tick, SetTasks, Move, OneShot, OneShotRuns, CycleStarts, vars
<1>2. PICK x \in 1 .. Period :
        queue' = Inserted(queue, Cycle(Plus(now, x))) /\ x \in 0 .. Horizon
  BY <1>1, CycleEndQueuesNext
<1>3. /\ Plus(now, x) \in Time /\ Age(now, Plus(now, x)) <= Horizon + Lateness
      /\ Minus(Plus(now, x), now) = x
  BY <1>2, RequestDistance DEF PeriodicInv
<1>4. \A t \in Entries(queue') : t = Cycle(Plus(now, x)) \/ t \in Others
  BY <1>2, <1>3, RunReplaced
<1>5. queue'[i] = Cycle(Plus(now, x))
  BY <1>4 DEF Entries, Others
<1> QED
  BY <1>3, <1>5 DEF Cycle

(* However late a run was and however long it took, the next one is in the *)
(* future and at most a period away, for every period and clock range.     *)
THEOREM NextRunInTime ==
  ASSUME Room PROVE Spec => NextRunWithinPeriod
<1>1. PeriodicInv /\ [Next]_vars =>
        [ state = "running" /\ state' = "waiting" =>
            \A i \in DOMAIN queue' :
              queue'[i].thunk = "cycle" => Minus(queue'[i].msec, now) \in 1 .. Period ]_vars
  BY StepNextRun
<1> QED
  BY <1>1, SpecPeriodicInv, PTL DEF Spec, NextRunWithinPeriod
=============================================================================
