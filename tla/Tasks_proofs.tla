---------------------------- MODULE Tasks_proofs ----------------------------
(***************************************************************************)
(* Proofs about Tasks: that the main loop runs callbacks in time order,    *)
(* although the clock wraps, moves on while loop() runs, and interrupts    *)
(* put in thunks of their own; and that no request with an id is lost.     *)
(***************************************************************************)
EXTENDS Tasks, TimedThunks_proofs

-----------------------------------------------------------------------------
(* What was due when loop() read the clock, at most Lateness ms before n,  *)
(* is due by n.  It is false outside the window: a time far enough ahead   *)
(* would look past to a loop that started long ago.                        *)
LEMMA DueAtEntryIsDue ==
  ASSUME NEW n \in Time, NEW start \in Time, Minus(n, start) <= Lateness,
         NEW t \in Time, Age(n, t) <= Horizon + Lateness, IsBefore(t, start)
  PROVE  Age(n, t) <= Lateness
BY Constants DEF Age, IsBefore, Plus, Minus, Time

(* The inductive invariant: the window around the clock that the list      *)
(* lemmas need, and how far the clock has moved since loop() read it.      *)
TasksInv ==
  /\ now \in Time /\ loopNow \in Time
  /\ WellFormed(now, queue) /\ Len(queue) <= Capacity
  /\ runNext \in IsrThunks \cup {None}
  /\ phase # "idle" => Minus(now, loopNow) <= Lateness

(* Tasks starts at time 0 with nothing queued.                             *)
LEMMA InitTasksInv == Init => TasksInv
<1> SUFFICES ASSUME Init PROVE TasksInv
  OBVIOUS
<1>1. queue \in Seq(TimedThunk) /\ Len(queue) = 0
  BY EmptySeq DEF Init
<1> QED
  BY <1>1, Constants DEF Init, TasksInv, WellFormed, Time

(* A tick while the loop runs moves the clock one ms away from its start.  *)
LEMMA TickMovesAway ==
  ASSUME NEW n \in Time, NEW start \in Time, Minus(n, start) < Lateness
  PROVE  Minus(Plus(n, 1), start) <= Lateness
BY Constants DEF Plus, Minus, Time

(* Every step of the loop, of a caller, of an interrupt and of the clock   *)
(* preserves the invariant.                                                *)
LEMMA StepTasksInv == TasksInv /\ [Next]_vars => TasksInv'
<1> SUFFICES ASSUME TasksInv, [Next]_vars
             PROVE  TasksInv'
  OBVIOUS
<1> USE DEF TasksInv
<1>1. CASE Tick
  <2>1. \A i \in 1 .. Len(queue) : Age(now, queue[i].msec) > 0
    BY <1>1, EntryTypes DEF Tick
  <2>2. now' \in Time /\ WellFormed(now', queue)
    BY <1>1, <2>1, TickWellFormed DEF Tick
  <2>3. phase # "idle" => Minus(now', loopNow) <= Lateness
    BY <1>1, TickMovesAway DEF Tick
  <2> QED
    BY <1>1, <2>2, <2>3 DEF Tick
<1>2. ASSUME NEW thunk \in IsrThunks, Interrupt(thunk) PROVE TasksInv'
  BY <1>2 DEF Interrupt
<1>3. ASSUME NEW delay \in 0 .. Horizon, NEW thunk \in Thunks, NEW id \in Ids \cup {NoId},
             RunIn(delay, thunk, id)
      PROVE  TasksInv'
  <2> DEFINE e == [msec |-> Plus(now, delay), thunk |-> thunk, id |-> id]
  <2>1. e \in TimedThunk /\ Age(now, e.msec) <= Horizon + Lateness
    BY RequestFits
  <2>2. queue' = Inserted(queue, e)
    BY <1>3 DEF RunIn
  <2> HIDE DEF e
  <2>3. WellFormed(now, queue') /\ Len(queue') <= Capacity
    BY <2>1, <2>2, InsertionWellFormed
  <2> QED
    BY <1>3, <2>3 DEF RunIn
<1>4. CASE EnterLoop
  <2>1. Minus(now, now) = 0
    BY Constants DEF Minus, Time
  <2> QED
    BY <1>4, <2>1, Constants DEF EnterLoop
<1>5. CASE GetThunk
  <2>1. CASE TakeInterruptThunk
    BY <1>5, <2>1 DEF TakeInterruptThunk
  <2>2. CASE TakeQueued
    <3>1. queue # <<>> /\ queue' = Tail(queue)
      BY <2>2 DEF TakeQueued, HeadDue
    <3>2. WellFormed(now, queue') /\ Len(queue') <= Capacity
      BY <3>1, TailWellFormed
    <3> QED
      BY <2>2, <3>2 DEF TakeQueued
  <2>3. CASE LeaveLoop
    BY <2>3 DEF LeaveLoop
  <2> QED
    BY <1>5, <2>1, <2>2, <2>3 DEF GetThunk
<1>6. CASE ThunkReturns
  BY <1>6 DEF ThunkReturns
<1>7. CASE UNCHANGED vars
  BY <1>7 DEF vars
<1> QED
  BY <1>1, <1>2, <1>3, <1>4, <1>5, <1>6, <1>7 DEF Next

(* The invariant holds in every reachable state; fairness is not needed.   *)
LEMMA SpecTasksInv == Spec => []TasksInv
BY InitTasksInv, StepTasksInv, PTL DEF Spec

-----------------------------------------------------------------------------
(* Only getThunk() starts an entry of the queue, and the entry it takes is *)
(* the head.                                                               *)
LEMMA OnlyTheHeadStarts ==
  ASSUME TasksInv, [Next]_vars, running = None, running' \in TimedThunk
  PROVE  TakeQueued
<1> USE SlotAssumption DEF TasksInv
<1>1. running' # running
  OBVIOUS
<1>2. ~Tick /\ ~EnterLoop /\ ~UNCHANGED vars
  BY <1>1 DEF Tick, EnterLoop, vars
<1>3. \A thunk \in IsrThunks : ~Interrupt(thunk)
  BY <1>1 DEF Interrupt
<1>4. \A delay \in 0 .. Horizon, thunk \in Thunks, id \in Ids \cup {NoId} :
        ~RunIn(delay, thunk, id)
  BY <1>1 DEF RunIn
<1>5. ~TakeInterruptThunk /\ ~LeaveLoop /\ ~ThunkReturns
  BY <1>1 DEF TakeInterruptThunk, LeaveLoop, ThunkReturns
<1> QED
  BY <1>2, <1>3, <1>4, <1>5 DEF Next, GetThunk

(* The entry that getThunk() takes is due, and none left is due before it. *)
LEMMA StepRunsInTimeOrder ==
  ASSUME TasksInv, [Next]_vars, running = None, running' \in TimedThunk
  PROVE  /\ Age(now, running'.msec) <= Lateness
         /\ \A i \in DOMAIN queue' : Age(now, running'.msec) <= Age(now, queue'[i].msec)
<1>1. /\ queue # <<>> /\ running' = queue[1] /\ queue' = Tail(queue)
      /\ phase = "loop" /\ IsBefore(queue[1].msec, loopNow)
  BY OnlyTheHeadStarts DEF TakeQueued, HeadDue
<1>2. /\ 1 \in 1 .. Len(queue) /\ queue[1].msec \in Time
      /\ Age(now, queue[1].msec) <= Horizon + Lateness
      /\ \A i \in DOMAIN queue' : /\ i + 1 \in 1 .. Len(queue) /\ 1 < i + 1
                                  /\ queue'[i] = queue[i + 1]
  BY <1>1, TailWellFormed DEF TasksInv
<1>3. Age(now, queue[1].msec) <= Lateness
  BY <1>1, <1>2, DueAtEntryIsDue DEF TasksInv
<1>4. \A i \in DOMAIN queue' : Age(now, queue[1].msec) <= Age(now, queue'[i].msec)
  <2>1. \A i \in 1 .. Len(queue) : 1 < i => Age(now, queue[1].msec) <= Age(now, queue[i].msec)
    BY <1>2 DEF TasksInv, WellFormed
  <2> QED
    BY <1>2, <2>1
<1> QED
  BY <1>1, <1>3, <1>4

(* Callbacks run once they are due and in time order, for every clock      *)
(* range, window, pool and set of interrupt handlers: also when the clock  *)
(* wraps between loop() reading it and the head being taken.               *)
THEOREM InTimeOrder == Spec => RunsInTimeOrder
<1>1. TasksInv /\ [Next]_vars =>
        [ running = None /\ running' \in TimedThunk =>
            /\ Age(now, running'.msec) <= Lateness
            /\ \A i \in DOMAIN queue' :
                 Age(now, running'.msec) <= Age(now, queue'[i].msec) ]_vars
  BY StepRunsInTimeOrder
<1> QED
  BY <1>1, SpecTasksInv, PTL DEF Spec, RunsInTimeOrder

-----------------------------------------------------------------------------
(* RequestsHonoured.  A node is always free: the ids in use and the entries*)
(* without one are fewer than the nodes.                                   *)
Room == IsFiniteSet(Ids) /\ Cardinality(Ids) + MaxOneShots < Capacity

WithoutId == { t \in TimedThunk : t.id = NoId }

(* RequestsHonoured alone is not inductive: without the count a request    *)
(* might be refused.                                                       *)
Honoured ==
  /\ Cardinality(Positions(queue, WithoutId)) <= MaxOneShots
  /\ latest \in [Ids -> TimedThunk \cup {None}]
  /\ \A id \in Ids : \A t \in Entries(queue) : t.id = id => t = latest[id]
  /\ \A id \in Ids : latest[id] # None => \E t \in Entries(queue) : t.id = id

(* The guard on one-shot tasks counts the entries without an id.           *)
LEMMA OneShotsCounted ==
  ASSUME TasksInv
  PROVE  /\ OneShots = Cardinality(Positions(queue, WithoutId)) /\ OneShots \in Nat
         /\ queue \in Seq(TimedThunk) /\ Len(queue) \in Nat /\ DOMAIN queue = 1 .. Len(queue)
<1>1. /\ queue \in Seq(TimedThunk) /\ Len(queue) \in Nat /\ DOMAIN queue = 1 .. Len(queue)
      /\ \A i \in DOMAIN queue : queue[i] \in TimedThunk
  BY EntryTypes DEF TasksInv, WellFormed
<1>2. { i \in DOMAIN queue : queue[i].id = NoId } = Positions(queue, WithoutId)
  BY <1>1 DEF Positions, WithoutId
<1>3. Cardinality(Positions(queue, WithoutId)) \in Nat
  BY <1>1, PositionsFinite
<1> QED
  BY <1>1, <1>2, <1>3 DEF OneShots

(* With room, the queue is never full.                                     *)
LEMMA RoomIsLeft ==
  ASSUME TasksInv, Room, OneShots <= MaxOneShots
  PROVE  Len(queue) < Capacity
<1> DEFINE c == Cardinality(Positions(queue, WithoutId))
           d == Cardinality(Positions(queue, TimedThunk \ WithoutId))
           m == Cardinality(Ids)
<1>1. /\ OneShots = c /\ c \in Nat
      /\ queue \in Seq(TimedThunk) /\ Len(queue) \in Nat
  BY OneShotsCounted
<1>2. Len(queue) = c + d
  BY <1>1, PositionsFinite
<1>3. TimedThunk \ WithoutId = { t \in TimedThunk : t.id # NoId }
  BY DEF WithoutId
<1>4. d \in Nat /\ d <= m
  BY <1>1, <1>3, PositionsFinite, CountOfIds DEF TasksInv, Room
<1>5. m \in Nat /\ MaxOneShots \in Nat /\ Capacity \in Nat /\ m + MaxOneShots < Capacity
  BY FS_CardinalityType, Constants, BoundsAssumption DEF Room
<1> HIDE DEF c, d, m
<1> QED
  BY <1>1, <1>2, <1>4, <1>5

(* A request with an id becomes the only one of its id, another one is     *)
(* added to the rest.                                                      *)
LEMMA RequestHonoured ==
  ASSUME TasksInv, Honoured, Room,
         NEW delay \in 0 .. Horizon, NEW thunk \in Thunks, NEW id \in Ids \cup {NoId},
         RunIn(delay, thunk, id)
  PROVE  Honoured'
<1> DEFINE e == [msec |-> Plus(now, delay), thunk |-> thunk, id |-> id]
<1>1. /\ e \in TimedThunk /\ Age(now, e.msec) <= Horizon + Lateness /\ e.id = id
  BY RequestFits DEF TasksInv
<1>2. /\ queue' = Inserted(queue, e)
      /\ latest' = IF id = NoId THEN latest ELSE [latest EXCEPT ![id] = e]
      /\ id = NoId => OneShots < MaxOneShots
  BY DEF RunIn
<1> HIDE DEF e
<1>3. /\ OneShots = Cardinality(Positions(queue, WithoutId)) /\ OneShots \in Nat
      /\ OneShots <= MaxOneShots
  BY OneShotsCounted DEF Honoured
<1>4. Len(queue) < Capacity
  BY <1>3, RoomIsLeft
<1>5. /\ Entries(queue') = { t \in Entries(queue) : e.id = NoId \/ t.id # e.id } \cup {e}
      /\ Cardinality(Positions(queue', WithoutId)) =
           IF e \in WithoutId THEN OneShots + 1 ELSE OneShots
  BY <1>1, <1>2, <1>3, <1>4, InsertWithRoom DEF TasksInv, WithoutId
<1>6. Cardinality(Positions(queue', WithoutId)) <= MaxOneShots
  BY <1>1, <1>2, <1>3, <1>5, BoundsAssumption DEF WithoutId
<1>7. latest' \in [Ids -> TimedThunk \cup {None}]
  BY <1>1, <1>2 DEF Honoured
<1>8. \A d \in Ids : latest'[d] = IF d = id THEN e ELSE latest[d]
  BY <1>2, IdsAssumption DEF Honoured
<1>9. \A d \in Ids : \A t \in Entries(queue') : t.id = d => t = latest'[d]
  BY <1>1, <1>5, <1>8, IdsAssumption DEF Honoured
<1>10. ASSUME NEW d \in Ids, latest'[d] # None PROVE \E t \in Entries(queue') : t.id = d
  <2>1. CASE d = id
    BY <1>1, <1>5, <2>1
  <2>2. CASE d # id
    <3>1. PICK t \in Entries(queue) : t.id = d
      BY <1>8, <1>10, <2>2 DEF Honoured
    <3> QED
      BY <1>1, <1>5, <2>2, <3>1
  <2> QED
    BY <2>1, <2>2
<1> QED
  BY <1>6, <1>7, <1>9, <1>10 DEF Honoured

(* The head that is taken was the only one of its id.                      *)
LEMMA TakenHonoured ==
  ASSUME TasksInv, Honoured, TakeQueued
  PROVE  Honoured'
<1>1. /\ queue # <<>> /\ queue' = Tail(queue)
      /\ latest' = [id \in Ids |-> IF id = queue[1].id THEN None ELSE latest[id]]
  BY DEF TakeQueued, HeadDue
<1>4. Entries(queue) = Entries(queue') \cup {queue[1]}
  BY <1>1, TailEntries DEF TasksInv
<1>5. \A t \in Entries(queue') : t.id = queue[1].id => t.id = NoId
  BY <1>1, TailEntries DEF TasksInv
<1>6. Cardinality(Positions(queue', WithoutId)) <= MaxOneShots
  <2> DEFINE c == Cardinality(Positions(queue, WithoutId))
             k == Cardinality(Positions(queue', WithoutId))
  <2>1. /\ k = IF queue[1] \in WithoutId THEN c - 1 ELSE c
        /\ c \in Nat
    BY <1>1, TailCount DEF TasksInv
  <2>2. c <= MaxOneShots /\ MaxOneShots \in Nat
    BY BoundsAssumption DEF Honoured
  <2> HIDE DEF c, k
  <2>3. k = c - 1 \/ k = c
    BY <2>1
  <2>4. k <= MaxOneShots
    BY <2>1, <2>2, <2>3
  <2> QED
    BY <2>4 DEF k
<1>7. latest' \in [Ids -> TimedThunk \cup {None}]
  BY <1>1 DEF Honoured
<1>8. \A d \in Ids : \A t \in Entries(queue') : t.id = d => t = latest'[d]
  BY <1>1, <1>4, <1>5, IdsAssumption DEF Honoured
<1>9. \A d \in Ids : latest'[d] # None => \E t \in Entries(queue') : t.id = d
  BY <1>1, <1>4 DEF Honoured
<1> QED
  BY <1>6, <1>7, <1>8, <1>9 DEF Honoured

(* With a spare node each step keeps the last request of each id queued.   *)
LEMMA StepHonoured ==
  ASSUME TasksInv, Honoured, Room, [Next]_vars
  PROVE  Honoured'
<1>1. CASE UNCHANGED <<queue, latest>>
  BY <1>1 DEF Honoured
<1>2. ASSUME NEW delay \in 0 .. Horizon, NEW thunk \in Thunks, NEW id \in Ids \cup {NoId},
             RunIn(delay, thunk, id)
      PROVE  Honoured'
  BY <1>2, RequestHonoured
<1>3. CASE TakeQueued
  BY <1>3, TakenHonoured
<1>4. CASE Tick \/ EnterLoop \/ TakeInterruptThunk \/ LeaveLoop \/ ThunkReturns
  BY <1>1, <1>4 DEF Tick, EnterLoop, TakeInterruptThunk, LeaveLoop, ThunkReturns
<1>5. ASSUME NEW thunk \in IsrThunks, Interrupt(thunk) PROVE Honoured'
  BY <1>1, <1>5 DEF Interrupt
<1>6. CASE UNCHANGED vars
  BY <1>1, <1>6 DEF vars
<1> QED
  BY <1>2, <1>3, <1>4, <1>5, <1>6 DEF Next, GetThunk

(* Nothing was asked for at first.                                         *)
LEMMA InitHonoured == Init => Honoured
<1> SUFFICES ASSUME Init PROVE Honoured
  OBVIOUS
<1>1. /\ DOMAIN queue = {} /\ Positions(queue, WithoutId) = {} /\ Entries(queue) = {}
      /\ latest = [id \in Ids |-> None]
  BY DEF Init, Positions, Entries
<1> QED
  BY <1>1, FS_EmptySet, BoundsAssumption DEF Honoured

(* What is queued under an id is what its owner asked for last, whatever   *)
(* the clock, the callers, the callbacks and interrupts do, as long as the *)
(* pool has a node more than there are ids and entries without one (the    *)
(* run of the full queue shows that it is needed).                         *)
THEOREM LastRequestQueued ==
  ASSUME Room PROVE Spec => []RequestsHonoured
<1>1. TasksInv /\ Honoured /\ [Next]_vars => Honoured'
  BY StepHonoured
<1>2. TasksInv /\ Honoured => RequestsHonoured
  <2> SUFFICES ASSUME TasksInv, Honoured, NEW id \in Ids
               PROVE  { queue[i] : i \in { j \in DOMAIN queue : queue[j].id = id } } =
                        IF latest[id] = None THEN {} ELSE {latest[id]}
    BY DEF RequestsHonoured
  <2>1. { queue[i] : i \in { j \in DOMAIN queue : queue[j].id = id } } =
          { t \in Entries(queue) : t.id = id }
    BY DEF Entries
  <2>2. \A t \in Entries(queue) : t \in TimedThunk
    BY EntryTypes DEF TasksInv, Entries
  <2> QED
    BY <2>1, <2>2, SlotAssumption DEF Honoured
<1> QED
  BY <1>1, <1>2, InitHonoured, SpecTasksInv, PTL DEF Spec
=============================================================================
