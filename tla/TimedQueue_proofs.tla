-------------------------- MODULE TimedQueue_proofs -------------------------
(***************************************************************************)
(* Proofs about TimedQueue: the step from each action to the lemma about   *)
(* the list is short.                                                      *)
(***************************************************************************)
EXTENDS TimedQueue, TimedThunks_proofs

-----------------------------------------------------------------------------
(* The inductive invariant of the specification.  Sorted alone is not      *)
(* inductive: a tick would break it for a list that is out of the window,  *)
(* where isBefore() is no order, and the window is kept only because       *)
(* callers stay within Horizon and the loop within Lateness.               *)
IInv == now \in Time /\ WellFormed(now, queue) /\ Len(queue) <= Capacity

(* The queue is constructed empty.                                         *)
LEMMA InitIInv == Init => IInv
<1> SUFFICES ASSUME Init PROVE IInv
  OBVIOUS
<1>1. now \in Time
  BY Constants DEF Init, Time
<1>2. queue \in Seq(TimedThunk) /\ Len(queue) = 0
  BY EmptySeq DEF Init
<1>3. WellFormed(now, queue)
  BY <1>2 DEF WellFormed
<1> QED
  BY <1>1, <1>2, <1>3, Constants DEF IInv

(* Every call on the queue, and every tick, preserves the invariant.       *)
LEMMA StepIInv == IInv /\ [Next]_vars => IInv'
<1> SUFFICES ASSUME IInv, [Next]_vars
             PROVE  IInv'
  OBVIOUS
<1> USE DEF IInv
<1>1. /\ Len(queue) \in Nat /\ DOMAIN queue = 1 .. Len(queue)
      /\ \A i \in 1 .. Len(queue) : queue[i].msec \in Time
  BY EntryTypes
<1>2. CASE Tick
  <2>1. \A i \in 1 .. Len(queue) : Age(now, queue[i].msec) > 0
    BY <1>1, <1>2 DEF Tick
  <2>2. Plus(now, 1) \in Time /\ WellFormed(Plus(now, 1), queue)
    BY <2>1, TickWellFormed
  <2> QED
    BY <1>2, <2>2 DEF Tick
<1>3. ASSUME NEW delay \in 0 .. Horizon, NEW thunk \in Thunks, NEW id \in Ids \cup {NoId},
             Insert(delay, thunk, id) \/ InsertReplace(delay, thunk, id)
      PROVE  IInv'
  <2> DEFINE e == Request(delay, thunk, id)
  <2>1. e \in TimedThunk /\ Age(now, e.msec) <= Horizon + Lateness
    BY RequestFits DEF Request
  <2> HIDE DEF e
  <2>2. /\ WellFormed(now, InsertedReplacing(queue, e))
        /\ Len(InsertedReplacing(queue, e)) <= Capacity
        /\ WellFormed(now, Inserted(queue, e))
        /\ Len(Inserted(queue, e)) <= Capacity
    BY <2>1, InsertionWellFormed
  <2>3. now' = now /\ queue' \in {Inserted(queue, e), InsertedReplacing(queue, e)}
    BY <1>3 DEF Insert, InsertReplace, e
  <2> QED
    BY <2>2, <2>3
<1>4. ASSUME NEW id \in Ids, RemoveId(id)
      PROVE  IInv'
  <2>1. WellFormed(now, Removed(queue, id)) /\ Len(Removed(queue, id)) <= Len(queue)
    BY RemovedWellFormed
  <2>2. Len(Removed(queue, id)) \in Nat
    BY <2>1, EntryTypes
  <2>3. Len(Removed(queue, id)) <= Capacity
    BY <1>1, <2>1, <2>2, Constants
  <2> QED
    BY <1>4, <2>1, <2>3 DEF RemoveId
<1>5. CASE PopFirst \/ PopLast
  <2>1. PICK i \in 1 .. Len(queue) : queue' = RemoveAt(queue, i)
    <3>1. queue # <<>> /\ queue \in Seq(TimedThunk)
      BY <1>5 DEF PopFirst, PopLast, WellFormed
    <3>2. Len(queue) \in 1 .. Len(queue) /\ 1 \in 1 .. Len(queue)
      BY <3>1, EndsAreRemovals
    <3> QED
      BY <1>5, <3>1, <3>2, EndsAreRemovals DEF PopFirst, PopLast
  <2>2. WellFormed(now, queue') /\ Len(queue') = Len(queue) - 1
    BY <2>1, RemovalWellFormed
  <2>3. Len(queue') <= Capacity
    BY <1>1, <2>2, Constants
  <2>4. now' = now
    BY <1>5 DEF PopFirst, PopLast
  <2> QED
    BY <2>2, <2>3, <2>4
<1>6. CASE UNCHANGED vars
  BY <1>6 DEF vars
<1> QED
  BY <1>2, <1>3, <1>4, <1>5, <1>6 DEF Next

(* The four properties of TimedQueue follow from the invariant.            *)
LEMMA IInvImplies == IInv => TypeInv /\ InWindow /\ Sorted /\ UniqueIds
<1> SUFFICES ASSUME IInv PROVE TypeInv /\ InWindow /\ Sorted /\ UniqueIds
  OBVIOUS
<1>1. /\ queue \in Seq(TimedThunk) /\ DOMAIN queue = 1 .. Len(queue)
      /\ \A i \in 1 .. Len(queue) : queue[i].msec \in Time
  BY EntryTypes DEF IInv, WellFormed
<1>2. TypeInv
  BY <1>1 DEF IInv, TypeInv
<1>3. InWindow
  BY <1>1 DEF IInv, WellFormed, InWindow
<1>4. Sorted
  <2> SUFFICES ASSUME NEW i \in 1 .. Len(queue), NEW j \in 1 .. Len(queue), i < j
               PROVE  IsBefore(queue[i].msec, queue[j].msec)
    BY <1>1 DEF Sorted
  <2>1. /\ Age(now, queue[i].msec) <= Horizon + Lateness
        /\ Age(now, queue[j].msec) <= Horizon + Lateness
        /\ Age(now, queue[i].msec) <= Age(now, queue[j].msec)
    BY DEF IInv, WellFormed
  <2> QED
    BY <1>1, <2>1, BeforeIsByAge DEF IInv
<1>5. UniqueIds
  BY <1>1 DEF IInv, WellFormed, UniqueIds
<1> QED
  BY <1>2, <1>3, <1>4, <1>5

(* The invariant holds in every reachable state.                           *)
LEMMA SpecIInv == Spec => []IInv
BY InitIInv, StepIInv, PTL DEF Spec

-----------------------------------------------------------------------------
(* The list holds at most Capacity well-typed entries.                     *)
THEOREM TypeCorrect == Spec => []TypeInv
BY SpecIInv, IInvImplies, PTL

(* Every queued time stays within the window around the clock: the fact    *)
(* about the callers and the loop on which isBefore() relies.              *)
THEOREM StaysInWindow == Spec => []InWindow
BY SpecIInv, IInvImplies, PTL

(* The list is sorted by isBefore(), across every wrap of the clock: the   *)
(* entry the loop looks at is never behind one that is due before it.      *)
THEOREM AlwaysSorted == Spec => []Sorted
BY SpecIInv, IInvImplies, PTL

(* insertReplace() and remove() keep at most one entry for each id.        *)
THEOREM AtMostOnePerId == Spec => []UniqueIds
BY SpecIInv, IInvImplies, PTL

-----------------------------------------------------------------------------
(* insertReplace() on a full list gives up one entry, as Evicts says.      *)
LEMMA InsertionEvicts ==
  ASSUME NEW n \in Time, NEW q, WellFormed(n, q), Full(q),
         NEW e \in TimedThunk, Age(n, e.msec) <= Horizon + Lateness,
         Full(InsertedReplacing(q, e)), InsertedReplacing(q, e) # q
  PROVE  Evicts(q, InsertedReplacing(q, e))
<1> DEFINE r == InsertedReplacing(q, e)
<1>1. /\ q \in Seq(TimedThunk) /\ Len(q) = Capacity /\ DOMAIN q = 1 .. Capacity
      /\ Capacity \in Nat /\ Capacity > 0 /\ e.msec \in Time
  BY EntryTypes, Constants DEF WellFormed, Full, TimedThunk
(* Linking e into a well-formed list that is q without its entry j.        *)
<1>2. ASSUME NEW kept, WellFormed(n, kept), r = Linked(kept, e),
             NEW j \in 1 .. Capacity, kept = RemoveAt(q, j)
      PROVE  \E i \in DOMAIN q : RemoveAt(r, i) = RemoveAt(q, j) /\ r[i] = e
  <2>1. kept \in Seq(TimedThunk) /\ Place(kept, e.msec) \in 1 .. Len(kept) + 1
    BY <1>1, <1>2, PlaceProperties DEF WellFormed
  <2>2. r = InsertAt(kept, Place(kept, e.msec), e)
    BY <1>2 DEF Linked
  <2> QED
    BY <1>1, <1>2, <2>1, <2>2, RemoveUndoesInsert, RemovalWellFormed
<1>3. CASE ~Full(Removed(q, e.id))
  <2>1. r = Linked(Removed(q, e.id), e)
    BY <1>3 DEF InsertedReplacing
  <2>2. Removed(q, e.id) # q
    BY <1>3
  <2>3. PICK j \in 1 .. Len(q) : /\ e.id # NoId /\ q[j].id = e.id
                                /\ Removed(q, e.id) = RemoveAt(q, j)
    BY <2>2, RemovedCases
  <2>4. PICK i \in DOMAIN q : RemoveAt(r, i) = RemoveAt(q, j) /\ r[i] = e
    BY <1>1, <1>2, <2>1, <2>3, RemovalWellFormed
  <2> QED
    BY <1>1, <2>3, <2>4 DEF Evicts
<1>4. CASE Full(Removed(q, e.id))
  <2>1. r = q \/ (r = Linked(Front(q), e) /\ ~IsBefore(Last(q).msec, e.msec))
    BY <1>4 DEF InsertedReplacing
  <2>2. r = Linked(Front(q), e) /\ ~IsBefore(q[Capacity].msec, e.msec)
    BY <1>1, <2>1 DEF Last
  <2>3. Front(q) = RemoveAt(q, Capacity) /\ Capacity \in 1 .. Capacity
    BY <1>1, EmptySeq, EndsAreRemovals
  <2>4. PICK i \in DOMAIN q : RemoveAt(r, i) = RemoveAt(q, Capacity) /\ r[i] = e
    BY <1>1, <1>2, <2>2, <2>3, RemovalWellFormed
  <2>5. IsBefore(e.msec, q[Capacity].msec)
    <3>1. /\ q[Capacity].msec \in Time
          /\ Age(n, q[Capacity].msec) \in Nat /\ Age(n, e.msec) \in Nat
          /\ Age(n, q[Capacity].msec) <= Horizon + Lateness
      BY <1>1, <2>3, EntryTypes, AgeType DEF WellFormed
    <3>2. ~(Age(n, q[Capacity].msec) <= Age(n, e.msec))
      BY <1>1, <2>2, <3>1, BeforeIsByAge
    <3> QED
      BY <1>1, <3>1, <3>2, BeforeIsByAge
  <2> QED
    BY <1>1, <2>3, <2>4, <2>5 DEF Evicts
<1> QED
  BY <1>3, <1>4

(* Each step from a full list to another full list is such an eviction.    *)
LEMMA StepEvicts ==
  ASSUME IInv, [Next]_vars, Full(queue), Full(queue'), queue' # queue
  PROVE  Evicts(queue, queue')
<1> USE DEF IInv
<1>1. /\ Len(queue) = Capacity /\ Len(queue') = Capacity
      /\ Capacity \in Nat /\ Capacity > 0 /\ queue \in Seq(TimedThunk)
  BY Constants DEF Full, WellFormed
<1>2. ~Tick /\ ~UNCHANGED vars
  BY DEF Tick, vars
(* Whatever takes an entry out and puts none in leaves the list not full.  *)
<1>3. ASSUME NEW i \in 1 .. Len(queue), queue' = RemoveAt(queue, i)
      PROVE  FALSE
  BY <1>1, <1>3, RemovalWellFormed
<1>4. ~(PopFirst \/ PopLast)
  <2>1. queue # <<>> /\ 1 \in 1 .. Len(queue) /\ Len(queue) \in 1 .. Len(queue)
    BY <1>1, EmptySeq
  <2> QED
    BY <1>1, <1>3, <2>1, EndsAreRemovals DEF PopFirst, PopLast
<1>5. ASSUME NEW id \in Ids, RemoveId(id)
      PROVE  FALSE
  <2>1. queue' = Removed(queue, id)
    BY <1>5 DEF RemoveId
  <2>2. PICK i \in 1 .. Len(queue) : queue' = RemoveAt(queue, i)
    BY <2>1, RemovedCases
  <2> QED
    BY <1>3, <2>2
<1>6. ASSUME NEW delay \in 0 .. Horizon, NEW thunk \in Thunks, NEW id \in Ids \cup {NoId},
             Insert(delay, thunk, id) \/ InsertReplace(delay, thunk, id)
      PROVE  Evicts(queue, queue')
  <2> DEFINE e == Request(delay, thunk, id)
  <2>1. e \in TimedThunk /\ Age(now, e.msec) <= Horizon + Lateness
    BY RequestFits DEF Request
  <2> HIDE DEF e
  <2>2. queue' \in {Inserted(queue, e), InsertedReplacing(queue, e)}
    BY <1>6 DEF Insert, InsertReplace, e
  <2>3. queue' = InsertedReplacing(queue, e)
    BY <2>2 DEF Inserted
  <2> QED
    BY <2>1, <2>3, InsertionEvicts
<1> QED
  BY <1>2, <1>4, <1>5, <1>6 DEF Next

(* A full list gives up an entry for a new one only to the same id, or to  *)
(* an earlier entry and then its last: no callback that is due before the  *)
(* new one is ever dropped (insertReplace() on an exhausted pool).         *)
THEOREM FullEvictsOnlyLatest == Spec => EvictsOnlyLatest
<1>1. IInv /\ [Next]_vars =>
        [ Full(queue) /\ Full(queue') /\ queue' # queue => Evicts(queue, queue') ]_vars
  BY StepEvicts
<1> QED
  BY <1>1, SpecIInv, PTL DEF Spec, EvictsOnlyLatest
=============================================================================
