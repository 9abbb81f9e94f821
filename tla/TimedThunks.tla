---------------------------- MODULE TimedThunks ----------------------------
(***************************************************************************)
(* The time-sorted list of callbacks that og3::TaskQueue promises to its   *)
(* users, as a sequence of records: the first element runs first.  These   *)
(* operators say what each call makes of the list; the pool of linked      *)
(* nodes that implements them is module TaskQueue.                         *)
(***************************************************************************)
EXTENDS Millis, SequencesExt

CONSTANTS Capacity,   \* number of nodes in the pool
          Thunks,     \* the callbacks
          Ids,        \* the task ids handed out by getId()
          Horizon,    \* callers schedule at most this many ms ahead ...
          Lateness    \* ... and an entry waits at most this long past its time

NoId == 0             \* the default id: "0 for none"

ASSUME CapacityAssumption == Capacity \in Nat \ {0}
ASSUME IdsAssumption == NoId \notin Ids

(* Together less than half of the clock's range, which is what makes       *)
(* isBefore() an order on the queued times.                                *)
ASSUME WindowAssumption ==
  Horizon \in Nat /\ Lateness \in Nat /\ Horizon + Lateness < HalfRange

(* How far a time is, at the clock value n, from the oldest one that may   *)
(* still be queued.                                                        *)
Age(n, msec) == Minus(Plus(msec, Lateness), n)

TimedThunk == [msec : Time, thunk : Thunks, id : Ids \cup {NoId}]

(* Fault: one entry more than there are nodes.                             *)
FullOffByOne(q) == Len(q) > Capacity

Full(q) == Len(q) = Capacity

(* Fault: the walk of remove() starts behind the head.                     *)
RemovedBehindHead(q, id) ==
  LET found == { i \in DOMAIN q \ {1} : q[i].id = id }
  IN  IF id = NoId \/ found = {} THEN q ELSE RemoveAt(q, Min(found))

(* remove(): the first entry with this id leaves; id 0 never matches.      *)
Removed(q, id) ==
  LET found == { i \in DOMAIN q : q[i].id = id }
  IN  IF id = NoId \/ found = {} THEN q ELSE RemoveAt(q, Min(found))

(* Where a new entry goes: before a head that is not earlier, otherwise in *)
(* front of the first entry the walk finds that is not before it, or last. *)
NotBefore(q, msec) == { i \in DOMAIN q : ~IsBefore(q[i].msec, msec) }

(* Fault: the new entry is placed with a plain comparison of the times.    *)
PlaceUnwrapped(q, msec) ==
  LET notBefore == { i \in DOMAIN q : q[i].msec >= msec }
  IN  IF notBefore = {} THEN Len(q) + 1 ELSE Min(notBefore)

Place(q, msec) ==
  IF q # <<>> /\ IsBefore(msec, q[1].msec) THEN 1
  ELSE IF NotBefore(q, msec) = {} THEN Len(q) + 1
  ELSE Min(NotBefore(q, msec))

Linked(q, e) == InsertAt(q, Place(q, e.msec), e)

(* Fault: a full queue makes room by popFirst().                           *)
InsertedForHead(q, e) ==
  LET kept == Removed(q, e.id)
  IN  IF ~Full(kept) THEN Linked(kept, e)
      ELSE IF IsBefore(Last(q).msec, e.msec) THEN q
      ELSE Linked(Tail(q), e)

(* insertReplace(): the same id is replaced; a full queue drops whichever  *)
(* is later, its tail or the new entry.                                    *)
InsertedReplacing(q, e) ==
  LET kept == Removed(q, e.id)
  IN  IF ~Full(kept) THEN Linked(kept, e)
      ELSE IF IsBefore(Last(q).msec, e.msec) THEN q
      ELSE Linked(Front(q), e)

(* insert(): refused by a full queue, before the id is looked at.          *)
Inserted(q, e) == IF Full(q) THEN q ELSE InsertedReplacing(q, e)
=============================================================================
