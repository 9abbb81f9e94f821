----------------------------- MODULE TimedQueue -----------------------------
(***************************************************************************)
(* What og3::TaskQueue promises: a bounded list of callbacks, sorted by    *)
(* the wrapping clock.  `now' is the clock of the callers.                 *)
(***************************************************************************)
EXTENDS TimedThunks

VARIABLES queue, now
vars == <<queue, now>>

TypeInv == now \in Time /\ queue \in Seq(TimedThunk) /\ Len(queue) <= Capacity

Init == queue = <<>> /\ now = 0

(* The clock advances while no queued entry is as late as it may get.      *)
Tick == /\ \A i \in DOMAIN queue : Age(now, queue[i].msec) > 0
        /\ now' = Plus(now, 1)
        /\ UNCHANGED queue

(* Fault: a delay taken for a time.                                        *)
RequestAbsolute(delay, thunk, id) == [msec |-> delay, thunk |-> thunk, id |-> id]

Request(delay, thunk, id) == [msec |-> Plus(now, delay), thunk |-> thunk, id |-> id]

Insert(delay, thunk, id) ==
  /\ queue' = Inserted(queue, Request(delay, thunk, id))
  /\ UNCHANGED now

InsertReplace(delay, thunk, id) ==
  /\ queue' = InsertedReplacing(queue, Request(delay, thunk, id))
  /\ UNCHANGED now

RemoveId(id) == queue' = Removed(queue, id) /\ UNCHANGED now

(* popFirst(), and runNext(), which runs what it pops.                     *)
PopFirst == queue # <<>> /\ queue' = Tail(queue) /\ UNCHANGED now
PopLast == queue # <<>> /\ queue' = Front(queue) /\ UNCHANGED now

Next ==
  \/ Tick
  \/ \E delay \in 0 .. Horizon, thunk \in Thunks, id \in Ids \cup {NoId} :
       Insert(delay, thunk, id) \/ InsertReplace(delay, thunk, id)
  \/ \E id \in Ids : RemoveId(id)
  \/ PopFirst
  \/ PopLast

Spec == Init /\ [][Next]_vars
-----------------------------------------------------------------------------
(* No two queued callbacks share an id: every caller that schedules under  *)
(* the id of its TaskIdScheduler has at most one callback waiting.         *)
UniqueIds ==
  \A i, j \in DOMAIN queue :
    queue[i].id = queue[j].id /\ queue[i].id # NoId => i = j

(* The list stays sorted by the wrapping clock, also across the wrap and   *)
(* however late the head is: the head, the only entry the main loop looks  *)
(* at, is never behind an entry that is due before it.                     *)
Sorted == \A i, j \in DOMAIN queue : i < j => IsBefore(queue[i].msec, queue[j].msec)

(* Queued times stay inside the window around the clock.                   *)
InWindow == \A i \in DOMAIN queue : Age(now, queue[i].msec) <= Horizon + Lateness

(* The list r is the full list q with one entry given up for a new one: of *)
(* the same id, or the last of the list, when the new one is due no later. *)
Evicts(q, r) ==
  \E i, j \in DOMAIN q :
    /\ RemoveAt(r, i) = RemoveAt(q, j)
    /\ \/ r[i].id # NoId /\ r[i].id = q[j].id
       \/ j = Capacity /\ IsBefore(r[i].msec, q[j].msec)

(* A full queue gives up an entry for a new one only to the same id, or to *)
(* an earlier (or equally early) entry, and then it is the latest it loses *)
(* (insertReplace() with every node of the pool in use).                   *)
EvictsOnlyLatest ==
  [][ Full(queue) /\ Full(queue') /\ queue' # queue => Evicts(queue, queue') ]_vars
=============================================================================
