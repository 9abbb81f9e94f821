----------------------------- MODULE TaskQueue -----------------------------
(***************************************************************************)
(* og3::TaskQueue: a fixed pool of nodes that carries two lists, the       *)
(* doubly-linked list of the scheduled callbacks and the singly-linked     *)
(* list of the free nodes.  `pool' is the C++ object; each operator below  *)
(* is one of its member functions, from a pool to the pool it leaves.      *)
(***************************************************************************)
EXTENDS TimedThunks

CONSTANT NullThunk             \* the thunk of a node that was never used

VARIABLES pool, now
vars == <<pool, now>>

Nil == -1                      \* kInvalidIdx
Nodes == 0 .. Capacity - 1

Pool == [data : [Nodes -> TimedThunk \cup [msec : {0}, thunk : {NullThunk}, id : {NoId}]],
         prev : [Nodes -> Nodes \cup {Nil}],
         next : [Nodes -> Nodes \cup {Nil}],
         head : Nodes \cup {Nil},
         tail : Nodes \cup {Nil},
         free : Nodes \cup {Nil},
         size : 0 .. Capacity]

TypeInv == pool \in Pool /\ now \in Time

(* Fault: the free list runs past the last node.                           *)
NewPoolOffByOne ==
  [data |-> [n \in Nodes |-> [msec |-> 0, thunk |-> NullThunk, id |-> NoId]],
   prev |-> [n \in Nodes |-> Nil], next |-> [n \in Nodes |-> n + 1],
   head |-> Nil, tail |-> Nil, free |-> 0, size |-> 0]

(* The constructor threads every node onto the free list.                  *)
NewPool ==
  [data |-> [n \in Nodes |-> [msec |-> 0, thunk |-> NullThunk, id |-> NoId]],
   prev |-> [n \in Nodes |-> Nil],
   next |-> [n \in Nodes |-> IF n + 1 \in Nodes THEN n + 1 ELSE Nil],
   head |-> Nil, tail |-> Nil, free |-> 0, size |-> 0]
-----------------------------------------------------------------------------
AllocNode(p) == [p EXCEPT !.free = p.next[p.free],
                          !.next[p.free] = Nil,
                          !.prev[p.free] = Nil]

FreeNode(p, n) == [p EXCEPT !.next[n] = p.free, !.prev[n] = Nil, !.free = n]

(* Fault: the backward link of the next node is forgotten.                 *)
LinkBeforeOneWay(p, n, before) ==
  LET prv == p.prev[before]
  IN  [p EXCEPT
        !.prev[n] = prv,
        !.next = [m \in Nodes |-> IF m = n THEN before ELSE IF m = prv THEN n ELSE @[m]],
        !.head = IF prv = Nil THEN n ELSE @]

LinkBefore(p, n, before) ==
  LET prv == p.prev[before]
  IN  [p EXCEPT
        !.prev = [@ EXCEPT ![n] = prv, ![before] = n],
        !.next = [m \in Nodes |-> IF m = n THEN before ELSE IF m = prv THEN n ELSE @[m]],
        !.head = IF prv = Nil THEN n ELSE @]

LinkAfter(p, n, after) ==
  LET nxt == p.next[after]
  IN  [p EXCEPT
        !.next = [@ EXCEPT ![n] = nxt, ![after] = n],
        !.prev = [m \in Nodes |-> IF m = n THEN after ELSE IF m = nxt THEN n ELSE @[m]],
        !.tail = IF nxt = Nil THEN n ELSE @]

Unlink(p, n) ==
  LET prv == p.prev[n]
      nxt == p.next[n]
  IN  [p EXCEPT
        !.next = [m \in Nodes |-> IF m = prv THEN nxt ELSE @[m]],
        !.prev = [m \in Nodes |-> IF m = nxt THEN prv ELSE @[m]],
        !.head = IF prv = Nil THEN nxt ELSE @,
        !.tail = IF nxt = Nil THEN prv ELSE @]

(* Fault: the node is not given back.                                      *)
ReleasedLeaking(p, n) == [Unlink(p, n) EXCEPT !.size = @ - 1]

(* The three statements every removal ends with.                           *)
Released(p, n) == [FreeNode(Unlink(p, n), n) EXCEPT !.size = @ - 1]

(* The loop that goes on while curr is a node and not one of `stops': at   *)
(* most one iteration per node.                                            *)
Walk(p, stops) ==
  LET curr[k \in 0 .. Capacity] ==
        IF k = 0 THEN p.head
        ELSE IF curr[k - 1] \in {Nil} \cup stops THEN curr[k - 1]
        ELSE p.next[curr[k - 1]]
  IN  curr[Capacity]

NodeWithId(p, id) == IF id = NoId THEN Nil ELSE Walk(p, {n \in Nodes : p.data[n].id = id})

RemovedId(p, id) ==
  LET n == NodeWithId(p, id) IN IF n = Nil THEN p ELSE Released(p, n)

PoppedFirst(p) == Released(p, p.head)
PoppedLast(p) == Released(p, p.tail)

(* Step 3 of insertReplace(): node n, off both lists, takes its place.     *)
Placed(p, n) ==
  LET msec == p.data[n].msec
      curr == Walk(p, {m \in Nodes : ~IsBefore(p.data[m].msec, msec)})
  IN  IF p.size = 0 THEN [p EXCEPT !.head = n, !.tail = n]
      ELSE IF IsBefore(msec, p.data[p.head].msec) THEN LinkBefore(p, n, p.head)
      ELSE IF ~IsBefore(msec, p.data[p.tail].msec) \/ curr = Nil THEN LinkAfter(p, n, p.tail)
      ELSE LinkBefore(p, n, curr)

(* Steps 2 and 3; nothing is added when no node is free.                   *)
Added(p, e) ==
  LET n == p.free
      filled == [AllocNode(p) EXCEPT !.data[n] = e]
  IN  IF n = Nil THEN p ELSE [Placed(filled, n) EXCEPT !.size = @ + 1]

(* Fault: a full queue drops its tail before the same id is removed.       *)
InsertReplacedLate(p, e) ==
  IF p.size < Capacity THEN Added(RemovedId(p, e.id), e)
  ELSE IF IsBefore(p.data[p.tail].msec, e.msec) THEN p
  ELSE Added(RemovedId(PoppedLast(p), e.id), e)

InsertReplaced(p, e) ==
  LET kept == RemovedId(p, e.id)
  IN  IF kept.size < Capacity THEN Added(kept, e)
      ELSE IF IsBefore(p.data[p.tail].msec, e.msec) THEN p
      ELSE Added(PoppedLast(p), e)

InsertedUnlessFull(p, e) == IF p.size = Capacity THEN p ELSE InsertReplaced(p, e)
-----------------------------------------------------------------------------
(* The nodes of the list in order, and what they hold (thunk(idx)).        *)
Order(p) ==
  LET hop[i \in 1 .. p.size] == IF i = 1 THEN p.head ELSE p.next[hop[i - 1]]
  IN  hop

Listed(p) == [i \in 1 .. p.size |-> p.data[Order(p)[i]]]

Init == pool = NewPool /\ now = 0

Tick == /\ \A i \in 1 .. pool.size : Age(now, Listed(pool)[i].msec) > 0
        /\ now' = Plus(now, 1)
        /\ UNCHANGED pool

Request(delay, thunk, id) == [msec |-> Plus(now, delay), thunk |-> thunk, id |-> id]

Insert(delay, thunk, id) ==
  pool' = InsertedUnlessFull(pool, Request(delay, thunk, id)) /\ UNCHANGED now

InsertReplace(delay, thunk, id) ==
  pool' = InsertReplaced(pool, Request(delay, thunk, id)) /\ UNCHANGED now

RemoveById(id) == pool' = RemovedId(pool, id) /\ UNCHANGED now

(* popFirst(), and runNext(), which runs what it pops.                     *)
PopFirst == pool.size > 0 /\ pool' = PoppedFirst(pool) /\ UNCHANGED now
PopLast == pool.size > 0 /\ pool' = PoppedLast(pool) /\ UNCHANGED now

Next ==
  \/ Tick
  \/ \E delay \in 0 .. Horizon, thunk \in Thunks, id \in Ids \cup {NoId} :
       Insert(delay, thunk, id) \/ InsertReplace(delay, thunk, id)
  \/ \E id \in Ids : RemoveById(id)
  \/ PopFirst
  \/ PopLast

Spec == Init /\ [][Next]_vars
-----------------------------------------------------------------------------
(* The free list, in allocation order.                                     *)
FreeOrder(p) ==
  LET hop[i \in 1 .. Capacity - p.size] == IF i = 1 THEN p.free ELSE p.next[hop[i - 1]]
  IN  hop

(* No node of the pool is ever leaked or on both lists: the scheduled and  *)
(* the free list share out the nodes, and the free list ends where the     *)
(* pool says it is full (allocNode() and full() agree).                    *)
NoNodeLeaked ==
  /\ ToSet(Order(pool)) \cup ToSet(FreeOrder(pool)) = Nodes
  /\ (pool.free = Nil) <=> (pool.size = Capacity)

(* The list read backwards from m_tail is the list read forwards from      *)
(* m_head, so popLast() and the walks agree on what is queued.             *)
ReadsBothWays ==
  LET order == Order(pool)
  IN  /\ pool.size = 0 => pool.head = Nil /\ pool.tail = Nil
      /\ pool.size > 0 => /\ pool.prev[pool.head] = Nil /\ pool.next[pool.tail] = Nil
                          /\ pool.tail = order[pool.size]
                          /\ \A i \in 2 .. pool.size : pool.prev[order[i]] = order[i - 1]

(* The linked nodes implement the sorted list of TimedQueue.               *)
TQ == INSTANCE TimedQueue WITH queue <- Listed(pool)
ImplementsTimedQueue == TQ!Spec
=============================================================================
