----------------------------- MODULE RingBuffer -----------------------------
(***************************************************************************)
(* og3::RingQueue and og3::SortedRing on og3::RingBufferBase: an array     *)
(* whose first element moves, used as a deque or as a sorted list.  An     *)
(* element is a pair of a key, which operator< compares, and a tag.        *)
(***************************************************************************)
EXTENDS Integers, Sequences, SequencesExt

CONSTANTS RingCapacity,   \* CAPACITY
          Elements,       \* pairs <<key, tag>>
          Unset           \* what an element of m_store is before it is assigned

ASSUME RingAssumption ==
  /\ RingCapacity \in Nat \ {0}
  /\ \A e \in Elements : e[1] \in Int

VARIABLES sorted,         \* the ring is a SortedRing
          ring,           \* m_store, m_start_idx and m_size
          items           \* the sequence the caller believes in (history)

ringVars == <<sorted, ring, items>>

Less(a, b) == a[1] < b[1]
-----------------------------------------------------------------------------
(* RingBufferBase, with indices from 0 as in the code.                     *)
Index(r, i) == (r.start + i) % RingCapacity
Element(r, i) == r.store[Index(r, i)]
Put(r, i, e) == [r EXCEPT !.store[Index(r, i)] = e]
Full(r) == r.size = RingCapacity

IncrementStart(r) == [r EXCEPT !.start = (@ + 1) % RingCapacity]
DecrementStart(r) == [r EXCEPT !.start = (@ + (RingCapacity - 1)) % RingCapacity]

(* shift(): the last `num' elements move one place towards the end.        *)
Shift(r, num) ==
  [r EXCEPT !.store = [p \in DOMAIN @ |->
     IF \E i \in r.size - num .. r.size - 1 : i + 1 < RingCapacity /\ Index(r, i + 1) = p
     THEN @[(p + RingCapacity - 1) % RingCapacity] ELSE @[p]]]

(* lshift(): the last `num' elements move one place towards the front.     *)
LShift(r, num) ==
  [r EXCEPT !.store = [p \in DOMAIN @ |->
     IF \E i \in r.size - num .. r.size - 1 : Index(r, i - 1) = p
     THEN @[(p + 1) % RingCapacity] ELSE @[p]]]

Emptied(r) == [r EXCEPT !.start = 0, !.size = 0]

PopFront(r) ==
  CASE r.size = 0 -> r
    [] r.size = 1 -> Emptied(r)
    [] OTHER -> [IncrementStart(r) EXCEPT !.size = @ - 1]

PopBack(r) ==
  CASE r.size = 0 -> r
    [] r.size = 1 -> Emptied(r)
    [] OTHER -> [r EXCEPT !.size = @ - 1]

(* Fault: one element too few is moved.                                    *)
CutShort(r, i) ==
  [IF i = 0 THEN IncrementStart(r) ELSE LShift(r, r.size - i - 2) EXCEPT !.size = @ - 1]

(* The element at i leaves.                                                *)
Cut(r, i) ==
  [IF i = 0 THEN IncrementStart(r) ELSE LShift(r, r.size - i - 1) EXCEPT !.size = @ - 1]

RemoveIndex(r, i) == IF i >= r.size THEN r ELSE Cut(r, i)

(* remove(): the last of the elements that select_fn selects, as the       *)
(* search starts at the back; the header says the first                   *)
(* (ring_buffer.h:65).                                                     *)
RemoveMatch(r, selected) ==
  LET found == { i \in 0 .. r.size - 1 : Element(r, i) \in selected }
      last == CHOOSE i \in found : \A j \in found : j <= i
      cut == Cut(r, last)
  IN  IF found = {} THEN r ELSE IF cut.size = 0 THEN Emptied(cut) ELSE cut
-----------------------------------------------------------------------------
(* RingQueue: a full one overwrites the element at the other end.          *)
PushFront(r, e) ==
  LET at == IF r.size > 0 THEN DecrementStart(r) ELSE r
  IN  [Put(at, 0, e) EXCEPT !.size = IF Full(r) THEN @ ELSE @ + 1]

PushBack(r, e) ==
  IF Full(r) THEN LET at == IncrementStart(r) IN Put(at, r.size - 1, e)
  ELSE [Put(r, r.size, e) EXCEPT !.size = @ + 1]

(* SortedRing::insert(): refused when full, whatever the element is; the   *)
(* header says only if it is also out of range (ring_buffer.h:126).        *)
SortedInsert(r, e) ==
  LET before == { i \in 0 .. r.size - 1 : Less(Element(r, i), e) }
      moved == r.size - (IF before = {} THEN 0
                         ELSE 1 + CHOOSE i \in before : \A j \in before : j <= i)
  IN  CASE Full(r) -> r
        [] ~Full(r) /\ r.size = 0 -> Put([r EXCEPT !.start = 0, !.size = 1], 0, e)
        [] ~Full(r) /\ r.size > 0 /\ Less(e, Element(r, 0)) ->
             [Put(DecrementStart(r), 0, e) EXCEPT !.size = @ + 1]
        [] ~Full(r) /\ r.size > 0 /\ ~Less(e, Element(r, 0)) ->
             [Put(Shift(r, moved), r.size - moved, e) EXCEPT !.size = @ + 1]
-----------------------------------------------------------------------------
(* What the operations do to a sequence of at most RingCapacity elements.  *)
Kept(s) == IF Len(s) > RingCapacity THEN Front(s) ELSE s
InOrder(s, e) ==
  InsertAt(s, CHOOSE place \in 1 .. Len(s) + 1 :
                \A i \in DOMAIN s : Less(s[i], e) <=> i < place, e)
WithoutLast(s, selected) ==
  LET found == { i \in DOMAIN s : s[i] \in selected }
  IN  IF found = {} THEN s ELSE RemoveAt(s, Max(found))

RingInit ==
  /\ sorted \in BOOLEAN
  /\ ring = [store |-> [p \in 0 .. RingCapacity - 1 |-> Unset], start |-> 0, size |-> 0]
  /\ items = <<>>

Does(r, s) == ring' = r /\ items' = s /\ UNCHANGED sorted

QueuePushFront(e) == ~sorted /\ Does(PushFront(ring, e), Kept(<<e>> \o items))

QueuePushBack(e) ==
  ~sorted /\ Does(PushBack(ring, e),
                  IF Len(items) < RingCapacity THEN Append(items, e) ELSE Append(Tail(items), e))

SortedRingInsert(e) ==
  sorted /\ Does(SortedInsert(ring, e),
                 IF Len(items) < RingCapacity THEN InOrder(items, e) ELSE items)

RingPopFront == Does(PopFront(ring), IF items = <<>> THEN items ELSE Tail(items))

RingPopBack == Does(PopBack(ring), IF items = <<>> THEN items ELSE Front(items))

RingRemoveIndex(i) ==
  Does(RemoveIndex(ring, i), IF i < Len(items) THEN RemoveAt(items, i + 1) ELSE items)

RingRemove(e) ==
  LET sameKey == { x \in Elements : x[1] = e[1] }
  IN  Does(RemoveMatch(ring, sameKey), WithoutLast(items, sameKey))

RingNext ==
  \/ \E e \in Elements :
       QueuePushFront(e) \/ QueuePushBack(e) \/ SortedRingInsert(e) \/ RingRemove(e)
  \/ RingPopFront \/ RingPopBack
  \/ \E i \in 0 .. RingCapacity : RingRemoveIndex(i)

RingSpec == RingInit /\ [][RingNext]_ringVars
-----------------------------------------------------------------------------
Contents(r) == [i \in 1 .. r.size |-> Element(r, i - 1)]

(* Wherever the ring starts in its array and however it came there, it     *)
(* holds the sequence that the same calls make of a list, and a SortedRing *)
(* stays sorted, the newest first among equals (index(), shift(),          *)
(* lshift(), and the special cases for an empty and a full ring).  Where   *)
(* the header says otherwise the list does as the code, in two cases:      *)
(* remove() takes the last of several matches and not the first            *)
(* (ring_buffer.h:65), and a full SortedRing refuses an element that is    *)
(* in its range too (ring_buffer.h:126).                                   *)
RingIsSequence ==
  /\ Contents(ring) = items
  /\ sorted => \A i \in 1 .. ring.size - 1 : ~Less(items[i + 1], items[i])
=============================================================================
