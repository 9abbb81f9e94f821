------------------------- MODULE TimedThunks_proofs -------------------------
(***************************************************************************)
(* Lemmas about the list of TimedThunks, for every clock range, pool size, *)
(* scheduling window and set of callers, shared by the proofs about every  *)
(* module that keeps such a list.  They speak of an operator               *)
(* WellFormed(n, q) of a clock value n and a list q, one lemma per thing   *)
(* that is done to a list.                                                 *)
(***************************************************************************)
EXTENDS TimedThunks, SequenceTheorems, FiniteSetTheorems, WellFoundedInduction, TLAPS

(* What is assumed of the constants, to be cited as one fact.              *)
LEMMA Constants ==
  /\ Modulus \in Nat /\ Modulus > 1
  /\ Capacity \in Nat /\ Capacity > 0
  /\ Horizon \in Nat /\ Lateness \in Nat
  /\ HalfRange \in Nat /\ 2 * HalfRange <= Modulus - 1
  /\ Horizon + Lateness < HalfRange
<1>1. Modulus \in Nat /\ Modulus > 1
  BY ModulusAssumption
<1>2. HalfRange \in Nat /\ 2 * HalfRange <= Modulus - 1
  BY <1>1 DEF HalfRange
<1> QED
  BY <1>1, <1>2, CapacityAssumption, WindowAssumption

-----------------------------------------------------------------------------
(* The clock.                                                              *)
(* Sums and differences of clock values are clock values.                  *)
LEMMA ClockTypes ==
  ASSUME NEW t \in Time, NEW d \in 0 .. Modulus, NEW u \in Time
  PROVE  Plus(t, d) \in Time /\ Minus(t, u) \in Time
BY Constants DEF Plus, Minus, Time

(* An age is a number of milliseconds below Modulus.                       *)
LEMMA AgeType ==
  ASSUME NEW n \in Time, NEW t \in Time
  PROVE  Age(n, t) \in Nat
BY Constants DEF Age, Plus, Minus, Time

(* A time that is asked for d ms ahead has the age Lateness + d.           *)
LEMMA AgeOfRequest ==
  ASSUME NEW n \in Time, NEW d \in 0 .. Horizon
  PROVE  Plus(n, d) \in Time /\ Age(n, Plus(n, d)) = Lateness + d
BY Constants DEF Age, Plus, Minus, Time

(* A tick of the clock makes every age one less.                           *)
LEMMA AgeAfterTick ==
  ASSUME NEW n \in Time, NEW t \in Time, Age(n, t) > 0
  PROVE  Plus(n, 1) \in Time /\ Age(Plus(n, 1), t) = Age(n, t) - 1
BY Constants DEF Age, Plus, Minus, Time

(* Inside the window isBefore() compares ages: there it is a total order,  *)
(* which it is not on all of Time.                                         *)
LEMMA BeforeIsByAge ==
  ASSUME NEW n \in Time, NEW t \in Time, NEW u \in Time,
         Age(n, t) <= Horizon + Lateness, Age(n, u) <= Horizon + Lateness
  PROVE  IsBefore(t, u) <=> Age(n, t) <= Age(n, u)
BY Constants DEF Age, IsBefore, Plus, Minus, Time

-----------------------------------------------------------------------------
(* Sequences: what RemoveAt, InsertAt, Tail and Front make of a list.      *)
LEMMA RemoveAtProperties ==
  ASSUME NEW S, NEW q \in Seq(S), NEW i \in 1 .. Len(q)
  PROVE  /\ RemoveAt(q, i) \in Seq(S)
         /\ Len(RemoveAt(q, i)) = Len(q) - 1
         /\ \A k \in 1 .. Len(q) - 1 :
              RemoveAt(q, i)[k] = IF k < i THEN q[k] ELSE q[k + 1]
<1> DEFINE front == SubSeq(q, 1, i - 1)
           rest == SubSeq(q, i + 1, Len(q))
<1>1. /\ front \in Seq(S) /\ Len(front) = i - 1
      /\ \A k \in 1 .. i - 1 : front[k] = q[k]
  BY SubSeqProperties, ElementOfSeq, LenProperties
<1>2. /\ rest \in Seq(S) /\ Len(rest) = Len(q) - i
      /\ \A k \in 1 .. Len(q) - i : rest[k] = q[i + k]
  BY SubSeqProperties, ElementOfSeq, LenProperties
<1>3. /\ front \o rest \in Seq(S)
      /\ Len(front \o rest) = Len(front) + Len(rest)
      /\ \A k \in 1 .. Len(front) + Len(rest) :
           (front \o rest)[k] = IF k <= Len(front) THEN front[k] ELSE rest[k - Len(front)]
  BY <1>1, <1>2, ConcatProperties
<1>4. RemoveAt(q, i) = front \o rest
  BY DEF RemoveAt
<1>5. Len(q) \in Nat
  BY LenProperties
<1> HIDE DEF front, rest
<1>6. \A k \in 1 .. Len(q) - 1 :
        (front \o rest)[k] = IF k < i THEN q[k] ELSE q[k + 1]
  <2> SUFFICES ASSUME NEW k \in 1 .. Len(q) - 1
               PROVE  (front \o rest)[k] = IF k < i THEN q[k] ELSE q[k + 1]
    OBVIOUS
  <2>1. CASE k < i
    BY <1>1, <1>2, <1>3, <1>5, <2>1
  <2>2. CASE k >= i
    <3>1. (front \o rest)[k] = rest[k - i + 1]
      BY <1>1, <1>2, <1>3, <1>5, <2>2
    <3>2. k - i + 1 \in 1 .. Len(q) - i /\ i + (k - i + 1) = k + 1
      BY <1>5, <2>2
    <3>3. rest[k - i + 1] = q[i + (k - i + 1)]
      BY <1>2, <3>2
    <3> QED
      BY <2>2, <3>1, <3>2, <3>3
  <2>3. k < i \/ k >= i
    OBVIOUS
  <2> QED
    BY <2>1, <2>2, <2>3
<1>7. Len(front \o rest) = Len(q) - 1
  BY <1>1, <1>2, <1>3, <1>5
<1> QED
  BY <1>3, <1>4, <1>6, <1>7

(* InsertAt puts the entry at its place and moves what is behind it up.    *)
LEMMA InsertAtProperties ==
  ASSUME NEW S, NEW q \in Seq(S), NEW i \in 1 .. Len(q) + 1, NEW e \in S
  PROVE  /\ InsertAt(q, i, e) \in Seq(S)
         /\ Len(InsertAt(q, i, e)) = Len(q) + 1
         /\ \A k \in 1 .. Len(q) + 1 :
              InsertAt(q, i, e)[k] = IF k < i THEN q[k] ELSE IF k = i THEN e ELSE q[k - 1]
<1> DEFINE front == SubSeq(q, 1, i - 1)
           rest == SubSeq(q, i, Len(q))
           left == front \o <<e>>
<1>1. /\ front \in Seq(S) /\ Len(front) = i - 1
      /\ \A k \in 1 .. i - 1 : front[k] = q[k]
  BY SubSeqProperties, ElementOfSeq, LenProperties
<1>2. /\ rest \in Seq(S) /\ Len(rest) = Len(q) - i + 1
      /\ \A k \in 1 .. Len(q) - i + 1 : rest[k] = q[i + k - 1]
  BY SubSeqProperties, ElementOfSeq, LenProperties
<1>3. <<e>> \in Seq(S) /\ Len(<<e>>) = 1 /\ <<e>>[1] = e
  OBVIOUS
<1>4. /\ left \in Seq(S) /\ Len(left) = i
      /\ \A k \in 1 .. i : left[k] = IF k < i THEN q[k] ELSE e
  <2>1. /\ left \in Seq(S) /\ Len(left) = Len(front) + Len(<<e>>)
        /\ \A k \in 1 .. Len(front) + Len(<<e>>) :
             left[k] = IF k <= Len(front) THEN front[k] ELSE <<e>>[k - Len(front)]
    BY <1>1, <1>3, ConcatProperties
  <2> HIDE DEF front, left
  <2> QED
    BY <1>1, <1>3, <2>1
<1>5. /\ left \o rest \in Seq(S)
      /\ Len(left \o rest) = Len(left) + Len(rest)
      /\ \A k \in 1 .. Len(left) + Len(rest) :
           (left \o rest)[k] = IF k <= Len(left) THEN left[k] ELSE rest[k - Len(left)]
  BY <1>2, <1>4, ConcatProperties
<1>6. InsertAt(q, i, e) = left \o rest
  BY DEF InsertAt
<1> HIDE DEF front, rest, left
<1> QED
  BY <1>2, <1>4, <1>5, <1>6, LenProperties

(* popFirst() and popLast() remove the first and the last entry.           *)
LEMMA EndsAreRemovals ==
  ASSUME NEW S, NEW q \in Seq(S), q # <<>>
  PROVE  /\ Len(q) \in Nat \ {0}
         /\ Tail(q) = RemoveAt(q, 1)
         /\ Front(q) = RemoveAt(q, Len(q))
<1>1. Len(q) \in Nat \ {0}
  BY EmptySeq
<1>2. Tail(q) = RemoveAt(q, 1)
  <2>1. /\ Tail(q) \in Seq(S) /\ Len(Tail(q)) = Len(q) - 1
        /\ \A k \in 1 .. Len(q) - 1 : Tail(q)[k] = q[k + 1]
    BY HeadTailProperties
  <2>2. /\ RemoveAt(q, 1) \in Seq(S) /\ Len(RemoveAt(q, 1)) = Len(q) - 1
        /\ \A k \in 1 .. Len(q) - 1 : RemoveAt(q, 1)[k] = q[k + 1]
    BY <1>1, RemoveAtProperties
  <2> QED
    BY <2>1, <2>2, SeqEqual
<1>3. Front(q) = RemoveAt(q, Len(q))
  <2>1. /\ Front(q) \in Seq(S) /\ Len(Front(q)) = Len(q) - 1
        /\ \A k \in 1 .. Len(q) - 1 : Front(q)[k] = q[k]
    BY <1>1, SubSeqProperties, ElementOfSeq DEF Front
  <2>2. /\ RemoveAt(q, Len(q)) \in Seq(S) /\ Len(RemoveAt(q, Len(q))) = Len(q) - 1
        /\ \A k \in 1 .. Len(q) - 1 : RemoveAt(q, Len(q))[k] = q[k]
    BY <1>1, RemoveAtProperties
  <2> QED
    BY <2>1, <2>2, SeqEqual
<1> QED
  BY <1>1, <1>2, <1>3

(* A set of natural numbers that is not empty has a minimum.               *)
LEMMA MinProperties ==
  ASSUME NEW T, T \subseteq Nat, T # {}
  PROVE  Min(T) \in T /\ \A y \in T : Min(T) <= y
<1>1. PICK x \in T : \A y \in T : ~(<<y, x>> \in OpToRel(<, Nat))
  BY NatLessThanWellFounded, WFMin
<1>2. \A y \in T : x <= y
  <2> SUFFICES ASSUME NEW y \in T
               PROVE  x <= y
    OBVIOUS
  <2>1. ~(<<y, x>> \in OpToRel(<, Nat))
    BY <1>1
  <2> QED
    BY <2>1 DEF OpToRel
<1> QED
  BY <1>1, <1>2 DEF Min

-----------------------------------------------------------------------------
(* The inductive invariant, of a clock value n and a list q.  What isBefore*)
(* says of two entries depends on the clock, so the order is stated by the *)
(* ages, and the ages are kept inside the window.                          *)
WellFormed(n, q) ==
  /\ q \in Seq(TimedThunk)
  /\ \A i \in 1 .. Len(q) : Age(n, q[i].msec) <= Horizon + Lateness
  /\ \A i, j \in 1 .. Len(q) : i < j => Age(n, q[i].msec) <= Age(n, q[j].msec)
  /\ \A i, j \in 1 .. Len(q) : q[i].id = q[j].id /\ q[i].id # NoId => i = j

(* What well-formedness says of a single entry.                            *)
LEMMA EntryTypes ==
  ASSUME NEW n \in Time, NEW q, WellFormed(n, q)
  PROVE  /\ Len(q) \in Nat /\ DOMAIN q = 1 .. Len(q)
         /\ \A i \in 1 .. Len(q) : /\ q[i] \in TimedThunk /\ q[i].msec \in Time
                                  /\ Age(n, q[i].msec) \in Nat
<1>1. q \in Seq(TimedThunk)
  BY DEF WellFormed
<1>2. Len(q) \in Nat /\ DOMAIN q = 1 .. Len(q)
  BY <1>1, LenProperties
<1>3. \A i \in 1 .. Len(q) : q[i] \in TimedThunk
  BY <1>1, ElementOfSeq
<1>4. \A i \in 1 .. Len(q) : q[i].msec \in Time
  BY <1>3 DEF TimedThunk
<1> QED
  BY <1>2, <1>3, <1>4, AgeType

(* Taking an entry out of a well-formed list leaves it well-formed.        *)
LEMMA RemovalWellFormed ==
  ASSUME NEW n \in Time, NEW q, WellFormed(n, q), NEW d \in 1 .. Len(q)
  PROVE  WellFormed(n, RemoveAt(q, d)) /\ Len(RemoveAt(q, d)) = Len(q) - 1
<1> DEFINE r == RemoveAt(q, d)
<1>1. q \in Seq(TimedThunk) /\ Len(q) \in Nat
  BY EntryTypes DEF WellFormed
<1>2. /\ r \in Seq(TimedThunk) /\ Len(r) = Len(q) - 1
      /\ \A k \in 1 .. Len(q) - 1 : r[k] = IF k < d THEN q[k] ELSE q[k + 1]
  BY <1>1, RemoveAtProperties
<1> HIDE DEF r
<1>3. ASSUME NEW k \in 1 .. Len(r)
      PROVE  \E a \in 1 .. Len(q) : a = (IF k < d THEN k ELSE k + 1) /\ r[k] = q[a]
  BY <1>1, <1>2
<1>4. \A i \in 1 .. Len(r) : Age(n, r[i].msec) <= Horizon + Lateness
  BY <1>3 DEF WellFormed
<1>5. ASSUME NEW i \in 1 .. Len(r), NEW j \in 1 .. Len(r)
      PROVE  /\ i < j => Age(n, r[i].msec) <= Age(n, r[j].msec)
             /\ r[i].id = r[j].id /\ r[i].id # NoId => i = j
  <2>1. PICK a \in 1 .. Len(q) : a = (IF i < d THEN i ELSE i + 1) /\ r[i] = q[a]
    BY <1>3
  <2>2. PICK b \in 1 .. Len(q) : b = (IF j < d THEN j ELSE j + 1) /\ r[j] = q[b]
    BY <1>3
  <2>3. (i < j => a < b) /\ (a = b => i = j)
    BY <1>1, <1>2, <2>1, <2>2
  <2>4. a < b => Age(n, q[a].msec) <= Age(n, q[b].msec)
    BY DEF WellFormed
  <2>5. q[a].id = q[b].id /\ q[a].id # NoId => a = b
    BY DEF WellFormed
  <2> QED
    BY <2>1, <2>2, <2>3, <2>4, <2>5
<1>6. WellFormed(n, r)
  BY <1>2, <1>4, <1>5 DEF WellFormed
<1> QED
  BY <1>2, <1>6 DEF r

(* remove() leaves no entry with its id.                                   *)
LEMMA RemovedWellFormed ==
  ASSUME NEW n \in Time, NEW q, WellFormed(n, q), NEW id
  PROVE  /\ WellFormed(n, Removed(q, id))
         /\ Len(Removed(q, id)) <= Len(q)
         /\ id # NoId => \A k \in 1 .. Len(Removed(q, id)) : Removed(q, id)[k].id # id
<1> DEFINE found == { i \in DOMAIN q : q[i].id = id }
<1>1. q \in Seq(TimedThunk) /\ Len(q) \in Nat /\ DOMAIN q = 1 .. Len(q)
  BY EntryTypes DEF WellFormed
<1>2. CASE id = NoId \/ found = {}
  <2>1. Removed(q, id) = q
    BY <1>2 DEF Removed
  <2> QED
    BY <1>1, <1>2, <2>1
<1>3. CASE id # NoId /\ found # {}
  <2> DEFINE d == Min(found)
  <2>1. d \in 1 .. Len(q) /\ q[d].id = id
    <3>1. found \subseteq Nat /\ found \subseteq 1 .. Len(q)
      BY <1>1
    <3>2. d \in found
      <4> HIDE DEF found
      <4> QED
        BY <1>3, <3>1, MinProperties
    <3> QED
      BY <3>1, <3>2
  <2>2. Removed(q, id) = RemoveAt(q, d)
    BY <1>3 DEF Removed
  <2> HIDE DEF d
  <2>3. WellFormed(n, RemoveAt(q, d)) /\ Len(RemoveAt(q, d)) = Len(q) - 1
    BY <2>1, RemovalWellFormed
  <2>4. ASSUME NEW k \in 1 .. Len(q) - 1
        PROVE  RemoveAt(q, d)[k].id # id
    <3>1. PICK l \in 1 .. Len(q) : l # d /\ RemoveAt(q, d)[k] = q[l]
      <4>1. RemoveAt(q, d)[k] = IF k < d THEN q[k] ELSE q[k + 1]
        BY <1>1, <2>1, RemoveAtProperties
      <4>2. CASE k < d
        BY <1>1, <4>1, <4>2
      <4>3. CASE ~(k < d)
        BY <1>1, <2>1, <4>1, <4>3
      <4> QED
        BY <4>2, <4>3
    <3>2. q[l].id # q[d].id
      BY <1>3, <2>1, <3>1 DEF WellFormed
    <3> QED
      BY <2>1, <3>1, <3>2
  <2> QED
    BY <1>1, <2>2, <2>3, <2>4
<1> QED
  BY <1>2, <1>3

(* Where an entry inside the window goes: what is in front of its place is *)
(* not later than it, and what is behind it is not earlier.                *)
LEMMA PlaceProperties ==
  ASSUME NEW n \in Time, NEW q, WellFormed(n, q),
         NEW t \in Time, Age(n, t) <= Horizon + Lateness
  PROVE  /\ Place(q, t) \in 1 .. Len(q) + 1
         /\ \A k \in 1 .. Len(q) :
              /\ k < Place(q, t) => Age(n, q[k].msec) <= Age(n, t)
              /\ k >= Place(q, t) => Age(n, t) <= Age(n, q[k].msec)
<1>1. /\ Len(q) \in Nat /\ DOMAIN q = 1 .. Len(q)
      /\ \A k \in 1 .. Len(q) : Age(n, q[k].msec) \in Nat
      /\ Age(n, t) \in Nat
  BY EntryTypes, AgeType
<1>2. ASSUME NEW k \in 1 .. Len(q)
      PROVE  /\ IsBefore(q[k].msec, t) <=> Age(n, q[k].msec) <= Age(n, t)
             /\ IsBefore(t, q[k].msec) <=> Age(n, t) <= Age(n, q[k].msec)
  <2>1. q[k].msec \in Time /\ Age(n, q[k].msec) <= Horizon + Lateness
    BY EntryTypes DEF WellFormed
  <2> QED
    BY <2>1, BeforeIsByAge
<1>3. CASE q # <<>> /\ IsBefore(t, q[1].msec)
  <2>1. Place(q, t) = 1
    BY <1>3 DEF Place
  <2>2. 1 \in 1 .. Len(q)
    BY <1>1, <1>3, EmptySeq DEF WellFormed
  <2>3. ASSUME NEW k \in 1 .. Len(q)
        PROVE  Age(n, t) <= Age(n, q[k].msec)
    <3>1. Age(n, q[1].msec) <= Age(n, q[k].msec)
      BY <1>1, <2>2 DEF WellFormed
    <3> QED
      BY <1>1, <1>2, <1>3, <2>2, <3>1
  <2> QED
    BY <1>1, <2>1, <2>3
<1>4. CASE ~(q # <<>> /\ IsBefore(t, q[1].msec)) /\ NotBefore(q, t) = {}
  <2>1. Place(q, t) = Len(q) + 1
    BY <1>4 DEF Place
  <2>2. \A k \in 1 .. Len(q) : IsBefore(q[k].msec, t)
    BY <1>1, <1>4 DEF NotBefore
  <2> QED
    BY <1>1, <1>2, <2>1, <2>2
<1>5. CASE ~(q # <<>> /\ IsBefore(t, q[1].msec)) /\ NotBefore(q, t) # {}
  <2> DEFINE p == Min(NotBefore(q, t))
  <2>1. Place(q, t) = p
    BY <1>5 DEF Place
  <2>2. NotBefore(q, t) \subseteq 1 .. Len(q) /\ NotBefore(q, t) \subseteq Nat
    BY <1>1 DEF NotBefore
  <2>3. p \in NotBefore(q, t) /\ \A k \in NotBefore(q, t) : p <= k
    BY <1>5, <2>2, MinProperties
  <2> HIDE DEF p
  <2>4. p \in 1 .. Len(q) /\ ~IsBefore(q[p].msec, t)
    BY <2>2, <2>3 DEF NotBefore
  <2>5. ASSUME NEW k \in 1 .. Len(q), k < p
        PROVE  Age(n, q[k].msec) <= Age(n, t)
    <3>1. k \notin NotBefore(q, t)
      BY <1>1, <2>3, <2>4, <2>5
    <3>2. IsBefore(q[k].msec, t)
      BY <1>1, <3>1 DEF NotBefore
    <3> QED
      BY <1>2, <3>2
  <2>6. ASSUME NEW k \in 1 .. Len(q), k >= p
        PROVE  Age(n, t) <= Age(n, q[k].msec)
    <3>1. Age(n, t) <= Age(n, q[p].msec)
      BY <1>1, <1>2, <2>4
    <3>2. Age(n, q[p].msec) <= Age(n, q[k].msec)
      BY <1>1, <2>4, <2>6 DEF WellFormed
    <3> QED
      BY <1>1, <2>4, <3>1, <3>2
  <2> QED
    BY <1>1, <2>1, <2>4, <2>5, <2>6
<1> QED
  BY <1>3, <1>4, <1>5

(* Linking in an entry of a new id, inside the window, at its place.       *)
LEMMA LinkedWellFormed ==
  ASSUME NEW n \in Time, NEW q, WellFormed(n, q),
         NEW e \in TimedThunk, Age(n, e.msec) <= Horizon + Lateness,
         e.id # NoId => \A k \in 1 .. Len(q) : q[k].id # e.id
  PROVE  WellFormed(n, Linked(q, e)) /\ Len(Linked(q, e)) = Len(q) + 1
<1> DEFINE p == Place(q, e.msec)
           r == Linked(q, e)
<1>1. q \in Seq(TimedThunk) /\ Len(q) \in Nat
  BY EntryTypes DEF WellFormed
<1>2. e.msec \in Time
  BY DEF TimedThunk
<1>3. p \in 1 .. Len(q) + 1
  BY <1>2, PlaceProperties
<1>4. ASSUME NEW k \in 1 .. Len(q)
      PROVE  /\ k < p => Age(n, q[k].msec) <= Age(n, e.msec)
             /\ k >= p => Age(n, e.msec) <= Age(n, q[k].msec)
  BY <1>2, PlaceProperties
<1>5. r = InsertAt(q, p, e)
  BY DEF Linked
<1> HIDE DEF p, r
<1>6. /\ r \in Seq(TimedThunk) /\ Len(r) = Len(q) + 1
      /\ \A k \in 1 .. Len(q) + 1 :
           r[k] = IF k < p THEN q[k] ELSE IF k = p THEN e ELSE q[k - 1]
  <2>1. InsertAt(q, p, e) \in Seq(TimedThunk)
    BY <1>1, <1>3, InsertAtProperties
  <2>2. Len(InsertAt(q, p, e)) = Len(q) + 1
    BY <1>1, <1>3, InsertAtProperties
  <2>3. ASSUME NEW k \in 1 .. Len(q) + 1
        PROVE  InsertAt(q, p, e)[k] =
                 IF k < p THEN q[k] ELSE IF k = p THEN e ELSE q[k - 1]
    BY <1>1, <1>3, InsertAtProperties
  <2> QED
    BY <1>5, <2>1, <2>2, <2>3
(* Each position of the new list holds e or an entry of the old one.       *)
<1>7. ASSUME NEW k \in 1 .. Len(r)
      PROVE  \/ k = p /\ r[k] = e
             \/ \E a \in 1 .. Len(q) : /\ k # p /\ a = (IF k < p THEN k ELSE k - 1)
                                      /\ r[k] = q[a]
  <2>1. CASE k < p
    BY <1>1, <1>3, <1>6, <2>1
  <2>2. CASE k = p
    BY <1>1, <1>3, <1>6, <2>2
  <2>3. CASE k > p
    BY <1>1, <1>3, <1>6, <2>3
  <2> QED
    BY <1>1, <1>3, <1>6, <2>1, <2>2, <2>3
<1>8. \A i \in 1 .. Len(r) : Age(n, r[i].msec) <= Horizon + Lateness
  BY <1>7 DEF WellFormed
<1>9. ASSUME NEW i \in 1 .. Len(r), NEW j \in 1 .. Len(r)
      PROVE  /\ i < j => Age(n, r[i].msec) <= Age(n, r[j].msec)
             /\ r[i].id = r[j].id /\ r[i].id # NoId => i = j
  <2>1. CASE i = p /\ j = p
    BY <1>1, <1>6, <2>1
  <2>2. CASE i = p /\ j # p
    <3>1. r[i] = e
      BY <1>7, <2>2
    <3>2. PICK b \in 1 .. Len(q) : b = (IF j < p THEN j ELSE j - 1) /\ r[j] = q[b]
      BY <1>7, <2>2
    <3>3. i < j => b >= p
      BY <1>1, <1>3, <1>6, <2>2, <3>2
    <3>4. b >= p => Age(n, e.msec) <= Age(n, q[b].msec)
      BY <1>4
    <3>5. e.id # NoId => q[b].id # e.id
      OBVIOUS
    <3> QED
      BY <3>1, <3>2, <3>3, <3>4, <3>5
  <2>3. CASE i # p /\ j = p
    <3>1. r[j] = e
      BY <1>7, <2>3
    <3>2. PICK a \in 1 .. Len(q) : a = (IF i < p THEN i ELSE i - 1) /\ r[i] = q[a]
      BY <1>7, <2>3
    <3>3. i < j => a < p
      BY <1>1, <1>3, <1>6, <2>3, <3>2
    <3>4. a < p => Age(n, q[a].msec) <= Age(n, e.msec)
      BY <1>4
    <3>5. e.id # NoId => q[a].id # e.id
      OBVIOUS
    <3> QED
      BY <3>1, <3>2, <3>3, <3>4, <3>5
  <2>4. CASE i # p /\ j # p
    <3>1. PICK a \in 1 .. Len(q) : a = (IF i < p THEN i ELSE i - 1) /\ r[i] = q[a]
      BY <1>7, <2>4
    <3>2. PICK b \in 1 .. Len(q) : b = (IF j < p THEN j ELSE j - 1) /\ r[j] = q[b]
      BY <1>7, <2>4
    <3>3. (i < j => a < b) /\ (a = b => i = j)
      BY <1>1, <1>3, <1>6, <2>4, <3>1, <3>2
    <3>4. a < b => Age(n, q[a].msec) <= Age(n, q[b].msec)
      BY DEF WellFormed
    <3>5. q[a].id = q[b].id /\ q[a].id # NoId => a = b
      BY DEF WellFormed
    <3> QED
      BY <3>1, <3>2, <3>3, <3>4, <3>5
  <2> QED
    BY <2>1, <2>2, <2>3, <2>4
<1>10. WellFormed(n, r)
  BY <1>6, <1>8, <1>9 DEF WellFormed
<1> QED
  BY <1>6, <1>10 DEF r

(* insertReplace() and insert() keep a list well-formed and in the pool.   *)
LEMMA InsertionWellFormed ==
  ASSUME NEW n \in Time, NEW q, WellFormed(n, q), Len(q) <= Capacity,
         NEW e \in TimedThunk, Age(n, e.msec) <= Horizon + Lateness
  PROVE  /\ WellFormed(n, InsertedReplacing(q, e)) /\ Len(InsertedReplacing(q, e)) <= Capacity
         /\ WellFormed(n, Inserted(q, e)) /\ Len(Inserted(q, e)) <= Capacity
<1> DEFINE kept == Removed(q, e.id)
<1>1. Len(q) \in Nat /\ Capacity \in Nat /\ Capacity > 0
  BY EntryTypes, Constants
<1>2. /\ WellFormed(n, kept) /\ Len(kept) <= Len(q)
      /\ e.id # NoId => \A k \in 1 .. Len(kept) : kept[k].id # e.id
  BY RemovedWellFormed
<1>3. Len(kept) \in Nat
  BY <1>2, EntryTypes
<1>4. WellFormed(n, Linked(kept, e)) /\ Len(Linked(kept, e)) = Len(kept) + 1
  BY <1>2, LinkedWellFormed
(* With kept full nothing was removed, so no entry of q has the id of e.   *)
<1>5. CASE Full(kept)
  <2>1. kept = q
    <3>1. Len(kept) = Len(q)
      BY <1>1, <1>2, <1>3, <1>5 DEF Full
    <3>2. CASE e.id = NoId \/ { i \in DOMAIN q : q[i].id = e.id } = {}
      BY <3>2 DEF Removed
    <3>3. CASE ~(e.id = NoId \/ { i \in DOMAIN q : q[i].id = e.id } = {})
      <4> DEFINE d == Min({ i \in DOMAIN q : q[i].id = e.id })
      <4>1. kept = RemoveAt(q, d)
        BY <3>3 DEF Removed
      <4>2. d \in 1 .. Len(q)
        <5> DEFINE found == { i \in DOMAIN q : q[i].id = e.id }
        <5>1. found \subseteq 1 .. Len(q) /\ found \subseteq Nat /\ found # {}
          BY <3>3, EntryTypes
        <5> HIDE DEF found
        <5>2. Min(found) \in 1 .. Len(q)
          BY <5>1, MinProperties
        <5> QED
          BY <5>2 DEF found
      <4> HIDE DEF d
      <4>3. Len(kept) = Len(q) - 1
        BY <4>1, <4>2, RemovalWellFormed
      <4> QED
        BY <1>1, <3>1, <4>3
    <3> QED
      BY <3>2, <3>3
  <2>2. q # <<>> /\ Front(q) = RemoveAt(q, Len(q)) /\ Len(q) \in 1 .. Len(q)
    <3>1. Len(q) = Capacity
      BY <1>5, <2>1 DEF Full
    <3>2. q # <<>>
      BY <1>1, <3>1, EmptySeq
    <3> QED
      BY <1>1, <3>1, <3>2, EndsAreRemovals DEF WellFormed
  <2>3. WellFormed(n, Front(q)) /\ Len(Front(q)) = Len(q) - 1
    BY <2>2, RemovalWellFormed
  <2>4. e.id # NoId => \A k \in 1 .. Len(Front(q)) : Front(q)[k].id # e.id
    <3>1. \A k \in 1 .. Len(q) - 1 : Front(q)[k] = q[k]
      BY <1>1, <2>2, RemoveAtProperties DEF WellFormed
    <3> QED
      BY <1>1, <1>2, <2>1, <2>3, <3>1
  <2>5. WellFormed(n, Linked(Front(q), e)) /\ Len(Linked(Front(q), e)) = Len(q)
    BY <1>1, <2>3, <2>4, LinkedWellFormed
  <2>6. InsertedReplacing(q, e) \in {q, Linked(Front(q), e)}
    BY <1>5 DEF InsertedReplacing
  <2>7. Inserted(q, e) = q
    BY <1>5, <2>1 DEF Inserted
  <2> QED
    BY <2>5, <2>6, <2>7
<1>6. CASE ~Full(kept)
  <2>1. InsertedReplacing(q, e) = Linked(kept, e)
    BY <1>6 DEF InsertedReplacing
  <2>2. Len(kept) < Capacity
    BY <1>1, <1>2, <1>3, <1>6 DEF Full
  <2>3. Inserted(q, e) \in {q, InsertedReplacing(q, e)}
    BY DEF Inserted
  <2> QED
    BY <1>1, <1>3, <1>4, <2>1, <2>2, <2>3
<1> QED
  BY <1>5, <1>6

(* A tick of the clock leaves a list well-formed whose entries may wait    *)
(* longer.                                                                 *)
LEMMA TickWellFormed ==
  ASSUME NEW n \in Time, NEW q, WellFormed(n, q),
         \A i \in 1 .. Len(q) : Age(n, q[i].msec) > 0
  PROVE  Plus(n, 1) \in Time /\ WellFormed(Plus(n, 1), q)
<1>1. \A i \in 1 .. Len(q) : q[i].msec \in Time
  BY EntryTypes
<1>2. /\ Plus(n, 1) \in Time
      /\ \A i \in 1 .. Len(q) :
           /\ Age(n, q[i].msec) \in Nat
           /\ Age(Plus(n, 1), q[i].msec) = Age(n, q[i].msec) - 1
  <2>1. Plus(n, 1) \in Time
    BY ClockTypes, Constants
  <2> QED
    BY <1>1, <2>1, AgeType, AgeAfterTick
<1>3. \A i \in 1 .. Len(q) : Age(Plus(n, 1), q[i].msec) <= Horizon + Lateness
  BY <1>2, Constants DEF WellFormed
<1>4. \A i, j \in 1 .. Len(q) :
        i < j => Age(Plus(n, 1), q[i].msec) <= Age(Plus(n, 1), q[j].msec)
  BY <1>2 DEF WellFormed
<1> QED
  BY <1>2, <1>3, <1>4 DEF WellFormed

(* What is asked for in time fits into the window.                         *)
LEMMA RequestFits ==
  ASSUME NEW n \in Time, NEW delay \in 0 .. Horizon, NEW thunk \in Thunks,
         NEW id \in Ids \cup {NoId}
  PROVE  LET e == [msec |-> Plus(n, delay), thunk |-> thunk, id |-> id]
         IN  e \in TimedThunk /\ Age(n, e.msec) <= Horizon + Lateness
BY AgeOfRequest, Constants DEF TimedThunk

(* Taking out what was just linked in gives back the list.                 *)
LEMMA RemoveUndoesInsert ==
  ASSUME NEW S, NEW q \in Seq(S), NEW p \in 1 .. Len(q) + 1, NEW e \in S
  PROVE  /\ RemoveAt(InsertAt(q, p, e), p) = q
         /\ InsertAt(q, p, e)[p] = e
<1> DEFINE r == InsertAt(q, p, e)
<1>1. Len(q) \in Nat
  BY LenProperties
<1>2. /\ r \in Seq(S) /\ Len(r) = Len(q) + 1
      /\ \A k \in 1 .. Len(q) + 1 :
           r[k] = IF k < p THEN q[k] ELSE IF k = p THEN e ELSE q[k - 1]
  <2>1. InsertAt(q, p, e) \in Seq(S)
    BY InsertAtProperties
  <2>2. Len(InsertAt(q, p, e)) = Len(q) + 1
    BY InsertAtProperties
  <2>3. ASSUME NEW k \in 1 .. Len(q) + 1
        PROVE  InsertAt(q, p, e)[k] =
                 IF k < p THEN q[k] ELSE IF k = p THEN e ELSE q[k - 1]
    BY <1>1, InsertAtProperties, SMTT(30)
  <2> QED
    BY <2>1, <2>2, <2>3
<1> HIDE DEF r
<1>3. p \in 1 .. Len(r) /\ r[p] = e
  BY <1>1, <1>2
<1>4. /\ RemoveAt(r, p) \in Seq(S) /\ Len(RemoveAt(r, p)) = Len(r) - 1
      /\ \A k \in 1 .. Len(r) - 1 :
           RemoveAt(r, p)[k] = IF k < p THEN r[k] ELSE r[k + 1]
  BY <1>2, <1>3, RemoveAtProperties
<1>5. ASSUME NEW k \in 1 .. Len(q)
      PROVE  RemoveAt(r, p)[k] = q[k]
  <2>1. RemoveAt(r, p)[k] = IF k < p THEN r[k] ELSE r[k + 1]
    BY <1>1, <1>2, <1>4
  <2>2. CASE k < p
    BY <1>1, <1>2, <2>1, <2>2
  <2>3. CASE ~(k < p)
    <3>1. r[k + 1] = q[k + 1 - 1] /\ k + 1 - 1 = k
      BY <1>1, <1>2, <2>3
    <3> QED
      BY <2>1, <2>3, <3>1
  <2> QED
    BY <2>2, <2>3
<1>6. RemoveAt(r, p) = q
  <2>1. Len(RemoveAt(r, p)) = Len(q)
    BY <1>1, <1>2, <1>4
  <2> QED
    BY <1>1, <1>4, <1>5, <2>1, SeqEqual
<1> QED
  BY <1>3, <1>6 DEF r

(* remove() takes out one entry, of the id that is asked for, or nothing.  *)
LEMMA RemovedCases ==
  ASSUME NEW n \in Time, NEW q, WellFormed(n, q), NEW id
  PROVE  \/ Removed(q, id) = q
         \/ /\ id # NoId
            /\ \E d \in 1 .. Len(q) : q[d].id = id /\ Removed(q, id) = RemoveAt(q, d)
<1> DEFINE found == { i \in DOMAIN q : q[i].id = id }
<1>1. CASE id = NoId \/ found = {}
  BY <1>1 DEF Removed
<1>2. CASE id # NoId /\ found # {}
  <2>1. Removed(q, id) = RemoveAt(q, Min(found))
    BY <1>2 DEF Removed
  <2>2. found \subseteq Nat /\ found \subseteq 1 .. Len(q)
    BY EntryTypes
  <2>3. \A i \in found : q[i].id = id
    OBVIOUS
  <2> HIDE DEF found
  <2>4. Min(found) \in found
    BY <1>2, <2>2, MinProperties
  <2> QED
    BY <1>2, <2>1, <2>2, <2>3, <2>4
<1> QED
  BY <1>1, <1>2

(* Putting back what was taken out gives back the list.                    *)
LEMMA InsertUndoesRemove ==
  ASSUME NEW S, NEW q \in Seq(S), NEW d \in 1 .. Len(q)
  PROVE  /\ RemoveAt(q, d) \in Seq(S) /\ Len(RemoveAt(q, d)) = Len(q) - 1
         /\ d \in 1 .. Len(RemoveAt(q, d)) + 1
         /\ q[d] \in S
         /\ InsertAt(RemoveAt(q, d), d, q[d]) = q
<1> DEFINE r == RemoveAt(q, d)
           e == q[d]
<1>1. Len(q) \in Nat /\ e \in S
  BY LenProperties, ElementOfSeq
<1>2. r \in Seq(S) /\ Len(r) = Len(q) - 1
  BY RemoveAtProperties
<1>3. \A k \in 1 .. Len(q) - 1 : r[k] = IF k < d THEN q[k] ELSE q[k + 1]
  BY RemoveAtProperties
<1> HIDE DEF r, e
<1>4. d \in 1 .. Len(r) + 1
  BY <1>1, <1>2
<1>5. InsertAt(r, d, e) \in Seq(S) /\ Len(InsertAt(r, d, e)) = Len(q)
  <2>1. InsertAt(r, d, e) \in Seq(S) /\ Len(InsertAt(r, d, e)) = Len(r) + 1
    BY <1>1, <1>2, <1>4, InsertAtProperties
  <2> QED
    BY <1>1, <1>2, <2>1
<1>6. ASSUME NEW k \in 1 .. Len(q)
      PROVE  InsertAt(r, d, e)[k] = q[k]
  <2>1. InsertAt(r, d, e)[k] = IF k < d THEN r[k] ELSE IF k = d THEN e ELSE r[k - 1]
    <3>1. \A m \in 1 .. Len(r) + 1 :
            InsertAt(r, d, e)[m] = IF m < d THEN r[m] ELSE IF m = d THEN e ELSE r[m - 1]
      <4> SUFFICES ASSUME NEW m \in 1 .. Len(r) + 1
                   PROVE  InsertAt(r, d, e)[m] =
                            IF m < d THEN r[m] ELSE IF m = d THEN e ELSE r[m - 1]
        OBVIOUS
      <4> QED
        BY <1>1, <1>2, <1>4, InsertAtProperties, SMTT(30)
    <3>2. k \in 1 .. Len(r) + 1
      BY <1>1, <1>2
    <3> QED
      BY <3>1, <3>2
  <2>2. CASE k < d
    BY <1>1, <1>3, <2>1, <2>2
  <2>3. CASE k = d
    BY <2>1, <2>3 DEF e
  <2>4. CASE k > d
    <3>1. k - 1 \in 1 .. Len(q) - 1 /\ ~(k - 1 < d) /\ (k - 1) + 1 = k
      BY <1>1, <2>4
    <3> QED
      BY <1>1, <1>3, <2>1, <2>4, <3>1
  <2> QED
    BY <1>1, <2>2, <2>3, <2>4
<1> QED
  BY <1>1, <1>2, <1>4, <1>5, <1>6, SeqEqual DEF r, e

-----------------------------------------------------------------------------
(* Counting the entries of a list that are of some kind X.                 *)
Positions(q, X) == { i \in DOMAIN q : q[i] \in X }

(* The positions of the entries in a set can be counted, and those of the  *)
(* others are the rest.                                                    *)
LEMMA PositionsFinite ==
  ASSUME NEW S, NEW q \in Seq(S), NEW X
  PROVE  /\ IsFiniteSet(Positions(q, X)) /\ Cardinality(Positions(q, X)) \in Nat
         /\ Len(q) \in Nat
         /\ Len(q) = Cardinality(Positions(q, X)) + Cardinality(Positions(q, S \ X))
<1>1. Len(q) \in Nat /\ DOMAIN q = 1 .. Len(q)
  BY LenProperties
<1>2. IsFiniteSet(1 .. Len(q)) /\ Cardinality(1 .. Len(q)) = Len(q)
  BY <1>1, FS_Interval
<1>3. Positions(q, X) \subseteq 1 .. Len(q)
  BY <1>1 DEF Positions
<1>4. IsFiniteSet(Positions(q, X)) /\ Cardinality(Positions(q, X)) \in Nat
  BY <1>2, <1>3, FS_Subset, FS_CardinalityType
<1>5. Positions(q, S \ X) = (1 .. Len(q)) \ Positions(q, X)
  BY <1>1, ElementOfSeq DEF Positions
<1>6. (1 .. Len(q)) \cap Positions(q, X) = Positions(q, X)
  BY <1>3
<1>7. Cardinality(Positions(q, S \ X)) = Len(q) - Cardinality(Positions(q, X))
  <2> DEFINE D == 1 .. Len(q)
             P == Positions(q, X)
  <2>1. IsFiniteSet(D)
    BY <1>2
  <2> HIDE DEF D, P
  <2>2. Cardinality(D \ P) = Cardinality(D) - Cardinality(D \cap P)
    BY <2>1, FS_Difference
  <2> QED
    BY <1>2, <1>5, <1>6, <2>2 DEF D, P
<1> QED
  BY <1>1, <1>4, <1>7

(* One entry more, of the kind or not.                                     *)
LEMMA CountAfterInsert ==
  ASSUME NEW S, NEW q \in Seq(S), NEW p \in 1 .. Len(q) + 1, NEW e \in S, NEW X
  PROVE  Cardinality(Positions(InsertAt(q, p, e), X)) =
           IF e \in X THEN Cardinality(Positions(q, X)) + 1 ELSE Cardinality(Positions(q, X))
<1> DEFINE r == InsertAt(q, p, e)
           P == Positions(q, X)
           R == Positions(r, X)
           f == [k \in P |-> IF k < p THEN k ELSE k + 1]
<1>1. Len(q) \in Nat /\ DOMAIN q = 1 .. Len(q)
  BY LenProperties
<1>2. r \in Seq(S) /\ Len(r) = Len(q) + 1 /\ DOMAIN r = 1 .. Len(q) + 1
  BY InsertAtProperties, LenProperties
<1>3. ASSUME NEW k \in 1 .. Len(q) + 1
      PROVE  r[k] = IF k < p THEN q[k] ELSE IF k = p THEN e ELSE q[k - 1]
  BY <1>1, InsertAtProperties, SMTT(30)
<1> HIDE DEF r
<1>4. ASSUME NEW k \in 1 .. Len(q)
      PROVE  /\ k < p => k \in 1 .. Len(q) + 1 /\ r[k] = q[k]
             /\ k >= p => k + 1 \in 1 .. Len(q) + 1 /\ r[k + 1] = q[k] /\ k + 1 # p
  <2>1. k < p => k \in 1 .. Len(q) + 1 /\ r[k] = q[k]
    BY <1>1, <1>3
  <2>2. ASSUME k >= p PROVE k + 1 \in 1 .. Len(q) + 1 /\ r[k + 1] = q[k] /\ k + 1 # p
    <3>1. k + 1 \in 1 .. Len(q) + 1 /\ ~(k + 1 < p) /\ k + 1 # p /\ (k + 1) - 1 = k
      BY <1>1, <2>2
    <3> QED
      BY <1>3, <3>1
  <2> QED
    BY <2>1, <2>2
<1>5. f \in Bijection(P, R \ {p})
  <2>1. \A k \in P : k \in 1 .. Len(q) /\ q[k] \in X
    BY <1>1 DEF Positions
  <2>2. f \in [P -> R \ {p}]
    <3>1. ASSUME NEW k \in P PROVE (IF k < p THEN k ELSE k + 1) \in R \ {p}
      BY <1>1, <1>2, <1>4, <2>1 DEF Positions
    <3> QED
      BY <3>1
  <2>3. \A k, m \in P : f[k] = f[m] => k = m
    BY <1>1, <2>1
  <2>4. ASSUME NEW y \in R \ {p} PROVE \E k \in P : f[k] = y
    <3>1. y \in 1 .. Len(q) + 1 /\ r[y] \in X /\ y # p
      BY <1>2 DEF Positions
    <3>2. CASE y < p
      <4>1. y \in 1 .. Len(q) /\ q[y] \in X
        BY <1>1, <1>3, <3>1, <3>2
      <4>2. y \in P
        BY <1>1, <4>1 DEF Positions
      <4> QED
        BY <3>2, <4>2
    <3>3. CASE y > p
      <4>1. y - 1 \in 1 .. Len(q) /\ q[y - 1] \in X /\ ~(y - 1 < p) /\ (y - 1) + 1 = y
        BY <1>1, <1>3, <3>1, <3>3
      <4>2. y - 1 \in P
        BY <1>1, <4>1 DEF Positions
      <4> QED
        BY <4>1, <4>2
    <3> QED
      BY <1>1, <3>1, <3>2, <3>3
  <2> HIDE DEF f, P, R
  <2> QED
    BY <2>2, <2>3, <2>4 DEF Bijection, Injection, Surjection, IsInjective
<1>6. IsFiniteSet(P) /\ Cardinality(P) \in Nat
  BY PositionsFinite
<1> HIDE DEF f
<1>7. IsFiniteSet(R \ {p}) /\ Cardinality(R \ {p}) = Cardinality(P)
  BY <1>5, <1>6, FS_Bijection DEF ExistsBijection
<1>8. p \in R <=> e \in X
  <2>1. p \in 1 .. Len(q) + 1 /\ r[p] = e
    BY <1>1, <1>3
  <2> QED
    BY <1>2, <2>1 DEF Positions
<1>9. CASE e \in X
  <2>1. R = (R \ {p}) \cup {p} /\ p \notin R \ {p}
    BY <1>8, <1>9
  <2> HIDE DEF R, P
  <2> QED
    BY <1>7, <1>9, <2>1, FS_AddElement DEF R, P, r
<1>10. CASE e \notin X
  <2>1. R \ {p} = R
    BY <1>8, <1>10
  <2> QED
    BY <1>7, <1>10, <2>1 DEF r
<1> QED
  BY <1>9, <1>10

(* One entry less, of the kind or not.                                     *)
LEMMA CountAfterRemove ==
  ASSUME NEW S, NEW q \in Seq(S), NEW d \in 1 .. Len(q), NEW X
  PROVE  Cardinality(Positions(RemoveAt(q, d), X)) =
           IF q[d] \in X THEN Cardinality(Positions(q, X)) - 1 ELSE Cardinality(Positions(q, X))
<1> DEFINE r == RemoveAt(q, d)
<1>1. /\ r \in Seq(S) /\ d \in 1 .. Len(r) + 1 /\ q[d] \in S
      /\ InsertAt(r, d, q[d]) = q
  BY InsertUndoesRemove
<1>2. Cardinality(Positions(r, X)) \in Nat
  BY <1>1, PositionsFinite
<1> HIDE DEF r
<1>3. Cardinality(Positions(InsertAt(r, d, q[d]), X)) =
        IF q[d] \in X THEN Cardinality(Positions(r, X)) + 1 ELSE Cardinality(Positions(r, X))
  BY <1>1, CountAfterInsert
<1> QED
  BY <1>1, <1>2, <1>3 DEF r

(* No more entries with an id than there are ids, for each has its own.    *)
LEMMA CountOfIds ==
  ASSUME NEW n \in Time, NEW q, WellFormed(n, q), IsFiniteSet(Ids)
  PROVE  Cardinality(Positions(q, { t \in TimedThunk : t.id # NoId })) <= Cardinality(Ids)
<1> DEFINE P == Positions(q, { t \in TimedThunk : t.id # NoId })
           f == [i \in P |-> q[i].id]
<1>1. DOMAIN q = 1 .. Len(q) /\ \A i \in 1 .. Len(q) : q[i] \in TimedThunk
  BY EntryTypes
<1>2. \A i \in P : i \in 1 .. Len(q) /\ q[i].id \in Ids /\ q[i].id # NoId
  BY <1>1 DEF Positions, TimedThunk
<1>3. \A i, j \in P : q[i].id = q[j].id => i = j
  BY <1>2 DEF WellFormed
<1> HIDE DEF P
<1>4. f \in Injection(P, Ids)
  BY <1>2, <1>3 DEF Injection, IsInjective
<1> QED
  BY <1>4, FS_Injection DEF P

-----------------------------------------------------------------------------
(* What is in a list, wherever it is.                                      *)
Entries(q) == { q[i] : i \in DOMAIN q }

(* An insertion adds its entry to the entries.                             *)
LEMMA EntriesAfterInsert ==
  ASSUME NEW S, NEW q \in Seq(S), NEW p \in 1 .. Len(q) + 1, NEW e \in S
  PROVE  Entries(InsertAt(q, p, e)) = Entries(q) \cup {e}
<1> DEFINE r == InsertAt(q, p, e)
<1>1. Len(q) \in Nat /\ DOMAIN q = 1 .. Len(q)
  BY LenProperties
<1>2. DOMAIN r = 1 .. Len(q) + 1
  BY InsertAtProperties, LenProperties
<1>3. ASSUME NEW k \in 1 .. Len(q) + 1
      PROVE  r[k] = IF k < p THEN q[k] ELSE IF k = p THEN e ELSE q[k - 1]
  BY <1>1, InsertAtProperties, SMTT(30)
<1> HIDE DEF r
<1>4. ASSUME NEW k \in 1 .. Len(q) + 1 PROVE r[k] \in Entries(q) \cup {e}
  <2>1. CASE k < p
    BY <1>1, <1>3, <2>1 DEF Entries
  <2>2. CASE k = p
    BY <1>3, <2>2
  <2>3. CASE k > p
    <3>1. r[k] = q[k - 1] /\ k - 1 \in 1 .. Len(q)
      BY <1>1, <1>3, <2>3
    <3> QED
      BY <1>1, <3>1 DEF Entries
  <2> QED
    BY <1>1, <2>1, <2>2, <2>3
<1>5. ASSUME NEW k \in 1 .. Len(q) PROVE q[k] \in Entries(r)
  <2>1. CASE k < p
    <3>1. k \in 1 .. Len(q) + 1 /\ r[k] = q[k]
      BY <1>1, <1>3, <2>1
    <3> QED
      BY <1>2, <3>1 DEF Entries
  <2>2. CASE ~(k < p)
    <3>1. k + 1 \in 1 .. Len(q) + 1 /\ ~(k + 1 < p) /\ k + 1 # p /\ (k + 1) - 1 = k
      BY <1>1, <2>2
    <3>2. r[k + 1] = q[k]
      BY <1>3, <3>1
    <3> QED
      BY <1>2, <3>1, <3>2 DEF Entries
  <2> QED
    BY <2>1, <2>2
<1>6. e \in Entries(r)
  <2>1. r[p] = e /\ p \in 1 .. Len(q) + 1
    BY <1>1, <1>3
  <2> QED
    BY <1>2, <2>1 DEF Entries
<1> QED
  BY <1>1, <1>2, <1>4, <1>5, <1>6 DEF Entries, r

(* An entry that is taken out was the only loss.                           *)
LEMMA EntriesAfterRemove ==
  ASSUME NEW S, NEW q \in Seq(S), NEW d \in 1 .. Len(q)
  PROVE  Entries(q) = Entries(RemoveAt(q, d)) \cup {q[d]}
<1> DEFINE r == RemoveAt(q, d)
<1>1. /\ r \in Seq(S) /\ d \in 1 .. Len(r) + 1 /\ q[d] \in S
      /\ InsertAt(r, d, q[d]) = q
  BY InsertUndoesRemove
<1> HIDE DEF r
<1>2. Entries(InsertAt(r, d, q[d])) = Entries(r) \cup {q[d]}
  BY <1>1, EntriesAfterInsert
<1> QED
  BY <1>1, <1>2 DEF r

(* insert() when a node is free: the new entry is in, what had its id is   *)
(* out, and nothing else changed; the kinds X count accordingly.           *)
LEMMA InsertWithRoom ==
  ASSUME NEW n \in Time, NEW q, WellFormed(n, q), Len(q) < Capacity,
         NEW e \in TimedThunk, Age(n, e.msec) <= Horizon + Lateness, NEW X,
         e.id = NoId \/ \A t \in X : t.id = NoId
  PROVE  /\ Entries(Inserted(q, e)) = { t \in Entries(q) : e.id = NoId \/ t.id # e.id } \cup {e}
         /\ Cardinality(Positions(Inserted(q, e), X)) =
              IF e \in X THEN Cardinality(Positions(q, X)) + 1 ELSE Cardinality(Positions(q, X))
<1> DEFINE kept == Removed(q, e.id)
           p == Place(kept, e.msec)
<1>1. /\ q \in Seq(TimedThunk) /\ Len(q) \in Nat /\ DOMAIN q = 1 .. Len(q)
      /\ Capacity \in Nat /\ e.msec \in Time
  BY EntryTypes, Constants DEF WellFormed, TimedThunk
<1>2. /\ WellFormed(n, kept) /\ Len(kept) <= Len(q)
      /\ e.id # NoId => \A k \in 1 .. Len(kept) : kept[k].id # e.id
  BY RemovedWellFormed
<1>3. kept \in Seq(TimedThunk) /\ Len(kept) \in Nat /\ DOMAIN kept = 1 .. Len(kept)
  BY <1>2, EntryTypes DEF WellFormed
<1>4. Inserted(q, e) = InsertAt(kept, p, e)
  <2>1. ~Full(q) /\ ~Full(kept)
    BY <1>1, <1>2, <1>3 DEF Full
  <2> QED
    BY <2>1 DEF Inserted, InsertedReplacing, Linked
<1>5. \/ kept = q
      \/ e.id # NoId /\ \E d \in 1 .. Len(q) : q[d].id = e.id /\ kept = RemoveAt(q, d)
  BY RemovedCases
<1>6. p \in 1 .. Len(kept) + 1
  BY <1>1, <1>2, PlaceProperties
<1>7. Entries(kept) = { t \in Entries(q) : e.id = NoId \/ t.id # e.id }
  <2>1. e.id # NoId => \A t \in Entries(kept) : t.id # e.id
    BY <1>2, <1>3 DEF Entries
  <2>2. CASE kept = q
    BY <2>1, <2>2
  <2>3. CASE e.id # NoId /\ \E d \in 1 .. Len(q) : q[d].id = e.id /\ kept = RemoveAt(q, d)
    <3>1. PICK d \in 1 .. Len(q) : q[d].id = e.id /\ kept = RemoveAt(q, d)
      BY <2>3
    <3>2. Entries(q) = Entries(kept) \cup {q[d]}
      BY <1>1, <3>1, EntriesAfterRemove
    <3> QED
      BY <2>1, <2>3, <3>1, <3>2
  <2> QED
    BY <1>5, <2>2, <2>3
<1>8. Cardinality(Positions(kept, X)) = Cardinality(Positions(q, X))
  <2>1. CASE kept = q
    BY <2>1
  <2>2. CASE e.id # NoId /\ \E d \in 1 .. Len(q) : q[d].id = e.id /\ kept = RemoveAt(q, d)
    <3>1. PICK d \in 1 .. Len(q) : q[d].id = e.id /\ kept = RemoveAt(q, d)
      BY <2>2
    <3>2. q[d] \notin X
      BY <2>2, <3>1
    <3> QED
      BY <1>1, <3>1, <3>2, CountAfterRemove
  <2> QED
    BY <1>5, <2>1, <2>2
<1> HIDE DEF kept, p
<1>9. Entries(InsertAt(kept, p, e)) = Entries(kept) \cup {e}
  BY <1>3, <1>6, EntriesAfterInsert
<1>10. Cardinality(Positions(InsertAt(kept, p, e), X)) =
         IF e \in X THEN Cardinality(Positions(kept, X)) + 1 ELSE Cardinality(Positions(kept, X))
  BY <1>3, <1>6, CountAfterInsert
<1> QED
  BY <1>4, <1>7, <1>8, <1>9, <1>10

(* The head is taken: what is left, and that the head was not after it.    *)
LEMMA TailWellFormed ==
  ASSUME NEW n \in Time, NEW q, WellFormed(n, q), Len(q) <= Capacity, q # <<>>
  PROVE  /\ WellFormed(n, Tail(q)) /\ Len(Tail(q)) <= Capacity
         /\ 1 \in 1 .. Len(q) /\ q[1] \in TimedThunk /\ q[1].msec \in Time
         /\ Age(n, q[1].msec) <= Horizon + Lateness
         /\ \A i \in DOMAIN Tail(q) : /\ i + 1 \in 1 .. Len(q) /\ 1 < i + 1
                                      /\ Tail(q)[i] = q[i + 1]
<1>1. /\ q \in Seq(TimedThunk) /\ Len(q) \in Nat /\ DOMAIN q = 1 .. Len(q)
      /\ \A i \in 1 .. Len(q) : q[i] \in TimedThunk /\ q[i].msec \in Time
  BY EntryTypes DEF WellFormed
<1>2. 1 \in 1 .. Len(q) /\ Tail(q) = RemoveAt(q, 1)
  BY <1>1, EndsAreRemovals
<1>3. WellFormed(n, RemoveAt(q, 1)) /\ Len(RemoveAt(q, 1)) = Len(q) - 1
  BY <1>2, RemovalWellFormed
<1>4. WellFormed(n, Tail(q)) /\ Len(Tail(q)) <= Capacity
  <2>1. Len(RemoveAt(q, 1)) <= Capacity
    BY <1>1, <1>3, Constants
  <2> QED
    BY <1>2, <1>3, <2>1
<1>5. \A i \in DOMAIN Tail(q) : i + 1 \in 1 .. Len(q) /\ 1 < i + 1 /\ Tail(q)[i] = q[i + 1]
  BY <1>1, HeadTailProperties
<1> QED
  BY <1>1, <1>2, <1>4, <1>5 DEF WellFormed

(* The rest of the list has the other entries, none of them with the id of *)
(* the head.                                                               *)
LEMMA TailEntries ==
  ASSUME NEW n \in Time, NEW q, WellFormed(n, q), Len(q) <= Capacity, q # <<>>
  PROVE  /\ Entries(q) = Entries(Tail(q)) \cup {q[1]}
         /\ \A t \in Entries(Tail(q)) : t.id = q[1].id => t.id = NoId
<1>1. /\ 1 \in 1 .. Len(q) /\ q \in Seq(TimedThunk)
      /\ \A i \in DOMAIN Tail(q) : i + 1 \in 1 .. Len(q) /\ 1 < i + 1 /\ Tail(q)[i] = q[i + 1]
  BY TailWellFormed DEF WellFormed
<1>2. Tail(q) = RemoveAt(q, 1)
  BY <1>1, EndsAreRemovals
<1>3. Entries(q) = Entries(Tail(q)) \cup {q[1]}
  BY <1>1, <1>2, EntriesAfterRemove
<1>4. ASSUME NEW i \in DOMAIN Tail(q), Tail(q)[i].id = q[1].id, Tail(q)[i].id # NoId
      PROVE  FALSE
  <2>1. /\ i + 1 \in 1 .. Len(q) /\ 1 < i + 1
        /\ q[i + 1].id = q[1].id /\ q[i + 1].id # NoId
    BY <1>1, <1>4
  <2>2. i + 1 = 1
    BY <1>1, <2>1 DEF WellFormed
  <2> QED
    BY <2>1, <2>2
<1> QED
  BY <1>3, <1>4 DEF Entries

(* How many entries of a kind X are left when the head is taken.           *)
LEMMA TailCount ==
  ASSUME NEW n \in Time, NEW q, WellFormed(n, q), Len(q) <= Capacity, q # <<>>, NEW X
  PROVE  /\ Cardinality(Positions(Tail(q), X)) =
              IF q[1] \in X THEN Cardinality(Positions(q, X)) - 1 ELSE Cardinality(Positions(q, X))
         /\ Cardinality(Positions(q, X)) \in Nat
<1>1. 1 \in 1 .. Len(q) /\ q \in Seq(TimedThunk)
  BY TailWellFormed DEF WellFormed
<1>2. Tail(q) = RemoveAt(q, 1) /\ Cardinality(Positions(q, X)) \in Nat
  BY <1>1, EndsAreRemovals, PositionsFinite
<1>3. PICK d \in 1 .. Len(q) : d = 1
  BY <1>1
<1>4. Cardinality(Positions(RemoveAt(q, d), X)) =
        IF q[d] \in X THEN Cardinality(Positions(q, X)) - 1 ELSE Cardinality(Positions(q, X))
  BY <1>1, CountAfterRemove
<1> QED
  BY <1>2, <1>3, <1>4
=============================================================================
