-------------------------- MODULE TaskQueue_proofs --------------------------
(***************************************************************************)
(* Proofs about TaskQueue: the pool of nodes, for every capacity, carries  *)
(* two disjoint lists that share out its nodes, and the scheduled one is   *)
(* the sorted list of TimedQueue.  The two lists are stated as sequences   *)
(* of nodes, s for the scheduled and f for the free nodes; there is one    *)
(* lemma for each member function, which says what it makes of them.       *)
(***************************************************************************)
EXTENDS TaskQueue, TimedThunks_proofs

(* The i-th element of a list, and no node before the first and behind     *)
(* the last: what head, tail and the links are compared with.              *)
At(s, i) == IF i \in 1 .. Len(s) THEN s[i] ELSE Nil

Distinct(s) == \A i, j \in 1 .. Len(s) : s[i] = s[j] => i = j
Outside(n, s) == \A i \in 1 .. Len(s) : s[i] # n

(* The doubly-linked list of p is s.                                       *)
Chain(p, s) ==
  /\ s \in Seq(Nodes) /\ Distinct(s)
  /\ p.head = At(s, 1) /\ p.tail = At(s, Len(s))
  /\ \A i \in 1 .. Len(s) : p.next[s[i]] = At(s, i + 1) /\ p.prev[s[i]] = At(s, i - 1)

(* The singly-linked list of p is f.                                       *)
FreeChain(p, f) ==
  /\ f \in Seq(Nodes) /\ Distinct(f)
  /\ p.free = At(f, 1)
  /\ \A i \in 1 .. Len(f) : p.next[f[i]] = At(f, i + 1)

(* The two lists share out the nodes of the pool.                          *)
Shared(s, f) ==
  /\ \A i \in 1 .. Len(s), j \in 1 .. Len(f) : s[i] # f[j]
  /\ \A n \in Nodes : (\E i \in 1 .. Len(s) : s[i] = n) \/ (\E j \in 1 .. Len(f) : f[j] = n)
  /\ Len(s) + Len(f) = Capacity

Lists(p, s, f) ==
  p \in Pool /\ Chain(p, s) /\ FreeChain(p, f) /\ Shared(s, f) /\ p.size = Len(s)

-----------------------------------------------------------------------------
(* Sequences of nodes.                                                     *)
LEMMA NodesAreNotNil == Nil \notin Nodes /\ Nodes \subseteq Nat
BY Constants DEF Nil, Nodes

(* At() is the element at a position, and Nil outside of the sequence.     *)
LEMMA AtProperties ==
  ASSUME NEW s \in Seq(Nodes)
  PROVE  /\ Len(s) \in Nat
         /\ \A i \in Int : At(s, i) \in Nodes \cup {Nil}
         /\ \A i \in 1 .. Len(s) : At(s, i) = s[i] /\ s[i] \in Nodes
         /\ \A i \in Int : At(s, i) = Nil <=> i \notin 1 .. Len(s)
<1>1. Len(s) \in Nat
  BY LenProperties
<1>2. \A i \in 1 .. Len(s) : s[i] \in Nodes
  BY ElementOfSeq
<1> QED
  BY <1>1, <1>2, NodesAreNotNil DEF At

(* In a list without repetition an element has one position.               *)
LEMMA AtDistinct ==
  ASSUME NEW s \in Seq(Nodes), Distinct(s), NEW i \in 1 .. Len(s), NEW j \in Int
  PROVE  s[i] = At(s, j) => i = j
BY AtProperties DEF Distinct

(* Taking the i-th node out of a list, and putting a node into it.         *)
LEMMA RemoveNode ==
  ASSUME NEW s \in Seq(Nodes), NEW i \in 1 .. Len(s)
  PROVE  /\ RemoveAt(s, i) \in Seq(Nodes)
         /\ Len(RemoveAt(s, i)) = Len(s) - 1
         /\ \A k \in Int : At(RemoveAt(s, i), k) = IF k < i THEN At(s, k) ELSE At(s, k + 1)
         /\ \A k \in 1 .. Len(s) - 1 : RemoveAt(s, i)[k] = s[IF k < i THEN k ELSE k + 1]
<1> DEFINE t == RemoveAt(s, i)
<1>1. Len(s) \in Nat
  BY LenProperties
<1>2. /\ t \in Seq(Nodes) /\ Len(t) = Len(s) - 1
      /\ \A k \in 1 .. Len(s) - 1 : t[k] = IF k < i THEN s[k] ELSE s[k + 1]
  BY RemoveAtProperties
<1> HIDE DEF t
<1>3. ASSUME NEW k \in Int
      PROVE  At(t, k) = IF k < i THEN At(s, k) ELSE At(s, k + 1)
  BY <1>1, <1>2 DEF At
<1>4. \A k \in 1 .. Len(s) - 1 : t[k] = s[IF k < i THEN k ELSE k + 1]
  BY <1>2
<1> QED
  BY <1>2, <1>3, <1>4 DEF t

(* A node put into a list at a position.                                   *)
LEMMA InsertNode ==
  ASSUME NEW s \in Seq(Nodes), NEW i \in 1 .. Len(s) + 1, NEW n \in Nodes
  PROVE  /\ InsertAt(s, i, n) \in Seq(Nodes)
         /\ Len(InsertAt(s, i, n)) = Len(s) + 1
         /\ \A k \in Int : At(InsertAt(s, i, n), k) =
              IF k < i THEN At(s, k) ELSE IF k = i THEN n ELSE At(s, k - 1)
         /\ \A k \in 1 .. Len(s) + 1 : InsertAt(s, i, n)[k] =
              IF k < i THEN s[k] ELSE IF k = i THEN n ELSE s[k - 1]
<1> DEFINE t == InsertAt(s, i, n)
<1>1. Len(s) \in Nat
  BY LenProperties
<1>2. /\ t \in Seq(Nodes) /\ Len(t) = Len(s) + 1
      /\ \A k \in 1 .. Len(s) + 1 : t[k] = IF k < i THEN s[k] ELSE IF k = i THEN n ELSE s[k - 1]
  <2>1. t \in Seq(Nodes) /\ Len(t) = Len(s) + 1
    BY InsertAtProperties
  <2>2. ASSUME NEW k \in 1 .. Len(s) + 1
        PROVE  t[k] = IF k < i THEN s[k] ELSE IF k = i THEN n ELSE s[k - 1]
    BY <1>1, InsertAtProperties, SMTT(30)
  <2> QED
    BY <2>1, <2>2
<1> HIDE DEF t
<1>3. ASSUME NEW k \in Int
      PROVE  At(t, k) = IF k < i THEN At(s, k) ELSE IF k = i THEN n ELSE At(s, k - 1)
  BY <1>1, <1>2 DEF At
<1> QED
  BY <1>2, <1>3 DEF t

(* A removal repeats nothing and leaves no trace of the node.              *)
LEMMA RemovalDistinct ==
  ASSUME NEW s \in Seq(Nodes), Distinct(s), NEW i \in 1 .. Len(s)
  PROVE  Distinct(RemoveAt(s, i)) /\ Outside(s[i], RemoveAt(s, i))
<1>1. Len(s) \in Nat
  BY LenProperties
<1>2. /\ Len(RemoveAt(s, i)) = Len(s) - 1
      /\ \A k \in 1 .. Len(s) - 1 : RemoveAt(s, i)[k] = s[IF k < i THEN k ELSE k + 1]
  BY RemoveNode
<1> QED
  BY <1>1, <1>2 DEF Distinct, Outside

(* The insertion of a node from outside repeats nothing.                   *)
LEMMA InsertionDistinct ==
  ASSUME NEW s \in Seq(Nodes), Distinct(s), NEW i \in 1 .. Len(s) + 1, NEW n \in Nodes,
         Outside(n, s)
  PROVE  Distinct(InsertAt(s, i, n))
<1>1. Len(s) \in Nat
  BY LenProperties
<1>2. /\ Len(InsertAt(s, i, n)) = Len(s) + 1
      /\ \A k \in 1 .. Len(s) + 1 : InsertAt(s, i, n)[k] =
              IF k < i THEN s[k] ELSE IF k = i THEN n ELSE s[k - 1]
  BY InsertNode
<1> SUFFICES ASSUME NEW j \in 1 .. Len(s) + 1, NEW k \in 1 .. Len(s) + 1,
                    InsertAt(s, i, n)[j] = InsertAt(s, i, n)[k]
             PROVE  j = k
  BY <1>2 DEF Distinct
<1>3. CASE j = i \/ k = i
  BY <1>1, <1>2, <1>3 DEF Outside
<1>4. CASE j # i /\ k # i
  <2>1. PICK a \in 1 .. Len(s) : a = (IF j < i THEN j ELSE j - 1) /\ InsertAt(s, i, n)[j] = s[a]
    BY <1>1, <1>2, <1>4
  <2>2. PICK b \in 1 .. Len(s) : b = (IF k < i THEN k ELSE k - 1) /\ InsertAt(s, i, n)[k] = s[b]
    BY <1>1, <1>2, <1>4
  <2>3. a = b
    BY <2>1, <2>2 DEF Distinct
  <2> QED
    BY <1>1, <1>4, <2>1, <2>2, <2>3
<1> QED
  BY <1>3, <1>4

-----------------------------------------------------------------------------
(* What the member functions write, field by field.                        *)
LEMMA UnlinkFields ==
  ASSUME NEW p \in Pool, NEW n \in Nodes
  PROVE  LET q == Unlink(p, n)
         IN  /\ q \in Pool
             /\ \A m \in Nodes : q.next[m] = IF m = p.prev[n] THEN p.next[n] ELSE p.next[m]
             /\ \A m \in Nodes : q.prev[m] = IF m = p.next[n] THEN p.prev[n] ELSE p.prev[m]
             /\ q.head = IF p.prev[n] = Nil THEN p.next[n] ELSE p.head
             /\ q.tail = IF p.next[n] = Nil THEN p.prev[n] ELSE p.tail
             /\ q.data = p.data /\ q.free = p.free /\ q.size = p.size
BY DEF Unlink, Pool

(* The fields that free_node() changes.                                    *)
LEMMA FreeNodeFields ==
  ASSUME NEW p \in Pool, NEW n \in Nodes
  PROVE  LET q == FreeNode(p, n)
         IN  /\ q \in Pool
             /\ \A m \in Nodes : q.next[m] = IF m = n THEN p.free ELSE p.next[m]
             /\ \A m \in Nodes : q.prev[m] = IF m = n THEN Nil ELSE p.prev[m]
             /\ q.head = p.head /\ q.tail = p.tail
             /\ q.data = p.data /\ q.free = n /\ q.size = p.size
BY DEF FreeNode, Pool

(* The fields that alloc_node() changes.                                   *)
LEMMA AllocNodeFields ==
  ASSUME NEW p \in Pool, p.free \in Nodes
  PROVE  LET q == AllocNode(p)
         IN  /\ q \in Pool
             /\ \A m \in Nodes : q.next[m] = IF m = p.free THEN Nil ELSE p.next[m]
             /\ \A m \in Nodes : q.prev[m] = IF m = p.free THEN Nil ELSE p.prev[m]
             /\ q.head = p.head /\ q.tail = p.tail
             /\ q.data = p.data /\ q.free = p.next[p.free] /\ q.size = p.size
BY DEF AllocNode, Pool

(* Linking a node changes the links and the ends of the list only.         *)
LEMMA LinkFields ==
  ASSUME NEW p \in Pool, NEW n \in Nodes, NEW m \in Nodes,
         NEW q \in {LinkBefore(p, n, m), LinkAfter(p, n, m)}
  PROVE  q \in Pool /\ q.data = p.data /\ q.free = p.free /\ q.size = p.size
<1>1. LET r == LinkBefore(p, n, m)
      IN  r \in Pool /\ r.data = p.data /\ r.free = p.free /\ r.size = p.size
  BY DEF LinkBefore, Pool
<1>2. LET r == LinkAfter(p, n, m)
      IN  r \in Pool /\ r.data = p.data /\ r.free = p.free /\ r.size = p.size
  BY DEF LinkAfter, Pool
<1> QED
  BY <1>1, <1>2

-----------------------------------------------------------------------------
(* unlink() takes a node out of the doubly-linked list, and touches the    *)
(* next link of no node outside of it.                                     *)
LEMMA UnlinkChain ==
  ASSUME NEW p \in Pool, NEW s, Chain(p, s), NEW i \in 1 .. Len(s)
  PROVE  /\ Chain(Unlink(p, s[i]), RemoveAt(s, i))
         /\ \A m \in Nodes : Outside(m, s) => Unlink(p, s[i]).next[m] = p.next[m]
<1> DEFINE q == Unlink(p, s[i])
           t == RemoveAt(s, i)
<1>1. /\ s \in Seq(Nodes) /\ Len(s) \in Nat /\ s[i] \in Nodes
      /\ p.next[s[i]] = At(s, i + 1) /\ p.prev[s[i]] = At(s, i - 1)
  BY AtProperties DEF Chain
<1>2. /\ \A m \in Nodes : q.next[m] = IF m = At(s, i - 1) THEN At(s, i + 1) ELSE p.next[m]
      /\ \A m \in Nodes : q.prev[m] = IF m = At(s, i + 1) THEN At(s, i - 1) ELSE p.prev[m]
      /\ q.head = IF At(s, i - 1) = Nil THEN At(s, i + 1) ELSE p.head
      /\ q.tail = IF At(s, i + 1) = Nil THEN At(s, i - 1) ELSE p.tail
  <2> DEFINE n == s[i]
  <2>1. n \in Nodes /\ p.next[n] = At(s, i + 1) /\ p.prev[n] = At(s, i - 1)
    BY <1>1
  <2> HIDE DEF n
  <2>2. q = Unlink(p, n)
    BY DEF n
  <2> QED
    BY <2>1, <2>2, UnlinkFields
<1>3. /\ t \in Seq(Nodes) /\ Len(t) = Len(s) - 1
      /\ \A k \in Int : At(t, k) = IF k < i THEN At(s, k) ELSE At(s, k + 1)
      /\ \A k \in 1 .. Len(s) - 1 : t[k] = s[IF k < i THEN k ELSE k + 1]
  BY <1>1, RemoveNode
<1>4. Distinct(t)
  BY <1>1, RemovalDistinct DEF Chain
<1> HIDE DEF q, t
<1>5. q.head = At(t, 1)
  <2>1. At(s, i - 1) = Nil <=> i = 1
    BY <1>1, AtProperties
  <2>2. At(t, 1) = IF 1 < i THEN At(s, 1) ELSE At(s, 2)
    BY <1>3
  <2> QED
    BY <1>2, <2>1, <2>2 DEF Chain
<1>6. q.tail = At(t, Len(t))
  <2>1. At(s, i + 1) = Nil <=> i = Len(s)
    BY <1>1, AtProperties
  <2>2. At(t, Len(s) - 1) = IF Len(s) - 1 < i THEN At(s, Len(s) - 1) ELSE At(s, (Len(s) - 1) + 1)
    <3>1. Len(s) - 1 \in Int
      BY <1>1
    <3> QED
      BY <1>3, <3>1
  <2>3. CASE i = Len(s)
    BY <1>1, <1>2, <1>3, <2>1, <2>2, <2>3
  <2>4. CASE i # Len(s)
    <3>1. (Len(s) - 1) + 1 = Len(s) /\ ~(Len(s) - 1 < i)
      BY <1>1, <2>4
    <3> QED
      BY <1>2, <1>3, <2>1, <2>2, <2>4, <3>1 DEF Chain
  <2> QED
    BY <2>3, <2>4
<1>7. ASSUME NEW k \in 1 .. Len(t)
      PROVE  q.next[t[k]] = At(t, k + 1) /\ q.prev[t[k]] = At(t, k - 1)
  <2>1. PICK a \in 1 .. Len(s) : a = (IF k < i THEN k ELSE k + 1) /\ t[k] = s[a]
    <3>1. IF k < i THEN k \in 1 .. Len(s) ELSE k + 1 \in 1 .. Len(s)
      BY <1>1, <1>3
    <3>2. t[k] = s[IF k < i THEN k ELSE k + 1]
      BY <1>1, <1>3
    <3> QED
      BY <3>1, <3>2
  <2>2. s[a] \in Nodes /\ p.next[s[a]] = At(s, a + 1) /\ p.prev[s[a]] = At(s, a - 1)
    BY <1>1, AtProperties DEF Chain
  <2>3. (s[a] = At(s, i - 1) <=> a = i - 1) /\ (s[a] = At(s, i + 1) <=> a = i + 1)
    <3>1. i - 1 \in Int /\ i + 1 \in Int /\ a \in Int
      OBVIOUS
    <3>2. At(s, a) = s[a]
      BY <1>1, AtProperties
    <3> QED
      BY <1>1, <3>1, <3>2, AtDistinct DEF Chain
  <2>4. q.next[s[a]] = IF a = i - 1 THEN At(s, i + 1) ELSE At(s, a + 1)
    BY <1>2, <2>2, <2>3
  <2>5. q.prev[s[a]] = IF a = i + 1 THEN At(s, i - 1) ELSE At(s, a - 1)
    BY <1>2, <2>2, <2>3
  <2>6. k \in Int /\ i \in Int /\ k + 1 \in Int /\ k - 1 \in Int
    BY <1>1, <1>3
  <2>7. At(t, k + 1) = IF k + 1 < i THEN At(s, k + 1) ELSE At(s, (k + 1) + 1)
    BY <1>3, <2>6
  <2>8. At(t, k - 1) = IF k - 1 < i THEN At(s, k - 1) ELSE At(s, (k - 1) + 1)
    BY <1>3, <2>6
  <2>9. CASE k < i
    BY <2>1, <2>4, <2>5, <2>6, <2>7, <2>8, <2>9
  <2>10. CASE ~(k < i)
    BY <2>1, <2>4, <2>5, <2>6, <2>7, <2>8, <2>10
  <2> QED
    BY <2>9, <2>10
<1>8. Chain(q, t)
  BY <1>3, <1>4, <1>5, <1>6, <1>7 DEF Chain
<1>9. ASSUME NEW m \in Nodes, Outside(m, s)
      PROVE  q.next[m] = p.next[m]
  <2>1. m # At(s, i - 1)
    BY <1>1, <1>9, NodesAreNotNil DEF At, Outside
  <2> QED
    BY <1>2, <2>1
<1> QED
  BY <1>8, <1>9 DEF q, t

(* freeNode() puts a node in front of the free list.                       *)
LEMMA FreeNodeChains ==
  ASSUME NEW p \in Pool, NEW s, Chain(p, s), NEW f, FreeChain(p, f),
         NEW n \in Nodes, Outside(n, s), Outside(n, f)
  PROVE  Chain(FreeNode(p, n), s) /\ FreeChain(FreeNode(p, n), InsertAt(f, 1, n))
<1> DEFINE q == FreeNode(p, n)
           g == InsertAt(f, 1, n)
<1>1. /\ s \in Seq(Nodes) /\ Len(s) \in Nat /\ \A k \in 1 .. Len(s) : s[k] \in Nodes
      /\ f \in Seq(Nodes) /\ Len(f) \in Nat /\ \A k \in 1 .. Len(f) : f[k] \in Nodes
  BY AtProperties DEF Chain, FreeChain
<1>2. /\ \A m \in Nodes : q.next[m] = IF m = n THEN p.free ELSE p.next[m]
      /\ \A m \in Nodes : q.prev[m] = IF m = n THEN Nil ELSE p.prev[m]
      /\ q.head = p.head /\ q.tail = p.tail /\ q.free = n
  BY FreeNodeFields
<1>3. /\ g \in Seq(Nodes) /\ Len(g) = Len(f) + 1
      /\ \A k \in Int : At(g, k) = IF k < 1 THEN At(f, k) ELSE IF k = 1 THEN n ELSE At(f, k - 1)
  <2>1. 1 \in 1 .. Len(f) + 1
    BY <1>1
  <2> HIDE DEF g
  <2> QED
    BY <1>1, <2>1, InsertNode DEF g
<1>4. Distinct(g)
  BY <1>1, InsertionDistinct DEF FreeChain
<1> HIDE DEF q, g
<1>5. Chain(q, s)
  BY <1>1, <1>2 DEF Chain, Outside
<1>6. ASSUME NEW k \in 1 .. Len(g)
      PROVE  q.next[g[k]] = At(g, k + 1)
  <2>1. At(g, k + 1) = At(f, k) /\ g[k] = At(g, k)
    BY <1>1, <1>3, AtProperties
  <2>2. CASE k = 1
    BY <1>2, <1>3, <2>1, <2>2 DEF FreeChain
  <2>3. CASE k # 1
    <3>1. g[k] = f[k - 1] /\ k - 1 \in 1 .. Len(f)
      BY <1>1, <1>3, <2>1, <2>3, AtProperties
    <3>2. p.next[f[k - 1]] = At(f, k)
      BY <3>1 DEF FreeChain
    <3>3. q.next[f[k - 1]] = p.next[f[k - 1]]
      BY <1>1, <1>2, <3>1 DEF Outside
    <3> QED
      BY <2>1, <3>1, <3>2, <3>3
  <2> QED
    BY <2>2, <2>3
<1>7. q.free = At(g, 1)
  BY <1>2, <1>3
<1>8. FreeChain(q, g)
  BY <1>3, <1>4, <1>6, <1>7 DEF FreeChain
<1> QED
  BY <1>5, <1>8 DEF q, g

(* allocNode() takes the first node of the free list.                      *)
LEMMA AllocNodeChains ==
  ASSUME NEW p \in Pool, NEW s, Chain(p, s), NEW f, FreeChain(p, f), f # <<>>, Shared(s, f)
  PROVE  /\ f[1] \in Nodes /\ p.free = f[1] /\ Outside(f[1], s)
         /\ Chain(AllocNode(p), s) /\ FreeChain(AllocNode(p), RemoveAt(f, 1))
         /\ AllocNode(p).next[f[1]] = Nil /\ AllocNode(p).prev[f[1]] = Nil
<1> DEFINE q == AllocNode(p)
           g == RemoveAt(f, 1)
           n == f[1]
<1>1. /\ s \in Seq(Nodes) /\ Len(s) \in Nat /\ \A k \in 1 .. Len(s) : s[k] \in Nodes
      /\ f \in Seq(Nodes) /\ Len(f) \in Nat /\ \A k \in 1 .. Len(f) : f[k] \in Nodes
      /\ 1 \in 1 .. Len(f)
  BY AtProperties, EmptySeq DEF Chain, FreeChain
<1>2. n \in Nodes /\ p.free = n /\ p.next[n] = At(f, 2) /\ Outside(n, s)
  BY <1>1, AtProperties DEF FreeChain, Shared, Outside
<1>3. /\ \A m \in Nodes : q.next[m] = IF m = n THEN Nil ELSE p.next[m]
      /\ \A m \in Nodes : q.prev[m] = IF m = n THEN Nil ELSE p.prev[m]
      /\ q.head = p.head /\ q.tail = p.tail /\ q.free = p.next[n]
  BY <1>2, AllocNodeFields
<1>4. /\ g \in Seq(Nodes) /\ Len(g) = Len(f) - 1
      /\ \A k \in Int : At(g, k) = IF k < 1 THEN At(f, k) ELSE At(f, k + 1)
  BY <1>1, RemoveNode
<1>5. Distinct(g) /\ Outside(n, g)
  BY <1>1, RemovalDistinct DEF FreeChain
<1> HIDE DEF q, g, n
<1>6. Chain(q, s)
  BY <1>1, <1>2, <1>3 DEF Chain, Outside
<1>7. q.free = At(g, 1)
  BY <1>2, <1>3, <1>4
<1>8. ASSUME NEW k \in 1 .. Len(g)
      PROVE  q.next[g[k]] = At(g, k + 1)
  <2>1. k \in Int /\ k + 1 \in Int /\ ~(k < 1) /\ ~(k + 1 < 1) /\ k + 1 \in 1 .. Len(f)
    BY <1>1, <1>4
  <2>2. At(g, k + 1) = At(f, (k + 1) + 1) /\ At(g, k) = At(f, k + 1)
    BY <1>4, <2>1
  <2>3. At(g, k) = g[k] /\ At(f, k + 1) = f[k + 1] /\ f[k + 1] \in Nodes
    BY <1>1, <1>4, <2>1, AtProperties
  <2>4. f[k + 1] # n
    BY <1>5, <2>2, <2>3 DEF Outside
  <2>5. p.next[f[k + 1]] = At(f, (k + 1) + 1)
    BY <2>1 DEF FreeChain
  <2> QED
    BY <1>3, <2>2, <2>3, <2>4, <2>5
<1>9. FreeChain(q, g)
  BY <1>4, <1>5, <1>7, <1>8 DEF FreeChain
<1> QED
  BY <1>2, <1>3, <1>6, <1>9 DEF q, g, n

(* A node moves from one list to the other and back.                       *)
LEMMA SharedAfterRelease ==
  ASSUME NEW s \in Seq(Nodes), NEW f \in Seq(Nodes), Distinct(s), Shared(s, f),
         NEW i \in 1 .. Len(s)
  PROVE  Shared(RemoveAt(s, i), InsertAt(f, 1, s[i])) /\ Outside(s[i], f)
<1> DEFINE t == RemoveAt(s, i)
           g == InsertAt(f, 1, s[i])
<1>1. Len(s) \in Nat /\ Len(f) \in Nat /\ s[i] \in Nodes /\ 1 \in 1 .. Len(f) + 1
  BY AtProperties
<1>2. /\ Len(t) = Len(s) - 1
      /\ \A k \in 1 .. Len(s) - 1 : t[k] = s[IF k < i THEN k ELSE k + 1]
  BY RemoveNode
<1>3. /\ Len(g) = Len(f) + 1
      /\ \A k \in 1 .. Len(f) + 1 : g[k] = IF k < 1 THEN f[k] ELSE IF k = 1 THEN s[i] ELSE f[k - 1]
  <2> DEFINE n == s[i]
  <2>1. n \in Nodes /\ g = InsertAt(f, 1, n)
    BY <1>1
  <2> HIDE DEF n, g
  <2>2. PICK a \in 1 .. Len(f) + 1 : a = 1
    BY <1>1
  <2>3. /\ Len(InsertAt(f, a, n)) = Len(f) + 1
        /\ \A k \in 1 .. Len(f) + 1 : InsertAt(f, a, n)[k] =
                  IF k < a THEN f[k] ELSE IF k = a THEN n ELSE f[k - 1]
    <3> HIDE <2>2
    <3>1. n \in Nodes
      BY <2>1
    <3> QED
      BY <3>1, InsertNode
  <2> QED
    BY <2>1, <2>2, <2>3 DEF n
<1>4. Outside(s[i], t)
  BY RemovalDistinct
<1> HIDE DEF t, g
<1>5. ASSUME NEW k \in 1 .. Len(t), NEW j \in 1 .. Len(g)
      PROVE  t[k] # g[j]
  <2>1. PICK a \in 1 .. Len(s) : t[k] = s[a]
    <3>1. IF k < i THEN k \in 1 .. Len(s) ELSE k + 1 \in 1 .. Len(s)
      BY <1>1, <1>2
    <3> QED
      BY <1>1, <1>2, <3>1
  <2>2. g[j] = s[i] \/ \E b \in 1 .. Len(f) : g[j] = f[b]
    <3>1. j # 1 => j - 1 \in 1 .. Len(f)
      BY <1>1, <1>3
    <3> QED
      BY <1>1, <1>3, <3>1
  <2> QED
    BY <1>4, <2>1, <2>2 DEF Shared, Outside
<1>6. ASSUME NEW n \in Nodes
      PROVE  (\E k \in 1 .. Len(t) : t[k] = n) \/ (\E j \in 1 .. Len(g) : g[j] = n)
  <2>1. CASE n = s[i]
    <3>1. 1 \in 1 .. Len(g) /\ g[1] = n
      BY <1>1, <1>3, <2>1
    <3> QED
      BY <3>1
  <2>2. ASSUME NEW a \in 1 .. Len(s), s[a] = n, n # s[i]
        PROVE  \E k \in 1 .. Len(t) : t[k] = n
    <3>1. CASE a < i
      BY <1>1, <1>2, <2>2, <3>1
    <3>2. CASE a > i
      <4>1. a - 1 \in 1 .. Len(t) /\ t[a - 1] = s[a]
        BY <1>1, <1>2, <3>2
      <4> QED
        BY <2>2, <4>1
    <3>3. a < i \/ a > i
      BY <1>1, <2>2
    <3> QED
      BY <3>1, <3>2, <3>3
  <2>3. ASSUME NEW b \in 1 .. Len(f), f[b] = n
        PROVE  \E j \in 1 .. Len(g) : g[j] = n
    <3>1. b + 1 \in 1 .. Len(g) /\ g[b + 1] = f[b]
      BY <1>1, <1>3
    <3> QED
      BY <2>3, <3>1
  <2>4. (\E a \in 1 .. Len(s) : s[a] = n) \/ (\E b \in 1 .. Len(f) : f[b] = n)
    BY DEF Shared
  <2> QED
    BY <2>1, <2>2, <2>3, <2>4
<1>7. Shared(t, g)
  <2>1. Len(s) + Len(f) = Capacity
    BY DEF Shared
  <2>2. Len(t) + Len(g) = Capacity
    BY <1>1, <1>2, <1>3, <2>1
  <2> QED
    BY <1>5, <1>6, <2>2 DEF Shared
<1>8. Outside(s[i], f)
  BY DEF Shared, Outside
<1> QED
  BY <1>7, <1>8 DEF t, g

(* A node that moves from the free list to the other one is still on one   *)
(* of them.                                                                *)
LEMMA SharedAfterAlloc ==
  ASSUME NEW s \in Seq(Nodes), NEW f \in Seq(Nodes), Distinct(f), Shared(s, f), f # <<>>,
         NEW i \in 1 .. Len(s) + 1
  PROVE  Shared(InsertAt(s, i, f[1]), RemoveAt(f, 1))
<1> DEFINE t == InsertAt(s, i, f[1])
           g == RemoveAt(f, 1)
           n == f[1]
<1>1. Len(s) \in Nat /\ Len(f) \in Nat /\ n \in Nodes /\ 1 \in 1 .. Len(f)
  BY AtProperties, EmptySeq
<1>2. /\ Len(g) = Len(f) - 1
      /\ \A k \in 1 .. Len(f) - 1 : g[k] = f[IF k < 1 THEN k ELSE k + 1]
  BY <1>1, RemoveNode
<1>3. Outside(n, g)
  BY <1>1, RemovalDistinct
<1>4. /\ Len(t) = Len(s) + 1
      /\ \A k \in 1 .. Len(s) + 1 : t[k] = IF k < i THEN s[k] ELSE IF k = i THEN n ELSE s[k - 1]
  <2>1. t = InsertAt(s, i, n)
    OBVIOUS
  <2> HIDE DEF n, t
  <2>2. /\ Len(InsertAt(s, i, n)) = Len(s) + 1
        /\ \A k \in 1 .. Len(s) + 1 : InsertAt(s, i, n)[k] =
                  IF k < i THEN s[k] ELSE IF k = i THEN n ELSE s[k - 1]
    BY <1>1, InsertNode
  <2> QED
    BY <2>1, <2>2
<1> HIDE DEF t, g, n
<1>5. ASSUME NEW k \in 1 .. Len(t), NEW j \in 1 .. Len(g)
      PROVE  t[k] # g[j]
  <2>1. t[k] = n \/ \E a \in 1 .. Len(s) : t[k] = s[a]
    <3>1. CASE k < i
      BY <1>1, <1>4, <3>1
    <3>2. CASE k = i
      BY <1>1, <1>4, <3>2
    <3>3. CASE k > i
      <4>1. k - 1 \in 1 .. Len(s) /\ t[k] = s[k - 1]
        BY <1>1, <1>4, <3>3
      <4> QED
        BY <4>1
    <3> QED
      BY <1>1, <1>4, <3>1, <3>2, <3>3
  <2>2. j + 1 \in 1 .. Len(f) /\ g[j] = f[j + 1]
    BY <1>1, <1>2
  <2> QED
    BY <1>3, <2>1, <2>2 DEF Shared, Outside
<1>6. ASSUME NEW m \in Nodes
      PROVE  (\E k \in 1 .. Len(t) : t[k] = m) \/ (\E j \in 1 .. Len(g) : g[j] = m)
  <2>1. ASSUME NEW a \in 1 .. Len(s), s[a] = m
        PROVE  \E k \in 1 .. Len(t) : t[k] = m
    <3>1. CASE a < i
      BY <1>1, <1>4, <2>1, <3>1
    <3>2. CASE ~(a < i)
      <4>1. a + 1 \in 1 .. Len(t) /\ t[a + 1] = s[(a + 1) - 1] /\ (a + 1) - 1 = a
        BY <1>1, <1>4, <3>2
      <4> QED
        BY <2>1, <4>1
    <3> QED
      BY <3>1, <3>2
  <2>2. ASSUME NEW b \in 1 .. Len(f), f[b] = m
        PROVE  (\E k \in 1 .. Len(t) : t[k] = m) \/ (\E j \in 1 .. Len(g) : g[j] = m)
    <3>1. CASE b = 1
      <4>1. i \in 1 .. Len(t) /\ t[i] = n
        BY <1>1, <1>4
      <4> QED
        BY <2>2, <3>1, <4>1 DEF n
    <3>2. CASE b # 1
      <4>1. b - 1 \in 1 .. Len(g) /\ g[b - 1] = f[(b - 1) + 1] /\ (b - 1) + 1 = b
        BY <1>1, <1>2, <3>2
      <4> QED
        BY <2>2, <4>1
    <3> QED
      BY <3>1, <3>2
  <2>3. (\E a \in 1 .. Len(s) : s[a] = m) \/ (\E b \in 1 .. Len(f) : f[b] = m)
    BY DEF Shared
  <2> QED
    BY <2>1, <2>2, <2>3
<1>7. Shared(t, g)
  <2>1. Len(s) + Len(f) = Capacity
    BY DEF Shared
  <2>2. Len(t) + Len(g) = Capacity
    BY <1>1, <1>2, <1>4, <2>1
  <2> QED
    BY <1>5, <1>6, <2>2 DEF Shared
<1> QED
  BY <1>7 DEF t, g, n

-----------------------------------------------------------------------------
(* Both lists depend on the links and the ends of the pool only.           *)
LEMMA SameChain ==
  ASSUME NEW p, NEW q, NEW s, Chain(p, s), q.head = p.head, q.tail = p.tail,
         \A i \in 1 .. Len(s) : q.next[s[i]] = p.next[s[i]] /\ q.prev[s[i]] = p.prev[s[i]]
  PROVE  Chain(q, s)
BY DEF Chain

(* The free list depends on its first node and the links of its nodes      *)
(* only.                                                                   *)
LEMMA SameFreeChain ==
  ASSUME NEW p, NEW q, NEW f, FreeChain(p, f), q.free = p.free,
         \A i \in 1 .. Len(f) : q.next[f[i]] = p.next[f[i]]
  PROVE  FreeChain(q, f)
BY DEF FreeChain

(* Counting an entry changes nothing else.                                 *)
LEMMA SizeFields ==
  ASSUME NEW p \in Pool, NEW k \in 0 .. Capacity
  PROVE  LET q == [p EXCEPT !.size = k]
         IN  /\ q \in Pool /\ q.size = k
             /\ q.head = p.head /\ q.tail = p.tail /\ q.free = p.free
             /\ q.next = p.next /\ q.prev = p.prev /\ q.data = p.data
BY DEF Pool

(* Every removal takes the i-th node out of the list and puts it in front  *)
(* of the free ones.                                                       *)
LEMMA ReleasedLists ==
  ASSUME NEW p, NEW s, NEW f, Lists(p, s, f), NEW i \in 1 .. Len(s)
  PROVE  /\ Lists(Released(p, s[i]), RemoveAt(s, i), InsertAt(f, 1, s[i]))
         /\ Released(p, s[i]).data = p.data
<1> DEFINE n == s[i]
           u == Unlink(p, n)
           v == FreeNode(u, n)
           t == RemoveAt(s, i)
           g == InsertAt(f, 1, n)
<1>1. /\ p \in Pool /\ s \in Seq(Nodes) /\ f \in Seq(Nodes) /\ Distinct(s) /\ Shared(s, f)
      /\ Chain(p, s) /\ FreeChain(p, f)
      /\ Len(s) \in Nat /\ Len(f) \in Nat /\ n \in Nodes /\ p.size = Len(s)
  BY AtProperties DEF Lists, Chain, FreeChain
<1>2. /\ Outside(n, t) /\ Len(t) = Len(s) - 1
  BY <1>1, RemovalDistinct, RemoveNode
<1>3. Shared(t, g) /\ Outside(n, f)
  BY <1>1, SharedAfterRelease
<1>4. Chain(u, t) /\ \A m \in Nodes : Outside(m, s) => u.next[m] = p.next[m]
  BY <1>1, UnlinkChain
<1>5. Released(p, n) = [v EXCEPT !.size = v.size - 1]
  BY DEF Released
<1> HIDE DEF n, t, g
<1>6. u \in Pool /\ u.data = p.data /\ u.free = p.free /\ u.size = p.size
  BY <1>1, UnlinkFields
<1> HIDE DEF u
<1>7. FreeChain(u, f)
  <2>1. ASSUME NEW j \in 1 .. Len(f)
        PROVE  u.next[f[j]] = p.next[f[j]]
    <3>1. f[j] \in Nodes /\ Outside(f[j], s)
      BY <1>1, AtProperties DEF Shared, Outside
    <3> QED
      BY <1>4, <3>1
  <2> QED
    BY <1>1, <1>6, <2>1, SameFreeChain
<1>8. Chain(v, t) /\ FreeChain(v, g)
  <2> HIDE DEF v
  <2> QED
    BY <1>1, <1>2, <1>3, <1>4, <1>6, <1>7, FreeNodeChains DEF g, v
<1>9. v \in Pool /\ v.data = p.data /\ v.size = Len(s)
  <2>1. v \in Pool /\ v.data = u.data /\ v.size = u.size
    <3>1. n \in Nodes /\ u \in Pool
      BY <1>1, <1>6
    <3> QED
      BY <3>1, FreeNodeFields
  <2> HIDE DEF v
  <2> QED
    BY <1>1, <1>6, <2>1
<1> HIDE DEF v
<1> DEFINE w == [v EXCEPT !.size = v.size - 1]
<1>10. v.size - 1 = Len(t) /\ v.size - 1 \in 0 .. Capacity
  <2>1. Len(s) + Len(f) = Capacity
    BY <1>1 DEF Shared
  <2>2. Len(s) # 0
    BY <1>1
  <2> QED
    BY <1>1, <1>2, <1>9, <2>1, <2>2
<1>11. /\ w \in Pool /\ w.size = Len(t) /\ w.data = p.data
       /\ w.head = v.head /\ w.tail = v.tail /\ w.free = v.free
       /\ w.next = v.next /\ w.prev = v.prev
  BY <1>9, <1>10, SizeFields
<1> HIDE DEF w
<1>12. Chain(w, t) /\ FreeChain(w, g)
  BY <1>8, <1>11, SameChain, SameFreeChain
<1>13. Lists(w, t, g) /\ w.data = p.data
  BY <1>3, <1>11, <1>12 DEF Lists
<1> QED
  BY <1>5, <1>13 DEF w, t, g, n

(* linkBefore() and linkAfter() put a node that is on no list before or    *)
(* behind the i-th one, and touch the next link of no other free node.     *)
LEMMA LinkBeforeChain ==
  ASSUME NEW p \in Pool, NEW s, Chain(p, s), NEW i \in 1 .. Len(s),
         NEW n \in Nodes, Outside(n, s)
  PROVE  /\ Chain(LinkBefore(p, n, s[i]), InsertAt(s, i, n))
         /\ \A m \in Nodes : m # n /\ Outside(m, s) => LinkBefore(p, n, s[i]).next[m] = p.next[m]
<1> DEFINE q == LinkBefore(p, n, s[i])
           t == InsertAt(s, i, n)
           b == s[i]
<1>1. /\ s \in Seq(Nodes) /\ Len(s) \in Nat /\ b \in Nodes /\ b = At(s, i)
      /\ p.prev[b] = At(s, i - 1)
  BY AtProperties DEF Chain
<1>2. b # n /\ n # At(s, i - 1) /\ At(s, i - 1) # b
  <2>1. n # At(s, i - 1)
    BY NodesAreNotNil DEF At, Outside
  <2>2. At(s, i - 1) # b
    <3>1. i - 1 \in Int /\ i - 1 # i
      OBVIOUS
    <3> QED
      BY <1>1, <3>1, AtDistinct DEF Chain
  <2> QED
    BY <2>1, <2>2 DEF Outside
<1>3. i \in 1 .. Len(s) + 1
  BY <1>1
<1> HIDE DEF q, b
<1>4. /\ t \in Seq(Nodes) /\ Len(t) = Len(s) + 1
      /\ \A k \in Int : At(t, k) = IF k < i THEN At(s, k) ELSE IF k = i THEN n ELSE At(s, k - 1)
  <2>1. s \in Seq(Nodes)
    BY <1>1
  <2> QED
    BY <1>3, <2>1, InsertNode
<1>5. Distinct(t)
  BY <1>1, <1>3, InsertionDistinct DEF Chain
<1> HIDE DEF t
<1>6. q = LinkBefore(p, n, b)
  BY DEF q, b
<1>7. /\ \A m \in Nodes : q.next[m] = IF m = n THEN b ELSE IF m = At(s, i - 1) THEN n ELSE p.next[m]
      /\ \A m \in Nodes : q.prev[m] = IF m = b THEN n
                                      ELSE IF m = n THEN At(s, i - 1) ELSE p.prev[m]
      /\ q.head = (IF At(s, i - 1) = Nil THEN n ELSE p.head) /\ q.tail = p.tail
  <2>1. b \in Nodes /\ p.prev[b] = At(s, i - 1)
    BY <1>1
  <2> DEFINE r == LinkBefore(p, n, b)
  <2>2. /\ \A m \in Nodes : r.next[m] = IF m = n THEN b ELSE IF m = p.prev[b] THEN n ELSE p.next[m]
        /\ \A m \in Nodes : r.prev[m] = IF m = b THEN n ELSE IF m = n THEN p.prev[b] ELSE p.prev[m]
        /\ r.head = (IF p.prev[b] = Nil THEN n ELSE p.head) /\ r.tail = p.tail
    BY <2>1 DEF LinkBefore, Pool
  <2> HIDE DEF r
  <2>3. q = r
    BY <1>6 DEF r
  <2> QED
    BY <2>1, <2>2, <2>3
<1>8. q.head = At(t, 1)
  <2>1. At(s, i - 1) = Nil <=> i = 1
    BY <1>1, AtProperties
  <2>2. At(t, 1) = IF 1 < i THEN At(s, 1) ELSE IF 1 = i THEN n ELSE At(s, 1 - 1)
    BY <1>4
  <2> QED
    BY <1>7, <2>1, <2>2 DEF Chain
<1>9. q.tail = At(t, Len(t))
  <2>1. Len(s) + 1 \in Int /\ ~(Len(s) + 1 < i) /\ Len(s) + 1 # i /\ (Len(s) + 1) - 1 = Len(s)
    BY <1>1
  <2>2. At(t, Len(s) + 1) = At(s, (Len(s) + 1) - 1)
    BY <1>4, <2>1
  <2> QED
    BY <1>4, <1>7, <2>1, <2>2 DEF Chain
<1>10. ASSUME NEW k \in 1 .. Len(t)
       PROVE  q.next[t[k]] = At(t, k + 1) /\ q.prev[t[k]] = At(t, k - 1)
  <2>1. k \in Int /\ k + 1 \in Int /\ k - 1 \in Int /\ t[k] = At(t, k)
    <3>1. k \in Int
      BY <1>1, <1>4
    <3> QED
      BY <3>1 DEF At
  <2>2. At(t, k + 1) = IF k + 1 < i THEN At(s, k + 1)
                       ELSE IF k + 1 = i THEN n ELSE At(s, (k + 1) - 1)
    BY <1>4, <2>1
  <2>3. At(t, k - 1) = IF k - 1 < i THEN At(s, k - 1)
                       ELSE IF k - 1 = i THEN n ELSE At(s, (k - 1) - 1)
    BY <1>4, <2>1
  <2>4. At(t, k) = IF k < i THEN At(s, k) ELSE IF k = i THEN n ELSE At(s, k - 1)
    BY <1>4, <2>1
  <2>5. CASE k = i
    <3>1. t[k] = n /\ ~(k + 1 < i) /\ k + 1 # i /\ (k + 1) - 1 = i /\ k - 1 < i
      BY <2>1, <2>4, <2>5
    <3> QED
      BY <1>1, <1>2, <1>7, <2>2, <2>3, <2>5, <3>1
  <2>6. CASE k # i
    <3> DEFINE a == IF k < i THEN k ELSE k - 1
    <3>1. a \in 1 .. Len(s) /\ t[k] = At(s, a)
      BY <1>1, <1>4, <2>1, <2>4, <2>6
    <3>2. a = i <=> k = i + 1
      BY <2>1, <2>6
    <3>3. a = i - 1 <=> k + 1 = i
      BY <2>1, <2>6
    <3>4. k < i => a = k
      OBVIOUS
    <3>5. ~(k < i) => a = k - 1
      OBVIOUS
    <3> HIDE DEF a
    <3>6. At(s, a) = s[a] /\ s[a] \in Nodes /\ s[a] # n
          /\ p.next[s[a]] = At(s, a + 1) /\ p.prev[s[a]] = At(s, a - 1)
      BY <1>1, <3>1, AtProperties DEF Chain, Outside
    <3>7. (s[a] = b <=> a = i) /\ (s[a] = At(s, i - 1) <=> a = i - 1)
      <4>1. i - 1 \in Int /\ i \in Int
        OBVIOUS
      <4> QED
        BY <1>1, <3>1, <3>6, <4>1, AtDistinct DEF Chain
    <3>8. q.next[s[a]] = IF a = i - 1 THEN n ELSE At(s, a + 1)
      BY <1>7, <3>6, <3>7
    <3>9. q.prev[s[a]] = IF a = i THEN n ELSE At(s, a - 1)
      BY <1>7, <3>6, <3>7
    <3>10. CASE k < i
      BY <2>1, <2>2, <2>3, <3>1, <3>3, <3>4, <3>6, <3>8, <3>9, <3>10
    <3>11. CASE ~(k < i)
      <4>1. (k + 1) - 1 = a + 1 /\ ~(k + 1 < i) /\ k + 1 # i
        BY <2>1, <3>5, <3>11
      <4>2. k - 1 = a /\ (k - 1) - 1 = a - 1 /\ ~(k - 1 < i)
        BY <2>1, <2>6, <3>5, <3>11
      <4> QED
        BY <2>1, <2>2, <2>3, <3>1, <3>2, <3>3, <3>6, <3>8, <3>9, <4>1, <4>2
    <3> QED
      BY <3>10, <3>11
  <2> QED
    BY <2>5, <2>6
<1>11. Chain(q, t)
  BY <1>4, <1>5, <1>8, <1>9, <1>10 DEF Chain
<1>12. ASSUME NEW m \in Nodes, m # n, Outside(m, s)
       PROVE  q.next[m] = p.next[m]
  <2>1. m # At(s, i - 1)
    BY <1>12, NodesAreNotNil DEF At, Outside
  <2> QED
    BY <1>7, <1>12, <2>1
<1> QED
  BY <1>11, <1>12 DEF q, t

(* A node linked behind the tail is the last of the list.                  *)
LEMMA LinkAfterTail ==
  ASSUME NEW p \in Pool, NEW s, Chain(p, s), s # <<>>, NEW n \in Nodes, Outside(n, s)
  PROVE  /\ Chain(LinkAfter(p, n, p.tail), InsertAt(s, Len(s) + 1, n))
         /\ \A m \in Nodes : m # n /\ Outside(m, s) =>
              LinkAfter(p, n, p.tail).next[m] = p.next[m]
<1> DEFINE last == p.tail
           q == LinkAfter(p, n, last)
           i == Len(s) + 1
           t == InsertAt(s, i, n)
<1>1. /\ s \in Seq(Nodes) /\ Len(s) \in Nat /\ Len(s) \in 1 .. Len(s)
      /\ last = At(s, Len(s)) /\ last = s[Len(s)] /\ last \in Nodes
      /\ p.next[last] = At(s, i)
  BY AtProperties, EmptySeq DEF Chain
<1>2. At(s, i) = Nil /\ i \in 1 .. Len(s) + 1 /\ i \in Int
  BY <1>1, AtProperties
<1>3. n # last /\ Nil \notin Nodes
  BY <1>1, NodesAreNotNil DEF Outside
<1> HIDE DEF last
<1>4. /\ \A m \in Nodes : q.next[m] = IF m = last THEN n ELSE IF m = n THEN Nil ELSE p.next[m]
      /\ \A m \in Nodes : q.prev[m] = IF m = n THEN last ELSE p.prev[m]
      /\ q.head = p.head /\ q.tail = n
  BY <1>1, <1>2, <1>3 DEF LinkAfter, Pool
<1> HIDE DEF q, i
<1>5. /\ t \in Seq(Nodes) /\ Len(t) = Len(s) + 1
      /\ \A k \in Int : At(t, k) = IF k < i THEN At(s, k) ELSE IF k = i THEN n ELSE At(s, k - 1)
  <2>1. s \in Seq(Nodes)
    BY <1>1
  <2> QED
    BY <1>2, <2>1, InsertNode
<1>6. Distinct(t)
  BY <1>1, <1>2, InsertionDistinct DEF Chain
<1> HIDE DEF t
<1>7. Len(t) = i /\ i > 1
  BY <1>1, <1>5 DEF i
<1>8. q.head = At(t, 1) /\ q.tail = At(t, Len(t))
  BY <1>2, <1>4, <1>5, <1>7 DEF Chain
<1>9. ASSUME NEW k \in 1 .. Len(t)
      PROVE  q.next[t[k]] = At(t, k + 1) /\ q.prev[t[k]] = At(t, k - 1)
  <2>1. k \in Int /\ k + 1 \in Int /\ k - 1 \in Int /\ t[k] = At(t, k)
    <3>1. k \in Int
      BY <1>1, <1>5
    <3> QED
      BY <3>1 DEF At
  <2>2. k \in 1 .. Len(s) \/ k = i
    BY <1>1, <1>5 DEF i
  <2>3. CASE k = i
    <3>1. t[k] = n /\ i - 1 = Len(s) /\ At(t, i - 1) = At(s, i - 1)
      BY <1>1, <1>2, <1>5, <2>1, <2>3 DEF i
    <3>2. At(t, i + 1) = Nil
      BY <1>2, <1>5, <1>7, AtProperties
    <3> QED
      BY <1>1, <1>3, <1>4, <2>3, <3>1, <3>2
  <2>4. CASE k \in 1 .. Len(s)
    <3>1. k < i /\ k - 1 < i /\ k + 1 <= i
      BY <1>1, <2>4 DEF i
    <3>2. t[k] = s[k] /\ s[k] \in Nodes /\ s[k] # n /\ At(t, k - 1) = At(s, k - 1)
      BY <1>1, <1>5, <2>1, <2>4, <3>1, AtProperties DEF Outside
    <3>3. p.next[s[k]] = At(s, k + 1) /\ p.prev[s[k]] = At(s, k - 1)
      BY <2>4 DEF Chain
    <3>4. s[k] = last <=> k = Len(s)
      BY <1>1, <2>4 DEF Chain, Distinct
    <3>5. At(t, k + 1) = IF k = Len(s) THEN n ELSE At(s, k + 1)
      <4>1. k + 1 = i <=> k = Len(s)
        BY <1>1, <2>1 DEF i
      <4> QED
        BY <1>2, <1>5, <2>1, <3>1, <4>1
    <3> QED
      BY <1>4, <3>2, <3>3, <3>4, <3>5
  <2> QED
    BY <2>2, <2>3, <2>4
<1>10. Chain(q, t)
  BY <1>5, <1>6, <1>8, <1>9 DEF Chain
<1>11. ASSUME NEW m \in Nodes, m # n, Outside(m, s)
       PROVE  q.next[m] = p.next[m]
  BY <1>1, <1>4, <1>11 DEF Outside
<1> QED
  BY <1>10, <1>11 DEF q, t, i, last

(* The first entry of an empty list.                                       *)
LEMMA FirstChain ==
  ASSUME NEW p \in Pool, NEW s, Chain(p, s), NEW i \in 1 .. Len(s) + 1,
         NEW n \in Nodes, p.next[n] = Nil, p.prev[n] = Nil
  PROVE  LET q == [p EXCEPT !.head = n, !.tail = n]
         IN  /\ Len(s) = 0 => Chain(q, InsertAt(s, i, n))
             /\ q \in Pool /\ q.data = p.data /\ q.next = p.next /\ q.free = p.free
             /\ q.size = p.size
<1> DEFINE q == [p EXCEPT !.head = n, !.tail = n]
           t == InsertAt(s, i, n)
<1>1. /\ q \in Pool /\ q.data = p.data /\ q.next = p.next /\ q.free = p.free
      /\ q.size = p.size /\ q.prev = p.prev /\ q.head = n /\ q.tail = n
  BY DEF Pool
<1> HIDE DEF q
<1>2. /\ t \in Seq(Nodes) /\ Len(t) = Len(s) + 1
      /\ \A k \in 1 .. Len(s) + 1 : t[k] = IF k < i THEN s[k] ELSE IF k = i THEN n ELSE s[k - 1]
  <2>1. s \in Seq(Nodes)
    BY DEF Chain
  <2> QED
    BY <2>1, InsertNode
<1> HIDE DEF t
<1>3. ASSUME Len(s) = 0
      PROVE  Chain(q, t)
  <2>1. t \in Seq(Nodes) /\ Len(t) = 1 /\ t[1] = n /\ \A k \in 1 .. Len(t) : k = 1
    BY <1>2, <1>3
  <2>2. At(t, 1) = n /\ At(t, 1 + 1) = Nil /\ At(t, 1 - 1) = Nil
    BY <2>1 DEF At
  <2> QED
    BY <1>1, <2>1, <2>2 DEF Chain, Distinct
<1> QED
  BY <1>1, <1>3 DEF q, t

-----------------------------------------------------------------------------
(* The loops.  A set of numbers from m to N that holds m, and with each    *)
(* number the next, is all of them: what follows of each turn of a loop    *)
(* follows of all.                                                         *)
LEMMA AllTurns ==
  ASSUME NEW m \in Nat, NEW N \in Int, NEW P, m <= N => m \in P,
         \A k \in m .. N : k # m /\ k - 1 \in P => k \in P
  PROVE  m .. N \subseteq P
<1> DEFINE T == (m .. N) \ P
<1> SUFFICES ASSUME T # {} PROVE FALSE
  OBVIOUS
<1>1. T \subseteq Nat
  OBVIOUS
<1>2. Min(T) \in T /\ \A y \in T : Min(T) <= y
  BY <1>1, MinProperties
<1> DEFINE k == Min(T)
<1>3. k \in m .. N /\ k \notin P
  BY <1>2
<1>4. k - 1 \notin T
  BY <1>2, <1>3
<1> HIDE DEF k
<1>5. k # m
  BY <1>3
<1>6. k \in m .. N /\ k - 1 \in m .. N
  BY <1>3, <1>5
<1> QED
  BY <1>3, <1>4, <1>5, <1>6

(* The loop from the head stops at the first node of the list that is a    *)
(* stop, or behind the last node.                                          *)
LEMMA WalkFinds ==
  ASSUME NEW p, NEW s, Chain(p, s), Len(s) <= Capacity, NEW stops,
         NEW m \in 1 .. Len(s) + 1,
         \A k \in 1 .. Len(s) : k < m => s[k] \notin stops,
         m <= Len(s) => s[m] \in stops
  PROVE  Walk(p, stops) = At(s, m)
<1> DEFINE Turn(g, k) == IF k = 0 THEN p.head
                         ELSE IF g[k - 1] \in {Nil} \cup stops THEN g[k - 1]
                         ELSE p.next[g[k - 1]]
           Loop(g) == g = [k \in 0 .. Capacity |-> Turn(g, k)]
           Seen(k) == At(s, IF k + 1 < m THEN k + 1 ELSE m)
           w == [k \in 0 .. Capacity |-> Seen(k)]
           curr == CHOOSE g : Loop(g)
<1>1. /\ s \in Seq(Nodes) /\ Len(s) \in Nat /\ Capacity \in Nat /\ p.head = At(s, 1)
      /\ \A k \in 1 .. Len(s) : At(s, k) = s[k] /\ s[k] \in Nodes /\ p.next[s[k]] = At(s, k + 1)
      /\ At(s, Len(s) + 1) = Nil /\ Nil \notin Nodes
  BY AtProperties, Constants, NodesAreNotNil DEF Chain
<1>2. ASSUME NEW k \in 1 .. Capacity
      PROVE  Seen(k) = IF Seen(k - 1) \in {Nil} \cup stops THEN Seen(k - 1)
                       ELSE p.next[Seen(k - 1)]
  <2>1. (k - 1) + 1 = k /\ k \in Int
    OBVIOUS
  <2>2. CASE k < m
    <3>1. Seen(k - 1) = s[k] /\ s[k] \notin {Nil} \cup stops /\ p.next[s[k]] = At(s, k + 1)
      BY <1>1, <2>1, <2>2
    <3>2. Seen(k) = At(s, k + 1)
      <4>1. ~(k + 1 < m) => m = k + 1
        BY <1>1, <2>2
      <4> QED
        BY <4>1
    <3> QED
      BY <3>1, <3>2
  <2>3. CASE ~(k < m)
    <3>1. Seen(k - 1) = At(s, m) /\ Seen(k) = At(s, m)
      BY <1>1, <2>1, <2>3
    <3>2. At(s, m) \in {Nil} \cup stops
      BY <1>1
    <3> QED
      BY <3>1, <3>2
  <2> QED
    BY <2>2, <2>3
<1>3. Seen(0) = p.head
  BY <1>1
<1> HIDE DEF Seen
<1>4. Loop(w)
  <2>1. ASSUME NEW k \in 0 .. Capacity
        PROVE  Turn(w, k) = Seen(k)
    <3>1. k # 0 => k \in 1 .. Capacity /\ w[k - 1] = Seen(k - 1)
      BY <1>1
    <3> HIDE DEF w
    <3> QED
      BY <1>2, <1>3, <3>1
  <2> QED
    BY <2>1
<1>5. Loop(curr)
  BY <1>4
<1>6. Walk(p, stops) = curr[Capacity]
  BY DEF Walk
<1> HIDE DEF curr
<1> DEFINE P == {k \in 0 .. Capacity : curr[k] = Seen(k)}
<1>7. \A k \in 0 .. Capacity : curr[k] = Turn(curr, k)
  BY <1>5
<1>8. 0 \in P
  BY <1>1, <1>3, <1>7
<1>9. ASSUME NEW k \in 0 .. Capacity, k # 0, k - 1 \in P
      PROVE  k \in P
  <2>1. k \in 1 .. Capacity /\ k \in 0 .. Capacity /\ k # 0 /\ curr[k - 1] = Seen(k - 1)
    BY <1>1, <1>9
  <2>2. curr[k] = IF curr[k - 1] \in {Nil} \cup stops THEN curr[k - 1] ELSE p.next[curr[k - 1]]
    BY <1>7, <2>1
  <2> QED
    BY <1>2, <2>1, <2>2
<1>10. Capacity \in P
  <2> HIDE DEF P
  <2>1. 0 .. Capacity \subseteq P
    <3>1. \A k \in 0 .. Capacity : k # 0 /\ k - 1 \in P => k \in P
      BY <1>9
    <3>2. 0 \in Nat /\ Capacity \in Int
      BY <1>1
    <3> QED
      BY <1>8, <3>1, <3>2, AllTurns
  <2> QED
    BY <1>1, <2>1
<1>11. Seen(Capacity) = At(s, m)
  <2>1. Capacity + 1 < m => FALSE
    BY <1>1
  <2> QED
    BY <2>1 DEF Seen
<1> QED
  BY <1>6, <1>10, <1>11

(* Following the links from the first node reads the list.                 *)
LEMMA OrderIsList ==
  ASSUME NEW p, NEW s, Chain(p, s), p.size = Len(s)
  PROVE  Order(p) = s
<1> DEFINE Hop(g, i) == IF i = 1 THEN p.head ELSE p.next[g[i - 1]]
           Loop(g) == g = [i \in 1 .. p.size |-> Hop(g, i)]
           hop == CHOOSE g : Loop(g)
           P == {i \in 1 .. p.size : hop[i] = s[i]}
<1>1. /\ s \in Seq(Nodes) /\ Len(s) \in Nat /\ p.size \in Int /\ 1 \in Nat
      /\ p.size > 0 => p.head = s[1]
      /\ \A i \in 1 .. p.size : i # 1 => i - 1 \in 1 .. p.size /\ p.next[s[i - 1]] = s[i]
  <2>1. s \in Seq(Nodes) /\ Len(s) \in Nat
    BY LenProperties DEF Chain
  <2>2. p.size > 0 => p.head = s[1]
    BY <2>1 DEF Chain, At
  <2>3. ASSUME NEW i \in 1 .. p.size, i # 1
        PROVE  i - 1 \in 1 .. p.size /\ p.next[s[i - 1]] = s[i]
    <3>1. i - 1 \in 1 .. Len(s) /\ (i - 1) + 1 = i
      BY <2>1, <2>3
    <3>2. p.next[s[i - 1]] = At(s, (i - 1) + 1)
      BY <3>1 DEF Chain
    <3> QED
      BY <3>1, <3>2 DEF At
  <2> QED
    BY <2>1, <2>2, <2>3
<1>2. s = [i \in 1 .. p.size |-> s[i]]
  BY <1>1
<1>3. Loop(s)
  <2>1. \A i \in 1 .. p.size : Hop(s, i) = s[i]
    BY <1>1
  <2> HIDE DEF Hop
  <2> QED
    BY <1>2, <2>1
<1>4. Loop(hop)
  BY <1>3
<1>5. Order(p) = hop
  BY DEF Order
<1> HIDE DEF hop
<1>6. hop = [i \in 1 .. p.size |-> hop[i]] /\ \A i \in 1 .. p.size : hop[i] = Hop(hop, i)
  BY <1>4
<1>7. ASSUME 1 <= p.size
      PROVE  1 \in P
  <2>1. 1 \in 1 .. p.size /\ p.head = s[1]
    BY <1>1, <1>7
  <2>2. hop[1] = p.head
    BY <1>6, <2>1
  <2> QED
    BY <2>1, <2>2
<1>8. \A i \in 1 .. p.size : i # 1 /\ i - 1 \in P => i \in P
  BY <1>1, <1>6
<1>9. \A i \in 1 .. p.size : hop[i] = s[i]
  <2> HIDE DEF P
  <2>1. 1 .. p.size \subseteq P
    BY <1>1, <1>7, <1>8, AllTurns
  <2> QED
    BY <2>1 DEF P
<1> QED
  BY <1>2, <1>5, <1>6, <1>9
(* Following the links from the free list gives its nodes in order.        *)
LEMMA FreeOrderIsList ==
  ASSUME NEW p, NEW s, FreeChain(p, s), Capacity - p.size = Len(s)
  PROVE  FreeOrder(p) = s
<1> DEFINE N == Capacity - p.size
           Hop(g, i) == IF i = 1 THEN p.free ELSE p.next[g[i - 1]]
           Loop(g) == g = [i \in 1 .. N |-> Hop(g, i)]
           hop == CHOOSE g : Loop(g)
           P == {i \in 1 .. N : hop[i] = s[i]}
<1>1. /\ s \in Seq(Nodes) /\ Len(s) \in Nat /\ N \in Int /\ N = Len(s) /\ 1 \in Nat
      /\ N > 0 => p.free = s[1]
      /\ \A i \in 1 .. N : i # 1 => i - 1 \in 1 .. N /\ p.next[s[i - 1]] = s[i]
  <2>1. s \in Seq(Nodes) /\ Len(s) \in Nat /\ N = Len(s)
    BY LenProperties DEF FreeChain
  <2>2. N > 0 => p.free = s[1]
    BY <2>1 DEF FreeChain, At
  <2>3. ASSUME NEW i \in 1 .. N, i # 1
        PROVE  i - 1 \in 1 .. N /\ p.next[s[i - 1]] = s[i]
    <3>1. i - 1 \in 1 .. Len(s) /\ (i - 1) + 1 = i
      BY <2>1, <2>3
    <3>2. p.next[s[i - 1]] = At(s, (i - 1) + 1)
      BY <3>1 DEF FreeChain
    <3> QED
      BY <3>1, <3>2 DEF At
  <2> QED
    BY <2>1, <2>2, <2>3
<1> HIDE DEF N
<1>2. s = [i \in 1 .. N |-> s[i]]
  BY <1>1
<1>3. Loop(s)
  <2>1. \A i \in 1 .. N : Hop(s, i) = s[i]
    BY <1>1
  <2> HIDE DEF Hop
  <2> QED
    BY <1>2, <2>1
<1>4. Loop(hop)
  BY <1>3
<1>5. FreeOrder(p) = hop
  BY DEF FreeOrder, N
<1> HIDE DEF hop
<1>6. hop = [i \in 1 .. N |-> hop[i]] /\ \A i \in 1 .. N : hop[i] = Hop(hop, i)
  BY <1>4
<1>7. ASSUME 1 <= N
      PROVE  1 \in P
  <2>1. 1 \in 1 .. N /\ p.free = s[1]
    BY <1>1, <1>7
  <2>2. hop[1] = p.free
    BY <1>6, <2>1
  <2> QED
    BY <2>1, <2>2
<1>8. \A i \in 1 .. N : i # 1 /\ i - 1 \in P => i \in P
  BY <1>1, <1>6
<1>9. \A i \in 1 .. N : hop[i] = s[i]
  <2> HIDE DEF P
  <2>1. 1 .. N \subseteq P
    BY <1>1, <1>7, <1>8, AllTurns
  <2> QED
    BY <2>1 DEF P
<1> QED
  BY <1>2, <1>5, <1>6, <1>9

(* What the listed nodes hold, which is the queue of TimedQueue.           *)
Data(p, s) == [i \in 1 .. Len(s) |-> p.data[s[i]]]

(* What a pool lists is the data of the nodes on its list.                 *)
LEMMA ListedIsData ==
  ASSUME NEW p, NEW s, NEW f, Lists(p, s, f)
  PROVE  Order(p) = s /\ FreeOrder(p) = f /\ Listed(p) = Data(p, s)
<1>1. Order(p) = s
  BY OrderIsList DEF Lists
<1>2. Capacity - p.size = Len(f)
  <2>1. Len(s) \in Nat /\ Len(f) \in Nat /\ Len(s) + Len(f) = Capacity /\ p.size = Len(s)
    BY LenProperties DEF Lists, Chain, FreeChain, Shared
  <2> QED
    BY <2>1
<1>3. FreeOrder(p) = f
  BY <1>2, FreeOrderIsList DEF Lists
<1>4. p.size = Len(s)
  BY DEF Lists
<1> QED
  BY <1>1, <1>3, <1>4 DEF Listed, Data

(* What a list that loses or gains a node holds.                           *)
LEMMA DataOfRemoval ==
  ASSUME NEW p, NEW s \in Seq(Nodes), NEW T, \A k \in 1 .. Len(s) : p.data[s[k]] \in T,
         NEW i \in 1 .. Len(s)
  PROVE  /\ Data(p, s) \in Seq(T) /\ Len(Data(p, s)) = Len(s)
         /\ Data(p, RemoveAt(s, i)) = RemoveAt(Data(p, s), i)
<1> DEFINE d == Data(p, s)
           t == RemoveAt(s, i)
<1>1. Len(s) \in Nat
  BY LenProperties
<1>2. d \in Seq(T) /\ Len(d) = Len(s) /\ \A k \in 1 .. Len(s) : d[k] = p.data[s[k]]
  BY <1>1, SeqDef DEF Data
<1>3. /\ Len(t) = Len(s) - 1
      /\ \A k \in 1 .. Len(s) - 1 : t[k] = s[IF k < i THEN k ELSE k + 1]
  BY RemoveNode
<1> HIDE DEF d, t
<1>4. /\ RemoveAt(d, i) \in Seq(T) /\ Len(RemoveAt(d, i)) = Len(s) - 1
      /\ \A k \in 1 .. Len(s) - 1 : RemoveAt(d, i)[k] = IF k < i THEN d[k] ELSE d[k + 1]
  <2>1. i \in 1 .. Len(d)
    BY <1>2
  <2>2. d \in Seq(T)
    BY <1>2
  <2>3. /\ RemoveAt(d, i) \in Seq(T) /\ Len(RemoveAt(d, i)) = Len(d) - 1
        /\ \A k \in 1 .. Len(d) - 1 : RemoveAt(d, i)[k] = IF k < i THEN d[k] ELSE d[k + 1]
    BY <2>1, <2>2, RemoveAtProperties
  <2> QED
    BY <1>2, <2>3
<1>5. ASSUME NEW k \in 1 .. Len(s) - 1
      PROVE  p.data[t[k]] = RemoveAt(d, i)[k]
  BY <1>1, <1>2, <1>3, <1>4
<1>6. Data(p, t) = [k \in 1 .. Len(s) - 1 |-> RemoveAt(d, i)[k]]
  BY <1>3, <1>5 DEF Data
<1>7. RemoveAt(d, i) = [k \in 1 .. Len(s) - 1 |-> RemoveAt(d, i)[k]]
  BY <1>4
<1> QED
  BY <1>2, <1>6, <1>7 DEF d, t

(* Inserting a node inserts its entry.                                     *)
LEMMA DataOfInsertion ==
  ASSUME NEW p, NEW s \in Seq(Nodes), NEW T, \A k \in 1 .. Len(s) : p.data[s[k]] \in T,
         NEW i \in 1 .. Len(s) + 1, NEW n \in Nodes, p.data[n] \in T
  PROVE  Data(p, InsertAt(s, i, n)) = InsertAt(Data(p, s), i, p.data[n])
<1> DEFINE d == Data(p, s)
           t == InsertAt(s, i, n)
           e == p.data[n]
           r == InsertAt(d, i, e)
<1>1. Len(s) \in Nat
  BY LenProperties
<1>2. d \in Seq(T) /\ Len(d) = Len(s) /\ \A k \in 1 .. Len(s) : d[k] = p.data[s[k]]
  BY <1>1, SeqDef DEF Data
<1>3. /\ Len(t) = Len(s) + 1
      /\ \A k \in 1 .. Len(s) + 1 : t[k] = IF k < i THEN s[k] ELSE IF k = i THEN n ELSE s[k - 1]
  <2> HIDE DEF d, e, r
  <2>1. Len(t) = Len(s) + 1
    BY InsertNode
  <2>2. ASSUME NEW k \in 1 .. Len(s) + 1
        PROVE  t[k] = IF k < i THEN s[k] ELSE IF k = i THEN n ELSE s[k - 1]
    BY <1>1, InsertAtProperties, SMTT(30)
  <2> QED
    BY <2>1, <2>2
<1> HIDE DEF d, t
<1>4. /\ r \in Seq(T) /\ Len(r) = Len(s) + 1
      /\ \A k \in 1 .. Len(s) + 1 : r[k] = IF k < i THEN d[k] ELSE IF k = i THEN e ELSE d[k - 1]
  <2>1. d \in Seq(T) /\ i \in 1 .. Len(d) + 1 /\ e \in T
    BY <1>2
  <2> HIDE DEF e
  <2>2. r \in Seq(T) /\ Len(r) = Len(d) + 1
    BY <2>1, InsertAtProperties
  <2>3. ASSUME NEW k \in 1 .. Len(d) + 1
        PROVE  r[k] = IF k < i THEN d[k] ELSE IF k = i THEN e ELSE d[k - 1]
    BY <1>1, <1>2, <2>1, InsertAtProperties, SMTT(30)
  <2> HIDE DEF r
  <2> QED
    BY <1>2, <2>2, <2>3
<1> HIDE DEF r
<1>5. ASSUME NEW k \in 1 .. Len(s) + 1
      PROVE  p.data[t[k]] = r[k]
  <2>1. k # i /\ ~(k < i) => k - 1 \in 1 .. Len(s)
    BY <1>1
  <2>2. k < i => k \in 1 .. Len(s)
    BY <1>1
  <2> QED
    BY <1>2, <1>3, <1>4, <2>1, <2>2
<1>6. Data(p, t) = [k \in 1 .. Len(s) + 1 |-> r[k]]
  BY <1>3, <1>5 DEF Data
<1>7. r = [k \in 1 .. Len(s) + 1 |-> r[k]]
  BY <1>4
<1> QED
  BY <1>6, <1>7 DEF r, d, t, e

-----------------------------------------------------------------------------
(* insertReplace() puts the new node where Place says: its three shortcuts *)
(* (empty list, before the head, behind the tail) and its loop are one.    *)
LEMMA PlacedChain ==
  ASSUME NEW c \in Time, NEW p \in Pool, NEW s, Chain(p, s), Len(s) <= Capacity,
         p.size = Len(s), NEW n \in Nodes, Outside(n, s), p.next[n] = Nil, p.prev[n] = Nil,
         WellFormed(c, Data(p, s)),
         p.data[n].msec \in Time, Age(c, p.data[n].msec) <= Horizon + Lateness
  PROVE  LET q == Placed(p, n)
             i == Place(Data(p, s), p.data[n].msec)
         IN  /\ i \in 1 .. Len(s) + 1 /\ Chain(q, InsertAt(s, i, n))
             /\ q \in Pool /\ q.data = p.data /\ q.free = p.free /\ q.size = p.size
             /\ \A m \in Nodes : m # n /\ Outside(m, s) => q.next[m] = p.next[m]
<1> DEFINE d == Data(p, s)
           t == p.data[n].msec
           q == Placed(p, n)
           i == Place(d, t)
           stops == {m \in Nodes : ~IsBefore(p.data[m].msec, t)}
           curr == Walk(p, stops)
           later == NotBefore(d, t)
           first == IF later = {} THEN Len(s) + 1 ELSE Min(later)
<1>1. /\ s \in Seq(Nodes) /\ Len(s) \in Nat /\ \A k \in 1 .. Len(s) : s[k] \in Nodes
      /\ Nil \notin Nodes
  BY AtProperties, NodesAreNotNil DEF Chain
<1>2. /\ Len(d) = Len(s) /\ DOMAIN d = 1 .. Len(s)
      /\ \A k \in 1 .. Len(s) : d[k] = p.data[s[k]] /\ d[k].msec \in Time
  <2>1. Len(d) \in Nat /\ DOMAIN d = 1 .. Len(d) /\ \A k \in 1 .. Len(d) : d[k].msec \in Time
    BY EntryTypes
  <2>2. DOMAIN d = 1 .. Len(s) /\ \A k \in 1 .. Len(s) : d[k] = p.data[s[k]]
    BY DEF Data
  <2> HIDE DEF d
  <2>3. Len(d) = Len(s)
    BY <1>1, <2>1, <2>2
  <2> QED
    BY <2>1, <2>2, <2>3
<1> HIDE DEF d, t
<1>3. i \in 1 .. Len(s) + 1
  BY <1>2, PlaceProperties DEF d, t
<1>4. /\ \A k \in later : k \in 1 .. Len(s) /\ s[k] \in stops
      /\ \A k \in 1 .. Len(s) : k \notin later => s[k] \notin stops
  BY <1>1, <1>2 DEF NotBefore
<1>5. /\ first \in 1 .. Len(s) + 1
      /\ later = {} <=> first = Len(s) + 1
      /\ later # {} => first \in later /\ first = Min(later)
      /\ \A k \in 1 .. Len(s) : k < first => k \notin later
  <2>1. CASE later = {}
    BY <1>1, <2>1
  <2>2. CASE later # {}
    <3>1. later \subseteq Nat
      BY <1>4
    <3>2. Min(later) \in later /\ \A y \in later : Min(later) <= y
      BY <2>2, <3>1, MinProperties
    <3> HIDE DEF later
    <3> QED
      BY <1>1, <1>4, <2>2, <3>2
  <2> QED
    BY <2>1, <2>2
<1> HIDE DEF later, first, stops
<1>6. curr = At(s, first)
  <2>1. \A k \in 1 .. Len(s) : k < first => s[k] \notin stops
    BY <1>4, <1>5
  <2>2. first <= Len(s) => s[first] \in stops
    BY <1>1, <1>4, <1>5
  <2> QED
    BY <1>5, <2>1, <2>2, WalkFinds
<1> HIDE DEF curr
<1>7. p.size = 0 => i = Len(s) + 1
  BY <1>1, <1>2, <1>3
<1>8. ASSUME p.size # 0
      PROVE  /\ s # <<>> /\ d # <<>>
             /\ 1 \in 1 .. Len(s) /\ Len(s) \in 1 .. Len(s)
             /\ p.head = s[1] /\ p.data[p.head] = d[1]
             /\ p.tail = s[Len(s)] /\ p.data[p.tail] = d[Len(s)]
  <2>1. 1 \in 1 .. Len(s) /\ Len(s) \in 1 .. Len(s)
    BY <1>1, <1>8
  <2>2. p.head = s[1] /\ p.tail = s[Len(s)]
    BY <2>1 DEF Chain, At
  <2>3. s # <<>> /\ d # <<>>
    BY <1>2, <2>1, EmptySeq
  <2> QED
    BY <1>2, <2>1, <2>2, <2>3
<1>9. ASSUME p.size # 0, ~IsBefore(t, d[Len(s)].msec)
      PROVE  later = {}
  <2> SUFFICES ASSUME NEW k \in later PROVE FALSE
    OBVIOUS
  <2>1. k \in 1 .. Len(s) /\ Len(s) \in 1 .. Len(s) /\ ~IsBefore(d[k].msec, t)
    BY <1>4, <1>8, <1>9 DEF later, NotBefore
  <2>2. /\ Age(c, d[k].msec) <= Horizon + Lateness
        /\ Age(c, d[Len(s)].msec) <= Horizon + Lateness
        /\ Age(c, d[k].msec) <= Age(c, d[Len(s)].msec)
        /\ Age(c, d[k].msec) \in Nat /\ Age(c, d[Len(s)].msec) \in Nat
    <3>1. Age(c, d[k].msec) \in Nat /\ Age(c, d[Len(s)].msec) \in Nat
      BY <1>2, <2>1, AgeType
    <3>2. k < Len(s) \/ k = Len(s)
      BY <1>1, <2>1
    <3>3. WellFormed(c, d)
      BY DEF d
    <3>4. /\ \A x \in 1 .. Len(s) : Age(c, d[x].msec) <= Horizon + Lateness
          /\ \A x, y \in 1 .. Len(s) : x < y => Age(c, d[x].msec) <= Age(c, d[y].msec)
      BY <1>2, <3>3 DEF WellFormed
    <3> QED
      BY <2>1, <3>1, <3>2, <3>4
  <2>3. t \in Time /\ Age(c, t) \in Nat /\ Age(c, t) <= Horizon + Lateness
    BY AgeType DEF t
  <2>4. ~(Age(c, t) <= Age(c, d[Len(s)].msec)) /\ ~(Age(c, d[k].msec) <= Age(c, t))
    BY <1>2, <1>9, <2>1, <2>2, <2>3, BeforeIsByAge
  <2> QED
    BY <2>2, <2>3, <2>4
<1>10. /\ p.size # 0 /\ IsBefore(t, d[1].msec) => i = 1
       /\ ~(p.size # 0 /\ IsBefore(t, d[1].msec)) => i = first
  <2>1. d = <<>> => p.size = 0
    BY <1>2, EmptySeq
  <2> QED
    BY <1>2, <1>7, <1>8, <2>1 DEF Place, first, later
(* The four branches of the code.                                          *)
<1>11. \/ p.size = 0 /\ q = [p EXCEPT !.head = n, !.tail = n]
       \/ p.size # 0 /\ i \in 1 .. Len(s) /\ q = LinkBefore(p, n, s[i])
       \/ p.size # 0 /\ i = Len(s) + 1 /\ q = LinkAfter(p, n, p.tail)
  <2>1. CASE p.size = 0
    BY <2>1 DEF Placed
  <2>2. CASE p.size # 0 /\ IsBefore(t, d[1].msec)
    <3>1. q = LinkBefore(p, n, s[1])
      BY <1>8, <2>2 DEF Placed, t
    <3> QED
      BY <1>8, <1>10, <2>2, <3>1
  <2>3. CASE p.size # 0 /\ ~IsBefore(t, d[1].msec)
    <3>1. q = IF ~IsBefore(t, d[Len(s)].msec) \/ curr = Nil
              THEN LinkAfter(p, n, p.tail) ELSE LinkBefore(p, n, curr)
      BY <1>8, <2>3 DEF Placed, t, curr, stops
    <3>2. curr = Nil <=> first = Len(s) + 1
      BY <1>1, <1>5, <1>6 DEF At
    <3>3. i = first
      BY <1>10, <2>3
    <3>4. CASE ~IsBefore(t, d[Len(s)].msec) \/ curr = Nil
      BY <1>5, <1>9, <2>3, <3>1, <3>2, <3>3, <3>4
    <3>5. CASE ~(~IsBefore(t, d[Len(s)].msec) \/ curr = Nil)
      <4>1. first \in 1 .. Len(s)
        BY <1>1, <1>5, <3>2, <3>5
      <4>2. curr = s[first]
        BY <1>6, <4>1 DEF At
      <4> QED
        BY <2>3, <3>1, <3>3, <3>5, <4>1, <4>2
    <3> QED
      BY <3>4, <3>5
  <2> QED
    BY <2>1, <2>2, <2>3
<1> HIDE DEF q, i
<1>12. CASE p.size = 0 /\ q = [p EXCEPT !.head = n, !.tail = n]
  <2>1. q \in Pool /\ q.data = p.data /\ q.next = p.next /\ q.free = p.free /\ q.size = p.size
    BY <1>12 DEF Pool
  <2>2. Chain(q, InsertAt(s, i, n))
    BY <1>3, <1>12, FirstChain
  <2> QED
    BY <1>3, <2>1, <2>2 DEF q, i, d, t
<1>13. CASE p.size # 0 /\ i \in 1 .. Len(s) /\ q = LinkBefore(p, n, s[i])
  <2>1. s[i] \in Nodes
    BY <1>1, <1>13
  <2>2. q \in Pool /\ q.data = p.data /\ q.free = p.free /\ q.size = p.size
    BY <1>13, <2>1, LinkFields
  <2>3. /\ Chain(q, InsertAt(s, i, n))
        /\ \A m \in Nodes : m # n /\ Outside(m, s) => q.next[m] = p.next[m]
    BY <1>13, LinkBeforeChain
  <2> QED
    BY <1>3, <2>2, <2>3 DEF q, i, d, t
<1>14. CASE p.size # 0 /\ i = Len(s) + 1 /\ q = LinkAfter(p, n, p.tail)
  <2>1. p.tail \in Nodes
    BY <1>1, <1>8, <1>14
  <2>2. q \in Pool /\ q.data = p.data /\ q.free = p.free /\ q.size = p.size
    BY <1>14, <2>1, LinkFields
  <2>3. /\ Chain(q, InsertAt(s, i, n))
        /\ \A m \in Nodes : m # n /\ Outside(m, s) => q.next[m] = p.next[m]
    BY <1>8, <1>14, LinkAfterTail
  <2> QED
    BY <1>3, <2>2, <2>3 DEF q, i, d, t
<1> QED
  BY <1>11, <1>12, <1>13, <1>14

-----------------------------------------------------------------------------
(* The pool p holds the list d: what the proofs below carry from call to   *)
(* call.                                                                   *)
Holds(p, d) == \E s, f : Lists(p, s, f) /\ d = Data(p, s)

Entry == TimedThunk \cup [msec : {0}, thunk : {NullThunk}, id : {NoId}]

(* What follows from two lists that share the pool.                        *)
LEMMA HoldsProperties ==
  ASSUME NEW p, NEW s, NEW f, Lists(p, s, f)
  PROVE  /\ p \in Pool /\ s \in Seq(Nodes) /\ f \in Seq(Nodes) /\ Distinct(s) /\ Distinct(f)
         /\ Len(s) \in Nat /\ Len(f) \in Nat /\ Capacity \in Nat
         /\ Len(s) + Len(f) = Capacity /\ p.size = Len(s)
         /\ \A k \in 1 .. Len(s) : s[k] \in Nodes /\ p.data[s[k]] \in Entry
         /\ Data(p, s) \in Seq(Entry) /\ Len(Data(p, s)) = Len(s)
         /\ \A k \in 1 .. Len(s) : Data(p, s)[k] = p.data[s[k]]
<1>1. /\ p \in Pool /\ s \in Seq(Nodes) /\ f \in Seq(Nodes) /\ Distinct(s) /\ Distinct(f)
      /\ Len(s) \in Nat /\ Len(f) \in Nat /\ Capacity \in Nat
      /\ Len(s) + Len(f) = Capacity /\ p.size = Len(s)
  BY LenProperties, Constants DEF Lists, Chain, FreeChain, Shared
<1>2. \A k \in 1 .. Len(s) : s[k] \in Nodes /\ p.data[s[k]] \in Entry
  <2>1. \A k \in 1 .. Len(s) : s[k] \in Nodes
    BY <1>1, ElementOfSeq
  <2> QED
    BY <1>1, <2>1 DEF Pool, Entry
<1>3. Data(p, s) \in Seq(Entry) /\ Len(Data(p, s)) = Len(s)
  BY <1>1, <1>2, SeqDef DEF Data
<1>4. \A k \in 1 .. Len(s) : Data(p, s)[k] = p.data[s[k]]
  BY DEF Data
<1> QED
  BY <1>1, <1>2, <1>3, <1>4

(* A removal takes one entry out of the list.                              *)
LEMMA ReleasedHolds ==
  ASSUME NEW p, NEW s, NEW f, Lists(p, s, f), NEW i \in 1 .. Len(s)
  PROVE  Holds(Released(p, s[i]), RemoveAt(Data(p, s), i))
<1> DEFINE q == Released(p, s[i])
           t == RemoveAt(s, i)
           g == InsertAt(f, 1, s[i])
<1>1. Lists(q, t, g) /\ q.data = p.data
  BY ReleasedLists
<1>2. Data(p, t) = RemoveAt(Data(p, s), i)
  <2>1. s \in Seq(Nodes) /\ \A k \in 1 .. Len(s) : p.data[s[k]] \in Entry
    BY HoldsProperties
  <2> QED
    BY <2>1, DataOfRemoval
<1>3. Data(q, t) = Data(p, t)
  BY <1>1 DEF Data
<1> HIDE DEF q, t, g
<1>4. Holds(q, RemoveAt(Data(p, s), i))
  BY <1>1, <1>2, <1>3 DEF Holds
<1> QED
  BY <1>4 DEF q

(* remove() takes out what Removed says: its loop finds the first entry    *)
(* with the id.                                                            *)
LEMMA RemovedHolds ==
  ASSUME NEW p, NEW d, Holds(p, d), NEW id
  PROVE  Holds(RemovedId(p, id), Removed(d, id))
<1>1. PICK s, f : Lists(p, s, f) /\ d = Data(p, s)
  BY DEF Holds
<1> DEFINE stops == {n \in Nodes : p.data[n].id = id}
           found == {i \in DOMAIN d : d[i].id = id}
           first == IF found = {} THEN Len(s) + 1 ELSE Min(found)
<1>2. /\ s \in Seq(Nodes) /\ Len(s) \in Nat /\ Len(s) <= Capacity /\ Chain(p, s)
      /\ \A k \in 1 .. Len(s) : s[k] \in Nodes /\ d[k] = p.data[s[k]]
      /\ DOMAIN d = 1 .. Len(s)
  <2>1. Len(s) + Len(f) = Capacity /\ Len(s) \in Nat /\ Len(f) \in Nat
    BY <1>1, HoldsProperties
  <2> QED
    BY <1>1, <2>1, HoldsProperties DEF Lists, Data
<1>3. \A k \in 1 .. Len(s) : k \in found <=> s[k] \in stops
  BY <1>2
<1>4. found \subseteq 1 .. Len(s) /\ found \subseteq Nat
  BY <1>2
<1>5. found # {} => Min(found) \in found /\ \A y \in found : Min(found) <= y
  BY <1>4, MinProperties
<1> HIDE DEF stops, found
<1>6. /\ first \in 1 .. Len(s) + 1
      /\ \A k \in 1 .. Len(s) : k < first => s[k] \notin stops
      /\ first <= Len(s) => s[first] \in stops
  <2>1. CASE found = {}
    BY <1>2, <1>3, <2>1
  <2>2. CASE found # {}
    <3>1. first = Min(found) /\ first \in 1 .. Len(s) /\ first \in found
      BY <1>4, <1>5, <2>2
    <3>2. \A y \in found : first <= y
      BY <1>5, <2>2, <3>1
    <3> QED
      BY <1>2, <1>3, <3>1, <3>2
  <2> QED
    BY <2>1, <2>2
<1> HIDE DEF first
<1>7. Walk(p, stops) = At(s, first)
  <2>1. Chain(p, s) /\ Len(s) <= Capacity
    BY <1>2
  <2> QED
    BY <1>6, <2>1, WalkFinds
<1>8. NodeWithId(p, id) = IF id = NoId THEN Nil ELSE At(s, first)
  <2> DEFINE w == Walk(p, stops)
  <2>1. NodeWithId(p, id) = IF id = NoId THEN Nil ELSE w
    BY DEF NodeWithId, stops
  <2> HIDE DEF w
  <2>2. w = At(s, first)
    BY <1>7 DEF w
  <2> QED
    BY <2>1, <2>2
<1>9. CASE id = NoId \/ found = {}
  <2>1. At(s, first) = Nil \/ id = NoId
    BY <1>2, <1>9 DEF first, At
  <2>2. RemovedId(p, id) = p
    BY <1>8, <2>1 DEF RemovedId
  <2>3. Removed(d, id) = d
    BY <1>9 DEF Removed, found
  <2> QED
    BY <2>2, <2>3
<1>10. CASE id # NoId /\ found # {}
  <2>1. first \in 1 .. Len(s) /\ first = Min(found)
    BY <1>4, <1>5, <1>10 DEF first
  <2>2. NodeWithId(p, id) = s[first] /\ s[first] # Nil
    BY <1>2, <1>8, <1>10, <2>1, NodesAreNotNil DEF At
  <2>3. RemovedId(p, id) = Released(p, s[first])
    BY <2>2 DEF RemovedId
  <2>4. Removed(d, id) = RemoveAt(d, first)
    BY <1>10, <2>1 DEF Removed, found
  <2> QED
    BY <1>1, <2>1, <2>3, <2>4, ReleasedHolds
<1> QED
  BY <1>9, <1>10

(* popFirst() and popLast() take the ends of the list.                     *)
LEMMA PoppedHolds ==
  ASSUME NEW p, NEW d, Holds(p, d), p.size > 0
  PROVE  /\ d # <<>> /\ p.data[p.tail] = Last(d)
         /\ Holds(PoppedFirst(p), Tail(d)) /\ Holds(PoppedLast(p), Front(d))
<1>1. PICK s, f : Lists(p, s, f) /\ d = Data(p, s)
  BY DEF Holds
<1>2. /\ Len(s) \in Nat /\ p.size = Len(s) /\ d \in Seq(Entry) /\ Len(d) = Len(s)
      /\ \A k \in 1 .. Len(s) : d[k] = p.data[s[k]]
  <2>1. Lists(p, s, f)
    BY <1>1
  <2>2. /\ Len(s) \in Nat /\ p.size = Len(s)
        /\ Data(p, s) \in Seq(Entry) /\ Len(Data(p, s)) = Len(s)
        /\ \A k \in 1 .. Len(s) : Data(p, s)[k] = p.data[s[k]]
    BY <2>1, HoldsProperties
  <2> QED
    BY <1>1, <2>2
<1>3. 1 \in 1 .. Len(s) /\ Len(s) \in 1 .. Len(s)
  BY <1>2
<1>4. d # <<>>
  BY <1>2, <1>3, EmptySeq
<1>5. p.head = s[1] /\ p.tail = s[Len(s)]
  BY <1>1, <1>3 DEF Lists, Chain, At
<1>6. p.data[p.tail] = Last(d)
  BY <1>2, <1>3, <1>5 DEF Last
<1>7. Tail(d) = RemoveAt(d, 1) /\ Front(d) = RemoveAt(d, Len(s))
  BY <1>2, <1>4, EndsAreRemovals
<1>8. Holds(Released(p, s[1]), RemoveAt(d, 1)) /\ Holds(Released(p, s[Len(s)]), RemoveAt(d, Len(s)))
  BY <1>1, <1>3, ReleasedHolds
<1> QED
  BY <1>4, <1>5, <1>6, <1>7, <1>8 DEF PoppedFirst, PoppedLast

(* A new entry goes where Linked says.                                     *)
LEMMA AddedHolds ==
  ASSUME NEW c \in Time, NEW p, NEW d, Holds(p, d), WellFormed(c, d), Len(d) < Capacity,
         NEW e \in TimedThunk, Age(c, e.msec) <= Horizon + Lateness
  PROVE  Holds(Added(p, e), Linked(d, e))
<1>1. PICK s, f : Lists(p, s, f) /\ d = Data(p, s)
  BY DEF Holds
<1> DEFINE n == f[1]
           a == AllocNode(p)
           b == [a EXCEPT !.data[n] = e]
           g == RemoveAt(f, 1)
           q == Placed(b, n)
           i == Place(d, e.msec)
           t == InsertAt(s, i, n)
           r == [q EXCEPT !.size = q.size + 1]
<1>2. /\ p \in Pool /\ s \in Seq(Nodes) /\ f \in Seq(Nodes) /\ Distinct(s) /\ Distinct(f)
      /\ Len(s) \in Nat /\ Len(f) \in Nat /\ Capacity \in Nat
      /\ Len(s) + Len(f) = Capacity /\ p.size = Len(s) /\ Len(d) = Len(s)
      /\ \A k \in 1 .. Len(s) : s[k] \in Nodes /\ p.data[s[k]] \in Entry
      /\ Chain(p, s) /\ FreeChain(p, f) /\ Shared(s, f)
  <2>1. Lists(p, s, f)
    BY <1>1
  <2>2. Len(Data(p, s)) = Len(s)
    BY <2>1, HoldsProperties
  <2> QED
    BY <1>1, <2>1, <2>2, HoldsProperties DEF Lists
<1>3. f # <<>> /\ Len(f) > 0
  BY <1>2, EmptySeq
<1>4. /\ n \in Nodes /\ p.free = n /\ Outside(n, s) /\ n # Nil
      /\ Chain(a, s) /\ FreeChain(a, g) /\ a.next[n] = Nil /\ a.prev[n] = Nil
  BY <1>2, <1>3, AllocNodeChains, NodesAreNotNil
<1>5. a \in Pool /\ a.data = p.data /\ a.size = p.size
  BY <1>2, <1>4, AllocNodeFields
<1>6. Outside(n, g) /\ Shared(t, g) /\ g \in Seq(Nodes) /\ \A k \in 1 .. Len(g) : g[k] \in Nodes
  <2>1. 1 \in 1 .. Len(f)
    BY <1>2, <1>3
  <2>2. i \in 1 .. Len(s) + 1
    <3>1. e.msec \in Time
      BY DEF TimedThunk
    <3> QED
      BY <1>2, <3>1, PlaceProperties
  <2>3. Outside(n, g) /\ g \in Seq(Nodes)
    BY <1>2, <2>1, RemovalDistinct, RemoveNode
  <2> HIDE DEF g, i
  <2>4. Shared(t, g)
    BY <1>2, <1>3, <2>2, SharedAfterAlloc DEF g
  <2> QED
    BY <2>3, <2>4, ElementOfSeq
<1>7. Added(p, e) = r
  BY <1>4 DEF Added
<1> HIDE DEF n, a, g, i, t
<1>8. /\ b \in Pool /\ b.size = Len(s) /\ b.data[n] = e
      /\ b.head = a.head /\ b.tail = a.tail /\ b.free = a.free /\ b.next = a.next /\ b.prev = a.prev
      /\ \A m \in Nodes : m # n => b.data[m] = p.data[m]
  BY <1>2, <1>4, <1>5 DEF Pool
<1> HIDE DEF b
<1>9. Chain(b, s) /\ FreeChain(b, g) /\ b.next[n] = Nil /\ b.prev[n] = Nil
  BY <1>4, <1>8, SameChain, SameFreeChain
<1>10. Data(b, s) = d
  <2>1. \A k \in 1 .. Len(s) : b.data[s[k]] = p.data[s[k]]
    BY <1>2, <1>4, <1>8 DEF Outside
  <2> QED
    BY <1>1, <2>1 DEF Data
<1>11. /\ i \in 1 .. Len(s) + 1 /\ Chain(q, t)
       /\ q \in Pool /\ q.data = b.data /\ q.free = b.free /\ q.size = b.size
       /\ \A m \in Nodes : m # n /\ Outside(m, s) => q.next[m] = b.next[m]
  <2>1. e.msec \in Time /\ Len(s) <= Capacity
    BY <1>2 DEF TimedThunk
  <2>2. WellFormed(c, Data(b, s)) /\ b.data[n].msec \in Time
        /\ Age(c, b.data[n].msec) <= Horizon + Lateness
    BY <1>8, <1>10, <2>1
  <2>3. i = Place(Data(b, s), b.data[n].msec)
    BY <1>8, <1>10 DEF i
  <2> QED
    BY <1>4, <1>8, <1>9, <2>1, <2>2, <2>3, PlacedChain DEF t
<1> HIDE DEF q
<1>12. FreeChain(q, g)
  <2>1. \A k \in 1 .. Len(g) : g[k] \in Nodes /\ g[k] # n /\ Outside(g[k], s)
    <3>1. ASSUME NEW k \in 1 .. Len(g), NEW j \in 1 .. Len(s)
          PROVE  s[j] # g[k]
      <4>1. /\ Len(g) = Len(f) - 1
            /\ \A x \in 1 .. Len(f) - 1 : g[x] = f[IF x < 1 THEN x ELSE x + 1]
        <5>1. f \in Seq(Nodes) /\ 1 \in 1 .. Len(f)
          BY <1>2, <1>3
        <5> QED
          BY <5>1, RemoveNode DEF g
      <4>2. k + 1 \in 1 .. Len(f) /\ g[k] = f[k + 1]
        BY <1>2, <4>1
      <4> QED
        BY <1>2, <4>2 DEF Shared
    <3> QED
      BY <1>6, <3>1 DEF Outside
  <2> QED
    BY <1>9, <1>11, <2>1, SameFreeChain
<1>13. q.size + 1 = Len(t) /\ q.size + 1 \in 0 .. Capacity
  <2>1. Len(t) = Len(s) + 1
    BY <1>2, <1>4, <1>11, InsertNode DEF t
  <2> QED
    BY <1>2, <1>8, <1>11, <2>1
<1>14. /\ r \in Pool /\ r.size = Len(t) /\ r.data = b.data
       /\ r.head = q.head /\ r.tail = q.tail /\ r.free = q.free
       /\ r.next = q.next /\ r.prev = q.prev
  BY <1>11, <1>13, SizeFields
<1> HIDE DEF r
<1>15. Lists(r, t, g)
  <2>1. Chain(r, t) /\ FreeChain(r, g)
    BY <1>11, <1>12, <1>14, SameChain, SameFreeChain
  <2> QED
    BY <1>6, <1>14, <2>1 DEF Lists
<1>16. Data(r, t) = Linked(d, e)
  <2>1. Data(b, t) = InsertAt(Data(b, s), i, b.data[n])
    <3>1. \A k \in 1 .. Len(s) : b.data[s[k]] \in Entry
      BY <1>2, <1>8 DEF Pool, Entry
    <3>2. b.data[n] \in Entry
      BY <1>8 DEF Entry
    <3> QED
      BY <1>2, <1>4, <1>11, <3>1, <3>2, DataOfInsertion DEF t
  <2>2. Data(r, t) = Data(b, t)
    BY <1>14 DEF Data
  <2> QED
    BY <1>8, <1>10, <2>1, <2>2 DEF Linked, i
<1> QED
  BY <1>7, <1>15, <1>16 DEF Holds

(* A pool that holds an entry list lists it.                               *)
LEMMA HoldsListed ==
  ASSUME NEW p, NEW d, Holds(p, d)
  PROVE  /\ Listed(p) = d /\ p \in Pool /\ d \in Seq(Entry)
         /\ Len(d) \in Nat /\ p.size = Len(d) /\ Len(d) <= Capacity
<1>1. PICK s, f : Lists(p, s, f) /\ d = Data(p, s)
  BY DEF Holds
<1>2. Listed(p) = d
  BY <1>1, ListedIsData
<1>3. /\ Len(s) \in Nat /\ Len(f) \in Nat /\ Len(s) + Len(f) = Capacity /\ p.size = Len(s)
      /\ Data(p, s) \in Seq(Entry) /\ Len(Data(p, s)) = Len(s)
  <2>1. Lists(p, s, f)
    BY <1>1
  <2> QED
    BY <2>1, HoldsProperties
<1>4. Len(s) <= Capacity
  BY <1>3
<1>5. p \in Pool
  BY <1>1 DEF Lists
<1> QED
  BY <1>1, <1>2, <1>3, <1>4, <1>5

(* insertReplace() and insert() make of the list what InsertedReplacing    *)
(* and Inserted say, the full queue and its tail included.                 *)
LEMMA InsertionHolds ==
  ASSUME NEW c \in Time, NEW p, NEW d, Holds(p, d), WellFormed(c, d),
         NEW e \in TimedThunk, Age(c, e.msec) <= Horizon + Lateness
  PROVE  /\ Holds(InsertReplaced(p, e), InsertedReplacing(d, e))
         /\ Holds(InsertedUnlessFull(p, e), Inserted(d, e))
<1> DEFINE kept == RemovedId(p, e.id)
           rest == Removed(d, e.id)
<1>1. Holds(kept, rest) /\ WellFormed(c, rest) /\ Len(rest) <= Len(d)
  BY RemovedHolds, RemovedWellFormed
<1>2. /\ kept.size = Len(rest) /\ Len(rest) \in Nat /\ Len(rest) <= Capacity
      /\ p.size = Len(d) /\ Len(d) \in Nat /\ Len(d) <= Capacity
      /\ Capacity \in Nat /\ Capacity > 0
  <2>1. kept.size = Len(rest) /\ Len(rest) \in Nat /\ Len(rest) <= Capacity
    BY <1>1, HoldsListed
  <2>2. p.size = Len(d) /\ Len(d) \in Nat /\ Len(d) <= Capacity
    BY HoldsListed
  <2> QED
    BY <2>1, <2>2, Constants
<1>3. InsertReplaced(p, e) = IF kept.size < Capacity THEN Added(kept, e)
                             ELSE IF IsBefore(p.data[p.tail].msec, e.msec) THEN p
                             ELSE Added(PoppedLast(p), e)
  BY DEF InsertReplaced
<1>4. InsertedReplacing(d, e) = IF Len(rest) # Capacity THEN Linked(rest, e)
                                ELSE IF IsBefore(Last(d).msec, e.msec) THEN d
                                ELSE Linked(Front(d), e)
  BY DEF InsertedReplacing, Full
<1> HIDE DEF kept, rest
<1>5. CASE Len(rest) < Capacity
  <2>1. Holds(Added(kept, e), Linked(rest, e))
    BY <1>1, <1>5, AddedHolds
  <2> QED
    BY <1>2, <1>3, <1>4, <1>5, <2>1 DEF InsertedUnlessFull, Inserted, Full
<1>6. CASE ~(Len(rest) < Capacity)
  <2>1. Len(rest) = Capacity /\ Len(d) = Capacity /\ p.size = Capacity
    BY <1>1, <1>2, <1>6
  <2>2. p.size > 0
    BY <1>2, <2>1
  <2>3. /\ d # <<>> /\ p.data[p.tail] = Last(d)
        /\ Holds(PoppedLast(p), Front(d))
    BY <2>2, PoppedHolds
  <2>4. WellFormed(c, Front(d)) /\ Len(Front(d)) < Capacity
    <3>1. d \in Seq(TimedThunk)
      BY DEF WellFormed
    <3>2. Front(d) = RemoveAt(d, Len(d)) /\ Len(d) \in 1 .. Len(d)
      BY <2>3, <3>1, EndsAreRemovals
    <3>3. WellFormed(c, Front(d)) /\ Len(Front(d)) = Len(d) - 1
      BY <3>2, RemovalWellFormed
    <3> QED
      BY <1>2, <2>1, <3>3
  <2>5. Holds(Added(PoppedLast(p), e), Linked(Front(d), e))
    BY <2>3, <2>4, AddedHolds
  <2>6. Holds(InsertReplaced(p, e), InsertedReplacing(d, e))
    BY <1>2, <1>3, <1>4, <2>1, <2>3, <2>5
  <2> QED
    BY <2>1, <2>6 DEF InsertedUnlessFull, Inserted, Full
<1> QED
  BY <1>5, <1>6

(* The constructor leaves an empty list: every node is free.               *)
LEMMA NewPoolHolds == Holds(NewPool, <<>>)
<1> DEFINE f == [i \in 1 .. Capacity |-> i - 1]
           p == NewPool
<1>1. Capacity \in Nat /\ Capacity > 0 /\ Nil \notin Nodes /\ 0 \in Nodes
  BY Constants, NodesAreNotNil DEF Nodes
<1>2. f \in Seq(Nodes) /\ Len(f) = Capacity /\ \A i \in 1 .. Capacity : f[i] = i - 1
  <2>1. \A i \in 1 .. Capacity : i - 1 \in Nodes
    BY <1>1 DEF Nodes
  <2> QED
    BY <1>1, <2>1, SeqDef
<1>3. /\ p \in Pool /\ p.head = Nil /\ p.tail = Nil /\ p.free = 0 /\ p.size = 0
      /\ \A n \in Nodes : p.next[n] = IF n + 1 \in Nodes THEN n + 1 ELSE Nil
  <2>1. [n \in Nodes |-> IF n + 1 \in Nodes THEN n + 1 ELSE Nil] \in [Nodes -> Nodes \cup {Nil}]
    OBVIOUS
  <2>2. [n \in Nodes |-> [msec |-> 0, thunk |-> NullThunk, id |-> NoId]]
          \in [Nodes -> TimedThunk \cup [msec : {0}, thunk : {NullThunk}, id : {NoId}]]
    OBVIOUS
  <2>3. [n \in Nodes |-> Nil] \in [Nodes -> Nodes \cup {Nil}] /\ 0 \in 0 .. Capacity
    BY <1>1
  <2> QED
    BY <1>1, <2>1, <2>2, <2>3 DEF NewPool, Pool
<1> HIDE DEF f, p
<1>4. <<>> \in Seq(Nodes) /\ Len(<<>>) = 0
  BY EmptySeq
<1>5. Chain(p, <<>>)
  BY <1>3, <1>4 DEF Chain, Distinct, At
<1>6. FreeChain(p, f)
  <2>1. Distinct(f)
    BY <1>1, <1>2 DEF Distinct
  <2>2. p.free = At(f, 1)
    BY <1>1, <1>2, <1>3 DEF At
  <2>3. ASSUME NEW i \in 1 .. Len(f)
        PROVE  p.next[f[i]] = At(f, i + 1)
    <3>1. f[i] \in Nodes /\ f[i] + 1 = i /\ i \in Int
      BY <1>1, <1>2 DEF Nodes
    <3>2. i \in Nodes <=> i + 1 \in 1 .. Len(f)
      BY <1>1, <1>2 DEF Nodes
    <3>3. i + 1 \in 1 .. Len(f) => f[i + 1] = i
      BY <1>2
    <3> QED
      BY <1>3, <3>1, <3>2, <3>3 DEF At
  <2> QED
    BY <1>2, <2>1, <2>2, <2>3 DEF FreeChain
<1>7. Shared(<<>>, f)
  <2>1. ASSUME NEW n \in Nodes
        PROVE  \E j \in 1 .. Len(f) : f[j] = n
    <3>1. n + 1 \in 1 .. Len(f) /\ f[n + 1] = (n + 1) - 1 /\ (n + 1) - 1 = n
      BY <1>1, <1>2 DEF Nodes
    <3> QED
      BY <3>1
  <2> QED
    BY <1>1, <1>2, <1>4, <2>1 DEF Shared
<1>8. Lists(p, <<>>, f) /\ Data(p, <<>>) = <<>>
  BY <1>3, <1>4, <1>5, <1>6, <1>7 DEF Lists, Data
<1> QED
  BY <1>8 DEF Holds, p

-----------------------------------------------------------------------------
(* The inductive invariant: the pool holds the list that its links read    *)
(* as, and that list is in order, within the window and without doubles.   *)
(* The order is needed for the links: the shortcut behind the tail is the  *)
(* place the loop would find only in a list that is sorted.                *)
IInv == now \in Time /\ Holds(pool, Listed(pool)) /\ WellFormed(now, Listed(pool))

(* A new pool lists nothing, and all its nodes are free.                   *)
LEMMA InitIInv == Init => IInv
<1> SUFFICES ASSUME Init PROVE IInv
  OBVIOUS
<1>1. pool = NewPool /\ now \in Time
  BY Constants DEF Init, Time
<1>2. Holds(pool, <<>>) /\ Listed(pool) = <<>>
  BY <1>1, NewPoolHolds, HoldsListed
<1>3. WellFormed(now, <<>>)
  <2>1. <<>> \in Seq(TimedThunk) /\ Len(<<>>) = 0
    BY EmptySeq
  <2> QED
    BY <2>1 DEF WellFormed
<1> QED
  BY <1>1, <1>2, <1>3 DEF IInv

(* The operators of the instance are those of TimedThunks.                 *)
LEMMA SameOperators ==
  ASSUME NEW q, NEW e, NEW id
  PROVE  /\ TQ!Removed(q, id) = Removed(q, id)
         /\ TQ!InsertedReplacing(q, e) = InsertedReplacing(q, e)
         /\ TQ!Inserted(q, e) = Inserted(q, e)
         /\ TQ!Front(q) = Front(q)
BY DEF TQ!Inserted, TQ!Full, TQ!InsertedReplacing, TQ!Removed, TQ!Linked, TQ!Place, TQ!NotBefore,
       TQ!IsBefore, TQ!Minus, TQ!HalfRange, TQ!NoId, TQ!RemoveAt, TQ!InsertAt, TQ!Front, TQ!Last,
       TQ!Min, Inserted, Full, InsertedReplacing, Removed, Linked, Place, NotBefore, IsBefore,
       Minus, HalfRange, NoId, RemoveAt, InsertAt, Front, Last, Min

(* A call that leaves a pool that holds r has made r of the list.          *)
LEMMA CallHolds ==
  ASSUME IInv, NEW r, Holds(pool', r), WellFormed(now, r), UNCHANGED now
  PROVE  IInv' /\ Listed(pool') = r
<1>1. Listed(pool') = r
  BY HoldsListed
<1> QED
  BY <1>1 DEF IInv

(* Every call, and every tick, keeps the invariant and does to the list    *)
(* what the same call of TimedQueue does.                                  *)
LEMMA StepSimulates ==
  ASSUME IInv, [Next]_vars
  PROVE  IInv' /\ [TQ!Next]_(TQ!vars)
<1> DEFINE d == Listed(pool)
<1>1. /\ now \in Time /\ Holds(pool, d) /\ WellFormed(now, d)
      /\ pool.size = Len(d) /\ Len(d) \in Nat /\ DOMAIN d = 1 .. Len(d)
  BY HoldsListed, EntryTypes DEF IInv
<1> HIDE DEF d
<1>2. CASE Tick
  <2>1. \A i \in 1 .. Len(d) : Age(now, d[i].msec) > 0
    BY <1>1, <1>2 DEF Tick, d
  <2>2. Plus(now, 1) \in Time /\ WellFormed(Plus(now, 1), d)
    BY <1>1, <2>1, TickWellFormed
  <2>3. IInv'
    BY <1>1, <1>2, <2>2 DEF Tick, IInv, d
  <2>4. TQ!Tick
    BY <1>1, <1>2, <2>1
    DEF Tick, d, TQ!Tick, TQ!Age, TQ!Plus, TQ!Minus, Age, Plus, Minus
  <2> QED
    BY <2>3, <2>4 DEF TQ!Next
<1>3. ASSUME NEW delay \in 0 .. Horizon, NEW thunk \in Thunks, NEW id \in Ids \cup {NoId},
             Insert(delay, thunk, id) \/ InsertReplace(delay, thunk, id)
      PROVE  IInv' /\ [TQ!Next]_(TQ!vars)
  <2> DEFINE e == Request(delay, thunk, id)
  <2>1. e \in TimedThunk /\ Age(now, e.msec) <= Horizon + Lateness
    BY <1>1, RequestFits DEF Request
  <2>2. e = TQ!Request(delay, thunk, id)
    BY DEF Request, TQ!Request, Plus, TQ!Plus
  <2> HIDE DEF e
  <2>3. /\ Holds(InsertReplaced(pool, e), InsertedReplacing(d, e))
        /\ Holds(InsertedUnlessFull(pool, e), Inserted(d, e))
    BY <1>1, <2>1, InsertionHolds
  <2>4. WellFormed(now, InsertedReplacing(d, e)) /\ WellFormed(now, Inserted(d, e))
    <3>1. Len(d) <= Capacity
      BY <1>1, HoldsListed
    <3> QED
      BY <1>1, <2>1, <3>1, InsertionWellFormed
  <2>5. CASE Insert(delay, thunk, id)
    <3>1. Holds(pool', Inserted(d, e)) /\ now' = now
      BY <2>3, <2>5 DEF Insert, e
    <3>2. IInv' /\ Listed(pool') = Inserted(d, e)
      BY <2>4, <3>1, CallHolds
    <3>3. TQ!Insert(delay, thunk, id)
      BY <2>2, <3>1, <3>2, SameOperators DEF TQ!Insert, d
    <3> QED
      BY <3>2, <3>3, SameOperators DEF TQ!Next, NoId, TQ!NoId
  <2>6. CASE InsertReplace(delay, thunk, id)
    <3>1. Holds(pool', InsertedReplacing(d, e)) /\ now' = now
      BY <2>3, <2>6 DEF InsertReplace, e
    <3>2. IInv' /\ Listed(pool') = InsertedReplacing(d, e)
      BY <2>4, <3>1, CallHolds
    <3>3. TQ!InsertReplace(delay, thunk, id)
      BY <2>2, <3>1, <3>2, SameOperators DEF TQ!InsertReplace, d
    <3> QED
      BY <3>2, <3>3, SameOperators DEF TQ!Next, NoId, TQ!NoId
  <2> QED
    BY <1>3, <2>5, <2>6
<1>4. ASSUME NEW id \in Ids, RemoveById(id)
      PROVE  IInv' /\ [TQ!Next]_(TQ!vars)
  <2>1. Holds(pool', Removed(d, id)) /\ now' = now
    BY <1>1, <1>4, RemovedHolds DEF RemoveById
  <2>2. WellFormed(now, Removed(d, id))
    BY <1>1, RemovedWellFormed
  <2>3. IInv' /\ Listed(pool') = Removed(d, id)
    BY <2>1, <2>2, CallHolds
  <2>4. TQ!RemoveId(id)
    BY <2>1, <2>3, SameOperators DEF TQ!RemoveId, d
  <2> QED
    BY <2>3, <2>4 DEF TQ!Next
<1>5. CASE PopFirst \/ PopLast
  <2>1. pool.size > 0 /\ now' = now
    BY <1>5 DEF PopFirst, PopLast
  <2>2. d # <<>> /\ Holds(PoppedFirst(pool), Tail(d)) /\ Holds(PoppedLast(pool), Front(d))
    BY <1>1, <2>1, PoppedHolds
  <2>3. WellFormed(now, Tail(d)) /\ WellFormed(now, Front(d))
    <3>1. d \in Seq(TimedThunk)
      BY <1>1 DEF WellFormed
    <3>2. /\ Tail(d) = RemoveAt(d, 1) /\ Front(d) = RemoveAt(d, Len(d))
          /\ 1 \in 1 .. Len(d) /\ Len(d) \in 1 .. Len(d)
      BY <2>2, <3>1, EndsAreRemovals
    <3> QED
      BY <1>1, <3>2, RemovalWellFormed
  <2>4. CASE PopFirst
    <3>1. IInv' /\ Listed(pool') = Tail(d)
      BY <2>1, <2>2, <2>3, <2>4, CallHolds DEF PopFirst
    <3>2. TQ!PopFirst
      BY <2>1, <2>2, <3>1 DEF TQ!PopFirst, d
    <3> QED
      BY <3>1, <3>2 DEF TQ!Next
  <2>5. CASE PopLast
    <3>1. IInv' /\ Listed(pool') = Front(d)
      BY <2>1, <2>2, <2>3, <2>5, CallHolds DEF PopLast
    <3>2. TQ!PopLast
      BY <2>1, <2>2, <3>1, SameOperators DEF TQ!PopLast, d
    <3> QED
      BY <3>1, <3>2 DEF TQ!Next
  <2> QED
    BY <1>5, <2>4, <2>5
<1>6. CASE UNCHANGED vars
  <2>1. pool' = pool /\ now' = now
    BY <1>6 DEF vars
  <2> QED
    BY <2>1 DEF IInv, TQ!vars
<1> QED
  BY <1>2, <1>3, <1>4, <1>5, <1>6 DEF Next

(* What the invariant says of the links.                                   *)
LEMMA IInvImplies == IInv => TypeInv /\ NoNodeLeaked /\ ReadsBothWays
<1> SUFFICES ASSUME IInv PROVE TypeInv /\ NoNodeLeaked /\ ReadsBothWays
  OBVIOUS
<1>1. PICK s, f : Lists(pool, s, f)
  BY DEF IInv, Holds
<1>2. Order(pool) = s /\ FreeOrder(pool) = f
  BY <1>1, ListedIsData
<1>3. /\ pool \in Pool /\ s \in Seq(Nodes) /\ f \in Seq(Nodes)
      /\ Len(s) \in Nat /\ Len(f) \in Nat /\ Capacity \in Nat
      /\ Len(s) + Len(f) = Capacity /\ pool.size = Len(s)
      /\ Chain(pool, s) /\ FreeChain(pool, f) /\ Shared(s, f)
  BY <1>1, HoldsProperties DEF Lists
<1>4. TypeInv
  BY <1>3 DEF IInv, TypeInv
<1>5. NoNodeLeaked
  <2>1. ToSet(s) \cup ToSet(f) = Nodes
    <3>1. /\ DOMAIN s = 1 .. Len(s) /\ \A i \in 1 .. Len(s) : s[i] \in Nodes
          /\ DOMAIN f = 1 .. Len(f) /\ \A i \in 1 .. Len(f) : f[i] \in Nodes
      BY <1>3, LenProperties, ElementOfSeq
    <3>2. \A n \in Nodes : (\E i \in 1 .. Len(s) : s[i] = n) \/ (\E j \in 1 .. Len(f) : f[j] = n)
      BY <1>3 DEF Shared
    <3> QED
      BY <3>1, <3>2 DEF ToSet
  <2>2. pool.free = Nil <=> pool.size = Capacity
    <3>1. pool.free = At(f, 1)
      BY <1>3 DEF FreeChain
    <3>2. At(f, 1) = Nil <=> Len(f) = 0
      BY <1>3, AtProperties
    <3> QED
      BY <1>3, <3>1, <3>2
  <2> QED
    BY <1>2, <2>1, <2>2 DEF NoNodeLeaked
<1>6. ReadsBothWays
  <2>1. pool.size = 0 => pool.head = Nil /\ pool.tail = Nil
    BY <1>3 DEF Chain, At
  <2>2. ASSUME pool.size > 0
        PROVE  /\ pool.prev[pool.head] = Nil /\ pool.next[pool.tail] = Nil
               /\ pool.tail = s[pool.size]
    <3>1. 1 \in 1 .. Len(s) /\ Len(s) \in 1 .. Len(s)
      BY <1>3, <2>2
    <3>2. pool.head = s[1] /\ pool.tail = s[Len(s)]
      BY <1>3, <3>1 DEF Chain, At
    <3>3. pool.prev[s[1]] = At(s, 1 - 1) /\ pool.next[s[Len(s)]] = At(s, Len(s) + 1)
      BY <1>3, <3>1 DEF Chain
    <3>4. At(s, 1 - 1) = Nil /\ At(s, Len(s) + 1) = Nil
      BY <1>3 DEF At
    <3> QED
      BY <1>3, <3>2, <3>3, <3>4
  <2>3. ASSUME NEW i \in 2 .. pool.size
        PROVE  pool.prev[s[i]] = s[i - 1]
    <3>1. i \in 1 .. Len(s) /\ i - 1 \in 1 .. Len(s)
      BY <1>3
    <3>2. pool.prev[s[i]] = At(s, i - 1)
      BY <1>3, <3>1 DEF Chain
    <3> QED
      BY <3>1, <3>2 DEF At
  <2> QED
    BY <1>2, <2>1, <2>2, <2>3 DEF ReadsBothWays
<1> QED
  BY <1>4, <1>5, <1>6

(* The invariant holds in every reachable state.                           *)
LEMMA SpecIInv == Spec => []IInv
<1>1. IInv /\ [Next]_vars => IInv'
  BY StepSimulates
<1> QED
  BY <1>1, InitIInv, PTL DEF Spec

-----------------------------------------------------------------------------
(* The links, the ends and the size of the pool stay in range.             *)
THEOREM TypeCorrect == Spec => []TypeInv
BY SpecIInv, IInvImplies, PTL

(* No call loses a node or puts one on both lists, and allocNode() finds a *)
(* free node exactly when full() says there is one.                        *)
THEOREM NoLeak == Spec => []NoNodeLeaked
BY SpecIInv, IInvImplies, PTL

(* The two directions of the list agree after every call.                  *)
THEOREM BothWays == Spec => []ReadsBothWays
BY SpecIInv, IInvImplies, PTL

(* The pool of linked nodes implements the sorted list of TimedQueue, so   *)
(* what is proved of the list holds for the pool.                          *)
THEOREM PoolImplementsQueue == Spec => ImplementsTimedQueue
<1>1. Init => TQ!Init
  <2> SUFFICES ASSUME Init PROVE TQ!Init
    OBVIOUS
  <2>1. Listed(pool) = <<>>
    BY NewPoolHolds, HoldsListed DEF Init
  <2> QED
    BY <2>1 DEF Init, TQ!Init
<1>2. IInv /\ [Next]_vars => [TQ!Next]_(TQ!vars)
  BY StepSimulates
<1> QED
  BY <1>1, <1>2, SpecIInv, PTL DEF Spec, ImplementsTimedQueue, TQ!Spec

=============================================================================
