------------------------ MODULE ModuleSystem_proofs ------------------------
(***************************************************************************)
(* Proofs about ModuleSystem: the depth-first search of setup() yields an  *)
(* order in which every module comes after those it requires, or finds     *)
(* that there is none, for every set of modules and requirements.          *)
(***************************************************************************)
EXTENDS ModuleSystem, SequenceTheorems, WellFoundedInduction, TLAPS

Requirement == [owner : Modules, name : Modules]
Frame == [module : Modules, edge : Nat \ {0}]
Pairs(s) == { <<s[i].owner, s[i].name>> : i \in DOMAIN s }

-----------------------------------------------------------------------------
(* The inductive invariant, one part for each phase.                       *)
Types ==
  /\ modules \in Seq(Modules) /\ reqs \in Seq(Requirement) /\ deps \in Seq(Requirement)
  /\ stack \in Seq(Frame) /\ sorted \in Seq(Modules)
  /\ \A r \in required : r[1] \in Registered
  /\ \A i \in DOMAIN reqs : reqs[i].owner \in Registered
  /\ phase \in {"construct", "resolve", "sort", "failed", "init", "start", "update"}

NothingSearched ==
  /\ stack = <<>> /\ visiting = {} /\ sorted = <<>>
  /\ required = Pairs(reqs) /\ targets = Pairs(deps)

ResolvedSoFar ==
  /\ NothingSearched
  /\ Len(deps) <= Len(reqs)
  /\ \A i \in DOMAIN deps : deps[i] = reqs[i] /\ deps[i].name \in Registered

SortedOnce == \A i, j \in DOMAIN sorted : sorted[i] = sorted[j] => i = j

RequiredBefore ==
  \A i \in DOMAIN sorted : \A r \in required :
    r[1] = sorted[i] => \E j \in 1 .. i - 1 : sorted[j] = r[2]

(* A frame that the search left by an edge waits for the module of the     *)
(* next frame; all the edges before that one lead to sorted modules.       *)
EdgesFollowed ==
  \A i \in DOMAIN stack : \A j \in DOMAIN deps :
    j < stack[i].edge /\ deps[j].owner = stack[i].module =>
      \/ deps[j].name \in ToSet(sorted)
      \/ i < Len(stack) /\ deps[j].name = stack[i + 1].module

(* The stack is a path of requirements without a repetition.               *)
StackIsPath ==
  /\ \A i \in DOMAIN stack : stack[i].module \in Registered
  /\ \A i, j \in DOMAIN stack : stack[i].module = stack[j].module => i = j
  /\ \A i \in 1 .. Len(stack) - 1 : <<stack[i].module, stack[i + 1].module>> \in required

Searching ==
  /\ \A i \in DOMAIN deps : deps[i].name \in Registered
  /\ required = Pairs(deps) /\ targets = required
  /\ visiting = { stack[i].module : i \in DOMAIN stack }
  /\ visiting \cap ToSet(sorted) = {}
  /\ ToSet(sorted) \subseteq Registered
  /\ SortedOnce /\ RequiredBefore /\ EdgesFollowed /\ StackIsPath

(* What has run so far in this phase is a first part of the order.         *)
Running ==
  /\ \A r \in required : r[2] \in Registered
  /\ targets = required
  /\ ToSet(sorted) = Registered /\ SortedOnce /\ RequiredBefore
  /\ \A i, j \in DOMAIN sorted : sorted[i] \notin todo /\ sorted[j] \in todo => i < j

SystemInv ==
  /\ Types
  /\ phase = "construct" => NothingSearched /\ deps = <<>>
  /\ phase = "resolve" => ResolvedSoFar
  /\ phase = "sort" => Searching
  /\ phase = "failed" => ~Sound
  /\ phase \in {"init", "start", "update"} => Running

-----------------------------------------------------------------------------
(* Sequences of modules, frames and requirements.                          *)
LEMMA Ends ==
  ASSUME NEW S, NEW s \in Seq(S), s # <<>>
  PROVE  /\ Len(s) \in Nat \ {0} /\ DOMAIN s = 1 .. Len(s)
         /\ Last(s) = s[Len(s)] /\ Last(s) \in S
         /\ Front(s) \in Seq(S) /\ Len(Front(s)) = Len(s) - 1
         /\ DOMAIN Front(s) = 1 .. Len(s) - 1
         /\ \A k \in 1 .. Len(s) - 1 : Front(s)[k] = s[k]
<1>1. Len(s) \in Nat \ {0} /\ DOMAIN s = 1 .. Len(s)
  BY EmptySeq, LenProperties
<1>2. Last(s) = s[Len(s)] /\ Last(s) \in S
  BY <1>1, ElementOfSeq DEF Last
<1>3. /\ Front(s) \in Seq(S) /\ Len(Front(s)) = Len(s) - 1
      /\ \A k \in 1 .. Len(s) - 1 : Front(s)[k] = s[k]
  BY <1>1, SubSeqProperties, ElementOfSeq DEF Front
<1>4. DOMAIN Front(s) = 1 .. Len(s) - 1
  BY <1>3, LenProperties
<1> QED
  BY <1>1, <1>2, <1>3, <1>4

(* What Append does to a sequence and to the set of its elements.          *)
LEMMA Added ==
  ASSUME NEW S, NEW s \in Seq(S), NEW e \in S
  PROVE  /\ Append(s, e) \in Seq(S) /\ Len(s) \in Nat /\ DOMAIN s = 1 .. Len(s)
         /\ Len(Append(s, e)) = Len(s) + 1 /\ DOMAIN Append(s, e) = 1 .. Len(s) + 1
         /\ \A k \in 1 .. Len(s) : Append(s, e)[k] = s[k]
         /\ Append(s, e)[Len(s) + 1] = e
         /\ ToSet(Append(s, e)) = ToSet(s) \cup {e}
<1>1. Len(s) \in Nat /\ DOMAIN s = 1 .. Len(s)
  BY LenProperties
<1>2. /\ Append(s, e) \in Seq(S) /\ Len(Append(s, e)) = Len(s) + 1
      /\ DOMAIN Append(s, e) = 1 .. Len(s) + 1
      /\ \A k \in 1 .. Len(s) : Append(s, e)[k] = s[k]
      /\ Append(s, e)[Len(s) + 1] = e
  BY <1>1, AppendProperties, LenProperties
<1> DEFINE t == Append(s, e)
<1> HIDE DEF t
<1>3. ToSet(t) = ToSet(s) \cup {e}
  <2>1. DOMAIN t = 1 .. Len(s) + 1 /\ t[Len(s) + 1] = e /\ \A k \in 1 .. Len(s) : t[k] = s[k]
    BY <1>2 DEF t
  <2>2. ASSUME NEW k \in 1 .. Len(s) + 1 PROVE t[k] \in ToSet(s) \cup {e}
    <3>1. k \in 1 .. Len(s) \/ k = Len(s) + 1
      BY <1>1
    <3> QED
      BY <1>1, <2>1, <3>1 DEF ToSet
  <2>3. ASSUME NEW k \in 1 .. Len(s) PROVE s[k] \in ToSet(t)
    <3>1. k \in 1 .. Len(s) + 1
      BY <1>1
    <3> QED
      BY <2>1, <3>1 DEF ToSet
  <2>4. e \in ToSet(t)
    <3>1. Len(s) + 1 \in 1 .. Len(s) + 1
      BY <1>1
    <3> QED
      BY <2>1, <3>1 DEF ToSet
  <2> QED
    BY <1>1, <2>1, <2>2, <2>3, <2>4 DEF ToSet
<1> QED
  BY <1>1, <1>2, <1>3 DEF t

(* One more requirement is one more pair.                                  *)
LEMMA PairsAdded ==
  ASSUME NEW s \in Seq(Requirement), NEW r \in Requirement
  PROVE  Pairs(Append(s, r)) = Pairs(s) \cup {<<r.owner, r.name>>}
<1> DEFINE t == Append(s, r)
<1>1. /\ Len(s) \in Nat /\ DOMAIN s = 1 .. Len(s) /\ DOMAIN t = 1 .. Len(s) + 1
      /\ \A k \in 1 .. Len(s) : t[k] = s[k]
      /\ t[Len(s) + 1] = r
  BY Added
<1> HIDE DEF t
<1>2. ASSUME NEW k \in 1 .. Len(s) + 1
      PROVE  <<t[k].owner, t[k].name>> \in Pairs(s) \cup {<<r.owner, r.name>>}
  <2>1. k \in 1 .. Len(s) \/ k = Len(s) + 1
    BY <1>1
  <2> QED
    BY <1>1, <2>1 DEF Pairs
<1>3. ASSUME NEW k \in 1 .. Len(s) PROVE <<s[k].owner, s[k].name>> \in Pairs(t)
  <2>1. k \in 1 .. Len(s) + 1
    BY <1>1
  <2> QED
    BY <1>1, <2>1 DEF Pairs
<1>4. <<r.owner, r.name>> \in Pairs(t)
  <2>1. Len(s) + 1 \in 1 .. Len(s) + 1
    BY <1>1
  <2> QED
    BY <1>1, <2>1 DEF Pairs
<1> QED
  BY <1>1, <1>2, <1>3, <1>4 DEF Pairs, t

(* A set of natural numbers that is not empty has a minimum.               *)
LEMMA MinProperties ==
  ASSUME NEW T, T \subseteq Nat, T # {}
  PROVE  Min(T) \in T /\ \A y \in T : Min(T) <= y
<1>1. PICK x \in T : \A y \in T : ~(<<y, x>> \in OpToRel(<, Nat))
  BY NatLessThanWellFounded, WFMin
<1>2. ASSUME NEW y \in T PROVE x <= y
  <2>1. ~(<<y, x>> \in OpToRel(<, Nat))
    BY <1>1
  <2> QED
    BY <2>1 DEF OpToRel
<1> QED
  BY <1>1, <1>2 DEF Min
(* Nothing has been searched at first.                                     *)
LEMMA EmptySearched == Pairs(<<>>) = {} /\ ToSet(<<>>) = {}
  BY DEF Pairs, ToSet

-----------------------------------------------------------------------------
(* The invariant holds initially.                                          *)
LEMMA InitSystemInv == Init => SystemInv
  BY EmptySearched DEF Init, SystemInv, Types, NothingSearched

(* Constructing a module and requiring another keep the invariant.         *)
LEMMA ConstructKeepsInv ==
  ASSUME SystemInv, NEW m \in Modules, Construct(m)
  PROVE  SystemInv'
<1>1. modules' \in Seq(Modules) /\ Registered' = Registered \cup {m}
  BY Added DEF SystemInv, Types, Construct, Registered
<1> QED
  BY <1>1 DEF SystemInv, Types, Construct, NothingSearched

(* require() of the module that was constructed last.                      *)
LEMMA RequireKeepsInv ==
  ASSUME SystemInv, NEW name \in Modules, Require(name)
  PROVE  SystemInv'
<1>1. modules \in Seq(Modules) /\ modules # <<>> /\ reqs \in Seq(Requirement)
  BY DEF SystemInv, Types, Require
<1>2. Last(modules) \in Modules /\ Last(modules) \in Registered
  BY <1>1, Ends DEF Registered, ToSet
<1> DEFINE r == [owner |-> Last(modules), name |-> name]
<1>3. r \in Requirement /\ r.owner = Last(modules) /\ r.name = name
  BY <1>2 DEF Requirement
<1>4. reqs' = Append(reqs, r) /\ required' = required \cup {<<r.owner, r.name>>}
  BY <1>3 DEF Require
<1>5. Registered' = Registered
  BY DEF Registered, Require
<1> HIDE DEF r
<1>6. Pairs(reqs)' = Pairs(reqs) \cup {<<r.owner, r.name>>}
  <2>1. Pairs(Append(reqs, r)) = Pairs(reqs) \cup {<<r.owner, r.name>>}
    BY <1>1, <1>3, PairsAdded
  <2> QED
    BY <1>4, <2>1 DEF Pairs
<1>7. NothingSearched'
  BY <1>4, <1>6 DEF SystemInv, NothingSearched, Require, Pairs
<1>8. \A i \in DOMAIN reqs' : reqs'[i].owner \in Registered
  <2>1. \A i \in DOMAIN reqs : reqs[i].owner \in Registered
    BY DEF SystemInv, Types
  <2>2. /\ Len(reqs) \in Nat /\ DOMAIN reqs = 1 .. Len(reqs) /\ DOMAIN reqs' = 1 .. Len(reqs) + 1
        /\ \A k \in 1 .. Len(reqs) : reqs'[k] = reqs[k]
        /\ reqs'[Len(reqs) + 1] = r
    BY <1>1, <1>3, <1>4, Added
  <2>3. \A i \in 1 .. Len(reqs) + 1 : i \in 1 .. Len(reqs) \/ i = Len(reqs) + 1
    BY <2>2
  <2> QED
    BY <1>2, <1>3, <2>1, <2>2, <2>3
<1>9. reqs' \in Seq(Requirement)
  BY <1>1, <1>3, <1>4, Added
<1>10. Types'
  BY <1>2, <1>3, <1>4, <1>5, <1>8, <1>9 DEF SystemInv, Types, Require
<1> QED
  BY <1>7, <1>10 DEF SystemInv, Require

(* The start of setup() keeps it.                                          *)
LEMMA SetupKeepsInv ==
  ASSUME SystemInv, Setup
  PROVE  SystemInv'
<1>1. Types'
  BY DEF SystemInv, Types, Setup, Registered
<1>2. ResolvedSoFar'
  <2>1. NothingSearched'
    BY DEF SystemInv, NothingSearched, Setup, Pairs
  <2>2. deps' = <<>> /\ Len(reqs') \in Nat
    BY <1>1, LenProperties DEF SystemInv, Setup, Types
  <2>3. Len(deps') = 0 /\ DOMAIN deps' = {}
    BY <2>2
  <2> QED
    BY <2>1, <2>2, <2>3 DEF ResolvedSoFar
<1> QED
  BY <1>1, <1>2 DEF SystemInv, Setup

(* A requirement that is looked up keeps it; when its module is not there  *)
(* the application is not sound.                                           *)
LEMMA ResolveKeepsInv ==
  ASSUME SystemInv, Resolve
  PROVE  SystemInv'
<1> DEFINE n == Len(deps)
           req == reqs[n + 1]
<1>1. /\ reqs \in Seq(Requirement) /\ deps \in Seq(Requirement) /\ ResolvedSoFar /\ NothingSearched
      /\ n < Len(reqs) /\ phase = "resolve"
  BY DEF SystemInv, Types, Resolve, ResolvedSoFar
<1>2. n \in Nat /\ Len(reqs) \in Nat /\ DOMAIN reqs = 1 .. Len(reqs) /\ DOMAIN deps = 1 .. n
  BY <1>1, LenProperties
<1>3. n + 1 \in DOMAIN reqs
  BY <1>1, <1>2
<1>4. req \in Requirement
  BY <1>1, <1>2, <1>3, ElementOfSeq
<1>5. Registered' = Registered
  BY DEF Registered, Resolve
<1>6. CASE req.name \in Registered
  <2>1. /\ targets' = targets \cup {<<req.owner, req.name>>}
        /\ deps' = Append(deps, req) /\ phase' = "resolve"
        /\ UNCHANGED <<modules, reqs, stack, visiting, sorted, ok, todo, required>>
    BY <1>1, <1>6 DEF Resolve
  <2> HIDE DEF req
  <2>2. Pairs(deps') = Pairs(deps) \cup {<<req.owner, req.name>>}
    BY <1>1, <1>4, <2>1, PairsAdded
  <2>3. /\ deps' \in Seq(Requirement) /\ Len(deps') = n + 1 /\ DOMAIN deps' = 1 .. n + 1
        /\ \A k \in 1 .. n : deps'[k] = deps[k]
        /\ deps'[n + 1] = req
    BY <1>1, <1>4, <2>1, Added
  <2>4. NothingSearched'
    BY <1>1, <2>1, <2>2 DEF NothingSearched, Pairs
  <2>5. ASSUME NEW i \in DOMAIN deps' PROVE deps'[i] = reqs'[i] /\ deps'[i].name \in Registered'
    <3>1. i \in 1 .. n \/ i = n + 1
      BY <1>2, <2>3
    <3>2. CASE i \in 1 .. n
      <4>1. deps[i] = reqs[i] /\ deps[i].name \in Registered
        BY <1>1, <1>2, <3>2 DEF ResolvedSoFar
      <4> QED
        BY <1>5, <2>1, <2>3, <3>2, <4>1
    <3>3. CASE i = n + 1
      BY <1>5, <1>6, <2>1, <2>3, <3>3 DEF req
    <3> QED
      BY <3>1, <3>2, <3>3
  <2>6. Len(deps') <= Len(reqs')
    BY <1>1, <1>2, <2>1, <2>3
  <2>7. ResolvedSoFar'
    BY <2>4, <2>5, <2>6 DEF ResolvedSoFar
  <2>8. Types'
    BY <1>5, <2>1, <2>3 DEF SystemInv, Types
  <2> QED
    BY <2>1, <2>7, <2>8 DEF SystemInv
<1>7. CASE req.name \notin Registered
  <2>1. phase' = "failed" /\ UNCHANGED <<modules, reqs, deps, stack, sorted, required>>
    BY <1>1, <1>7 DEF Resolve
  <2>2. <<req.owner, req.name>> \in required
    BY <1>1, <1>3 DEF NothingSearched, Pairs
  <2>3. ~Sound
    <3>1. <<req.owner, req.name>>[2] = req.name
      OBVIOUS
    <3> QED
      BY <1>7, <2>2, <3>1 DEF Sound
  <2>4. (~Sound)'
    BY <1>5, <2>1, <2>3 DEF Sound
  <2>5. Types'
    BY <1>5, <2>1 DEF SystemInv, Types
  <2> QED
    BY <2>1, <2>4, <2>5 DEF SystemInv
<1> QED
  BY <1>6, <1>7

(* The end of the look-ups keeps it.                                       *)
LEMMA ResolvedKeepsInv ==
  ASSUME SystemInv, Resolved
  PROVE  SystemInv'
<1>1. /\ reqs \in Seq(Requirement) /\ deps \in Seq(Requirement) /\ ResolvedSoFar /\ NothingSearched
      /\ Len(deps) = Len(reqs)
  BY DEF SystemInv, Types, Resolved, ResolvedSoFar
<1>2. DOMAIN reqs = 1 .. Len(reqs) /\ DOMAIN deps = 1 .. Len(deps)
  BY <1>1, LenProperties
<1>3. Pairs(deps) = Pairs(reqs)
  BY <1>1, <1>2 DEF Pairs, ResolvedSoFar
<1>4. /\ phase' = "sort" /\ Registered' = Registered
      /\ UNCHANGED <<modules, reqs, deps, targets, stack, visiting, sorted, ok, todo, required>>
  BY DEF Resolved, Registered
<1>5. Types'
  BY <1>4 DEF SystemInv, Types
<1>6. required' = Pairs(deps') /\ targets' = required'
  BY <1>1, <1>3, <1>4 DEF NothingSearched
<1>7. \A i \in DOMAIN deps' : deps'[i].name \in Registered'
  BY <1>1, <1>4 DEF ResolvedSoFar
<1>8. stack' = <<>> /\ sorted' = <<>> /\ visiting' = {} /\ ToSet(sorted') = {} /\ Len(stack') = 0
  BY <1>1, <1>4, EmptySearched DEF NothingSearched
<1>9. DOMAIN stack' = {} /\ DOMAIN sorted' = {} /\ 1 .. Len(stack') - 1 = {}
  BY <1>8
<1>10. Searching'
  BY <1>6, <1>7, <1>8, <1>9
     DEF Searching, SortedOnce, RequiredBefore, EdgesFollowed, StackIsPath, Pairs
<1> QED
  BY <1>4, <1>5, <1>10 DEF SystemInv

(* A search that starts keeps it: the stack is one frame.                  *)
LEMMA StartVisitKeepsInv ==
  ASSUME SystemInv, StartVisit
  PROVE  SystemInv'
<1> DEFINE m == modules[Min(Unsorted)]
           f == [module |-> m, edge |-> 1]
<1>1. Searching /\ stack = <<>> /\ phase = "sort" /\ modules \in Seq(Modules)
  BY DEF SystemInv, Types, StartVisit
<1>2. Unsorted \subseteq Nat /\ Unsorted # {}
  <2>1. DOMAIN modules = 1 .. Len(modules) /\ Len(modules) \in Nat
    BY <1>1, LenProperties
  <2> QED
    BY <2>1 DEF Unsorted, StartVisit
<1>3. Min(Unsorted) \in Unsorted
  BY <1>2, MinProperties
<1>4. m \in Registered /\ m \notin ToSet(sorted) /\ m \in Modules
  <2>1. Min(Unsorted) \in DOMAIN modules /\ m \notin ToSet(sorted)
    BY <1>3 DEF Unsorted
  <2> QED
    BY <1>1, <2>1, ElementOfSeq, LenProperties DEF Registered, ToSet
<1>5. /\ stack' = Append(stack, f) /\ visiting' = visiting \cup {m} /\ Registered' = Registered
      /\ UNCHANGED <<modules, reqs, deps, targets, sorted, ok, phase, todo, required>>
  BY DEF StartVisit, Visit, Registered
<1>6. f \in Frame /\ f.module = m /\ f.edge = 1
  BY <1>4 DEF Frame
<1> HIDE DEF m, f
<1>7. stack' \in Seq(Frame) /\ Len(stack') = 1 /\ DOMAIN stack' = 1 .. 1 /\ stack'[1] = f
  <2>1. stack \in Seq(Frame) /\ Len(stack) = 0
    BY <1>1 DEF SystemInv, Types
  <2>2. stack' \in Seq(Frame) /\ Len(stack') = 0 + 1 /\ DOMAIN stack' = 1 .. 0 + 1
        /\ stack'[0 + 1] = f
    BY <1>5, <1>6, <2>1, Added
  <2> QED
    BY <2>2
<1>8. \A i \in DOMAIN stack' : i = 1
  BY <1>7
<1>9. visiting' = { stack'[i].module : i \in DOMAIN stack' }
  <2>1. visiting = {}
    BY <1>1 DEF Searching
  <2> QED
    BY <1>5, <1>6, <1>7, <1>8, <2>1
<1>10. visiting' \cap ToSet(sorted') = {}
  BY <1>1, <1>4, <1>5 DEF Searching
<1>11. EdgesFollowed'
  <2>1. \A j \in DOMAIN deps' : ~(j < 1)
    <3>1. DOMAIN deps' = 1 .. Len(deps)
      BY <1>5, LenProperties DEF SystemInv, Types
    <3> QED
      BY <3>1
  <2> QED
    BY <1>6, <1>7, <1>8, <2>1 DEF EdgesFollowed
<1>12. StackIsPath'
  <2>1. 1 .. Len(stack') - 1 = {}
    BY <1>7
  <2> QED
    BY <1>4, <1>5, <1>6, <1>7, <1>8, <2>1 DEF StackIsPath
<1>13. Searching'
  BY <1>1, <1>5, <1>9, <1>10, <1>11, <1>12
     DEF Searching, SortedOnce, RequiredBefore, Pairs
<1>14. Types'
  BY <1>5, <1>7 DEF SystemInv, Types
<1> QED
  BY <1>1, <1>5, <1>13, <1>14 DEF SystemInv

(* The next edge of the top frame: those before it lead to sorted modules. *)
LEMMA NextEdge ==
  ASSUME SystemInv, phase = "sort", stack # <<>>, EdgesLeft # {}
  PROVE  /\ Min(EdgesLeft) \in 1 .. Len(deps) /\ Min(EdgesLeft) >= Last(stack).edge
         /\ deps[Min(EdgesLeft)].owner = Last(stack).module
         /\ \A j \in DOMAIN deps : j < Min(EdgesLeft) /\ deps[j].owner = Last(stack).module
              => deps[j].name \in ToSet(sorted)
<1> DEFINE n == Len(stack)
           top == Last(stack)
           e == Min(EdgesLeft)
<1>1. /\ deps \in Seq(Requirement) /\ stack \in Seq(Frame) /\ EdgesFollowed
  BY DEF SystemInv, Types, Searching
<1>2. n \in Nat \ {0} /\ DOMAIN stack = 1 .. n /\ top = stack[n] /\ top \in Frame
  BY <1>1, Ends
<1>3. Len(deps) \in Nat /\ DOMAIN deps = 1 .. Len(deps) /\ top.edge \in Nat \ {0}
  BY <1>1, <1>2, LenProperties DEF Frame
<1>4. EdgesLeft \subseteq Nat
  BY <1>3 DEF EdgesLeft
<1>5. e \in EdgesLeft /\ \A y \in EdgesLeft : e <= y
  BY <1>4, MinProperties
<1>6. e \in top.edge .. Len(deps) /\ deps[e].owner = top.module
  BY <1>5 DEF EdgesLeft
<1>7. ASSUME NEW j \in DOMAIN deps, j < e, deps[j].owner = top.module
      PROVE  deps[j].name \in ToSet(sorted)
  <2>1. j \notin EdgesLeft
    BY <1>3, <1>5, <1>6, <1>7
  <2>2. j < top.edge
    BY <1>3, <1>7, <2>1 DEF EdgesLeft
  <2>3. n \in DOMAIN stack /\ ~(n < n)
    BY <1>2
  <2> QED
    BY <1>1, <1>2, <1>7, <2>2, <2>3 DEF EdgesFollowed
<1> QED
  BY <1>3, <1>6, <1>7

(* An edge back to a module on the stack closes a circle of requirements.  *)
LEMMA CircleIsUnsound ==
  ASSUME SystemInv, phase = "sort", stack # <<>>, NEW m \in visiting,
         <<Last(stack).module, m>> \in required
  PROVE  ~Sound
<1> DEFINE n == Len(stack)
<1>1. stack \in Seq(Frame) /\ StackIsPath /\ visiting = { stack[i].module : i \in DOMAIN stack }
  BY DEF SystemInv, Types, Searching
<1>2. n \in Nat \ {0} /\ DOMAIN stack = 1 .. n /\ Last(stack) = stack[n]
  BY <1>1, Ends
<1>3. PICK i \in 1 .. n : m = stack[i].module
  BY <1>1, <1>2
<1> DEFINE S == { stack[k].module : k \in i .. n }
<1>4. S \in (SUBSET Registered) \ {{}} /\ m \in S
  <2>1. i \in i .. n /\ \A k \in i .. n : k \in 1 .. n
    BY <1>2
  <2>2. m \in S
    BY <1>3, <2>1
  <2>3. S \subseteq Registered
    BY <1>1, <1>2, <2>1 DEF StackIsPath
  <2> QED
    BY <2>2, <2>3
<1>5. ASSUME NEW s \in S PROVE \E t \in S : <<s, t>> \in required
  <2>1. PICK k \in i .. n : s = stack[k].module
    OBVIOUS
  <2>2. CASE k = n
    BY <1>2, <1>4, <2>1, <2>2
  <2>3. CASE k # n
    <3>1. k \in 1 .. n - 1 /\ k + 1 \in i .. n
      <4>1. i \in Nat /\ n \in Nat /\ i >= 1 /\ k \in i .. n
        BY <1>2, <1>3, <2>1
      <4> QED
        BY <2>3, <4>1
    <3>2. <<stack[k].module, stack[k + 1].module>> \in required
      BY <1>1, <3>1 DEF StackIsPath
    <3>3. stack[k + 1].module \in S
      BY <3>1
    <3> QED
      BY <2>1, <3>2, <3>3
  <2> QED
    BY <2>2, <2>3
<1> HIDE DEF S
<1> QED
  BY <1>4, <1>5 DEF Sound

(* Following an edge keeps the invariant: an edge to a sorted module is    *)
(* only passed, one to a new module puts that on the stack.                *)
LEMMA FollowEdgeKeepsInv ==
  ASSUME SystemInv, FollowEdge
  PROVE  SystemInv'
<1> DEFINE n == Len(stack)
           top == Last(stack)
           e == Min(EdgesLeft)
           m == deps[e].name
           g == [top EXCEPT !.edge = e + 1]
           adv == Append(Front(stack), g)
           f == [module |-> m, edge |-> 1]
<1>1. /\ phase = "sort" /\ stack # <<>> /\ EdgesLeft # {} /\ Searching
      /\ deps \in Seq(Requirement) /\ stack \in Seq(Frame)
  BY DEF SystemInv, Types, FollowEdge
<1>2. /\ n \in Nat \ {0} /\ DOMAIN stack = 1 .. n /\ top = stack[n] /\ top \in Frame
      /\ Front(stack) \in Seq(Frame) /\ Len(Front(stack)) = n - 1
      /\ DOMAIN Front(stack) = 1 .. n - 1
      /\ \A k \in 1 .. n - 1 : Front(stack)[k] = stack[k]
  BY <1>1, Ends
<1>3. /\ e \in 1 .. Len(deps) /\ e >= top.edge /\ deps[e].owner = top.module
      /\ \A j \in DOMAIN deps : j < e /\ deps[j].owner = top.module => deps[j].name \in ToSet(sorted)
  BY <1>1, NextEdge
<1>4. Len(deps) \in Nat /\ DOMAIN deps = 1 .. Len(deps) /\ e \in Nat \ {0}
  BY <1>1, <1>3, LenProperties
<1>5. deps[e] \in Requirement /\ m \in Modules /\ m \in Registered /\ <<top.module, m>> \in required
  <2>1. deps[e] \in Requirement
    BY <1>1, <1>3, ElementOfSeq
  <2>2. <<deps[e].owner, deps[e].name>> \in Pairs(deps)
    BY <1>3, <1>4 DEF Pairs
  <2> QED
    BY <1>1, <1>3, <1>4, <2>1, <2>2 DEF Searching, Requirement
<1>6. g \in Frame /\ g.module = top.module /\ g.edge = e + 1
  BY <1>2, <1>4 DEF Frame
<1>7. f \in Frame /\ f.module = m /\ f.edge = 1
  BY <1>5 DEF Frame
<1>8. /\ Registered' = Registered
      /\ UNCHANGED <<modules, reqs, deps, targets, sorted, ok, todo, required>>
  BY DEF FollowEdge, Registered
<1>9. \/ m \in visiting /\ phase' = "failed" /\ UNCHANGED <<stack, visiting>>
      \/ m \notin visiting /\ m \in ToSet(sorted) /\ stack' = adv /\ UNCHANGED <<visiting, phase>>
      \/ /\ m \notin visiting /\ m \notin ToSet(sorted)
         /\ stack' = Append(adv, f) /\ visiting' = visiting \cup {m} /\ UNCHANGED phase
  BY DEF FollowEdge
<1> HIDE DEF n, e, top, g, f, m
<1>10. /\ adv \in Seq(Frame) /\ Len(adv) = n /\ DOMAIN adv = 1 .. n
       /\ \A k \in 1 .. n - 1 : adv[k] = stack[k]
       /\ adv[n] = g
  <2>1. /\ adv \in Seq(Frame) /\ Len(adv) = (n - 1) + 1 /\ DOMAIN adv = 1 .. (n - 1) + 1
        /\ \A k \in 1 .. n - 1 : adv[k] = Front(stack)[k]
        /\ adv[(n - 1) + 1] = g
    BY <1>2, <1>6, Added
  <2>2. (n - 1) + 1 = n
    BY <1>2
  <2> QED
    BY <1>2, <2>1, <2>2
<1> HIDE DEF adv
<1>11. \A k \in 1 .. n : adv[k].module = stack[k].module
  <2>1. \A k \in 1 .. n : k \in 1 .. n - 1 \/ k = n
    BY <1>2
  <2> QED
    BY <1>2, <1>6, <1>10, <2>1
(* The edges the advanced top frame has behind it.                         *)
<1>12. ASSUME NEW j \in DOMAIN deps, j < e + 1, deps[j].owner = top.module
       PROVE  deps[j].name \in ToSet(sorted) \/ deps[j].name = m
  <2>1. j < e \/ j = e
    BY <1>4, <1>12
  <2> QED
    BY <1>3, <1>12, <2>1 DEF m
(* The frames below it are as they were.                                   *)
<1>13. ASSUME NEW i \in 1 .. n - 1, NEW j \in DOMAIN deps,
              j < adv[i].edge, deps[j].owner = adv[i].module
       PROVE  deps[j].name \in ToSet(sorted) \/ deps[j].name = adv[i + 1].module
  <2>1. i \in 1 .. n /\ i + 1 \in 1 .. n /\ adv[i] = stack[i]
    BY <1>2, <1>10
  <2>2. deps[j].name \in ToSet(sorted) \/ deps[j].name = stack[i + 1].module
    BY <1>1, <1>2, <1>13, <2>1 DEF Searching, EdgesFollowed, n
  <2> QED
    BY <1>11, <2>1, <2>2
<1>14. CASE m \in visiting /\ phase' = "failed" /\ UNCHANGED <<stack, visiting>>
  <2>1. ~Sound
    BY <1>1, <1>5, <1>14, CircleIsUnsound DEF top
  <2>2. (~Sound)'
    BY <1>8, <2>1 DEF Sound
  <2>3. Types'
    BY <1>8, <1>14 DEF SystemInv, Types
  <2> QED
    BY <1>14, <2>2, <2>3 DEF SystemInv
<1>15. CASE m \notin visiting /\ m \in ToSet(sorted) /\ stack' = adv /\ UNCHANGED <<visiting, phase>>
  <2>1. Types'
    BY <1>1, <1>8, <1>10, <1>15 DEF SystemInv, Types
  <2>2. EdgesFollowed'
    <3>1. ASSUME NEW i \in 1 .. n, NEW j \in DOMAIN deps, j < adv[i].edge, deps[j].owner = adv[i].module
          PROVE  deps[j].name \in ToSet(sorted) \/ (i < n /\ deps[j].name = adv[i + 1].module)
      <4>1. i \in 1 .. n - 1 \/ i = n
        BY <1>2
      <4>2. CASE i \in 1 .. n - 1
        <5>1. i < n
          BY <1>2, <4>2
        <5> QED
          BY <1>13, <3>1, <4>2, <5>1
      <4>3. CASE i = n
        BY <1>6, <1>10, <1>12, <1>15, <3>1, <4>3
      <4> QED
        BY <4>1, <4>2, <4>3
    <3> QED
      BY <1>8, <1>10, <1>15, <3>1 DEF EdgesFollowed
  <2>3. StackIsPath'
    <3>1. \A i \in 1 .. n - 1 : i \in 1 .. n /\ i + 1 \in 1 .. n
      BY <1>2
    <3>2. StackIsPath
      BY <1>1 DEF Searching
    <3>3. \A i \in 1 .. n - 1 : <<adv[i].module, adv[i + 1].module>> \in required
      BY <1>11, <3>1, <3>2 DEF StackIsPath, n
    <3>4. \A i, j \in 1 .. n : adv[i].module = adv[j].module => i = j
      BY <1>2, <1>11, <3>2 DEF StackIsPath
    <3>5. \A i \in 1 .. n : adv[i].module \in Registered
      BY <1>2, <1>11, <3>2 DEF StackIsPath
    <3> QED
      BY <1>8, <1>10, <1>15, <3>3, <3>4, <3>5 DEF StackIsPath
  <2>4. visiting' = { stack'[i].module : i \in DOMAIN stack' }
    <3>1. visiting = { stack[i].module : i \in 1 .. n }
      BY <1>1, <1>2 DEF Searching
    <3> QED
      BY <1>10, <1>11, <1>15, <3>1
  <2>5. Searching'
    BY <1>1, <1>8, <1>15, <2>2, <2>3, <2>4 DEF Searching, SortedOnce, RequiredBefore, Pairs
  <2> QED
    BY <1>1, <1>15, <2>1, <2>5 DEF SystemInv
<1>16. CASE /\ m \notin visiting /\ m \notin ToSet(sorted)
            /\ stack' = Append(adv, f) /\ visiting' = visiting \cup {m} /\ UNCHANGED phase
  <2>1. /\ stack' \in Seq(Frame) /\ Len(stack') = n + 1 /\ DOMAIN stack' = 1 .. n + 1
        /\ \A k \in 1 .. n : stack'[k] = adv[k]
        /\ stack'[n + 1] = f
    BY <1>7, <1>10, <1>16, Added
  <2>2. \A k \in 1 .. n + 1 : k \in 1 .. n \/ k = n + 1
    BY <1>2
  <2>3. Types'
    BY <1>1, <1>8, <1>16, <2>1 DEF SystemInv, Types
  <2>4. EdgesFollowed'
    <3>1. ASSUME NEW i \in 1 .. n + 1, NEW j \in DOMAIN deps,
                 j < stack'[i].edge, deps[j].owner = stack'[i].module
          PROVE  deps[j].name \in ToSet(sorted) \/ (i < n + 1 /\ deps[j].name = stack'[i + 1].module)
      <4>1. i \in 1 .. n - 1 \/ i = n \/ i = n + 1
        BY <1>2
      <4>2. CASE i \in 1 .. n - 1
        <5>1. i \in 1 .. n /\ i + 1 \in 1 .. n /\ i < n + 1
          BY <1>2, <4>2
        <5>2. stack'[i] = adv[i] /\ stack'[i + 1] = adv[i + 1]
          BY <2>1, <5>1
        <5> QED
          BY <1>13, <3>1, <4>2, <5>1, <5>2
      <4>3. CASE i = n
        <5>1. n \in 1 .. n /\ n < n + 1
          BY <1>2
        <5>2. stack'[n] = g
          BY <1>10, <2>1, <5>1
        <5> QED
          BY <1>6, <1>7, <1>12, <2>1, <3>1, <4>3, <5>1, <5>2
      <4>4. CASE i = n + 1
        <5>1. j < 1
          BY <1>7, <2>1, <3>1, <4>4
        <5> QED
          BY <1>4, <5>1
      <4> QED
        BY <4>1, <4>2, <4>3, <4>4
    <3> QED
      BY <1>8, <2>1, <3>1 DEF EdgesFollowed
  <2>5. StackIsPath'
    <3>1. StackIsPath /\ visiting = { stack[i].module : i \in 1 .. n }
      BY <1>1, <1>2 DEF Searching
    <3>2. \A k \in 1 .. n : stack'[k].module = stack[k].module
      BY <1>11, <2>1
    <3>3. stack'[n + 1].module = m
      BY <1>7, <2>1
    <3>4. \A i \in 1 .. n + 1 : stack'[i].module \in Registered
      BY <1>2, <1>5, <2>2, <3>1, <3>2, <3>3 DEF StackIsPath
    <3>5. \A k \in 1 .. n : stack[k].module # m
      BY <1>16, <3>1
    <3>6. \A i, j \in 1 .. n + 1 : stack'[i].module = stack'[j].module => i = j
      BY <1>2, <2>2, <3>1, <3>2, <3>3, <3>5 DEF StackIsPath
    <3>7. ASSUME NEW i \in 1 .. n PROVE <<stack'[i].module, stack'[i + 1].module>> \in required
      <4>1. CASE i = n
        BY <1>2, <1>5, <3>2, <3>3, <4>1
      <4>2. CASE i # n
        <5>1. i \in 1 .. n - 1 /\ i + 1 \in 1 .. n
          BY <1>2, <4>2
        <5> QED
          BY <3>1, <3>2, <5>1 DEF StackIsPath, n
      <4> QED
        BY <4>1, <4>2
    <3>8. Len(stack') - 1 = n
      BY <1>2, <2>1
    <3> QED
      BY <1>8, <2>1, <3>4, <3>6, <3>7, <3>8 DEF StackIsPath
  <2>6. visiting' = { stack'[i].module : i \in DOMAIN stack' }
    <3>1. visiting = { stack[i].module : i \in 1 .. n }
      BY <1>1, <1>2 DEF Searching
    <3>2. \A k \in 1 .. n : stack'[k].module = stack[k].module /\ k \in 1 .. n + 1
      BY <1>2, <1>11, <2>1
    <3>3. stack'[n + 1].module = m /\ n + 1 \in 1 .. n + 1
      BY <1>2, <1>7, <2>1
    <3> QED
      BY <1>16, <2>1, <2>2, <3>1, <3>2, <3>3
  <2>7. visiting' \cap ToSet(sorted') = {}
    BY <1>1, <1>8, <1>16 DEF Searching
  <2>8. Searching'
    BY <1>1, <1>8, <2>4, <2>5, <2>6, <2>7 DEF Searching, SortedOnce, RequiredBefore, Pairs
  <2> QED
    BY <1>1, <1>16, <2>3, <2>8 DEF SystemInv
<1> QED
  BY <1>9, <1>14, <1>15, <1>16

(* A module that is finished has all its requirements sorted before it.    *)
LEMMA FinishVisitKeepsInv ==
  ASSUME SystemInv, FinishVisit
  PROVE  SystemInv'
<1> DEFINE n == Len(stack)
           t == Last(stack).module
           l == Len(sorted)
<1>1. /\ phase = "sort" /\ stack # <<>> /\ EdgesLeft = {} /\ Searching
      /\ deps \in Seq(Requirement) /\ stack \in Seq(Frame) /\ sorted \in Seq(Modules)
  BY DEF SystemInv, Types, FinishVisit
<1>2. /\ n \in Nat \ {0} /\ DOMAIN stack = 1 .. n /\ Last(stack) = stack[n] /\ Last(stack) \in Frame
      /\ Front(stack) \in Seq(Frame) /\ Len(Front(stack)) = n - 1
      /\ DOMAIN Front(stack) = 1 .. n - 1
      /\ \A k \in 1 .. n - 1 : Front(stack)[k] = stack[k]
  BY <1>1, Ends
<1>3. n \in 1 .. n /\ t = stack[n].module /\ t \in Modules
  BY <1>2 DEF Frame
<1>4. /\ Registered' = Registered /\ stack' = Front(stack) /\ sorted' = Append(sorted, t)
      /\ visiting' = visiting \ {t}
      /\ UNCHANGED <<modules, reqs, deps, targets, ok, phase, todo, required>>
  BY DEF FinishVisit, Registered
<1>5. t \in visiting /\ t \notin ToSet(sorted) /\ t \in Registered
  BY <1>1, <1>2, <1>3 DEF Searching, StackIsPath
<1>6. ASSUME NEW j \in DOMAIN deps, deps[j].owner = t PROVE deps[j].name \in ToSet(sorted)
  <2>1. DOMAIN deps = 1 .. Len(deps) /\ Len(deps) \in Nat /\ Last(stack).edge \in Nat
    BY <1>1, <1>2, LenProperties DEF Frame
  <2>2. j < stack[n].edge
    BY <1>1, <1>2, <1>6, <2>1 DEF EdgesLeft
  <2>3. ~(n < n)
    BY <1>2
  <2> QED
    BY <1>1, <1>2, <1>3, <1>6, <2>2, <2>3 DEF Searching, EdgesFollowed
<1>7. ASSUME NEW r \in required, r[1] = t PROVE r[2] \in ToSet(sorted)
  <2>1. PICK j \in DOMAIN deps : r = <<deps[j].owner, deps[j].name>>
    BY <1>1 DEF Searching, Pairs
  <2> QED
    BY <1>6, <1>7, <2>1
<1>8. /\ sorted' \in Seq(Modules) /\ l \in Nat /\ DOMAIN sorted = 1 .. l
      /\ DOMAIN sorted' = 1 .. l + 1 /\ sorted'[l + 1] = t
      /\ \A k \in 1 .. l : sorted'[k] = sorted[k]
      /\ ToSet(sorted') = ToSet(sorted) \cup {t}
  BY <1>1, <1>3, <1>4, Added
<1>9. /\ stack' \in Seq(Frame) /\ Len(stack') = n - 1 /\ DOMAIN stack' = 1 .. n - 1
      /\ \A k \in 1 .. n - 1 : stack'[k] = stack[k] /\ k \in 1 .. n
  <2>1. \A k \in 1 .. n - 1 : k \in 1 .. n
    BY <1>2
  <2> QED
    BY <1>2, <1>4, <2>1
<1> HIDE DEF n, t, l
<1>10. \A k \in 1 .. l + 1 : k \in 1 .. l \/ k = l + 1
  BY <1>8
<1>11. \A k \in 1 .. l : sorted[k] # t
  BY <1>5, <1>8 DEF ToSet
<1>12. SortedOnce'
  <2>1. \A i, j \in 1 .. l : sorted[i] = sorted[j] => i = j
    BY <1>1, <1>8 DEF Searching, SortedOnce
  <2>2. \A i, j \in 1 .. l + 1 : sorted'[i] = sorted'[j] => i = j
    BY <1>8, <1>10, <1>11, <2>1
  <2> QED
    BY <1>8, <2>2 DEF SortedOnce
<1>13. RequiredBefore'
  <2>1. ASSUME NEW i \in 1 .. l + 1, NEW r \in required, r[1] = sorted'[i]
        PROVE  \E j \in 1 .. i - 1 : sorted'[j] = r[2]
    <3>1. CASE i \in 1 .. l
      <4>1. PICK j \in 1 .. i - 1 : sorted[j] = r[2]
        BY <1>1, <1>8, <2>1, <3>1 DEF Searching, RequiredBefore
      <4>2. j \in 1 .. l
        BY <1>8, <3>1
      <4> QED
        BY <1>8, <4>1, <4>2
    <3>2. CASE i = l + 1
      <4>1. r[2] \in ToSet(sorted)
        BY <1>7, <1>8, <2>1, <3>2
      <4>2. PICK j \in 1 .. l : sorted[j] = r[2]
        BY <1>8, <4>1 DEF ToSet
      <4>3. j \in 1 .. i - 1
        BY <1>8, <3>2
      <4> QED
        BY <1>8, <4>2, <4>3
    <3> QED
      BY <1>10, <3>1, <3>2
  <2> QED
    BY <1>4, <1>8, <2>1 DEF RequiredBefore
<1>14. EdgesFollowed'
  <2>1. ASSUME NEW i \in 1 .. n - 1, NEW j \in DOMAIN deps,
               j < stack[i].edge, deps[j].owner = stack[i].module
        PROVE  deps[j].name \in ToSet(sorted') \/ (i < n - 1 /\ deps[j].name = stack'[i + 1].module)
    <3>1. deps[j].name \in ToSet(sorted) \/ deps[j].name = stack[i + 1].module
      BY <1>1, <1>2, <1>9, <2>1 DEF Searching, EdgesFollowed
    <3>2. CASE i = n - 1
      <4>1. i + 1 = n
        BY <1>2, <3>2
      <4> QED
        BY <1>3, <1>8, <3>1, <4>1
    <3>3. CASE i # n - 1
      <4>1. i < n - 1 /\ i + 1 \in 1 .. n - 1
        BY <1>2, <3>3
      <4> QED
        BY <1>8, <1>9, <3>1, <4>1
    <3> QED
      BY <3>2, <3>3
  <2> QED
    BY <1>4, <1>9, <2>1 DEF EdgesFollowed
<1>15. StackIsPath'
  <2>1. StackIsPath
    BY <1>1 DEF Searching
  <2>2. \A i \in 1 .. (n - 1) - 1 : i \in 1 .. n - 1 /\ i + 1 \in 1 .. n - 1
    BY <1>2
  <2>3. \A i \in 1 .. (n - 1) - 1 : <<stack'[i].module, stack'[i + 1].module>> \in required
    BY <1>9, <2>1, <2>2 DEF StackIsPath, n
  <2>4. \A i \in 1 .. n - 1 : stack'[i].module \in Registered
    BY <1>2, <1>9, <2>1 DEF StackIsPath
  <2>5. \A i, j \in 1 .. n - 1 : stack'[i].module = stack'[j].module => i = j
    BY <1>2, <1>9, <2>1 DEF StackIsPath
  <2> QED
    BY <1>4, <1>9, <2>3, <2>4, <2>5 DEF StackIsPath
<1>16. visiting' = { stack'[i].module : i \in DOMAIN stack' }
  <2>1. visiting = { stack[i].module : i \in 1 .. n }
    BY <1>1, <1>2 DEF Searching
  <2>2. \A i \in 1 .. n - 1 : stack[i].module # t
    <3>1. \A i \in 1 .. n - 1 : i \in 1 .. n /\ i # n
      BY <1>2
    <3> QED
      BY <1>1, <1>2, <1>3, <3>1 DEF Searching, StackIsPath
  <2>3. \A i \in 1 .. n : i \in 1 .. n - 1 \/ i = n
    BY <1>2
  <2>4. \A x : x \in visiting' <=> \E i \in 1 .. n - 1 : x = stack[i].module
    BY <1>3, <1>4, <1>9, <2>1, <2>2, <2>3
  <2>5. \A x : x \in visiting' <=> \E i \in DOMAIN stack' : x = stack'[i].module
    BY <1>9, <2>4
  <2> QED
    BY <2>5
<1>17. visiting' \cap ToSet(sorted') = {} /\ ToSet(sorted') \subseteq Registered'
  BY <1>1, <1>4, <1>5, <1>8 DEF Searching
<1>18. Searching'
  BY <1>1, <1>4, <1>12, <1>13, <1>14, <1>15, <1>16, <1>17 DEF Searching, Pairs
<1>19. Types'
  BY <1>4, <1>8, <1>9 DEF SystemInv, Types
<1> QED
  BY <1>1, <1>4, <1>18, <1>19 DEF SystemInv

(* The end of the search keeps it: every module is sorted.                 *)
LEMMA LinkedKeepsInv ==
  ASSUME SystemInv, Linked
  PROVE  SystemInv'
<1>1. /\ Searching /\ Unsorted = {} /\ phase' = "init" /\ todo' = Registered
      /\ Registered' = Registered
      /\ UNCHANGED <<modules, reqs, deps, targets, stack, visiting, sorted, required>>
  BY DEF SystemInv, Linked, Registered
<1>2. ToSet(sorted) = Registered
  BY <1>1 DEF Searching, Unsorted, Registered, ToSet
<1>3. \A r \in required : r[2] \in Registered
  BY <1>1 DEF Searching, Pairs
<1>4. \A i \in DOMAIN sorted : sorted[i] \in Registered
  BY <1>2 DEF ToSet
<1>5. Running'
  BY <1>1, <1>2, <1>3, <1>4 DEF Running, Searching, SortedOnce, RequiredBefore
<1>6. Types'
  BY <1>1 DEF SystemInv, Types
<1> QED
  BY <1>1, <1>5, <1>6 DEF SystemInv

(* A function runs when no module left is before its own in the order.     *)
LEMMA RunFunctionKeepsInv ==
  ASSUME SystemInv, NEW m \in Modules, RunFunction(m)
  PROVE  SystemInv'
<1>1. /\ Running /\ phase \in {"init", "start", "update"} /\ m \in todo
      /\ \A k \in todo : SortedIndex(m) <= SortedIndex(k)
      /\ todo' = todo \ {m} /\ Registered' = Registered
      /\ UNCHANGED <<modules, reqs, deps, targets, stack, visiting, sorted, ok, phase, required>>
  BY DEF SystemInv, RunFunction, Registered
<1>2. ASSUME NEW i \in DOMAIN sorted PROVE SortedIndex(sorted[i]) = i
  BY <1>1, <1>2 DEF Running, SortedOnce, SortedIndex
<1>3. DOMAIN sorted = 1 .. Len(sorted) /\ Len(sorted) \in Nat
  BY LenProperties DEF SystemInv, Types
<1>4. ASSUME NEW i \in DOMAIN sorted, NEW j \in DOMAIN sorted,
             sorted[i] \notin todo', sorted[j] \in todo'
      PROVE  i < j
  <2>1. sorted[j] \in todo /\ sorted[j] # m
    BY <1>1, <1>4
  <2>2. CASE sorted[i] \notin todo
    BY <1>1, <1>4, <2>1, <2>2 DEF Running
  <2>3. CASE sorted[i] = m
    <3>1. SortedIndex(m) <= SortedIndex(sorted[j])
      BY <1>1, <2>1
    <3>2. i <= j /\ i # j
      BY <1>2, <2>1, <2>3, <3>1
    <3> QED
      BY <1>3, <3>2
  <2> QED
    BY <1>1, <1>4, <2>2, <2>3
<1>5. Running'
  BY <1>1, <1>4 DEF Running, SortedOnce, RequiredBefore
<1>6. Types'
  BY <1>1 DEF SystemInv, Types
<1> QED
  BY <1>1, <1>5, <1>6 DEF SystemInv

(* A new round of functions keeps it.                                      *)
LEMMA NewRoundKeepsInv ==
  ASSUME SystemInv, Initialized \/ Started \/ Updated
  PROVE  SystemInv'
<1>1. /\ Running /\ phase' \in {"start", "update"} /\ todo' = Registered
      /\ Registered' = Registered
      /\ UNCHANGED <<modules, targets, stack, visiting, sorted, required>>
      /\ (reqs' = reqs /\ deps' = deps) \/ (reqs' = <<>> /\ deps' = <<>>)
  BY DEF SystemInv, Initialized, Started, Updated, Registered
<1>2. \A i \in DOMAIN sorted : sorted[i] \in Registered
  BY <1>1 DEF Running, ToSet
<1>3. Running'
  BY <1>1, <1>2 DEF Running, SortedOnce, RequiredBefore
<1>4. Types'
  <2>1. Types
    BY DEF SystemInv
  <2>2. reqs' \in Seq(Requirement) /\ deps' \in Seq(Requirement)
        /\ \A i \in DOMAIN reqs' : reqs'[i].owner \in Registered
    <3>1. CASE reqs' = reqs /\ deps' = deps
      BY <2>1, <3>1 DEF Types
    <3>2. CASE reqs' = <<>> /\ deps' = <<>>
      <4>1. <<>> \in Seq(Requirement) /\ DOMAIN <<>> = {}
        OBVIOUS
      <4> QED
        BY <3>2, <4>1
    <3> QED
      BY <1>1, <3>1, <3>2
  <2> QED
    BY <1>1, <2>1, <2>2 DEF Types
<1> QED
  BY <1>1, <1>3, <1>4 DEF SystemInv

(* Every step keeps the invariant.                                         *)
LEMMA StepSystemInv == SystemInv /\ [Next]_vars => SystemInv'
<1> SUFFICES ASSUME SystemInv, [Next]_vars PROVE SystemInv'
  OBVIOUS
<1>1. CASE \E m \in Modules : Construct(m) \/ Require(m) \/ RunFunction(m)
  BY <1>1, ConstructKeepsInv, RequireKeepsInv, RunFunctionKeepsInv
<1>2. CASE Setup \/ Resolve \/ Resolved
  BY <1>2, SetupKeepsInv, ResolveKeepsInv, ResolvedKeepsInv
<1>3. CASE StartVisit \/ FollowEdge \/ FinishVisit \/ Linked
  BY <1>3, StartVisitKeepsInv, FollowEdgeKeepsInv, FinishVisitKeepsInv, LinkedKeepsInv
<1>4. CASE Initialized \/ Started \/ Updated
  BY <1>4, NewRoundKeepsInv
<1>5. CASE UNCHANGED vars
  <2>1. Types' /\ (NothingSearched <=> NothingSearched') /\ (ResolvedSoFar <=> ResolvedSoFar')
    BY <1>5 DEF vars, SystemInv, Types, Registered, NothingSearched, ResolvedSoFar, Pairs
  <2>2. (Searching <=> Searching') /\ (Running <=> Running') /\ (Sound <=> Sound')
    BY <1>5 DEF vars, Registered, Searching, Running, Sound, Pairs, SortedOnce, RequiredBefore,
                EdgesFollowed, StackIsPath
  <2> QED
    BY <1>5, <2>1, <2>2 DEF vars, SystemInv
<1> QED
  BY <1>1, <1>2, <1>3, <1>4, <1>5 DEF Next

(* The invariant holds in every reachable state.                           *)
LEMMA AlwaysSystemInv == Spec => []SystemInv
  BY InitSystemInv, StepSystemInv, PTL DEF Spec

-----------------------------------------------------------------------------
(* visit() keeps its books at every step of the search: the flags are      *)
(* those of the modules on the stack, and what is sorted is sorted once    *)
(* and after what it requires.                                             *)
THEOREM SearchKeepsBooks == Spec => []SearchInv
<1>1. SystemInv => SearchInv
  BY DEF SystemInv, Searching, SearchInv, SortedOnce, RequiredBefore
<1> QED
  BY <1>1, AlwaysSystemInv, PTL

(* The functions that initialize(), start() and update() call: that of a   *)
(* module runs after those of all the modules it requires.                 *)
THEOREM RequirementsFirst == Spec => []RequiredRunFirst
<1>1. ASSUME Running, Types, NEW r \in required, r[1] \notin todo PROVE r[2] \notin todo
  <2>1. r[1] \in ToSet(sorted) /\ DOMAIN sorted = 1 .. Len(sorted) /\ Len(sorted) \in Nat
    BY <1>1, LenProperties DEF Running, Types
  <2>2. PICK i \in 1 .. Len(sorted) : sorted[i] = r[1]
    BY <2>1 DEF ToSet
  <2>3. PICK j \in 1 .. i - 1 : sorted[j] = r[2]
    BY <1>1, <2>1, <2>2 DEF Running, RequiredBefore
  <2>4. j \in 1 .. Len(sorted) /\ ~(i < j)
    BY <2>1
  <2> QED
    BY <1>1, <2>1, <2>2, <2>3, <2>4 DEF Running
<1>2. SystemInv => RequiredRunFirst
  BY <1>1 DEF SystemInv, RequiredRunFirst
<1> QED
  BY <1>2, AlwaysSystemInv, PTL

(* An order in which every module follows what it requires shows that no   *)
(* set of modules is a circle: its first module requires none of the set.  *)
LEMMA OrderIsSound ==
  ASSUME Running, Types
  PROVE  Sound
<1>1. DOMAIN sorted = 1 .. Len(sorted) /\ Len(sorted) \in Nat
  BY LenProperties DEF Types
<1>2. ASSUME NEW S \in SUBSET Registered, S # {}
      PROVE  \E m \in S : \A k \in S : <<m, k>> \notin required
  <2> DEFINE I == { i \in 1 .. Len(sorted) : sorted[i] \in S }
  <2>1. I \subseteq Nat /\ I # {}
    <3>1. PICK m \in S : m \in ToSet(sorted)
      BY <1>2 DEF Running
    <3> QED
      BY <1>1, <3>1 DEF ToSet
  <2>2. PICK i \in I : \A y \in I : i <= y
    <3> HIDE DEF I
    <3> QED
      BY <2>1, MinProperties
  <2>3. ASSUME NEW k \in S, <<sorted[i], k>> \in required PROVE FALSE
    <3>1. PICK j \in 1 .. i - 1 : sorted[j] = k
      BY <1>1, <2>3 DEF Running, RequiredBefore
    <3>2. j \in I /\ ~(i <= j)
      BY <1>1, <2>3, <3>1
    <3> QED
      BY <2>2, <3>2
  <2> QED
    BY <2>2, <2>3
<1> QED
  BY <1>2 DEF Running, Sound

(* setup() fails only when a requirement has no module or modules require  *)
(* each other in a circle; otherwise all the pointers are filled in before *)
(* the first init function runs.                                           *)
THEOREM FailureIsReal == Spec => []FailsOnlyIfUnsound
<1>1. SystemInv => FailsOnlyIfUnsound
  BY OrderIsSound DEF SystemInv, Running, FailsOnlyIfUnsound
<1> QED
  BY <1>1, AlwaysSystemInv, PTL
=============================================================================
