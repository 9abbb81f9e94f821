---------------------------- MODULE ModuleSystem ----------------------------
(***************************************************************************)
(* og3::ModuleSystem: modules register themselves and their requirements   *)
(* while they are constructed; setup() resolves the requirements, sorts    *)
(* the modules by depth-first search, and runs their init and start        *)
(* functions; the application then runs the update functions for ever.     *)
(* The recursion of the search is a stack of frames.  Each module has one  *)
(* function of every kind, and a name is the address of a string: that is  *)
(* what NameToModule compares.                                             *)
(***************************************************************************)
EXTENDS Integers, FiniteSetsExt, SequencesExt

CONSTANTS Modules,   \* the modules an application may construct, each under its own name
          MaxReqs    \* bound: calls of require() in the whole application

ASSUME ModulesAssumption == IsFiniteSet(Modules) /\ MaxReqs \in Nat

VARIABLES modules,   \* m_modules, in order of construction
          reqs,      \* m_pending_requirements
          deps,      \* m_implicit_deps
          targets,   \* the pointers filled in, as pairs of owner and module
          stack,     \* the active calls of visit()
          visiting,  \* the modules whose visiting flag is set
          sorted,    \* sorted_module_indexes, the part written so far
          ok,        \* m_is_ok
          phase,     \* where the program is
          todo,      \* the modules whose function has yet to run in this phase
          required   \* every require() of the constructors (history)
vars == <<modules, reqs, deps, targets, stack, visiting, sorted, ok, phase, todo, required>>

Init ==
  /\ modules = <<>> /\ reqs = <<>> /\ deps = <<>> /\ targets = {}
  /\ stack = <<>> /\ visiting = {} /\ sorted = <<>> /\ ok = FALSE
  /\ phase = "construct" /\ todo = {} /\ required = {}

Registered == ToSet(modules)
-----------------------------------------------------------------------------
(* The constructor of a module registers it, and then calls require().     *)
Construct(m) ==
  /\ phase = "construct" /\ m \notin Registered
  /\ modules' = Append(modules, m)
  /\ UNCHANGED <<reqs, deps, targets, stack, visiting, sorted, ok, phase, todo, required>>

Require(name) ==
  /\ phase = "construct" /\ modules # <<>> /\ Len(reqs) < MaxReqs
  /\ reqs' = Append(reqs, [owner |-> Last(modules), name |-> name])
  /\ required' = required \cup {<<Last(modules), name>>}
  /\ UNCHANGED <<modules, deps, targets, stack, visiting, sorted, ok, phase, todo>>

Setup ==
  /\ phase = "construct" /\ phase' = "resolve"
  /\ UNCHANGED <<modules, reqs, deps, targets, stack, visiting, sorted, ok, todo, required>>

(* One requirement is looked up by name; the first that is not found ends  *)
(* link() with false, the pointers filled in before it stay.               *)
Resolve ==
  /\ phase = "resolve" /\ Len(deps) < Len(reqs)
  /\ LET req == reqs[Len(deps) + 1]
     IN  IF req.name \in Registered
         THEN /\ targets' = targets \cup {<<req.owner, req.name>>}
              /\ deps' = Append(deps, req)
              /\ UNCHANGED phase
         ELSE phase' = "failed" /\ UNCHANGED <<targets, deps>>
  /\ UNCHANGED <<modules, reqs, stack, visiting, sorted, ok, todo, required>>

Resolved ==
  /\ phase = "resolve" /\ Len(deps) = Len(reqs)
  /\ phase' = "sort"
  /\ UNCHANGED <<modules, reqs, deps, targets, stack, visiting, sorted, ok, todo, required>>

Unsorted == { i \in DOMAIN modules : modules[i] \notin ToSet(sorted) }

Visit(m) == Append(stack, [module |-> m, edge |-> 1])

(* The outer loop starts a search at the first module not yet sorted.      *)
StartVisit ==
  /\ phase = "sort" /\ stack = <<>> /\ Unsorted # {}
  /\ stack' = Visit(modules[Min(Unsorted)])
  /\ visiting' = visiting \cup {modules[Min(Unsorted)]}
  /\ UNCHANGED <<modules, reqs, deps, targets, sorted, ok, phase, todo, required>>

(* Fault: the edges of the top frame start over.                           *)
EdgesAll == { j \in 1 .. Len(deps) : deps[j].owner = Last(stack).module }

(* visit() goes over the edges of its module; those left in the top frame: *)
EdgesLeft == { j \in Last(stack).edge .. Len(deps) : deps[j].owner = Last(stack).module }

FollowEdge ==
  /\ phase = "sort" /\ stack # <<>> /\ EdgesLeft # {}
  /\ LET j == Min(EdgesLeft)
         m == deps[j].name
         advanced == Append(Front(stack), [Last(stack) EXCEPT !.edge = j + 1])
     IN  IF m \in visiting
         THEN phase' = "failed" /\ UNCHANGED <<stack, visiting>>
         ELSE IF m \in ToSet(sorted)
         THEN stack' = advanced /\ UNCHANGED <<visiting, phase>>
         ELSE /\ stack' = Append(advanced, [module |-> m, edge |-> 1])
              /\ visiting' = visiting \cup {m}
              /\ UNCHANGED phase
  /\ UNCHANGED <<modules, reqs, deps, targets, sorted, ok, todo, required>>

(* Fault: the visiting flag is never cleared.                              *)
FinishVisitFlagged ==
  /\ phase = "sort" /\ stack # <<>> /\ EdgesLeft = {}
  /\ sorted' = Append(sorted, Last(stack).module)
  /\ stack' = Front(stack)
  /\ UNCHANGED <<visiting, modules, reqs, deps, targets, ok, phase, todo, required>>

FinishVisit ==
  /\ phase = "sort" /\ stack # <<>> /\ EdgesLeft = {}
  /\ visiting' = visiting \ {Last(stack).module}
  /\ sorted' = Append(sorted, Last(stack).module)
  /\ stack' = Front(stack)
  /\ UNCHANGED <<modules, reqs, deps, targets, ok, phase, todo, required>>

(* The modules get their sorted indexes and link() is done.                *)
Linked ==
  /\ phase = "sort" /\ stack = <<>> /\ Unsorted = {}
  /\ ok' = TRUE /\ phase' = "init" /\ todo' = Registered
  /\ UNCHANGED <<modules, reqs, deps, targets, stack, visiting, sorted, required>>

SortedIndex(m) == CHOOSE i \in DOMAIN sorted : sorted[i] = m

(* Fault: the function lists are sorted the other way round.               *)
RunFunctionBackwards(m) ==
  /\ ok /\ phase \in {"init", "start", "update"} /\ m \in todo
  /\ \A n \in todo : SortedIndex(m) >= SortedIndex(n)
  /\ todo' = todo \ {m}
  /\ UNCHANGED <<modules, reqs, deps, targets, stack, visiting, sorted, ok, phase, required>>

(* The function lists were sorted by index, so the next function is one    *)
(* of a module with the least index left.                                  *)
RunFunction(m) ==
  /\ ok /\ phase \in {"init", "start", "update"} /\ m \in todo
  /\ \A n \in todo : SortedIndex(m) <= SortedIndex(n)
  /\ todo' = todo \ {m}
  /\ UNCHANGED <<modules, reqs, deps, targets, stack, visiting, sorted, ok, phase, required>>

Initialized ==
  /\ phase = "init" /\ todo = {}
  /\ phase' = "start" /\ todo' = Registered
  /\ UNCHANGED <<modules, reqs, deps, targets, stack, visiting, sorted, ok, required>>

(* setup() ends by forgetting the requirements.                            *)
Started ==
  /\ phase = "start" /\ todo = {}
  /\ phase' = "update" /\ todo' = Registered
  /\ reqs' = <<>> /\ deps' = <<>>
  /\ UNCHANGED <<modules, targets, stack, visiting, sorted, ok, required>>

(* update() is called again and again.                                     *)
Updated ==
  /\ phase = "update" /\ todo = {} /\ Registered # {}
  /\ todo' = Registered
  /\ UNCHANGED <<modules, reqs, deps, targets, stack, visiting, sorted, ok, phase, required>>

Next ==
  \/ \E m \in Modules : Construct(m) \/ Require(m) \/ RunFunction(m)
  \/ Setup \/ Resolve \/ Resolved
  \/ StartVisit \/ FollowEdge \/ FinishVisit \/ Linked
  \/ Initialized \/ Started \/ Updated

(* The application gets to setup(), which runs to its end.                 *)
Fairness == WF_vars(Next) /\ WF_vars(Setup)

Spec == Init /\ [][Next]_vars /\ Fairness
-----------------------------------------------------------------------------
(* Within a phase the function of a module runs after those of all the     *)
(* modules it requires (docs/modules.md, the life-cycle of a module).      *)
RequiredRunFirst ==
  phase \in {"init", "start", "update"} =>
    \A r \in required : r[1] \notin todo => r[2] \notin todo

(* What setup() ought to find out, without any search: every name has a    *)
(* module, and in every set of modules one requires nothing of the set.    *)
Sound ==
  /\ \A r \in required : r[2] \in Registered
  /\ \A S \in (SUBSET Registered) \ {{}} :
       \E m \in S : \A n \in S : <<m, n>> \notin required

(* setup() fails exactly on the applications that are not sound, after any *)
(* order of construction and of requirements, and otherwise it has filled  *)
(* in every pointer before the first init function runs.                   *)
FailsOnlyIfUnsound ==
  /\ phase = "failed" => ~Sound
  /\ phase \in {"init", "start", "update"} => Sound /\ targets = required

(* The search keeps its books: a module is on the stack exactly while its  *)
(* flag is set, and is sorted at most once and after what it requires.     *)
SearchInv ==
  phase = "sort" =>
    /\ visiting = { stack[i].module : i \in DOMAIN stack }
    /\ visiting \cap ToSet(sorted) = {}
    /\ \A i, j \in DOMAIN sorted : sorted[i] = sorted[j] => i = j
    /\ \A i \in DOMAIN sorted : \A r \in required :
         r[1] = sorted[i] => \E j \in 1 .. i - 1 : sorted[j] = r[2]

(* setup() always ends, with the modules running or with an error.         *)
SetupEnds == <>(phase \in {"update", "failed"})
=============================================================================
