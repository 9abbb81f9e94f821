---------------------------- MODULE PeriodicTask ----------------------------
(***************************************************************************)
(* og3::PeriodicTaskScheduler: one periodic callback among one-shot tasks  *)
(* of other modules in the shared queue of Tasks.  The callback itself may *)
(* take time, queue tasks and move its own schedule before cycle() queues  *)
(* the next run.                                                           *)
(***************************************************************************)
EXTENDS TimedThunks

CONSTANTS InitialDelay,       \* msec_initial of the constructor
          Period,             \* m_period_msec, 0 for a task that is not repeated
          Id,                 \* the id of m_scheduler
          MaxOneShots,        \* bound: one-shot tasks queued at once
          MaxMoves            \* bound: calls of runIn(), unbounded ones may postpone for ever

ASSUME PeriodicAssumption ==
  /\ InitialDelay \in 0 .. Horizon /\ Period \in 0 .. Horizon
  /\ Id \in Ids /\ {"cycle", "other"} \subseteq Thunks
  /\ MaxOneShots \in Nat /\ MaxMoves \in Nat

VARIABLES queue,     \* the TaskQueue of Tasks
          now,       \* millis()
          prevMsec,  \* m_prev_msec
          state,     \* "new" before setTasks(), then "waiting", or "running" inside cycle()
          cycleMsec, \* the time the last run was queued for (history)
          moves      \* calls of runIn() so far (bounded by MaxMoves)
vars == <<queue, now, prevMsec, state, cycleMsec, moves>>

Init ==
  /\ queue = <<>> /\ now = 0 /\ prevMsec = 0 /\ cycleMsec = 0
  /\ state = "new" /\ moves = 0

(* Time passes; an entry is taken, and a run of the callback is over, at   *)
(* most Lateness ms after the time it was queued for.                      *)
Tick ==
  /\ state = "running" => Minus(now, cycleMsec) < Lateness
  /\ \A i \in DOMAIN queue : Age(now, queue[i].msec) > 0
  /\ now' = Plus(now, 1)
  /\ UNCHANGED <<queue, prevMsec, state, cycleMsec, moves>>

(* Fault: the run is queued without the id.                                *)
CycleNoId(msec) == [msec |-> msec, thunk |-> "cycle", id |-> NoId]

Cycle(msec) == [msec |-> msec, thunk |-> "cycle", id |-> Id]

(* start(): the next run at now + delay; the grid of the runs after it is  *)
(* anchored at the time of the call.                                       *)
Start(delay) ==
  /\ prevMsec' = now
  /\ queue' = Inserted(queue, Cycle(Plus(now, delay)))

(* setTasks(), or the constructor when it is given the Tasks module.       *)
SetTasks ==
  /\ state = "new" /\ state' = "waiting"
  /\ Start(InitialDelay)
  /\ UNCHANGED <<now, cycleMsec, moves>>

(* runIn(), from another module or from the callback itself.               *)
Move(delay) ==
  /\ state # "new" /\ moves < MaxMoves /\ moves' = moves + 1
  /\ Start(delay)
  /\ UNCHANGED <<now, state, cycleMsec>>

OneShots == Cardinality({ i \in DOMAIN queue : queue[i].thunk = "other" })

OneShot(delay) ==
  /\ OneShots < MaxOneShots
  /\ queue' = Inserted(queue, [msec |-> Plus(now, delay), thunk |-> "other", id |-> NoId])
  /\ UNCHANGED <<now, prevMsec, state, cycleMsec, moves>>

HeadDue(thunk) == queue # <<>> /\ queue[1].thunk = thunk /\ IsBefore(queue[1].msec, now)

OneShotRuns ==
  /\ state # "running" /\ HeadDue("other")
  /\ queue' = Tail(queue)
  /\ UNCHANGED <<now, prevMsec, state, cycleMsec, moves>>

(* cycle() is called and runs the callback ...                             *)
CycleStarts ==
  /\ state = "waiting" /\ HeadDue("cycle")
  /\ queue' = Tail(queue) /\ cycleMsec' = queue[1].msec
  /\ state' = "running"
  /\ UNCHANGED <<now, prevMsec, moves>>

(* Fault: one period is added, however late the run was.                   *)
NextMsecOnce == (prevMsec + Period) % Modulus

(* ... and then queues the first multiple of the period that isBefore()    *)
(* does not put before the present, unless the period is zero.             *)
NextMsec ==
  LET multiple(k) == (prevMsec + k * Period) % Modulus
      passed == { k \in 1 .. HalfRange : IsBefore(multiple(k), now) }
  IN  multiple(Min((1 .. HalfRange) \ passed))

(* Fault: a late run is not queued again.                                  *)
CycleEndsIfLate ==
  /\ state = "running" /\ state' = "waiting"
  /\ IF now # cycleMsec THEN UNCHANGED <<queue, prevMsec>>
     ELSE queue' = Inserted(queue, Cycle(NextMsec)) /\ prevMsec' = NextMsec
  /\ UNCHANGED <<now, cycleMsec, moves>>

CycleEnds ==
  /\ state = "running" /\ state' = "waiting"
  /\ IF Period = 0 THEN UNCHANGED <<queue, prevMsec>>
     ELSE queue' = Inserted(queue, Cycle(NextMsec)) /\ prevMsec' = NextMsec
  /\ UNCHANGED <<now, cycleMsec, moves>>

Next ==
  \/ Tick
  \/ SetTasks
  \/ \E delay \in 0 .. Horizon : Move(delay) \/ OneShot(delay)
  \/ OneShotRuns
  \/ CycleStarts
  \/ CycleEnds

(* Time passes, and the main loop keeps running what is due.               *)
Fairness == /\ WF_vars(Tick) /\ WF_vars(SetTasks)
            /\ WF_vars(OneShotRuns \/ CycleStarts) /\ WF_vars(CycleEnds)

Spec == Init /\ [][Next]_vars /\ Fairness
-----------------------------------------------------------------------------
CycleEntries == { i \in DOMAIN queue : queue[i].thunk = "cycle" }

(* While the scheduler waits, exactly one run of it is queued: no call of  *)
(* runIn(), from inside or outside the callback, doubles the chain or cuts *)
(* it.  It needs a queue with room for the one-shot tasks and this one.    *)
OneRunQueued == state = "waiting" => Cardinality(CycleEntries) = 1

(* After a run, however late it was and however long it took, the next one *)
(* is in the future and at most a period away: runs that were missed are   *)
(* skipped, not made up for.                                               *)
NextRunWithinPeriod ==
  [][ state = "running" /\ state' = "waiting" =>
        \A i \in DOMAIN queue' :
          queue'[i].thunk = "cycle" => Minus(queue'[i].msec, now) \in 1 .. Period ]_vars

(* The callback runs again and again.                                      *)
RunsForEver == []<>(state = "running")
=============================================================================
