------------------------------- MODULE Tasks -------------------------------
(***************************************************************************)
(* og3::Tasks on one core: the main loop alternates between the modules'   *)
(* update functions (phase "idle" here) and Tasks::loop(), which runs what *)
(* is due at the time it started; an interrupt handler may leave one thunk *)
(* for the loop in the static slot s_run_next at any point in between.     *)
(* The steps are the stretches of code that run with interrupts disabled.  *)
(***************************************************************************)
EXTENDS TimedThunks

CONSTANTS IsrThunks,           \* the thunks that interrupt handlers pass to run_next()
          MaxEdges,            \* bound: interrupts that ever arrive
          MaxOneShots,         \* bound: entries without an id queued at once
          None                 \* an empty slot, a null Thunk

ASSUME BoundsAssumption == MaxEdges \in Nat /\ MaxOneShots \in Nat

(* What is run is either an entry of the queue, or an interrupt's thunk,   *)
(* or nothing.                                                             *)
ASSUME SlotAssumption ==
  None \notin TimedThunk /\ \A thunk \in IsrThunks : thunk # None /\ thunk \notin TimedThunk

VARIABLES queue,     \* m_queue
          now,       \* millis()
          runNext,   \* s_run_next
          phase,     \* where the main loop is: "idle", "loop" or "thunk"
          loopNow,   \* the clock value loop() read when it was called
          running,   \* the entry or interrupt thunk being run, else None
          latest,    \* for each id, the entry last requested and not yet run (history)
          edges      \* interrupts so far (history, bounded by MaxEdges)
vars == <<queue, now, runNext, phase, loopNow, running, latest, edges>>

Init ==
  /\ queue = <<>> /\ now = 0 /\ loopNow = 0
  /\ runNext = None /\ phase = "idle" /\ running = None
  /\ latest = [id \in Ids |-> None] /\ edges = 0

(* Time passes at any point of the program, but no queued entry gets more  *)
(* than Lateness late, and no call of loop() lasts longer than that: a     *)
(* delay of half the clock's range, 24 days, is out of the question.       *)
Tick ==
  /\ phase # "idle" => Minus(now, loopNow) < Lateness
  /\ \A i \in DOMAIN queue : Age(now, queue[i].msec) > 0
  /\ now' = Plus(now, 1)
  /\ UNCHANGED <<queue, runNext, phase, loopNow, running, latest, edges>>

(* Tasks::run_next() called by an interrupt handler.                       *)
Interrupt(thunk) ==
  /\ edges < MaxEdges
  /\ edges' = edges + 1
  /\ runNext' = thunk
  /\ UNCHANGED <<queue, now, phase, loopNow, running, latest>>

OneShots == Cardinality({ i \in DOMAIN queue : queue[i].id = NoId })

(* runIn(delay, thunk, id), called by the running thunk or by an update    *)
(* function; a refused entry is only logged.                               *)
RunIn(delay, thunk, id) ==
  LET e == [msec |-> Plus(now, delay), thunk |-> thunk, id |-> id]
  IN  /\ phase \in {"idle", "thunk"}
      /\ id = NoId => OneShots < MaxOneShots
      /\ queue' = Inserted(queue, e)
      /\ latest' = IF id = NoId THEN latest ELSE [latest EXCEPT ![id] = e]
      /\ UNCHANGED <<now, runNext, phase, loopNow, running, edges>>

EnterLoop ==
  /\ phase = "idle"
  /\ phase' = "loop" /\ loopNow' = now
  /\ UNCHANGED <<queue, now, runNext, running, latest, edges>>

(* Faults: a plain comparison of the times, and a clock read anew each     *)
(* time.                                                                   *)
HeadDueUnwrapped == queue # <<>> /\ queue[1].msec <= loopNow
HeadDueByNow == queue # <<>> /\ IsBefore(queue[1].msec, now)

(* getThunk(): the interrupt's thunk first, then the head if it was due    *)
(* when the loop started, then the loop returns.                           *)
HeadDue == queue # <<>> /\ IsBefore(queue[1].msec, loopNow)

(* Faults: the slot is not cleared, or cleared before it is read.          *)
InterruptThunkKept ==
  /\ phase = "loop" /\ runNext # None
  /\ running' = runNext /\ phase' = "thunk"
  /\ UNCHANGED <<queue, now, runNext, loopNow, latest, edges>>

InterruptThunkCleared ==
  /\ phase = "loop" /\ runNext # None
  /\ runNext' = None /\ running' = None /\ phase' = "thunk"
  /\ UNCHANGED <<queue, now, loopNow, latest, edges>>

TakeInterruptThunk ==
  /\ phase = "loop" /\ runNext # None
  /\ running' = runNext /\ runNext' = None /\ phase' = "thunk"
  /\ UNCHANGED <<queue, now, loopNow, latest, edges>>

TakeQueued ==
  /\ phase = "loop" /\ runNext = None /\ HeadDue
  /\ running' = queue[1] /\ queue' = Tail(queue) /\ phase' = "thunk"
  /\ latest' = [id \in Ids |-> IF id = queue[1].id THEN None ELSE latest[id]]
  /\ UNCHANGED <<now, runNext, loopNow, edges>>

LeaveLoop ==
  /\ phase = "loop" /\ runNext = None /\ ~HeadDue
  /\ phase' = "idle"
  /\ UNCHANGED <<queue, now, runNext, loopNow, running, latest, edges>>

GetThunk == TakeInterruptThunk \/ TakeQueued \/ LeaveLoop

ThunkReturns ==
  /\ phase = "thunk"
  /\ phase' = "loop" /\ running' = None
  /\ UNCHANGED <<queue, now, runNext, loopNow, latest, edges>>

Next ==
  \/ Tick
  \/ \E thunk \in IsrThunks : Interrupt(thunk)
  \/ \E delay \in 0 .. Horizon, thunk \in Thunks, id \in Ids \cup {NoId} :
       RunIn(delay, thunk, id)
  \/ EnterLoop
  \/ GetThunk
  \/ ThunkReturns

(* Arduino calls loop() again and again, thunks return, and time passes.   *)
Fairness == WF_vars(Tick) /\ WF_vars(EnterLoop) /\ WF_vars(GetThunk) /\ WF_vars(ThunkReturns)

Spec == Init /\ [][Next]_vars /\ Fairness
-----------------------------------------------------------------------------
(* A queued callback runs only once its time has come, and in time order:  *)
(* what getThunk() takes was due, and nothing it leaves queued is due      *)
(* strictly before it, also when the clock wrapped since loop() read it.   *)
RunsInTimeOrder ==
  [][ running = None /\ running' \in TimedThunk =>
        /\ Age(now, running'.msec) <= Lateness
        /\ \A i \in DOMAIN queue' : Age(now, running'.msec) <= Age(now, queue'[i].msec) ]_vars

(* What is queued under an id is what its owner asked for last (the class  *)
(* comment of TaskIdScheduler: later calls replace the scheduled task).    *)
(* It holds while one node stays free for the entry that replaces another, *)
(* because insert() looks at full() before it looks at the id.             *)
RequestsHonoured ==
  \A id \in Ids :
    LET queued == { queue[i] : i \in { j \in DOMAIN queue : queue[j].id = id } }
    IN  queued = IF latest[id] = None THEN {} ELSE {latest[id]}

(* What an interrupt handler hands over is run, or replaced by what a      *)
(* later interrupt hands over and that is run: no edge leaves the slot     *)
(* occupied for good, whatever is due in the queue.                        *)
InterruptServed == runNext # None ~> running \in IsrThunks

(* Tasks::loop() returns, although thunks may reschedule themselves with   *)
(* no delay: what is due is decided by the clock at entry.                 *)
LoopReturns == phase # "idle" ~> phase = "idle"

(* A one-shot callback that is queued is run, whatever is queued around it *)
(* in the meantime.                                                        *)
Queued(thunk) == \E i \in DOMAIN queue : queue[i].thunk = thunk /\ queue[i].id = NoId
Runs(thunk) == running \in TimedThunk /\ running.thunk = thunk /\ running.id = NoId
OneShotsRun == \A thunk \in Thunks : Queued(thunk) ~> Runs(thunk)
=============================================================================
