------------------------------ MODULE Watchdog ------------------------------
(***************************************************************************)
(* og3::WifiWatchdog on the task watchdog timer of the ESP32 (external):   *)
(* the main loop feeds it with a callback that queues itself again, and    *)
(* OtaManager has it switched off while an update blocks the loop.         *)
(***************************************************************************)
EXTENDS Integers

CONSTANTS Timeout,        \* timeout, the longest time without feeding
          Update,         \* m_update
          LoopTime        \* assumption: a loop that is not stuck gets to a callback
                          \*   at most this long after its time

ASSUME WatchdogAssumption ==
  /\ Update \in Nat \ {0} /\ LoopTime \in Nat
  /\ Timeout \in Nat /\ Update + LoopTime < Timeout

VARIABLES watched,        \* external: the loop's task is on the list of the timer
          unfed,          \* external: time since it was fed or put on the list
          updateIn,       \* time until the queued update(), -1 if there is none
          late,           \* for how long it could have run
          pass,           \* what the main loop is doing; "start" before the start function
          disabled,       \* the program called disable() last (history)
          lost            \* update() found the queue full (history)

watchdogVars == <<watched, unfed, updateIn, late, pass, disabled, lost>>

(* The init function puts the loop's task on the list; the pass of the     *)
(* loop goes to the start functions.                                       *)
Booted ==
  /\ watched' = TRUE /\ unfed' = 0 /\ updateIn' = 0 /\ late' = 0 /\ pass' = "start"
  /\ disabled' = FALSE /\ lost' = FALSE

WatchdogInit ==
  /\ watched = TRUE /\ unfed = 0 /\ updateIn = 0 /\ late = 0 /\ pass = "start"
  /\ disabled = FALSE /\ lost = FALSE

(* update(), called by the start function, which may find the queue full,  *)
(* and then from the queue, where its own entry leaves room for the next.  *)
UpdateWatchdog ==
  /\ pass \in {"start", "loop"} /\ updateIn = 0
  /\ unfed' = 0 /\ late' = 0 /\ pass' = "loop"
  /\ \/ updateIn' = Update /\ UNCHANGED lost
     \/ pass = "start" /\ updateIn' = -1 /\ lost' = TRUE
  /\ UNCHANGED <<watched, disabled>>

(* esp_task_wdt_add() starts the time anew, of a task that was not on the  *)
(* list (external).                                                        *)
Enable == watched' = TRUE /\ unfed' = IF watched THEN unfed ELSE 0
Disable == watched' = FALSE /\ UNCHANGED unfed

EnableByProgram ==
  /\ pass = "loop" /\ Enable /\ disabled' = FALSE
  /\ UNCHANGED <<updateIn, late, pass, lost>>

DisableByProgram ==
  /\ pass = "loop" /\ Disable /\ disabled' = TRUE
  /\ UNCHANGED <<updateIn, late, pass, lost>>

(* The callbacks of OtaManager.  An update blocks the loop in              *)
(* ArduinoOTA.handle(); it fails before it started, or later, or ends with *)
(* a restart.                                                              *)
OtaStarts ==
  /\ pass = "loop" /\ pass' = "ota" /\ Disable
  /\ UNCHANGED <<updateIn, late, disabled, lost>>

(* Fault: the error callback was not registered.                           *)
OtaFailsUntold ==
  /\ pass \in {"loop", "ota"} /\ pass' = "loop"
  /\ late' = IF pass = "ota" THEN 0 ELSE late
  /\ UNCHANGED <<watched, unfed, updateIn, disabled, lost>>

OtaFails ==
  /\ pass \in {"loop", "ota"} /\ pass' = "loop" /\ Enable
  /\ late' = IF pass = "ota" THEN 0 ELSE late
  /\ UNCHANGED <<updateIn, disabled, lost>>

OtaEnds ==
  /\ pass = "ota" /\ pass' = "restart" /\ Enable
  /\ UNCHANGED <<updateIn, late, disabled, lost>>

Restarts == pass = "restart" /\ Booted

(* The program gets stuck.                                                 *)
Hangs ==
  /\ pass \in {"start", "loop"} /\ pass' = "stuck"
  /\ UNCHANGED <<watched, unfed, updateIn, late, disabled, lost>>

(* Time passes; the restart after an update comes within LoopTime.         *)
TimePasses ==
  /\ watched => unfed < Timeout
  /\ pass \in {"start", "loop"} /\ updateIn = 0 => late < LoopTime
  /\ pass = "restart" => unfed < LoopTime
  /\ unfed' = IF watched THEN unfed + 1 ELSE unfed
  /\ updateIn' = IF updateIn > 0 THEN updateIn - 1 ELSE updateIn
  /\ late' = IF pass \in {"start", "loop"} /\ updateIn = 0 THEN late + 1 ELSE late
  /\ UNCHANGED <<watched, pass, disabled, lost>>

(* The timer resets the device.                                            *)
Bites == watched /\ unfed = Timeout /\ Booted

WatchdogNext ==
  \/ UpdateWatchdog
  \/ EnableByProgram \/ DisableByProgram
  \/ OtaStarts \/ OtaFails \/ OtaEnds \/ Restarts
  \/ Hangs \/ TimePasses \/ Bites

WatchdogSpec == WatchdogInit /\ [][WatchdogNext]_watchdogVars
-----------------------------------------------------------------------------
(* The device is reset only if the loop is stuck or the task queue refused *)
(* update(), however long an update over the air took and wherever it      *)
(* failed; and a loop that gets stuck is watched, unless the program       *)
(* switched the watchdog off (update(), the callbacks of WifiWatchdog).    *)
BitesOnlyStuck ==
  /\ watched /\ unfed = Timeout => pass = "stuck" \/ lost
  /\ pass \in {"start", "loop", "stuck"} /\ ~disabled => watched
=============================================================================
