---------------------------- MODULE WifiManager ----------------------------
(***************************************************************************)
(* og3::WifiManager on the ESP32.  The WiFi driver reports what happens to *)
(* the link as events; the event handler only queues onConnect() or        *)
(* onDisconnect() for the main loop, under the one task id that retries    *)
(* use too, so each replaces what was waiting.  The driver (external) and  *)
(* the main loop interleave.  Times are kept as ages, to the bounds the    *)
(* code compares them with: 30 seconds for a connection attempt, an hour   *)
(* for a disconnection.  The entries of other modules in the task queue    *)
(* are not modelled: a runIn() of a kind in Refusable may find it full.    *)
(***************************************************************************)
EXTENDS Integers, Sequences

CONSTANTS HaveEssid,         \* an ESSID is configured
          AutoReconnect,     \* the driver itself rejoins a network it lost
          Refusable,         \* bound: the kinds of runIn() that may be refused,
                             \* of an event, of another task or of a sanityCheck()
          MaxEvents          \* bound: events the driver is ahead of the handler

ASSUME WifiAssumption == /\ HaveEssid \in BOOLEAN /\ AutoReconnect \in BOOLEAN
                         /\ Refusable \subseteq {"event", "task", "check"}
                         /\ MaxEvents \in Nat \ {0}

VARIABLES started,       \* the start function ran
          apMode,        \* m_ap_mode
          apUp,          \* the soft AP and its DNS server run
          wasConnected,  \* m_was_connected
          startAge,      \* age of m_start_connect_msec, "zero" when it is 0
          lostAge,       \* age of m_disconnect_msec, "zero" when it is 0
          retryDelay,    \* m_retry_delay_ms, in seconds
          pending,       \* the thunk queued under the id of m_scheduler
          sanityQueued,  \* sanityCheck() is queued, under that of m_sanity_scheduler
          newsLost,      \* the last event handled found the queue full (history)
          checkLost,     \* a sanityCheck() found the queue full (history)
          link,          \* external: the station's link
          outcome,       \* external: WiFi.status() while the link is not up
          events         \* external: reported by the driver, not yet handled

driver == <<link, outcome, events>>
ages == <<startAge, lostAge>>
entries == <<pending, sanityQueued, newsLost, checkLost>>
vars == <<started, apMode, apUp, wasConnected, ages, retryDelay, entries, driver>>

InitialRetryDelay == 5
MaxRetryDelay == 60
BackoffMultiplier == 2

TypeInv ==
  /\ {started, apMode, apUp, wasConnected} \subseteq BOOLEAN
  /\ {sanityQueued, newsLost, checkLost} \subseteq BOOLEAN
  /\ startAge \in {"zero", "now", "recent", "old"}
  /\ lostAge \in {"zero", "recent", "old"}
  /\ retryDelay \in {InitialRetryDelay, InitialRetryDelay * BackoffMultiplier}
  /\ pending \in {"none", "onConnect", "onDisconnect", "trySetup"}
  /\ link \in {"off", "down", "joining", "up"}
  /\ outcome \in {"idle", "failed"}
  /\ events \in Seq({"DISCONNECTED", "GOT_IP"}) /\ Len(events) <= MaxEvents + 1

Init ==
  /\ started = FALSE /\ apMode = FALSE /\ apUp = FALSE /\ wasConnected = FALSE
  /\ startAge = "zero" /\ lostAge = "zero"
  /\ retryDelay = InitialRetryDelay /\ pending = "none"
  /\ \/ sanityQueued = TRUE /\ checkLost = FALSE       \* the constructor's runIn()
     \/ "check" \in Refusable /\ sanityQueued = FALSE /\ checkLost = TRUE
  /\ newsLost = FALSE
  /\ link = "off" /\ outcome = "idle" /\ events = <<>>

Status == IF link = "up" THEN "connected" ELSE outcome
-----------------------------------------------------------------------------
(* What the calls into the driver do (external).  A link that is lost is   *)
(* reported; one that was still joining is only if it had associated.      *)
Reported ==
  \/ link \in {"up", "joining"} /\ events' = Append(events, "DISCONNECTED")
  \/ link # "up" /\ UNCHANGED events

Disconnect ==
  /\ link' = IF link = "off" THEN "off" ELSE "down"
  /\ outcome' = IF link \in {"up", "joining"} THEN "idle" ELSE outcome
  /\ Reported

ModeAp == link' = "off" /\ outcome' = "idle" /\ Reported

ModeStaBegin == link' = "joining" /\ UNCHANGED <<outcome, events>>
-----------------------------------------------------------------------------
(* The member functions.  `kept' is what stays queued under m_scheduler if *)
(* the function schedules nothing itself, or if the queue is full: insert()*)
(* refuses before it looks at the id.                                      *)
RunInOrFull(thunk, kept) ==
  \/ pending' = thunk
  \/ "task" \in Refusable /\ pending' = kept

StartAp(kept) ==
  /\ ModeAp
  /\ apMode' = TRUE
  /\ \/ apUp' = TRUE /\ RunInOrFull("onConnect", kept) /\ startAge' = "now"
     \/ apUp' = FALSE /\ pending' = kept /\ UNCHANGED startAge    \* softAP() failed
  /\ UNCHANGED <<wasConnected, lostAge, retryDelay>>

StartClient(kept) ==
  IF ~HaveEssid THEN StartAp(kept)
  ELSE /\ apMode' = FALSE /\ apUp' = FALSE
       /\ startAge' = "now"
       /\ ModeStaBegin
       /\ pending' = kept
       /\ UNCHANGED <<wasConnected, lostAge, retryDelay>>

NothingElse == UNCHANGED <<apMode, apUp, wasConnected, ages, retryDelay, driver>>

TrySetup(kept) ==
  \/ startAge = "recent" /\ RunInOrFull("trySetup", kept) /\ NothingElse
  \/ startAge # "recent" /\ Status = "connected" /\ pending' = kept /\ NothingElse
  \/ startAge # "recent" /\ Status = "idle" /\ StartClient(kept)
  \/ startAge # "recent" /\ Status = "failed" /\ StartAp(kept)

(* Fault: the back-off is not reset.                                       *)
OnConnectNoReset ==
  /\ startAge' = "zero" /\ lostAge' = "zero"
  /\ wasConnected' = TRUE /\ pending' = "none"
  /\ UNCHANGED <<retryDelay, apMode, apUp, driver>>

OnConnect ==
  /\ startAge' = "zero" /\ lostAge' = "zero"
  /\ retryDelay' = InitialRetryDelay
  /\ wasConnected' = TRUE
  /\ pending' = "none"
  /\ UNCHANGED <<apMode, apUp, driver>>

OnDisconnect ==
  /\ IF wasConnected
     THEN /\ Disconnect
          /\ RunInOrFull("trySetup", "none")
          /\ retryDelay' = IF retryDelay * BackoffMultiplier > MaxRetryDelay
                           THEN MaxRetryDelay ELSE retryDelay * BackoffMultiplier
          /\ lostAge' = "recent"
     ELSE pending' = "none" /\ UNCHANGED <<driver, retryDelay, lostAge>>
  /\ wasConnected' = FALSE
  /\ UNCHANGED <<apMode, apUp, startAge>>
-----------------------------------------------------------------------------
Start ==
  ~started /\ started' = TRUE /\ TrySetup(pending) /\ UNCHANGED <<sanityQueued, newsLost, checkLost>>

(* The main loop runs what is queued under m_scheduler.  That a retry may  *)
(* be early here changes nothing: it is queued again until the attempt     *)
(* under way is old.                                                       *)
RunPending ==
  /\ UNCHANGED <<started, sanityQueued, newsLost, checkLost>>
  /\ \/ pending = "onConnect" /\ OnConnect
     \/ pending = "onDisconnect" /\ OnDisconnect
     \/ pending = "trySetup" /\ TrySetup("none")

Reschedule ==
  \/ sanityQueued' = TRUE /\ UNCHANGED checkLost
  \/ "check" \in Refusable /\ sanityQueued' = FALSE /\ checkLost' = TRUE

CheckLink ==
  IF ~apMode /\ Status # "connected" /\ lostAge = "old"
  THEN TrySetup(pending) ELSE UNCHANGED pending /\ NothingElse

(* Fault: a check that finds nothing to do does not queue the next.        *)
SanityCheckOnce ==
  /\ started /\ sanityQueued /\ UNCHANGED <<started, newsLost>>
  /\ CheckLink
  /\ IF ~apMode /\ Status # "connected" /\ lostAge = "old"
     THEN Reschedule ELSE sanityQueued' = FALSE /\ UNCHANGED checkLost

(* It queues itself again, whether it acted or not; if the task queue is   *)
(* full, it was the last.                                                  *)
SanityCheck ==
  /\ started /\ sanityQueued /\ UNCHANGED <<started, newsLost>>
  /\ CheckLink
  /\ Reschedule

News == IF Head(events) = "GOT_IP" THEN "onConnect" ELSE "onDisconnect"

(* Fault: an event does not replace what is queued.                        *)
OnWifiEventKept ==
  /\ events # <<>> /\ events' = Tail(events)
  /\ \/ pending' = (IF pending # "none" THEN pending ELSE News) /\ newsLost' = FALSE
     \/ "event" \in Refusable /\ UNCHANGED pending /\ newsLost' = TRUE
  /\ UNCHANGED <<started, apMode, apUp, wasConnected, ages, retryDelay, link, outcome>>
  /\ UNCHANGED <<sanityQueued, checkLost>>

(* onWifiEvent(), in the task of the driver's events: nothing tells again  *)
(* what a full queue refused.                                              *)
OnWifiEvent ==
  /\ events # <<>> /\ events' = Tail(events)
  /\ \/ pending' = News /\ newsLost' = FALSE
     \/ "event" \in Refusable /\ UNCHANGED pending /\ newsLost' = TRUE
  /\ UNCHANGED <<started, apMode, apUp, wasConnected, ages, retryDelay, link, outcome>>
  /\ UNCHANGED <<sanityQueued, checkLost>>

Later == [now |-> "recent", recent |-> "old"]

HalfMinute ==
  /\ startAge \in DOMAIN Later /\ startAge' = Later[startAge]
  /\ UNCHANGED <<started, apMode, apUp, wasConnected, lostAge, retryDelay, entries, driver>>

Hour ==
  /\ lostAge = "recent" /\ lostAge' = "old"
  /\ startAge' = IF startAge = "zero" THEN "zero" ELSE "old"
  /\ UNCHANGED <<started, apMode, apUp, wasConnected, retryDelay, entries, driver>>

(* The driver and the network (external).                                  *)
Env(newLink, newOutcome, event) ==
  /\ Len(events) < MaxEvents
  /\ link' = newLink /\ outcome' = newOutcome /\ events' = Append(events, event)
  /\ UNCHANGED <<started, apMode, apUp, wasConnected, ages, retryDelay, entries>>

Given == IF AutoReconnect THEN "joining" ELSE "down"

JoinSucceeds == link = "joining" /\ Env("up", outcome, "GOT_IP")
JoinFails == link = "joining" /\ \E o \in {"idle", "failed"} : Env(Given, o, "DISCONNECTED")
LinkLost == link = "up" /\ Env(Given, "idle", "DISCONNECTED")

Next == \/ Start \/ RunPending \/ SanityCheck \/ OnWifiEvent \/ HalfMinute \/ Hour
        \/ JoinSucceeds \/ JoinFails \/ LinkLost

(* No refusal is ever forced: a check is fair only where it queues itself  *)
(* again.                                                                  *)
Fairness == /\ WF_vars(Start) /\ WF_vars(RunPending)
            /\ WF_vars(SanityCheck /\ sanityQueued')
            /\ WF_vars(OnWifiEvent) /\ WF_vars(HalfMinute) /\ WF_vars(Hour)
            /\ WF_vars(JoinSucceeds \/ JoinFails)

Spec == Init /\ [][Next]_vars /\ Fairness
-----------------------------------------------------------------------------
(* m_was_connected decides whether the next DISCONNECTED is acted upon     *)
(* (onDisconnect()).  Once every event is handled it is set in a client    *)
(* just if the link is up, whatever came in between and whatever the task  *)
(* queue refused before: excused is only that it refused the last event.   *)
(* This is the flag as the code keeps it.  Its accessor wasConnected() is  *)
(* documented as "true if at least one successful connection was made this *)
(* boot" (wifi_manager.h:83), which is not so once the link was lost.      *)
ViewMatchesLink ==
  started /\ ~apMode /\ pending = "none" /\ events = <<>> /\ ~newsLost
    => (wasConnected <=> link = "up")

(* A client that lost its connection always comes to try again: by its     *)
(* retry or, if the task queue refused that, through the hourly            *)
(* sanityCheck().  Excused are only an event that the queue refused, as    *)
(* the loss itself may have gone unseen, and a sanityCheck() that it       *)
(* refused, which never comes back.                                        *)
RecoversByItself ==
  (lostAge # "zero" /\ ~apMode /\ link = "down")
    ~> (link # "down" \/ apMode \/ newsLost \/ checkLost)

(* Class comment of WifiManager: "If no ESSID is set or the connection     *)
(* fails, it starts a captive portal Soft AP."                             *)
FallsBackToAp == (started /\ link # "up") ~> (link = "up" \/ apMode)
=============================================================================
