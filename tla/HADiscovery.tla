---------------------------- MODULE HADiscovery ----------------------------
(***************************************************************************)
(* og3::HADiscovery: the discovery callbacks of the modules, each of which *)
(* publishes one entry and, if the entry has a command, subscribes to it.  *)
(* They run in order, MaxSends at most in one go; the index of the next    *)
(* one outlives the connection.                                            *)
(***************************************************************************)
EXTENDS MqttManager

CONSTANTS Entries,     \* number of registered discovery callbacks
          Commands,    \* the entries that have a command and a callback for it
          MaxSends,    \* kMaxSends
          MaxListeners \* bound: entries of m_mqtt_callbacks counted for one command

ASSUME DiscoveryAssumption ==
  /\ Entries \in Nat /\ MaxSends \in Nat \ {0} /\ MaxListeners \in Nat \ {0}
  /\ Commands \subseteq 0 .. Entries - 1

VARIABLES next,        \* m_idx_mqtt_connect_next_discovery_calback
          begun,       \* onMqttConnect() ran since the start (history)
          listeners    \* for each command, its entries of m_mqtt_callbacks

discoveryVars == <<next, begun, listeners>>

DiscoveryTypeInv ==
  /\ next \in 0 .. Entries /\ begun \in BOOLEAN
  /\ listeners \in [Commands -> 0 .. MaxListeners]

DiscoveryInit ==
  next = 0 /\ begun = FALSE /\ listeners = [c \in Commands |-> 0]
-----------------------------------------------------------------------------
(* addEntry() subscribes before it publishes, each time it is called for   *)
(* the entry; subscribe() appends to the callbacks and never looks for the *)
(* topic among them.                                                       *)
Subscribed(tried) ==
  [c \in Commands |-> IF c \in tried /\ listeners[c] < MaxListeners
                      THEN listeners[c] + 1 ELSE listeners[c]]

Smaller(a, b) == IF a < b THEN a ELSE b

(* What a run of onMqttConnect() can do: send the next MaxSends entries,   *)
(* or fail at entry e.  Publishing fails when the client is not connected, *)
(* and may fail when it is.                                                *)
Outcomes(up) ==
  LET end == Smaller(next + MaxSends, Entries)
  IN  { [next |-> end, tried |-> next .. end - 1, again |-> end < Entries] :
          x \in IF up \/ next = Entries THEN {0} ELSE {} }
      \cup { [next |-> e, tried |-> next .. e, again |-> TRUE] :
               e \in IF up THEN next .. end - 1 ELSE {next} \ {Entries} }

Takes(o) ==
  /\ next' = o.next
  /\ begun' = TRUE /\ listeners' = Subscribed(o.tried)

(* Fault: only a failure is tried again, not a pause.                      *)
TryAgainAfterFailure(o) ==
  IF o.again /\ o.next \in o.tried THEN RunIn("discovery") ELSE UNCHANGED tasksVars

(* tryAgain(): run again in 100 ms, without an id.                         *)
TryAgain(o) == IF o.again THEN RunIn("discovery") ELSE UNCHANGED tasksVars

(* The connection callback that HADiscovery gave MqttManager.              *)
DiscoverOnConnect ==
  OnMqttConnect /\ \E o \in Outcomes(TRUE) : Takes(o) /\ TryAgain(o)

(* A run that was queued, connected or not.  Its entry left the queue, so  *)
(* there is room for the next.                                             *)
RunDiscovery ==
  /\ timers["discovery"] > 0 /\ UNCHANGED <<refused, mqttVars>>
  /\ \E o \in Outcomes(client = "up") :
       /\ Takes(o)
       /\ timers' = IF o.again THEN timers ELSE Ran("discovery")
=============================================================================
