---------------------------- MODULE MqttManager ----------------------------
(***************************************************************************)
(* og3::MqttManager, driven by the callbacks of WifiManager, with the MQTT *)
(* client and the broker (external).  The client's handlers are one step   *)
(* each: they do not interrupt the code of the main loop, as on the        *)
(* ESP8266.  timers is an untimed view of the entries that MQTT and        *)
(* discovery have in Tasks: an entry runs at some time after it was queued.*)
(***************************************************************************)
EXTENDS WifiManager

CONSTANT Room            \* entries of the task queue left to these modules

ASSUME MqttAssumption == Room \in Nat \ {0}

VARIABLES mqttEnabled,   \* m_enabled, and a host and a user are set
          timers,        \* queued entries of each kind
          refused,       \* an entry found the queue full (history)
          client,        \* external: connection state of m_mqttClient
          session,       \* external: the session as the broker knows it
          birth,         \* external: an "online" message is under way
          retained       \* external: what the broker holds on the will topic

broker == <<session, birth, retained>>
mqttVars == <<mqttEnabled, client, broker>>
tasksVars == <<timers, refused>>

Kinds == {"reconnect", "discovery"}
WithId == {"reconnect"}       \* m_connect_scheduler has a task id, the others none

MqttTypeInv ==
  /\ {mqttEnabled, refused, birth} \subseteq BOOLEAN
  /\ timers \in [Kinds -> 0 .. Room] /\ timers["reconnect"] <= 1
  /\ client \in {"off", "connecting", "up"}
  /\ session \in {"none", "live", "dead"}       \* "dead": not noticed by the broker yet
  /\ retained \in {"none", "online", "offline"}

MqttInit ==
  /\ mqttEnabled \in BOOLEAN
  /\ timers = [k \in Kinds |-> 0] /\ refused = FALSE
  /\ client = "off" /\ session = "none" /\ birth = FALSE /\ retained = "none"
-----------------------------------------------------------------------------
Queued == timers["reconnect"] + timers["discovery"]

(* Fault: no entry has an id.                                              *)
RunInNoId(kind) ==
  IF Queued = Room
  THEN refused' = TRUE /\ UNCHANGED timers
  ELSE timers' = [timers EXCEPT ![kind] = @ + 1] /\ UNCHANGED refused

(* Tasks::runIn(): refused when the queue is full, before the id is looked *)
(* at; an entry with an id replaces the one queued.                        *)
RunIn(kind) ==
  IF Queued = Room
  THEN refused' = TRUE /\ UNCHANGED timers
  ELSE /\ timers' = [timers EXCEPT ![kind] = IF kind \in WithId THEN 1 ELSE @ + 1]
       /\ UNCHANGED refused

Ran(kind) == [timers EXCEPT ![kind] = @ - 1]
-----------------------------------------------------------------------------
(* connect(), called when WiFi connects and 10 s after a disconnection; a  *)
(* client that is connected or connecting ignores it.                      *)
Connect ==
  /\ client' = IF mqttEnabled /\ ~apMode /\ client = "off" THEN "connecting" ELSE client
  /\ UNCHANGED <<mqttEnabled, broker>>

(* Fault: no reconnection is scheduled.                                    *)
OnMqttDisconnectForgets == client' = "off" /\ UNCHANGED tasksVars

(* The client's onDisconnect() handler, also told of a failed attempt.     *)
OnMqttDisconnect ==
  /\ client' = "off"
  /\ IF link = "up" THEN RunIn("reconnect") ELSE UNCHANGED tasksVars

(* disconnect(): a broker that gets the message publishes no will.         *)
MqttDisconnect ==
  /\ client = "up"
  /\ session' = IF session = "live" THEN "none" ELSE session
  /\ birth' = FALSE
  /\ OnMqttDisconnect
  /\ UNCHANGED <<mqttEnabled, retained>>

RunReconnect ==
  /\ timers["reconnect"] > 0 /\ timers' = Ran("reconnect") /\ UNCHANGED refused
  /\ Connect

(* The web form stores m_enabled, m_host_addr and m_auth_user; nothing     *)
(* connects or disconnects.                                                *)
SetMqttEnabled(e) ==
  /\ mqttEnabled # e /\ mqttEnabled' = e
  /\ UNCHANGED <<client, broker, tasksVars>>
-----------------------------------------------------------------------------
(* The client and the broker (external).  The broker closes an older       *)
(* session of the device when it accepts a new one.                        *)
Accepted ==
  /\ client = "connecting" /\ link = "up"
  /\ client' = "up" /\ session' = "live"
  /\ retained' = IF session = "dead" THEN "offline" ELSE retained

(* The connection is accepted and onConnect() publishes "online", retained *)
(* on the topic of the will; its callbacks are HADiscovery's.              *)
OnMqttConnect ==
  /\ Accepted
  /\ birth' = TRUE
  /\ UNCHANGED mqttEnabled

ConnectFails ==
  /\ client = "connecting"
  /\ OnMqttDisconnect
  /\ UNCHANGED <<mqttEnabled, broker>>

ClientNotices ==
  /\ client = "up" /\ session # "live"
  /\ OnMqttDisconnect
  /\ UNCHANGED <<mqttEnabled, broker>>

BirthArrives ==
  /\ birth /\ birth' = FALSE /\ retained' = "online"
  /\ UNCHANGED <<mqttEnabled, client, session, tasksVars>>

BrokerDrops ==
  /\ session = "live"
  /\ session' = "none" /\ birth' = FALSE /\ retained' = "offline"
  /\ UNCHANGED <<mqttEnabled, client, tasksVars>>

BrokerTimesOut ==
  /\ session = "dead" /\ session' = "none" /\ retained' = "offline"
  /\ UNCHANGED <<mqttEnabled, client, birth, tasksVars>>

(* A step of WifiManager after which the link is not up breaks the session.*)
LinkEffect ==
  IF link' = "up" THEN UNCHANGED <<session, birth>>
  ELSE session' = (IF session = "live" THEN "dead" ELSE session) /\ birth' = FALSE
=============================================================================
