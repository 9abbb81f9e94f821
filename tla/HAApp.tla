------------------------------- MODULE HAApp -------------------------------
(***************************************************************************)
(* The network side of an og3::HAApp: MqttManager on the callbacks of      *)
(* WifiManager, and HADiscovery on those of MqttManager.  Every step is    *)
(* one of theirs; a step that ends in a callback takes the called module   *)
(* along.                                                                  *)
(***************************************************************************)
EXTENDS HADiscovery

netVars == <<vars, mqttVars, tasksVars, discoveryVars>>

NetTypeInv == TypeInv /\ MqttTypeInv /\ DiscoveryTypeInv

NetInit == Init /\ MqttInit /\ DiscoveryInit

(* The steps of WifiManager and of the WiFi driver that call nobody.       *)
Quiet(step) ==
  /\ step /\ LinkEffect
  /\ UNCHANGED <<mqttEnabled, client, retained, tasksVars, discoveryVars>>

(* Fault: MqttManager gave WifiManager no callback.                        *)
WifiConnectedUntold ==
  /\ pending = "onConnect" /\ RunPending
  /\ UNCHANGED <<mqttVars, tasksVars, discoveryVars>>

(* onConnect() of WifiManager calls MqttManager::connect(), in AP mode too.*)
WifiConnected ==
  /\ pending = "onConnect" /\ RunPending
  /\ Connect
  /\ UNCHANGED <<tasksVars, discoveryVars>>

(* MqttManager has no callback in onDisconnect() of WifiManager, which may *)
(* cut a link that came back meanwhile.                                    *)
WifiDisconnected ==
  /\ pending = "onDisconnect" /\ RunPending /\ LinkEffect
  /\ UNCHANGED <<mqttEnabled, client, retained, tasksVars, discoveryVars>>

Mqtt(step) == step /\ UNCHANGED <<vars, discoveryVars>>

NetNext ==
  \/ WifiConnected \/ WifiDisconnected
  \/ Quiet(pending = "trySetup" /\ RunPending)
  \/ Quiet(Start) \/ Quiet(SanityCheck) \/ Quiet(OnWifiEvent)
  \/ Quiet(HalfMinute) \/ Quiet(Hour)
  \/ Quiet(JoinSucceeds) \/ Quiet(JoinFails) \/ Quiet(LinkLost)
  \/ Mqtt(MqttDisconnect) \/ Mqtt(RunReconnect)
  \/ \E e \in BOOLEAN : Mqtt(SetMqttEnabled(e))
  \/ Mqtt(ConnectFails) \/ Mqtt(ClientNotices)
  \/ Mqtt(BirthArrives) \/ Mqtt(BrokerDrops) \/ Mqtt(BrokerTimesOut)
  \/ DiscoverOnConnect /\ UNCHANGED vars
  \/ RunDiscovery /\ UNCHANGED vars

(* The loop runs what is queued, the client is told of an attempt that     *)
(* failed and of a session that is gone, a message arrives while the       *)
(* session lives; an attempt made again and again is accepted some time,   *)
(* and so is a publication.                                                *)
NetFairness ==
  /\ WF_netVars(WifiConnected) /\ WF_netVars(Quiet(OnWifiEvent))
  /\ WF_netVars(Mqtt(RunReconnect))
  /\ WF_netVars(Mqtt(ConnectFails)) /\ WF_netVars(Mqtt(ClientNotices))
  /\ WF_netVars(Mqtt(BirthArrives))
  /\ SF_netVars(DiscoverOnConnect /\ UNCHANGED vars)
  /\ SF_netVars(RunDiscovery /\ next' > next /\ UNCHANGED vars)

NetSpec == NetInit /\ [][NetNext]_netVars /\ NetFairness
-----------------------------------------------------------------------------
(* From the first connection on, as long as discovery callbacks are left,  *)
(* a run of onMqttConnect() is queued (onMqttConnect(), tryAgain()): no    *)
(* pause, failure or reconnection loses the rest, unless the task queue    *)
(* was full.                                                               *)
DiscoveryGoesOn == begun /\ next < Entries => timers["discovery"] > 0 \/ refused

(* MQTT is up and the broker says so on the topic of the will.             *)
Online == client = "up" /\ session = "live" /\ retained = "online"

WifiStays == <>[](link = "up" /\ ~apMode /\ ~newsLost)
SessionsLast == <>[][session = "live" => session' = "live"]_netVars

(* While MQTT is enabled, and WiFi stays up and no session is closed from  *)
(* some time on, the device gets and stays online, however its client, the *)
(* broker and the link lost each other before: the 10 s retry of the       *)
(* onDisconnect() handler and connect() in the callback of WifiManager     *)
(* cover for each other.  A full task queue excuses it if it refused an    *)
(* entry of MQTT or discovery, or the last event of WiFi.                  *)
ComesBackOnline ==
  []mqttEnabled /\ WifiStays /\ SessionsLast => <>[]Online \/ <>refused

(* Then discovery also comes to an end, past every failed publication.     *)
DiscoveryCompletes ==
  []mqttEnabled /\ WifiStays /\ SessionsLast => <>(next = Entries) \/ <>refused
=============================================================================
