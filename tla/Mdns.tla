-------------------------------- MODULE Mdns --------------------------------
(***************************************************************************)
(* og3::Mdns on the callbacks of WifiManager: it starts the responder when *)
(* WiFi connects, and tries again every five seconds until it started      *)
(* once.  Every step is one of WifiManager or a queued retry.              *)
(***************************************************************************)
EXTENDS WifiManager

CONSTANT MdnsRoom           \* entries of the task queue left to Mdns

ASSUME MdnsAssumption == MdnsRoom \in Nat \ {0}

VARIABLES mdnsOk,           \* m_ok
          mdnsConnected,    \* m_connected
          mdnsRetries,      \* queued calls of connect(); they have no id
          mdnsRefused       \* a retry found the queue full (history)

mdnsVars == <<mdnsOk, mdnsConnected, mdnsRetries, mdnsRefused>>
wifiMdnsVars == <<vars, mdnsVars>>

WifiMdnsTypeInv ==
  /\ TypeInv
  /\ {mdnsOk, mdnsConnected, mdnsRefused} \subseteq BOOLEAN
  /\ mdnsRetries \in 0 .. MdnsRoom

MdnsInit ==
  mdnsOk = FALSE /\ mdnsConnected = FALSE /\ mdnsRetries = 0 /\ mdnsRefused = FALSE

(* connect(), with `queued' retries in the queue; MDNS.begin() succeeds or *)
(* fails (external).                                                       *)
MdnsConnect(queued) ==
  /\ mdnsConnected' = TRUE
  /\ \/ mdnsOk' = TRUE /\ mdnsRetries' = queued /\ UNCHANGED mdnsRefused
     \/ /\ ~mdnsOk /\ UNCHANGED mdnsOk
        /\ IF queued < MdnsRoom
           THEN mdnsRetries' = queued + 1 /\ UNCHANGED mdnsRefused
           ELSE mdnsRetries' = queued /\ mdnsRefused' = TRUE

(* Fault: a retry that fails is the last.                                  *)
RunMdnsRetryOnce ==
  /\ mdnsRetries > 0 /\ mdnsRetries' = mdnsRetries - 1
  /\ mdnsConnected' = TRUE /\ mdnsOk' \in {mdnsOk, TRUE}
  /\ UNCHANGED <<vars, mdnsRefused>>

RunMdnsRetry ==
  mdnsRetries > 0 /\ MdnsConnect(mdnsRetries - 1) /\ UNCHANGED vars

(* onConnect() of WifiManager calls connect(), in AP mode too.             *)
MdnsToldConnected ==
  pending = "onConnect" /\ RunPending /\ MdnsConnect(mdnsRetries)

(* onDisconnect() of WifiManager calls back only if it was connected.      *)
MdnsToldDisconnected ==
  /\ pending = "onDisconnect" /\ RunPending
  /\ mdnsConnected' = (mdnsConnected /\ ~wasConnected)
  /\ UNCHANGED <<mdnsOk, mdnsRetries, mdnsRefused>>

MdnsUntold == UNCHANGED mdnsVars

WifiMdnsInit == Init /\ MdnsInit

WifiMdnsNext ==
  \/ MdnsToldConnected \/ MdnsToldDisconnected \/ RunMdnsRetry
  \/ pending = "trySetup" /\ RunPending /\ MdnsUntold
  \/ Start /\ MdnsUntold
  \/ SanityCheck /\ MdnsUntold
  \/ OnWifiEvent /\ MdnsUntold
  \/ HalfMinute /\ MdnsUntold
  \/ Hour /\ MdnsUntold
  \/ JoinSucceeds /\ MdnsUntold
  \/ JoinFails /\ MdnsUntold
  \/ LinkLost /\ MdnsUntold

WifiMdnsSpec == WifiMdnsInit /\ [][WifiMdnsNext]_wifiMdnsVars /\ Fairness
-----------------------------------------------------------------------------
(* Once a client connected, a retry is queued for as long as the responder *)
(* has not started: no sequence of lost and new connections ends the       *)
(* attempts (connect()), unless the task queue was full.                   *)
MdnsKeepsTrying ==
  mdnsConnected /\ ~mdnsOk => mdnsRetries > 0 \/ mdnsRefused
=============================================================================
