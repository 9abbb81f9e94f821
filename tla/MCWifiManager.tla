--------------------------- MODULE MCWifiManager ---------------------------
(* Instances of WifiManager with Mdns on its callbacks: every constant is  *)
(* given in the .cfg files.                                                *)
EXTENDS Mdns
=============================================================================
