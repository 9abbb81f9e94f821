------------------------------ MODULE MCHAApp ------------------------------
(* An instance of HAApp: two entries sent one at a time, the first with a  *)
(* command.                                                                *)
EXTENDS HAApp

CommandEntries == {0}
=============================================================================
