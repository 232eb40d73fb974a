---------------------------- MODULE MCNtripServer ----------------------------
(* One descriptor, so that each socket() returns the number closed last; the  *)
(* sleep task clears DATA_READY after one tick; a table of three delays.      *)
EXTENDS NtripServer

MCDelays == <<1000, 2000, 5000>>
=============================================================================
