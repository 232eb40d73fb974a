---------------------------- MODULE MCNtripClient ----------------------------
(* One descriptor, so that one that is not closed is missed at once; a table  *)
(* of three delays.                                                           *)
EXTENDS NtripClient

MCDelays == <<1000, 2000, 5000>>
=============================================================================
