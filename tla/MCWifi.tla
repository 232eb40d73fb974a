------------------------------- MODULE MCWifi -------------------------------
(* Two devices at the access point and a queue of three events.              *)
EXTENDS Wifi

MCDelays == <<1000, 2000, 5000>>
=============================================================================
