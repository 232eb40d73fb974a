----------------------------- MODULE MCUartBus -----------------------------
(* A writer that can be suspended, two handlers, a queue of two events.      *)
EXTENDS UartBus
=============================================================================
