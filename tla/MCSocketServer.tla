--------------------------- MODULE MCSocketServer ---------------------------
(* Descriptors for the two ports and two clients, and one source that can     *)
(* send twice before it is a client.                                         *)
EXTENDS SocketServer

MCFds == 0 .. 2
=============================================================================
