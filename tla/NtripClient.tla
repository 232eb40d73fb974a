----------------------------- MODULE NtripClient -----------------------------
(***************************************************************************)
(* src/main/interface/ntrip_client.c: the NTRIP client fetches corrections  *)
(* from a remote caster for the UART and reports the receiver's position to *)
(* it.  Three threads share the globals of the file without a lock:         *)
(*   T  ntrip_client_task                connects and reads until it fails  *)
(*   G  ntrip_client_nmea_gga_send_task  sends the position now and then;   *)
(*                                       T creates and deletes it           *)
(*   H  ntrip_client_uart_handler        keeps the last GGA sentence        *)
(* The conventions are those of NtripServer.  nmea_gga_latest is reduced to *)
(* whether there is a sentence in it.                                       *)
(***************************************************************************)
EXTENDS RetryOps

CONSTANTS
  Fds,      \* file descriptors that socket() may return
  NoSock    \* the negative values of sock

ASSUME FdsAssumption == NoSock \notin Fds

VARIABLES
  caster_ready,     \* CASTER_READY_BIT of client_event_group
  nmea_gga_latest,  \* it holds a sentence
  sock,
  wire,             \* per descriptor: closed, or how far the handshake has got
  peer,             \* per descriptor: the other end as TCP knows it
  delay_handle,     \* T's back-off
  net,              \* environment: no address, an address, the caster serves
  tpc,              \* program counters; gpc = "none": the task does not exist
  gpc,
  hpc

shared == <<caster_ready, nmea_gga_latest, sock, wire, peer, delay_handle>>
vars == <<shared, net, tpc, gpc, hpc>>

TPC == {"delay", "ip", "connect", "request", "reply", "spawn", "ready", "read",
        "forward", "disconnected", "delete", "error", "forget"}
GPC == {"none", "pause", "send", "close", "forget"}

InitialHandle == retry_init(TRUE, 5, 2000, 0)

\* The handles that this call and the calls after it yield.
Handles ==
  [ attempts : 0..(AttemptsMod - 1), first_instant : BOOLEAN, short_count : {5},
    short_delay : {2000}, max_delay : {0}, delays_offset : {DelaysOffset(2000)} ]

\* The other end: open, has closed its side (reads return 0), has closed and will
\* answer what it was sent with a reset, and gone.
Ends == {"open", "fin", "poked", "reset"}

TypeOK ==
  /\ caster_ready \in BOOLEAN
  /\ nmea_gga_latest \in BOOLEAN
  /\ sock \in Fds \cup {NoSock}
  /\ wire \in [Fds -> {"closed", "fresh", "requested", "accepted"}]
  /\ peer \in [Fds -> Ends]
  /\ delay_handle \in Handles
  /\ net \in {"none", "address", "caster"}
  /\ tpc \in TPC /\ gpc \in GPC /\ hpc \in {"idle", "extract"}

Init ==
  /\ caster_ready = FALSE /\ nmea_gga_latest = FALSE /\ sock = NoSock
  /\ wire = [fd \in Fds |-> "closed"] /\ peer = [fd \in Fds |-> "reset"]
  /\ delay_handle = InitialHandle
  /\ net = "none"
  /\ tpc = "delay" /\ gpc = "none" /\ hpc = "idle"

-----------------------------------------------------------------------------
\* sock is a descriptor that has not been closed.
IsOpen == sock \in Fds /\ wire[sock] # "closed"

\* It carries data both ways.
Usable == IsOpen /\ peer[sock] = "open"

\* shutdown and close of the descriptor sock holds now.
CloseSock ==
  /\ wire' = [wire EXCEPT ![sock] = "closed"]
  /\ peer' = [peer EXCEPT ![sock] = "reset"]

-----------------------------------------------------------------------------
(* H: ntrip_client_uart_handler *)

\* A chunk arrives; without the bit the handler returns.
HGetBits ==
  /\ hpc = "idle" /\ caster_ready
  /\ hpc' = "extract"
  /\ UNCHANGED <<shared, net, tpc, gpc>>

\* nmea_gga_extract: the chunk holds a whole GGA sentence that fits, or nothing is kept.
HExtract ==
  /\ hpc = "extract"
  /\ hpc' = "idle"
  /\ nmea_gga_latest' \in {nmea_gga_latest, TRUE}
  /\ UNCHANGED <<caster_ready, sock, wire, peer, delay_handle, net, tpc, gpc>>

HNext == HGetBits \/ HExtract

-----------------------------------------------------------------------------
(* G: ntrip_client_nmea_gga_send_task *)

G(from, to) == gpc = from /\ gpc' = to

\* vTaskDelay, before the loop and at its end.
GDelay ==
  /\ G("pause", "send")
  /\ UNCHANGED <<shared, net, tpc, hpc>>

\* A mutant of GSendOk: the task reports the position once.
GSendOkOnce ==
  /\ G("send", "none")
  /\ IsOpen
  /\ nmea_gga_latest => peer[sock] # "reset"
  /\ peer' = [peer EXCEPT ![sock] = IF nmea_gga_latest /\ @ = "fin" THEN "poked" ELSE @]
  /\ UNCHANGED <<caster_ready, nmea_gga_latest, sock, wire, delay_handle, net, tpc, hpc>>

\* send() takes the sentence.  Nothing is sent of an empty string, so such a call
\* succeeds on any open socket.  An end that has closed will answer with a reset.
GSendOk ==
  /\ G("send", "pause")
  /\ IsOpen
  /\ nmea_gga_latest => peer[sock] # "reset"
  /\ peer' = [peer EXCEPT ![sock] = IF nmea_gga_latest /\ @ = "fin" THEN "poked" ELSE @]
  /\ UNCHANGED <<caster_ready, nmea_gga_latest, sock, wire, delay_handle, net, tpc, hpc>>

\* No socket, a connection that is gone, or SO_SNDTIMEO on a stalled one.
GSendFails ==
  /\ G("send", "close")
  /\ IsOpen => nmea_gga_latest /\ (peer[sock] = "reset" \/ net # "caster")
  /\ UNCHANGED <<shared, net, tpc, hpc>>

\* destroy_socket(&sock), first half.
GClose ==
  \/ /\ sock = NoSock
     /\ G("close", "pause")
     /\ UNCHANGED <<shared, net, tpc, hpc>>
  \/ /\ sock # NoSock
     /\ G("close", "forget")
     /\ CloseSock
     /\ UNCHANGED <<caster_ready, nmea_gga_latest, sock, delay_handle, net, tpc, hpc>>

\* destroy_socket(&sock), second half: *socket = -1.
GForget ==
  /\ G("forget", "pause")
  /\ sock' = NoSock
  /\ UNCHANGED <<caster_ready, nmea_gga_latest, wire, peer, delay_handle, net, tpc, hpc>>

GNext == GDelay \/ GSendOk \/ GSendFails \/ GClose \/ GForget

-----------------------------------------------------------------------------
(* T: ntrip_client_task *)

T(from, to) == tpc = from /\ tpc' = to

TRetryDelay ==
  /\ T("delay", "ip")
  /\ delay_handle' = AfterDelay(delay_handle)
  /\ UNCHANGED <<caster_ready, nmea_gga_latest, sock, wire, peer, net, gpc, hpc>>

TWaitForIp ==
  /\ T("ip", "connect")
  /\ net # "none"
  /\ UNCHANGED <<shared, net, gpc, hpc>>

TConnect ==
  /\ T("connect", "request")
  /\ net = "caster"
  /\ \E fd \in Fds :
       /\ wire[fd] = "closed"
       /\ sock' = fd
       /\ wire' = [wire EXCEPT ![fd] = "fresh"]
       /\ peer' = [peer EXCEPT ![fd] = "open"]
  /\ UNCHANGED <<caster_ready, nmea_gga_latest, delay_handle, net, gpc, hpc>>

\* The errors RESOLVE and CONNECT go to _error; OPTS is not tested for, so the
\* task goes on with a negative sock and the request fails.
TConnectFails ==
  /\ net # "caster" \/ \A fd \in Fds : wire[fd] # "closed"
  /\ T("connect", "error") \/ T("connect", "request")
  /\ sock' = NoSock
  /\ UNCHANGED <<caster_ready, nmea_gga_latest, wire, peer, delay_handle, net, gpc, hpc>>

TRequest ==
  /\ T("request", "reply")
  /\ IsOpen /\ peer[sock] # "reset"
  /\ wire' = [wire EXCEPT ![sock] = "requested"]
  /\ peer' = [peer EXCEPT ![sock] = IF @ = "fin" THEN "poked" ELSE @]
  /\ UNCHANGED <<caster_ready, nmea_gga_latest, sock, delay_handle, net, gpc, hpc>>

\* A mutant of TRequestFails: back to the start of the loop without a clean-up.
TRequestFailsContinue ==
  /\ T("request", "delay")
  /\ ~Usable \/ net # "caster"
  /\ UNCHANGED <<shared, net, gpc, hpc>>

TRequestFails ==
  /\ T("request", "error")
  /\ ~Usable \/ net # "caster"
  /\ UNCHANGED <<shared, net, gpc, hpc>>

\* read of the answer, its status OK, and retry_reset.
TAccepted ==
  /\ T("reply", "spawn")
  /\ Usable
  /\ wire' = [wire EXCEPT ![sock] = "accepted"]
  /\ delay_handle' = retry_reset(delay_handle)
  /\ UNCHANGED <<caster_ready, nmea_gga_latest, sock, peer, net, gpc, hpc>>

\* No answer in SO_RCVTIMEO, a closed connection, or a status that is not OK.
TRefused ==
  /\ T("reply", "error")
  /\ ~Usable \/ net # "caster"
  /\ UNCHANGED <<shared, net, gpc, hpc>>

\* xTaskCreate: the new task starts with a delay.
TCreateGga ==
  /\ T("spawn", "ready")
  /\ gpc' = "pause"
  /\ UNCHANGED <<shared, net, hpc>>

TSetCasterReady ==
  /\ T("ready", "read")
  /\ caster_ready' = TRUE
  /\ UNCHANGED <<nmea_gga_latest, sock, wire, peer, delay_handle, net, gpc, hpc>>

\* The test of sock and a read that is not an error: corrections, or 0 once the
\* other end has closed.  (What the next read returns then is up to the TCP/IP
\* stack: 0 again here, an error in TReadFails.)
TRead ==
  /\ T("read", "forward")
  /\ IsOpen /\ (peer[sock] = "open" => net = "caster") /\ peer[sock] # "reset"
  /\ UNCHANGED <<shared, net, gpc, hpc>>

\* sock is -1 or closed by G, the connection is gone, or nothing came for SO_RCVTIMEO.
TReadFails ==
  /\ T("read", "disconnected")
  /\ UNCHANGED <<shared, net, gpc, hpc>>

\* uart_write, which returns at once when there is nothing to write.
TUartWrite ==
  /\ T("forward", "read")
  /\ UNCHANGED <<shared, net, gpc, hpc>>

\* "Disconnected": the bit is set, once more.
TDisconnected ==
  /\ T("disconnected", "delete")
  /\ caster_ready' = TRUE
  /\ UNCHANGED <<nmea_gga_latest, sock, wire, peer, delay_handle, net, gpc, hpc>>

\* A mutant of TDeleteGga: the task is left running.
TDeleteGgaForgotten ==
  /\ T("delete", "error")
  /\ UNCHANGED <<shared, net, gpc, hpc>>

\* vTaskDelete(nmea_gga_send_task), wherever that task is.
TDeleteGga ==
  /\ T("delete", "error")
  /\ gpc' = "none"
  /\ UNCHANGED <<shared, net, hpc>>

\* The label _error: destroy_socket(&sock).
TClose ==
  \/ /\ sock = NoSock
     /\ T("error", "delay")
     /\ UNCHANGED <<shared, net, gpc, hpc>>
  \/ /\ sock # NoSock
     /\ T("error", "forget")
     /\ CloseSock
     /\ UNCHANGED <<caster_ready, nmea_gga_latest, sock, delay_handle, net, gpc, hpc>>

TForget ==
  /\ T("forget", "delay")
  /\ sock' = NoSock
  /\ UNCHANGED <<caster_ready, nmea_gga_latest, wire, peer, delay_handle, net, gpc, hpc>>

TNext ==
  \/ TRetryDelay \/ TWaitForIp \/ TConnect \/ TConnectFails \/ TRequest
  \/ TRequestFails \/ TAccepted \/ TRefused \/ TCreateGga \/ TSetCasterReady
  \/ TRead \/ TReadFails \/ TUartWrite \/ TDisconnected \/ TDeleteGga
  \/ TClose \/ TForget

-----------------------------------------------------------------------------
(* The environment *)

\* The station gains or loses its address, the caster starts or stops serving.
NetChange ==
  /\ net' \in {"none", "address", "caster"} \ {net}
  /\ UNCHANGED <<shared, tpc, gpc, hpc>>

\* The caster closes a connection in an orderly way, or TCP gives it up.
PeerCloses ==
  /\ net # "caster"
  /\ \E fd \in Fds :
       /\ wire[fd] # "closed" /\ peer[fd] = "open"
       /\ \/ net = "address" /\ peer' = [peer EXCEPT ![fd] = "fin"]
          \/ peer' = [peer EXCEPT ![fd] = "reset"]
  /\ UNCHANGED <<caster_ready, nmea_gga_latest, sock, wire, delay_handle, net, tpc, gpc, hpc>>

\* Data for an end that is closed is answered with a reset, or TCP stops retransmitting.
PeerResets ==
  /\ \E fd \in Fds : peer[fd] = "poked" /\ peer' = [peer EXCEPT ![fd] = "reset"]
  /\ UNCHANGED <<caster_ready, nmea_gga_latest, sock, wire, delay_handle, net, tpc, gpc, hpc>>

Next == HNext \/ GNext \/ TNext \/ NetChange \/ PeerCloses \/ PeerResets

\* Both tasks are scheduled, and TCP does not wait for ever for an acknowledgement.
\* The handler gets no fairness: the receiver need not send GGA sentences.
Fairness == WF_vars(TNext) /\ WF_vars(GNext) /\ WF_vars(PeerResets)

Spec == Init /\ [][Next]_vars /\ Fairness

-----------------------------------------------------------------------------
(* Properties *)

\* Wherever the two tasks met in destroying the socket and wherever the GGA task
\* was deleted, the client starts every attempt with nothing left of the last one:
\* no GGA task, no descriptor open, and none remembered.
TornDown ==
  tpc \in {"delay", "ip", "connect"} =>
    gpc = "none" /\ sock = NoSock /\ \A fd \in Fds : wire[fd] = "closed"

\* The position is sent only over a connection the caster has accepted.
PositionOnlyToAccepted == [][GSendOk => wire[sock] = "accepted"]_vars

\* Once there is a position to report, a connection that the caster closed or
\* that was lost does not keep the client reading for ever: the GGA task's next
\* sentence provokes the error that an orderly close alone need not give.
LossIsNoticed ==
  (tpc \in {"read", "forward"} /\ ~Usable /\ nmea_gga_latest) ~> (tpc = "delay")

\* Once the caster serves for good and there is a position to report, the client
\* is connected to it again and again.
ConnectsAgain ==
  <>[](net = "caster" /\ nmea_gga_latest) => []<>(tpc = "read" /\ Usable)

\* "Caster connected and ready for data" (ntrip_client.c:87): the bit that the
\* handler tests under this comment is set only while there is a connection.
ReadyMeansConnected ==
  caster_ready => tpc \in {"read", "forward", "disconnected"}
=============================================================================
