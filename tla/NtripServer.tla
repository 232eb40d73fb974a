----------------------------- MODULE NtripServer -----------------------------
(***************************************************************************)
(* src/main/interface/ntrip_server.c: the NTRIP server pushes what the     *)
(* UART receives to a remote caster.  Three threads share the globals of   *)
(* the file without a lock:                                                *)
(*   T  ntrip_server_task          connects, then suspends itself until    *)
(*                                 somebody resumes it                     *)
(*   S  ntrip_server_sleep_task    counts the time without UART data       *)
(*   H  ntrip_server_uart_handler  runs in the event loop task, once per   *)
(*                                 chunk read from the UART                *)
(* An action is one access to shared state, or one FreeRTOS or socket call; *)
(* the program counter of a thread names what it does next.                *)
(*                                                                         *)
(* The network, the caster and TCP are the environment: a connection that  *)
(* is up may be lost, and a call that needs the caster fails, whenever the *)
(* caster is not being served (net).                                       *)
(***************************************************************************)
EXTENDS RetryOps, FiniteSets

CONSTANTS
  Fds,            \* file descriptors that socket() may return
  NoSock,         \* the negative values of sock (-1, and the connect errors)
  KeepAliveTicks  \* NTRIP_KEEP_ALIVE_THRESHOLD in steps of the sleep task: 10

ASSUME FdsAssumption == NoSock \notin Fds
ASSUME KeepAliveAssumption == KeepAliveTicks \in Nat \ {0}

\* The bits of server_event_group.
CASTER_READY == "CASTER_READY"
DATA_READY   == "DATA_READY"
DATA_SENT    == "DATA_SENT"
Bits         == {CASTER_READY, DATA_READY, DATA_SENT}

VARIABLES
  bits,          \* server_event_group
  data_keep_alive,
  sock,
  wire,          \* per descriptor: closed, or how far the handshake has got
  alive,         \* per descriptor: TCP has not yet noticed a loss
  suspended,     \* the tasks in the suspended state
  delay_handle,  \* T's back-off
  net,           \* environment: no address, an address, the caster serves
  tpc,           \* program counter of T
  spc, sload,    \* program counter of S, and the value it has loaded
  hpc, hbits     \* program counter of H, and its snapshot event_bits

shared == <<bits, data_keep_alive, sock, wire, alive, suspended, delay_handle>>
vars == <<shared, net, tpc, spc, sload, hpc, hbits>>

TPC == {"delay", "check", "wait", "blocked", "resume", "ip", "connect",
        "request", "reply", "ready", "await", "woken", "error", "close", "forget"}
SPC == {"start", "check", "clear", "load", "store"}
HPC == {"idle", "data", "keepalive", "sent", "write", "close", "forget", "resume"}

\* Only == KeepAliveTicks is tested, so every larger count is one value.
Ticks == 0..(KeepAliveTicks + 1)

InitialHandle == retry_init(TRUE, 5, 2000, 0)

\* The handles that this call and the calls after it yield.
Handles ==
  [ attempts : 0..(AttemptsMod - 1), first_instant : BOOLEAN, short_count : {5},
    short_delay : {2000}, max_delay : {0}, delays_offset : {DelaysOffset(2000)} ]

TypeOK ==
  /\ bits \subseteq Bits
  /\ data_keep_alive \in Ticks
  /\ sock \in Fds \cup {NoSock}
  /\ wire \in [Fds -> {"closed", "fresh", "requested", "accepted"}]
  /\ alive \in [Fds -> BOOLEAN]
  /\ suspended \subseteq {"T", "S"}
  /\ delay_handle \in Handles
  /\ net \in {"none", "address", "caster"}
  /\ tpc \in TPC /\ spc \in SPC /\ hpc \in HPC
  /\ sload \in Ticks
  /\ hbits \subseteq Bits

Init ==
  /\ bits = {} /\ data_keep_alive = 0 /\ sock = NoSock
  /\ wire = [fd \in Fds |-> "closed"] /\ alive = [fd \in Fds |-> FALSE]
  /\ suspended = {}
  /\ delay_handle = InitialHandle
  /\ net = "none"
  /\ tpc = "delay" /\ spc = "start" /\ hpc = "idle"
  /\ sload = 0 /\ hbits = {}

-----------------------------------------------------------------------------
\* The socket in sock can carry data.
Usable == sock \in Fds /\ wire[sock] # "closed" /\ alive[sock]

\* shutdown and close of the descriptor sock holds now.  A descriptor that is
\* closed already is left alone; one that was closed and returned again by
\* socket() in between is closed under its new owner.
CloseSock ==
  /\ wire' = [wire EXCEPT ![sock] = "closed"]
  /\ alive' = [alive EXCEPT ![sock] = FALSE]

\* xEventGroupSetBits: a task blocked in xEventGroupWaitBits on DATA_READY is
\* released by the call itself, which then clears the bit (clearOnExit).
SetBits(b) ==
  IF tpc = "blocked" /\ b = DATA_READY
  THEN bits' = bits \ {b} /\ tpc' = "resume"
  ELSE bits' = bits \cup {b} /\ UNCHANGED tpc

-----------------------------------------------------------------------------
(* H: ntrip_server_uart_handler *)

H(from, to) == hpc = from /\ hpc' = to

\* A mutant of HGetBits: DATA_READY is set only while the caster is connected.
HGetBitsOnlyConnected ==
  /\ H("idle", IF DATA_READY \in bits \/ CASTER_READY \notin bits THEN "keepalive" ELSE "data")
  /\ hbits' = bits
  /\ UNCHANGED <<shared, net, tpc, spc, sload>>

\* A chunk arrives: the event loop calls the handler, which reads the bits once.
HGetBits ==
  /\ H("idle", IF DATA_READY \in bits THEN "keepalive" ELSE "data")
  /\ hbits' = bits
  /\ UNCHANGED <<shared, net, tpc, spc, sload>>

HSetDataReady ==
  /\ H("data", "keepalive")
  /\ SetBits(DATA_READY)
  /\ UNCHANGED <<data_keep_alive, sock, wire, alive, suspended, delay_handle,
                 net, spc, sload, hbits>>

\* data_keep_alive = 0, then the test of CASTER_READY and DATA_SENT in the snapshot.
HResetKeepAlive ==
  /\ H("keepalive", IF CASTER_READY \notin hbits THEN "idle"
                    ELSE IF DATA_SENT \notin hbits THEN "sent" ELSE "write")
  /\ data_keep_alive' = 0
  /\ hbits' = {}
  /\ UNCHANGED <<bits, sock, wire, alive, suspended, delay_handle,
                 net, tpc, spc, sload>>

HSetDataSent ==
  /\ H("sent", "write")
  /\ SetBits(DATA_SENT)
  /\ UNCHANGED <<data_keep_alive, sock, wire, alive, suspended, delay_handle,
                 net, spc, sload, hbits>>

HWriteOk ==
  /\ H("write", "idle")
  /\ Usable
  /\ UNCHANGED <<shared, net, tpc, spc, sload, hbits>>

\* A mutant of HWriteFails: the handler returns when the socket is gone already.
HWriteFailsOnce ==
  /\ H("write", IF sock = NoSock THEN "idle" ELSE "close")
  /\ ~Usable \/ net # "caster"
  /\ UNCHANGED <<shared, net, tpc, spc, sload, hbits>>

\* write() fails: no socket, a lost connection, or SO_SNDTIMEO on a stalled one.
HWriteFails ==
  /\ H("write", "close")
  /\ ~Usable \/ net # "caster"
  /\ UNCHANGED <<shared, net, tpc, spc, sload, hbits>>

\* destroy_socket(&sock), first half.
HClose ==
  \/ /\ sock = NoSock
     /\ H("close", "resume")
     /\ UNCHANGED <<shared, net, tpc, spc, sload, hbits>>
  \/ /\ sock # NoSock
     /\ H("close", "forget")
     /\ CloseSock
     /\ UNCHANGED <<bits, data_keep_alive, sock, suspended, delay_handle,
                    net, tpc, spc, sload, hbits>>

\* destroy_socket(&sock), second half: *socket = -1.
HForget ==
  /\ H("forget", "resume")
  /\ sock' = NoSock
  /\ UNCHANGED <<bits, data_keep_alive, wire, alive, suspended, delay_handle,
                 net, tpc, spc, sload, hbits>>

HResume ==
  /\ H("resume", "idle")
  /\ suspended' = suspended \ {"T"}
  /\ UNCHANGED <<bits, data_keep_alive, sock, wire, alive, delay_handle,
                 net, tpc, spc, sload, hbits>>

HNext ==
  \/ HGetBits \/ HSetDataReady \/ HResetKeepAlive \/ HSetDataSent
  \/ HWriteOk \/ HWriteFails \/ HClose \/ HForget \/ HResume

-----------------------------------------------------------------------------
(* S: ntrip_server_sleep_task *)

S(from, to) == "S" \notin suspended /\ spc = from /\ spc' = to

\* vTaskSuspend(NULL) before the loop.
SSuspendSelf ==
  /\ S("start", "check")
  /\ suspended' = suspended \cup {"S"}
  /\ UNCHANGED <<bits, data_keep_alive, sock, wire, alive, delay_handle,
                 net, tpc, sload, hpc, hbits>>

SCheck ==
  /\ S("check", IF data_keep_alive = KeepAliveTicks THEN "clear" ELSE "load")
  /\ UNCHANGED <<shared, net, tpc, sload, hpc, hbits>>

SClearDataReady ==
  /\ S("clear", "load")
  /\ bits' = bits \ {DATA_READY}
  /\ UNCHANGED <<data_keep_alive, sock, wire, alive, suspended, delay_handle,
                 net, tpc, sload, hpc, hbits>>

\* data_keep_alive += NTRIP_KEEP_ALIVE_THRESHOLD / 10 is a load and a store; the
\* delay of one tick that follows is the time S may stay at "check".
SLoad ==
  /\ S("load", "store")
  /\ sload' = data_keep_alive
  /\ UNCHANGED <<shared, net, tpc, hpc, hbits>>

SStore ==
  /\ S("store", "check")
  /\ data_keep_alive' = IF sload \in 0..KeepAliveTicks THEN sload + 1 ELSE sload
  /\ sload' = 0
  /\ UNCHANGED <<bits, sock, wire, alive, suspended, delay_handle,
                 net, tpc, hpc, hbits>>

SNext == SSuspendSelf \/ SCheck \/ SClearDataReady \/ SLoad \/ SStore

-----------------------------------------------------------------------------
(* T: ntrip_server_task *)

T(from, to) == "T" \notin suspended /\ tpc = from /\ tpc' = to

TRetryDelay ==
  /\ T("delay", "check")
  /\ delay_handle' = AfterDelay(delay_handle)
  /\ UNCHANGED <<bits, data_keep_alive, sock, wire, alive, suspended,
                 net, spc, sload, hpc, hbits>>

TCheckData ==
  /\ T("check", IF DATA_READY \in bits THEN "resume" ELSE "wait")
  /\ UNCHANGED <<shared, net, spc, sload, hpc, hbits>>

\* xEventGroupWaitBits(DATA_READY, clearOnExit): returns at once if the bit was set
\* since TCheckData, else blocks until SetBits releases the task.
TWaitData ==
  /\ \/ DATA_READY \in bits /\ T("wait", "resume") /\ bits' = bits \ {DATA_READY}
     \/ DATA_READY \notin bits /\ T("wait", "blocked") /\ UNCHANGED bits
  /\ UNCHANGED <<data_keep_alive, sock, wire, alive, suspended, delay_handle,
                 net, spc, sload, hpc, hbits>>

TResumeSleep ==
  /\ T("resume", "ip")
  /\ suspended' = suspended \ {"S"}
  /\ UNCHANGED <<bits, data_keep_alive, sock, wire, alive, delay_handle,
                 net, spc, sload, hpc, hbits>>

TWaitForIp ==
  /\ T("ip", "connect")
  /\ net # "none"
  /\ UNCHANGED <<shared, net, spc, sload, hpc, hbits>>

TConnect ==
  /\ net = "caster"
  /\ T("connect", "request")
  /\ \E fd \in Fds :
       /\ wire[fd] = "closed"
       /\ sock' = fd
       /\ wire' = [wire EXCEPT ![fd] = "fresh"]
       /\ alive' = [alive EXCEPT ![fd] = TRUE]
  /\ UNCHANGED <<bits, data_keep_alive, suspended, delay_handle,
                 net, spc, sload, hpc, hbits>>

\* The errors RESOLVE and CONNECT go to _error; OPTS is not tested for, so the
\* task goes on with a negative sock and the request fails.
TConnectFails ==
  /\ net # "caster" \/ \A fd \in Fds : wire[fd] # "closed"
  /\ T("connect", "error") \/ T("connect", "request")
  /\ sock' = NoSock
  /\ UNCHANGED <<bits, data_keep_alive, wire, alive, suspended, delay_handle,
                 net, spc, sload, hpc, hbits>>

\* write of the SOURCE request.
TRequest ==
  \/ /\ Usable
     /\ T("request", "reply")
     /\ wire' = [wire EXCEPT ![sock] = "requested"]
     /\ UNCHANGED <<bits, data_keep_alive, sock, alive, suspended, delay_handle,
                    net, spc, sload, hpc, hbits>>
  \/ /\ ~Usable \/ net # "caster"
     /\ T("request", "error")
     /\ UNCHANGED <<shared, net, spc, sload, hpc, hbits>>

\* read of the answer, its status OK, and retry_reset.
TAccepted ==
  /\ T("reply", "ready")
  /\ Usable
  /\ wire' = [wire EXCEPT ![sock] = "accepted"]
  /\ delay_handle' = retry_reset(delay_handle)
  /\ UNCHANGED <<bits, data_keep_alive, sock, alive, suspended,
                 net, spc, sload, hpc, hbits>>

\* No answer in SO_RCVTIMEO, a closed connection, or a status that is not OK.
TRefused ==
  /\ T("reply", "error")
  /\ ~Usable \/ net # "caster"
  /\ UNCHANGED <<shared, net, spc, sload, hpc, hbits>>

TSetCasterReady ==
  /\ T("ready", "await")
  /\ bits' = bits \cup {CASTER_READY}
  /\ UNCHANGED <<data_keep_alive, sock, wire, alive, suspended, delay_handle,
                 net, spc, sload, hpc, hbits>>

\* vTaskSuspend(NULL): "Await disconnect from UART handler".
TAwaitDisconnect ==
  /\ T("await", "woken")
  /\ suspended' = suspended \cup {"T"}
  /\ UNCHANGED <<bits, data_keep_alive, sock, wire, alive, delay_handle,
                 net, spc, sload, hpc, hbits>>

\* A mutant of TDisconnected: CASTER_READY is left set.
TDisconnectedKeepsReady ==
  /\ T("woken", "error")
  /\ bits' = bits \ {DATA_SENT}
  /\ UNCHANGED <<data_keep_alive, sock, wire, alive, suspended, delay_handle,
                 net, spc, sload, hpc, hbits>>

TDisconnected ==
  /\ T("woken", "error")
  /\ bits' = bits \ {CASTER_READY, DATA_SENT}
  /\ UNCHANGED <<data_keep_alive, sock, wire, alive, suspended, delay_handle,
                 net, spc, sload, hpc, hbits>>

\* A mutant of TSuspendSleep: the sleep task runs on.
TSuspendSleepForgotten ==
  /\ T("error", "close")
  /\ UNCHANGED <<shared, net, spc, sload, hpc, hbits>>

\* The label _error: vTaskSuspend(sleep_task), then destroy_socket(&sock).
TSuspendSleep ==
  /\ T("error", "close")
  /\ suspended' = suspended \cup {"S"}
  /\ UNCHANGED <<bits, data_keep_alive, sock, wire, alive, delay_handle,
                 net, spc, sload, hpc, hbits>>

TClose ==
  \/ /\ sock = NoSock
     /\ T("close", "delay")
     /\ UNCHANGED <<shared, net, spc, sload, hpc, hbits>>
  \/ /\ sock # NoSock
     /\ T("close", "forget")
     /\ CloseSock
     /\ UNCHANGED <<bits, data_keep_alive, sock, suspended, delay_handle,
                    net, spc, sload, hpc, hbits>>

TForget ==
  /\ T("forget", "delay")
  /\ sock' = NoSock
  /\ UNCHANGED <<bits, data_keep_alive, wire, alive, suspended, delay_handle,
                 net, spc, sload, hpc, hbits>>

TNext ==
  \/ TRetryDelay \/ TCheckData \/ TWaitData \/ TResumeSleep \/ TWaitForIp
  \/ TConnect \/ TConnectFails \/ TRequest \/ TAccepted \/ TRefused
  \/ TSetCasterReady \/ TAwaitDisconnect \/ TDisconnected \/ TSuspendSleep
  \/ TClose \/ TForget

-----------------------------------------------------------------------------
(* The environment *)

\* The station gains or loses its address, the caster starts or stops serving.
NetChange ==
  /\ net' \in {"none", "address", "caster"} \ {net}
  /\ UNCHANGED <<shared, tpc, spc, sload, hpc, hbits>>

\* TCP notices that a connection is gone (reset, or retransmissions given up).
ConnectionLost ==
  /\ net # "caster"
  /\ \E fd \in Fds : alive[fd] /\ alive' = [alive EXCEPT ![fd] = FALSE]
  /\ UNCHANGED <<bits, data_keep_alive, sock, wire, suspended, delay_handle,
                 net, tpc, spc, sload, hpc, hbits>>

Next == HNext \/ SNext \/ TNext \/ NetChange \/ ConnectionLost

\* Each task is scheduled, and the UART keeps receiving chunks (HNext contains
\* HGetBits): a GNSS receiver sends at least once per second.  That they reach H
\* supposes that no other interface's handler stays in a write (see AllDelivered).
Fairness == WF_vars(TNext) /\ WF_vars(SNext) /\ WF_vars(HNext)

Spec == Init /\ [][Next]_vars /\ Fairness

-----------------------------------------------------------------------------
(* Properties *)

\* While CASTER_READY is set, sock is the connection the caster accepted or has
\* been destroyed by the handler: no other connection is ever announced to the
\* handler, whatever H destroyed or resumed late.  And the back-off was reset, so
\* that the reconnect after this connection starts at once.
ReadyMeansAccepted ==
  CASTER_READY \in bits =>
    /\ delay_handle.attempts = 0
    /\ sock = NoSock \/ wire[sock] = "accepted" \/ hpc = "forget"

\* The time without data is not counted, and DATA_READY not cleared by the sleep
\* task, from the teardown of a connection until there is data for the next one:
\* T is never kept from the data that should have released it.
SleepTaskParked ==
  tpc \in {"close", "forget", "delay", "check", "wait", "blocked", "resume"} =>
    "S" \in suspended \/ spc = "start"

\* A suspended server task with a lost connection is always resumed: the resume it
\* may have missed (the handler ran before it suspended itself) is repeated by
\* the next chunk, because a write to the destroyed socket fails again.
HealedByNextData ==
  (tpc = "woken" /\ "T" \in suspended /\ ~Usable) ~> (tpc = "error")

\* Descriptors that are open and that nobody holds: H set sock to -1 after T had
\* already stored the descriptor of a new connection in it.
Leaked == {fd \in Fds : wire[fd] # "closed"} \ {sock}

\* Once the caster serves for good, CASTER_READY is announced again and again, no
\* matter what H and T did to each other's sockets, resumes and bits before that,
\* as long as that left a descriptor to connect with.
ReadyAgain ==
  <>[](net = "caster" /\ Leaked # Fds) => []<>(CASTER_READY \in bits)

\* "Ignore if caster is not connected and ready for data" (ntrip_server.c:65):
\* the handler writes UART data only to a connection the caster accepted.
NoEarlyData == [][HWriteOk => wire[sock] = "accepted"]_vars
=============================================================================
