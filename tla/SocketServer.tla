---------------------------- MODULE SocketServer ----------------------------
(***************************************************************************)
(* src/main/interface/socket_server.c: two threads and the list they share  *)
(* without a lock:                                                          *)
(*   T  socket_server_task, which accepts clients, reads from them, removes *)
(*      those whose read fails, and drops everybody when select fails       *)
(*   H  socket_server_uart_handler, which writes each chunk to all clients  *)
(*      and removes those whose write fails                                 *)
(* An operation on the list takes effect in one step.  When the other       *)
(* thread is inside an operation of its own at that step (NtripCaster has   *)
(* the words of the list, and what becomes of them), or a thread holds a    *)
(* client that was freed, what follows is undefined and the model stops.    *)
(***************************************************************************)
EXTENDS Integers, Sequences, SequencesExt

CONSTANTS
  Nodes,      \* heap blocks that malloc can return
  Fds,        \* socket descriptors
  Sources,    \* addresses that send UDP datagrams
  MaxDgrams,  \* datagrams waiting at the UDP port
  NULL

ASSUME NullAssumption == NULL \notin Nodes \cup Sources
ASSUME FdsAssumption  == Fds \subseteq Nat /\ MaxDgrams \in Nat

NoSocket == -1
Threads  == {"T", "H"}

VARIABLES
  pc, cur, tmp,        \* per thread: program counter, loop variable, next client
  sock_tcp, sock_udp,  \* the listening sockets
  socket_set,          \* T: the descriptors to select from, then those selected
  sock, source_addr,   \* T: the client being accepted; NULL stands for a TCP client
  closing,             \* T: at the label _error
  clients,             \* socket_client_list, first to last
  socket, addr,        \* fields of the nodes
  live,                \* nodes allocated and not freed
  wire,                \* outside: what is at the other end of each descriptor
  backlog,             \* outside: a TCP connection waits to be accepted
  dgrams,              \* outside: the senders of the datagrams at the UDP port
  undefined            \* freed memory was used, or the list is damaged

tvars  == <<sock_tcp, sock_udp, socket_set, sock, source_addr, closing>>
list   == <<clients, socket, addr, live>>
outside == <<wire, backlog, dgrams>>
vars   == <<pc, cur, tmp, tvars, list, outside, undefined>>

\* Sockets that listen are "bound"; "data", "fin" and "reset" can be read, and a
\* "reset" or "deaf" end fails writes.
TcpWires == {"open", "data", "fin", "reset"}
UdpWires == {"udp", "udpdata", "deaf"}
Wires    == {"closed", "bound"} \cup TcpWires \cup UdpWires

Removing == {"forget", "find", "unlink"}
PC == {"init", "udp", "zero", "collect", "select", "blocked", "accept", "insert",
       "publish", "datagram", "has", "socket", "connect", "next", "receive", "error",
       "idle", "write", "close"} \cup Removing

TypeOK ==
  /\ pc \in [Threads -> PC] /\ closing \in BOOLEAN /\ undefined \in BOOLEAN
  /\ cur \in [Threads -> Nodes \cup {NULL}] /\ tmp \in [Threads -> Nodes \cup {NULL}]
  /\ {sock_tcp, sock_udp, sock} \subseteq Fds \cup {NoSocket}
  /\ socket_set \subseteq Fds
  /\ source_addr \in Sources \cup {NULL}
  /\ clients \in Seq(live) /\ live \subseteq Nodes
  /\ socket \in [Nodes -> Fds \cup {NoSocket}] /\ addr \in [Nodes -> Sources \cup {NULL}]
  /\ wire \in [Fds -> Wires] /\ backlog \in BOOLEAN
  /\ dgrams \in Seq(Sources) /\ Len(dgrams) <= MaxDgrams

Init ==
  /\ pc = [T |-> "init", H |-> "idle"]
  /\ cur = [w \in Threads |-> NULL] /\ tmp = [w \in Threads |-> NULL]
  /\ sock_tcp = NoSocket /\ sock_udp = NoSocket /\ socket_set = {}
  /\ sock = NoSocket /\ source_addr = NULL /\ closing = FALSE
  /\ clients = <<>> /\ live = {}
  /\ socket = [n \in Nodes |-> NoSocket] /\ addr = [n \in Nodes |-> NULL]
  /\ wire = [f \in Fds |-> "closed"] /\ backlog = FALSE /\ dgrams = <<>>
  /\ undefined = FALSE

-----------------------------------------------------------------------------
At(w, label) == ~undefined /\ pc[w] = label
Go(w, label) == pc' = [pc EXCEPT ![w] = label]
Move(w, n)   == cur' = [cur EXCEPT ![w] = n]
Other(w)     == IF w = "T" THEN "H" ELSE "T"

First    == IF clients = <<>> THEN NULL ELSE Head(clients)
After(n) == LET i == CHOOSE i \in DOMAIN clients : clients[i] = n
            IN IF i = Len(clients) THEN NULL ELSE clients[i + 1]

Open == {f \in Fds : wire[f] # "closed"}
\* lwIP hands out the lowest descriptor that is free.
Opens(f, state) ==
  /\ f \notin Open /\ \A g \in Fds \ Open : f <= g
  /\ wire' = [wire EXCEPT ![f] = state]
Closed(fds) == [f \in Fds |-> IF f \in fds THEN "closed" ELSE wire[f]]

\* Thread w is between reading and writing the words of the list.
Inside(w) == pc[w] \in {"publish", "unlink"}

-----------------------------------------------------------------------------
(* Both threads: SLIST_FOREACH_SAFE and the removal in its body *)

Body(w) == IF w = "H" THEN "write" ELSE IF closing THEN "close" ELSE "receive"
End(w)  == IF w = "H" THEN "idle" ELSE IF closing THEN "init" ELSE "zero"

Pick(w) ==
  /\ At(w, "next") /\ cur[w] \in live
  /\ tmp' = [tmp EXCEPT ![w] = After(cur[w])]
  /\ Go(w, Body(w))
  /\ UNCHANGED <<cur, tvars, list, outside, undefined>>

Finish(w) ==
  /\ At(w, "next") /\ cur[w] = NULL
  /\ tmp' = [tmp EXCEPT ![w] = NULL]
  /\ Go(w, End(w))
  /\ UNCHANGED <<cur, tvars, list, outside, undefined>>

\* destroy_socket.  When the other thread has closed this client it will also free
\* it, so one of the two frees it twice.
Close(w) ==
  /\ At(w, "close") /\ cur[w] \in live
  /\ Go(w, "forget")
  /\ wire' = Closed({socket[cur[w]]})
  /\ undefined' = (cur[Other(w)] = cur[w] /\ pc[Other(w)] \in Removing)
  /\ UNCHANGED <<cur, tmp, tvars, list, backlog, dgrams>>

Forget(w) ==
  /\ At(w, "forget") /\ cur[w] \in live
  /\ Go(w, "find")
  /\ socket' = [socket EXCEPT ![cur[w]] = NoSocket]
  /\ UNCHANGED <<cur, tmp, tvars, clients, addr, live, outside, undefined>>

Find(w) ==
  /\ At(w, "find") /\ cur[w] \in live
  /\ Go(w, "unlink")
  /\ UNCHANGED <<cur, tmp, tvars, list, outside, undefined>>

\* SLIST_REMOVE and free.
Unlink(w) ==
  /\ At(w, "unlink") /\ cur[w] \in live
  /\ Go(w, "next") /\ Move(w, tmp[w])
  /\ clients' = RemoveFirst(clients, cur[w])
  /\ live' = live \ {cur[w]} /\ addr' = [addr EXCEPT ![cur[w]] = NULL]
  /\ undefined' = Inside(Other(w))
  /\ UNCHANGED <<tmp, tvars, socket, outside>>

\* A thread reads a client that the other has freed.
UseAfterFree(w) ==
  /\ ~undefined /\ undefined' = TRUE
  /\ cur[w] # NULL /\ cur[w] \notin live
  /\ UNCHANGED <<pc, cur, tmp, tvars, list, outside>>

Walk(w) == Pick(w) \/ Finish(w) \/ Close(w) \/ Forget(w) \/ Find(w) \/ Unlink(w)
             \/ UseAfterFree(w)

-----------------------------------------------------------------------------
(* H: socket_server_uart_handler *)

HChunk ==
  /\ At("H", "idle") /\ Go("H", "next") /\ Move("H", First)
  /\ UNCHANGED <<tmp, tvars, list, outside, undefined>>

WireOf(n) == IF socket[n] = NoSocket THEN "closed" ELSE wire[socket[n]]

\* A peer that has closed for good answers data with a reset.
HWrite ==
  /\ At("H", "write") /\ cur["H"] \in live
  /\ WireOf(cur["H"]) \notin {"closed", "reset", "deaf"}
  /\ Go("H", "next") /\ Move("H", tmp["H"])
  /\ \/ wire' = wire
     \/ WireOf(cur["H"]) = "fin" /\ wire' = [wire EXCEPT ![socket[cur["H"]]] = "reset"]
  /\ UNCHANGED <<tmp, tvars, list, backlog, dgrams, undefined>>

HWriteFails ==
  /\ At("H", "write") /\ cur["H"] \in live
  /\ WireOf(cur["H"]) \in {"closed", "reset", "deaf"}
  /\ Go("H", "close")
  /\ UNCHANGED <<cur, tmp, tvars, list, outside, undefined>>

HNext == Walk("H") \/ HChunk \/ HWrite \/ HWriteFails

-----------------------------------------------------------------------------
(* T: opening the ports *)

\* SLIST_INIT and socket_tcp_init, whose result is ignored.
TTcpInit ==
  /\ At("T", "init") /\ Go("T", "udp")
  /\ clients' = <<>> /\ closing' = FALSE
  /\ \/ sock_tcp' = NoSocket /\ UNCHANGED wire
     \/ \E f \in Fds : Opens(f, "bound") /\ sock_tcp' = f
  /\ UNCHANGED <<cur, tmp, sock_udp, socket_set, sock, source_addr, socket, addr, live,
                 backlog, dgrams, undefined>>

\* socket_udp_init, likewise.
TUdpInit ==
  /\ At("T", "udp") /\ Go("T", "zero")
  /\ \/ sock_udp' = NoSocket /\ UNCHANGED wire
     \/ \E f \in Fds : Opens(f, "bound") /\ sock_udp' = f
  /\ UNCHANGED <<cur, tmp, sock_tcp, socket_set, sock, source_addr, closing, list,
                 backlog, dgrams, undefined>>

-----------------------------------------------------------------------------
(* T: select *)

\* A mutant of TZero: a port that could not be opened is set too, out of the set's bounds.
TZeroBlind ==
  /\ At("T", "zero") /\ Go("T", "collect") /\ Move("T", First)
  /\ socket_set' = {sock_tcp, sock_udp}
  /\ UNCHANGED <<tmp, sock_tcp, sock_udp, sock, source_addr, closing, list, outside,
                 undefined>>

\* A port that could not be opened is not in the set.
TZero ==
  /\ At("T", "zero") /\ Go("T", "collect") /\ Move("T", First)
  /\ socket_set' = {sock_tcp, sock_udp} \ {NoSocket}
  /\ UNCHANGED <<tmp, sock_tcp, sock_udp, sock, source_addr, closing, list, outside,
                 undefined>>

TCollect ==
  /\ At("T", "collect") /\ cur["T"] \in live
  /\ socket_set' = (socket_set \cup {socket[cur["T"]]}) \ {NoSocket}
  /\ Move("T", After(cur["T"]))
  /\ UNCHANGED <<pc, tmp, sock_tcp, sock_udp, sock, source_addr, closing, list, outside,
                 undefined>>

TCollected ==
  /\ At("T", "collect") /\ cur["T"] = NULL /\ Go("T", "select")
  /\ UNCHANGED <<cur, tmp, tvars, list, outside, undefined>>

\* select looks at the set when it is called, and again when it is woken; a closed
\* descriptor is an error.
TBlock ==
  /\ At("T", "select") /\ socket_set \subseteq Open /\ Go("T", "blocked")
  /\ UNCHANGED <<cur, tmp, tvars, list, outside, undefined>>

Readable ==
  {f \in socket_set : \/ wire[f] \in {"data", "fin", "reset", "udpdata"}
                      \/ f = sock_tcp /\ backlog
                      \/ f = sock_udp /\ dgrams # <<>>}

TWake ==
  /\ At("T", "blocked") /\ Readable # {} /\ socket_set \subseteq Open
  /\ Go("T", "accept") /\ socket_set' = Readable
  /\ UNCHANGED <<cur, tmp, sock_tcp, sock_udp, sock, source_addr, closing, list, outside,
                 undefined>>

TSelectFails ==
  /\ At("T", "select") \/ (At("T", "blocked") /\ Readable # {})
  /\ ~(socket_set \subseteq Open)
  /\ Go("T", "error")
  /\ UNCHANGED <<cur, tmp, tvars, list, outside, undefined>>

\* A mutant of TError: the server starts again without its clients.
TErrorForgets ==
  /\ At("T", "error") /\ Go("T", "init")
  /\ wire' = Closed({sock_tcp, sock_udp}) /\ backlog' = FALSE /\ dgrams' = <<>>
  /\ sock_tcp' = NoSocket /\ sock_udp' = NoSocket /\ socket_set' = {}
  /\ UNCHANGED <<cur, tmp, sock, source_addr, closing, list, undefined>>

\* _error: the ports, and whatever waits at them.  The set is not used again.
TError ==
  /\ At("T", "error") /\ Go("T", "next") /\ Move("T", First)
  /\ wire' = Closed({sock_tcp, sock_udp}) /\ backlog' = FALSE /\ dgrams' = <<>>
  /\ sock_tcp' = NoSocket /\ sock_udp' = NoSocket /\ closing' = TRUE
  /\ socket_set' = {}
  /\ UNCHANGED <<tmp, sock, source_addr, list, undefined>>

-----------------------------------------------------------------------------
(* T: new clients *)

\* socket_tcp_accept
TAccept ==
  /\ At("T", "accept") /\ sock_tcp \in socket_set /\ backlog
  /\ Go("T", "insert")
  /\ backlog' = FALSE
  /\ \E f \in Fds : Opens(f, "open") /\ sock' = f
  /\ source_addr' = NULL
  /\ UNCHANGED <<cur, tmp, sock_tcp, sock_udp, socket_set, closing, list, dgrams, undefined>>

\* Nobody waits, or accept fails: out of descriptors, or the connection is gone.
TNoAccept ==
  /\ At("T", "accept") /\ Go("T", "datagram")
  /\ backlog' = (backlog /\ sock_tcp \notin socket_set)
  /\ UNCHANGED <<cur, tmp, tvars, list, wire, dgrams, undefined>>

\* socket_udp_accept: receive until nothing is left.
TDatagram ==
  /\ At("T", "datagram") /\ sock_udp \in socket_set /\ dgrams # <<>>
  /\ Go("T", "has") /\ Move("T", First)
  /\ source_addr' = Head(dgrams) /\ dgrams' = Tail(dgrams)
  /\ UNCHANGED <<tmp, sock_tcp, sock_udp, socket_set, sock, closing, list, wire, backlog,
                 undefined>>

TNoDatagram ==
  /\ At("T", "datagram") /\ (sock_udp \notin socket_set \/ dgrams = <<>>)
  /\ Go("T", "next") /\ Move("T", First) /\ source_addr' = NULL
  /\ UNCHANGED <<tmp, sock_tcp, sock_udp, socket_set, sock, closing, list, outside,
                 undefined>>

\* A mutant of THas: the addresses are never equal.
THasDiffers ==
  /\ At("T", "has") /\ cur["T"] \in live /\ Move("T", After(cur["T"]))
  /\ UNCHANGED <<pc, tmp, tvars, list, outside, undefined>>

\* socket_udp_has_client
THas ==
  /\ At("T", "has") /\ cur["T"] \in live
  /\ IF addr[cur["T"]] = source_addr
     THEN Go("T", "datagram") /\ Move("T", NULL)
     ELSE Move("T", After(cur["T"])) /\ UNCHANGED pc
  /\ UNCHANGED <<tmp, tvars, list, outside, undefined>>

THasNot ==
  /\ At("T", "has") /\ cur["T"] = NULL /\ Go("T", "socket")
  /\ UNCHANGED <<cur, tmp, tvars, list, outside, undefined>>

\* socket_udp_client_accept; every failure is ignored by its caller.
TUdpSocket ==
  /\ At("T", "socket") /\ Go("T", "connect")
  /\ \E f \in Fds : Opens(f, "bound") /\ sock' = f
  /\ UNCHANGED <<cur, tmp, sock_tcp, sock_udp, socket_set, source_addr, closing, list,
                 backlog, dgrams, undefined>>

TUdpSocketFails ==
  /\ At("T", "socket") /\ Go("T", "datagram")
  /\ UNCHANGED <<cur, tmp, tvars, list, outside, undefined>>

TUdpConnect ==
  /\ At("T", "connect") /\ Go("T", "insert")
  /\ wire' = [wire EXCEPT ![sock] = "udp"]
  /\ UNCHANGED <<cur, tmp, tvars, list, backlog, dgrams, undefined>>

\* A mutant of TUdpConnectFails: the socket that could not be connected stays open.
TUdpConnectFailsLeaks ==
  /\ At("T", "connect") /\ Go("T", "datagram") /\ sock' = NoSocket
  /\ UNCHANGED <<cur, tmp, sock_tcp, sock_udp, socket_set, source_addr, closing, list,
                 outside, undefined>>

\* setsockopt, bind or connect fails.
TUdpConnectFails ==
  /\ At("T", "connect") /\ Go("T", "datagram")
  /\ wire' = Closed({sock}) /\ sock' = NoSocket
  /\ UNCHANGED <<cur, tmp, sock_tcp, sock_udp, socket_set, source_addr, closing, list,
                 backlog, dgrams, undefined>>

\* socket_client_add, up to the read of the head.  malloc may return the block that
\* the handler still holds; it then mistakes the new client for the old.
TInsert(n) ==
  /\ At("T", "insert") /\ n \notin live
  /\ Go("T", "publish") /\ Move("T", n)
  /\ live' = live \cup {n}
  /\ socket' = [socket EXCEPT ![n] = sock] /\ addr' = [addr EXCEPT ![n] = source_addr]
  /\ sock' = NoSocket
  /\ undefined' = (n \in {cur["H"], tmp["H"]})
  /\ UNCHANGED <<tmp, sock_tcp, sock_udp, socket_set, source_addr, closing, clients,
                 outside>>

\* The store of the head.
TPublish ==
  /\ At("T", "publish") /\ Go("T", "datagram") /\ Move("T", NULL)
  /\ clients' = <<cur["T"]>> \o clients
  /\ undefined' = Inside("H")
  /\ UNCHANGED <<tmp, tvars, socket, addr, live, outside>>

-----------------------------------------------------------------------------
(* T: socket_clients_receive *)

TReceive ==
  /\ At("T", "receive") /\ cur["T"] \in live
  /\ socket[cur["T"]] \in socket_set /\ WireOf(cur["T"]) \in {"data", "udpdata"}
  /\ wire' = [wire EXCEPT ![socket[cur["T"]]] = IF @ = "data" THEN "open" ELSE "udp"]
  /\ UNCHANGED <<pc, cur, tmp, tvars, list, backlog, dgrams, undefined>>

\* Not selected, nothing (more) to receive, or an orderly close (length 0).
TReceived ==
  /\ At("T", "receive") /\ cur["T"] \in live
  /\ \/ socket[cur["T"]] \notin socket_set
     \/ WireOf(cur["T"]) \in {"bound", "open", "fin", "udp", "deaf"}
  /\ Go("T", "next") /\ Move("T", tmp["T"])
  /\ UNCHANGED <<tmp, tvars, list, outside, undefined>>

\* A mutant of TReceiveFails: an error is taken for "nothing to receive".
TReceiveFailsIgnored ==
  /\ At("T", "receive") /\ cur["T"] \in live
  /\ socket[cur["T"]] \in socket_set /\ WireOf(cur["T"]) \in {"reset", "closed"}
  /\ Go("T", "next") /\ Move("T", tmp["T"])
  /\ UNCHANGED <<tmp, tvars, list, outside, undefined>>

TReceiveFails ==
  /\ At("T", "receive") /\ cur["T"] \in live
  /\ socket[cur["T"]] \in socket_set /\ WireOf(cur["T"]) \in {"reset", "closed"}
  /\ Go("T", "close")
  /\ UNCHANGED <<cur, tmp, tvars, list, outside, undefined>>

TNext ==
  \/ Walk("T")
  \/ TTcpInit \/ TUdpInit \/ TZero \/ TCollect \/ TCollected
  \/ TBlock \/ TWake \/ TSelectFails \/ TError
  \/ TAccept \/ TNoAccept \/ TDatagram \/ TNoDatagram \/ THas \/ THasNot
  \/ TUdpSocket \/ TUdpSocketFails \/ TUdpConnect \/ TUdpConnectFails
  \/ (\E n \in Nodes : TInsert(n)) \/ TPublish
  \/ TReceive \/ TReceived \/ TReceiveFails

-----------------------------------------------------------------------------
(* The clients *)

ClientConnects ==
  /\ ~undefined /\ sock_tcp # NoSocket /\ ~backlog /\ backlog' = TRUE
  /\ UNCHANGED <<pc, cur, tmp, tvars, list, wire, dgrams, undefined>>

\* It sends, closes, or resets the connection.
ClientTcp(f, state) ==
  /\ ~undefined
  /\ wire[f] = "open" \/ (wire[f] = "data" /\ state = "reset")
  /\ wire' = [wire EXCEPT ![f] = state]
  /\ UNCHANGED <<pc, cur, tmp, tvars, list, backlog, dgrams, undefined>>

\* The sockets connected to a source, which get its datagrams.
ConnectedTo(s) ==
  {f \in Fds : /\ wire[f] \in UdpWires
               /\ \/ f = sock /\ source_addr = s
                  \/ \E n \in live : socket[n] = f /\ addr[n] = s}

ClientSends(s) ==
  /\ ~undefined
  /\ IF ConnectedTo(s) # {}
     THEN \E f \in ConnectedTo(s) :
            wire[f] = "udp" /\ wire' = [wire EXCEPT ![f] = "udpdata"] /\ UNCHANGED dgrams
     ELSE /\ sock_udp # NoSocket /\ Len(dgrams) < MaxDgrams
          /\ dgrams' = Append(dgrams, s) /\ UNCHANGED wire
  /\ UNCHANGED <<pc, cur, tmp, tvars, list, backlog, undefined>>

\* Nothing can be sent to a source any more.
ClientDeaf(f) ==
  /\ ~undefined /\ wire[f] = "udp" /\ wire' = [wire EXCEPT ![f] = "deaf"]
  /\ UNCHANGED <<pc, cur, tmp, tvars, list, backlog, dgrams, undefined>>

Clients ==
  \/ ClientConnects
  \/ \E f \in Fds : ClientDeaf(f) \/ \E state \in {"data", "fin", "reset"} : ClientTcp(f, state)
  \/ \E s \in Sources : ClientSends(s)

Next == TNext \/ HNext \/ Clients
Spec == Init /\ [][Next]_vars /\ WF_vars(TNext)

-----------------------------------------------------------------------------
(* Properties *)

\* The parts of the program that own descriptor f.  Between the close and the store
\* of -1 (util.c:30-31) a client owns nothing, although its field says so.
Owners(f) ==
  {v \in {"sock_tcp", "sock_udp", "sock"} :
     f = CASE v = "sock_tcp" -> sock_tcp [] v = "sock_udp" -> sock_udp [] OTHER -> sock}
  \cup {<<n>> : n \in {m \in live : /\ socket[m] = f
                                    /\ \A w \in Threads : ~(pc[w] = "forget" /\ cur[w] = m)}}

\* No failure on the way (socket_udp_client_accept has four), no removal and no
\* restart of the server leaves a descriptor open that nobody will close, gives
\* one to two clients, or closes one that is still in use.
DescriptorsOwned ==
  undefined \/ \A f \in Fds : IF f \in Open THEN \E x \in Owners(f) : Owners(f) = {x}
                                           ELSE Owners(f) = {}

\* However many datagrams of one source wait at the port before its socket exists
\* (socket_server.c:207), it becomes one client: its chunks are sent once.
OneClientPerSource ==
  undefined \/
  \A i, j \in DOMAIN clients :
    addr[clients[i]] # NULL /\ addr[clients[i]] = addr[clients[j]] => i = j

\* SLIST_INIT (socket_server.c:253) forgets no client: after a failed select all
\* of them have been closed and freed, whatever the handler did meanwhile.
NobodyForgotten ==
  undefined \/ (pc["T"] = "init" => clients = <<>> /\ live = {} /\ Open = {})

\* A TCP client whose connection was reset is closed by the task alone, without
\* any data from the UART; unless senders keep one of the loops that receive until
\* nothing is left (socket_server.c:206 and 231) going for ever.
ResetIsClosed ==
  \/ \A f \in Fds : wire[f] = "reset" ~> (wire[f] # "reset" \/ undefined)
  \/ <>[](pc["T"] \in {"datagram", "has", "socket", "connect", "insert", "publish"})
  \/ <>[](pc["T"] = "receive")
=============================================================================
