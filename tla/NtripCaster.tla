----------------------------- MODULE NtripCaster -----------------------------
(***************************************************************************)
(* src/main/interface/ntrip_caster.c: two threads and the list they share   *)
(* without a lock:                                                          *)
(*   T  ntrip_caster_task, which accepts clients and inserts them           *)
(*   H  ntrip_caster_uart_handler, run by the event loop for each chunk     *)
(*      read from the UART; it writes to every client and removes those     *)
(*      whose write fails                                                   *)
(* The list is the intrusive SLIST of sys/queue.h, a step per access to a   *)
(* word that both threads use.  What follows an access to freed memory is    *)
(* undefined, and not modelled: the program stops.                          *)
(***************************************************************************)
EXTENDS Integers, Sequences, SequencesExt

CONSTANTS
  Nodes,    \* heap blocks that malloc can return
  Fds,      \* socket descriptors that accept can return
  NULL

ASSUME NullAssumption == NULL \notin Nodes
ASSUME FdsAssumption  == Fds \subseteq Nat

NoSocket == -1

VARIABLES
  tpc, hpc,      \* program counters
  sock,          \* the listening socket is open
  sock_client,   \* T: the client being accepted
  tnode,         \* T: the node being inserted
  client,        \* H: loop variable
  client_tmp,    \* H: the next client, saved before the body
  cursor,        \* H: where SLIST_REMOVE has got to
  head,          \* caster_clients_list
  next, socket,  \* fields of the nodes
  live,          \* nodes allocated and not freed
  peer,          \* outside: the other end of each descriptor
  corrupt,       \* freed or null memory was used
  registered,    \* history: clients inserted and not being removed
  order,         \* history: the clients that a list under a lock would hold
  due,           \* history: clients that H owes the current chunk
  overlapped     \* history: an insertion overlapped a removal of the head

tvars   == <<tpc, sock, sock_client, tnode>>
hvars   == <<hpc, client, client_tmp, cursor, due>>
list    == <<head, next, socket, live>>
history == <<registered, order, overlapped>>
vars    == <<tvars, hvars, list, peer, corrupt, history>>

\* closed: not a descriptor; silent: nothing received from it yet; open: it reads
\* what is written; stalled: it reads nothing and its window is full; gone: it has
\* reset the connection.
Peers == {"closed", "silent", "open", "stalled", "gone"}

TPC == {"init", "destroy", "accept", "read", "refuse", "welcome", "malloc", "link",
        "publish", "release"}
HPC == {"idle", "next", "write", "close", "remove", "pop", "store", "search", "free"}

TypeOK ==
  /\ tpc \in TPC /\ hpc \in HPC
  /\ sock \in BOOLEAN /\ corrupt \in BOOLEAN /\ overlapped \in BOOLEAN
  /\ sock_client \in Fds \cup {NoSocket}
  /\ tnode \in Nodes \cup {NULL}
  /\ IF hpc = "idle" THEN client = NULL ELSE client \in Nodes
  /\ client_tmp \in Nodes \cup {NULL} /\ cursor \in Nodes \cup {NULL}
  /\ head \in Nodes \cup {NULL}
  /\ next \in [Nodes -> Nodes \cup {NULL}]
  /\ socket \in [Nodes -> Fds \cup {NoSocket}]
  /\ live \subseteq Nodes
  /\ peer \in [Fds -> Peers]
  /\ registered \subseteq Nodes /\ due \subseteq Nodes
  /\ order \in Seq(Nodes)

Init ==
  /\ tpc = "init" /\ sock = FALSE /\ sock_client = NoSocket /\ tnode = NULL
  /\ hpc = "idle" /\ client = NULL /\ client_tmp = NULL /\ cursor = NULL
  /\ head = NULL /\ live = {}
  /\ next = [n \in Nodes |-> NULL] /\ socket = [n \in Nodes |-> NoSocket]
  /\ peer = [f \in Fds |-> "closed"]
  /\ corrupt = FALSE /\ overlapped = FALSE
  /\ registered = {} /\ due = {} /\ order = <<>>

-----------------------------------------------------------------------------
\* What a write to descriptor f meets.
PeerOf(f) == IF f = NoSocket THEN "closed" ELSE peer[f]

\* util.c destroy_socket: nothing to do without a socket.
Close(f) == peer' = IF f = NoSocket THEN peer ELSE [peer EXCEPT ![f] = "closed"]

\* T is between its read and its write of the head.
Inserting == tpc = "publish"
\* H is between finding its client at the head and its write of the head.
Popping == hpc \in {"pop", "store"}

-----------------------------------------------------------------------------
(* T: ntrip_caster_task *)

T(from, to) == ~corrupt /\ tpc = from /\ tpc' = to

\* ntrip_caster_socket_init; its result is ignored.
TSocketInit ==
  /\ T("init", "destroy")
  /\ sock' \in BOOLEAN
  /\ UNCHANGED <<sock_client, tnode, hvars, list, peer, corrupt, history>>

TDestroyClient ==
  /\ T("destroy", "accept")
  /\ Close(sock_client)
  /\ sock_client' = NoSocket
  /\ UNCHANGED <<sock, tnode, hvars, list, corrupt, history>>

TAccept(f) ==
  /\ T("accept", "read")
  /\ sock /\ peer[f] = "closed"
  /\ sock_client' = f
  /\ peer' = [peer EXCEPT ![f] = "silent"]
  /\ UNCHANGED <<sock, tnode, hvars, list, corrupt, history>>

\* No listening socket, or no descriptor or memory left.
TAcceptFails ==
  /\ T("accept", "init")
  /\ sock' = FALSE
  /\ UNCHANGED <<sock_client, tnode, hvars, list, peer, corrupt, history>>

\* The read has no timeout.  The request is refused when it is no GET, asks for
\* another mountpoint or for the source table, or is not authorised.
TReadRequest ==
  /\ T("read", "welcome") \/ T("read", "refuse")
  /\ peer[sock_client] \in {"open", "stalled"}
  /\ UNCHANGED <<sock, sock_client, tnode, hvars, list, peer, corrupt, history>>

TReadFails ==
  /\ T("read", "destroy")
  /\ peer[sock_client] = "gone"
  /\ UNCHANGED <<sock, sock_client, tnode, hvars, list, peer, corrupt, history>>

\* The answer is written, or its failure is logged; either way the socket goes.
TRefuse ==
  /\ T("refuse", "destroy")
  /\ peer[sock_client] # "stalled"
  /\ UNCHANGED <<sock, sock_client, tnode, hvars, list, peer, corrupt, history>>

\* "ICY 200 OK".
TWelcome ==
  /\ T("welcome", "malloc")
  /\ peer[sock_client] = "open"
  /\ UNCHANGED <<sock, sock_client, tnode, hvars, list, peer, corrupt, history>>

TWelcomeFails ==
  /\ T("welcome", "destroy")
  /\ peer[sock_client] = "gone"
  /\ UNCHANGED <<sock, sock_client, tnode, hvars, list, peer, corrupt, history>>

TMalloc(n) ==
  /\ T("malloc", "link")
  /\ n \notin live
  /\ tnode' = n
  /\ live' = live \cup {n}
  /\ socket' = [socket EXCEPT ![n] = sock_client]
  /\ UNCHANGED <<sock, sock_client, hvars, head, next, peer, corrupt, history>>

\* SLIST_INSERT_HEAD: the new node points to the head ...
TLink ==
  /\ T("link", "publish")
  /\ next' = [next EXCEPT ![tnode] = head]
  /\ overlapped' = (overlapped \/ Popping)
  /\ UNCHANGED <<sock, sock_client, tnode, hvars, head, socket, live, peer, corrupt,
                 registered, order>>

\* A mutant of TPublish: the new node replaces the list.
TPublishAlone ==
  /\ T("publish", "release")
  /\ head' = tnode
  /\ next' = [next EXCEPT ![tnode] = NULL]
  /\ registered' = registered \cup {tnode}
  /\ order' = <<tnode>> \o order
  /\ overlapped' = (overlapped \/ Popping)
  /\ UNCHANGED <<sock, sock_client, tnode, hvars, socket, live, peer, corrupt>>

\* ... and becomes the head.
TPublish ==
  /\ T("publish", "release")
  /\ head' = tnode
  /\ registered' = registered \cup {tnode}
  /\ order' = <<tnode>> \o order
  /\ overlapped' = (overlapped \/ Popping)
  /\ UNCHANGED <<sock, sock_client, tnode, hvars, next, socket, live, peer, corrupt>>

\* A mutant of TRelease: the loop closes the socket that H uses.
TReleaseForgotten ==
  /\ T("release", "destroy")
  /\ tnode' = NULL
  /\ UNCHANGED <<sock, sock_client, hvars, list, peer, corrupt, history>>

TRelease ==
  /\ T("release", "destroy")
  /\ sock_client' = NoSocket
  /\ tnode' = NULL
  /\ UNCHANGED <<sock, hvars, list, peer, corrupt, history>>

TNext ==
  \/ TSocketInit \/ TDestroyClient \/ TAcceptFails
  \/ \E f \in Fds : TAccept(f)
  \/ TReadRequest \/ TReadFails \/ TRefuse \/ TWelcome \/ TWelcomeFails
  \/ \E n \in Nodes : TMalloc(n)
  \/ TLink \/ TPublish \/ TRelease

-----------------------------------------------------------------------------
(* H: ntrip_caster_uart_handler *)

H(from, to) == ~corrupt /\ hpc = from /\ hpc' = to

\* From state from, the loop goes on with client c, or ends.
Visit(from, c) ==
  /\ ~corrupt /\ hpc = from
  /\ client' = c
  /\ hpc' = IF c = NULL THEN "idle" ELSE "next"

\* A mutant of HChunk: the first client is not compared with null.
HChunkNoNullCheck ==
  /\ H("idle", "next")
  /\ client' = head
  /\ due' = registered
  /\ UNCHANGED <<client_tmp, cursor, tvars, list, peer, corrupt, history>>

\* A chunk was read from the UART.
HChunk ==
  /\ Visit("idle", head)
  /\ due' = registered
  /\ UNCHANGED <<client_tmp, cursor, tvars, list, peer, corrupt, history>>

HSaveNext ==
  /\ H("next", "write")
  /\ client_tmp' = next[client]
  /\ corrupt' = (client \notin live)
  /\ UNCHANGED <<client, cursor, due, tvars, list, peer, history>>

\* The write blocks while the client's window is full.
HWrite ==
  /\ Visit("write", client_tmp)
  /\ PeerOf(socket[client]) = "open"
  /\ due' = due \ {client}
  /\ UNCHANGED <<client_tmp, cursor, tvars, list, peer, corrupt, history>>

\* A mutant of HWriteFails: the client is kept.
HWriteFailsIgnored ==
  /\ Visit("write", client_tmp)
  /\ PeerOf(socket[client]) \in {"gone", "closed"}
  /\ due' = due \ {client}
  /\ UNCHANGED <<client_tmp, cursor, tvars, list, peer, corrupt, history>>

\* ntrip_caster_client_remove is entered.
HWriteFails ==
  /\ H("write", "close") /\ PeerOf(socket[client]) \in {"gone", "closed"}
  /\ due' = due \ {client}
  /\ registered' = registered \ {client}
  /\ UNCHANGED <<client, client_tmp, cursor, tvars, list, peer, corrupt, order, overlapped>>

HClose ==
  /\ H("close", "remove")
  /\ Close(socket[client])
  /\ socket' = [socket EXCEPT ![client] = NoSocket]
  /\ UNCHANGED <<client, client_tmp, cursor, due, tvars, head, next, live, corrupt, history>>

\* SLIST_REMOVE of the first client: found at the head ...
HFindAtHead ==
  /\ H("remove", "pop") /\ head = client
  /\ overlapped' = (overlapped \/ Inserting)
  /\ UNCHANGED <<client, client_tmp, cursor, due, tvars, list, peer, corrupt,
                 registered, order>>

\* ... the successor of what is the head by now is read ...
HReadSecond ==
  /\ H("pop", "store")
  /\ cursor' = next[head]
  /\ corrupt' = (head \notin live)
  /\ UNCHANGED <<client, client_tmp, due, tvars, list, peer, history>>

\* ... and stored as the head.
HStoreHead ==
  /\ H("store", "free")
  /\ head' = cursor /\ cursor' = NULL
  /\ order' = RemoveFirst(order, client)
  /\ UNCHANGED <<client, client_tmp, due, tvars, next, socket, live, peer, corrupt,
                 registered, overlapped>>

\* SLIST_REMOVE of another client: the node before it is looked for from the head
\* (a search that leaves the list dereferences null or freed memory) ...
HSearch ==
  /\ H("remove", "search") /\ head # client
  /\ cursor' = head
  /\ corrupt' = (head = NULL)
  /\ UNCHANGED <<client, client_tmp, due, tvars, list, peer, history>>

HSearchOn ==
  /\ H("search", "search") /\ next[cursor] # client
  /\ cursor' = next[cursor]
  /\ corrupt' = (cursor \notin live \/ next[cursor] = NULL)
  /\ UNCHANGED <<client, client_tmp, due, tvars, list, peer, history>>

\* ... and made to point to the node after it.
HUnlink ==
  /\ H("search", "free") /\ next[cursor] = client
  /\ next' = [next EXCEPT ![cursor] = next[client]]
  /\ cursor' = NULL
  /\ corrupt' = (cursor \notin live)
  /\ order' = RemoveFirst(order, client)
  /\ UNCHANGED <<client, client_tmp, due, tvars, head, socket, live, peer,
                 registered, overlapped>>

\* A mutant of HFree: the pass ends with the first removal.
HFreeReturns ==
  /\ H("free", "idle")
  /\ live' = live \ {client}
  /\ client' = NULL
  /\ UNCHANGED <<client_tmp, cursor, due, tvars, head, next, socket, peer, corrupt, history>>

\* A mutant of HFree: after a removal the traversal begins again.
HFreeRestarts ==
  /\ Visit("free", head)
  /\ live' = live \ {client}
  /\ UNCHANGED <<client_tmp, cursor, due, tvars, head, next, socket, peer, corrupt, history>>

HFree ==
  /\ Visit("free", client_tmp)
  /\ live' = live \ {client}
  /\ UNCHANGED <<client_tmp, cursor, due, tvars, head, next, socket, peer, corrupt, history>>

HNext ==
  \/ HChunk \/ HSaveNext \/ HWrite \/ HWriteFails \/ HClose
  \/ HFindAtHead \/ HReadSecond \/ HStoreHead \/ HSearch \/ HSearchOn \/ HUnlink \/ HFree

-----------------------------------------------------------------------------
(* Outside: the clients *)

Becomes(f, from, to) ==
  /\ ~corrupt /\ peer[f] \in from
  /\ peer' = [peer EXCEPT ![f] = to]
  /\ UNCHANGED <<tvars, hvars, list, corrupt, history>>

SendRequest(f) == Becomes(f, {"silent"}, "open")
Stall(f)       == Becomes(f, {"open"}, "stalled")
Resume(f)      == Becomes(f, {"stalled"}, "open")
Reset(f)       == Becomes(f, {"silent", "open", "stalled"}, "gone")

PeerNext == \E f \in Fds : SendRequest(f) \/ Stall(f) \/ Resume(f) \/ Reset(f)

Next == TNext \/ HNext \/ PeerNext

\* The scheduler runs the tasks; the receiver on the UART keeps sending.
Fairness == WF_vars(TNext) /\ WF_vars(HNext)

Spec == Init /\ [][Next]_vars /\ Fairness

-----------------------------------------------------------------------------
(* Properties *)

\* Unless an insertion overlapped a removal of the head, the pointers spell out
\* the list that two critical sections would have built, and every node on it is
\* allocated.
ListIntact ==
  overlapped \/
    /\ ~corrupt
    /\ head = IF order = <<>> THEN NULL ELSE order[1]
    /\ \A i \in 1..Len(order) :
         /\ order[i] \in live
         /\ next[order[i]] = IF i = Len(order) THEN NULL ELSE order[i + 1]

\* Unless an insertion overlapped a removal of the head, a pass of the handler has
\* written the chunk to every client that was registered when the chunk came and
\* whose connection works, whatever was inserted and removed meanwhile.
EveryClientServed ==
  overlapped \/ (hpc = "idle" => due = {})

\* The same without the proviso: "Socket will now be dealt with by
\* ntrip_caster_uart_handler" (ntrip_caster.c:225).
DealtWithByHandler == hpc = "idle" => due = {}

\* Unless an insertion overlapped a removal of the head, every open descriptor has
\* an owner that will close it, the accept loop or one node of the list, and never
\* two once the loop has given it away.
OneOwner ==
  overlapped \/
    \A f \in Fds : peer[f] # "closed" =>
      LET owners == {n \in live : socket[n] = f}
      IN  /\ owners # {} \/ sock_client = f
          /\ \A m, n \in owners : m = n
          /\ (owners # {} /\ sock_client = f) =>
               tpc \in {"link", "publish", "release"} /\ owners = {tnode}

\* No client gets a chunk twice, or a chunk that came before it was registered.
NoChunkTwice ==
  [][HWrite => overlapped \/ client \in due]_vars

\* A list from client c on.
From(s, c) ==
  LET at == {i \in 1..Len(s) : s[i] = c}
  IN  IF at = {} THEN <<>> ELSE SubSeq(s, Min(at), Len(s))

\* What the pass has before it: its client, or after a removal the one it has saved.
Todo == CASE hpc = "idle" -> <<>>
          [] hpc = "free" -> From(order, client_tmp)
          [] OTHER        -> From(order, client)

\* The caster keeps what Broadcast promises until an insertion overlaps a removal of
\* the head: a chunk is written to the clients that were on the list when it came, in
\* order and once each (ntrip_caster.c:66-76), although the list has no lock, others
\* are inserted meanwhile and those whose write fails are removed from under the loop.
Broadcasts == INSTANCE Broadcast WITH Clients <- Nodes, clients <- order, todo <- Todo,
                                     damaged <- overlapped
Serves == Broadcasts!Spec

\* If from some time on no client stalls, a client that has reset the connection is
\* closed in the end, so that its descriptor can be accepted again.
GoneIsClosed ==
  (\A f \in Fds : <>[](peer[f] # "stalled")) =>
    \A f \in Fds : [](peer[f] = "gone" => <>(peer[f] # "gone" \/ overlapped))
=============================================================================
