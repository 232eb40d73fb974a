------------------------------ MODULE UartBus ------------------------------
(***************************************************************************)
(* src/main/uart.c with the counters of src/main/stream_stats.c and the     *)
(* default event loop: how the data of the UART reaches the interfaces, and  *)
(* the data of the interfaces the UART.  Threads:                           *)
(*   U         uart_task                                                    *)
(*   E         the event loop task, in which the read handlers run          *)
(*   Writers   other tasks that call uart_write (interfaces, uart_nmea and   *)
(*             uart_log from anywhere)                                      *)
(* A chunk stands for one result of uart_read_bytes and counts as one byte. *)
(* The event loop and the UART driver are outside the program: the queue     *)
(* copies what is posted; a post waits for room, except from the loop's own   *)
(* task, where it fails at once; the driver's transmit mutex is held while   *)
(* bytes are copied into its buffer.                                        *)
(***************************************************************************)
EXTENDS Integers, Sequences

CONSTANTS
  Writers, Suspendable,   \* the latter are suspended by other tasks
  Handlers,               \* read handlers that the interfaces register
  Blocking,               \* those that write to sockets without a send timeout
  QueueSize,
  MaxReads, MaxWrites     \* bounds of the model on the traffic

ASSUME WritersAssumption == Suspendable \subseteq Writers /\ {"U", "E"} \cap Writers = {}
ASSUME HandlersAssumption == Blocking \subseteq Handlers
ASSUME BoundsAssumption  == QueueSize \in Nat \ {0} /\ MaxReads \in Nat /\ MaxWrites \in Nat

Tasks == Writers \cup {"U", "E"}
Nobody == "nobody"

VARIABLES
  pc,
  loaded,               \* the counter that a task is incrementing, as it loaded it
  total_in, total_out,  \* stream_stats of "uart"
  queue,                \* events posted: the number of a chunk read, or WRITE
  tx_mutex,
  suspended,
  stalled,              \* handlers whose next write waits for a peer to read
  handlers,             \* the registered handlers, in the order of registration
  event, at,            \* E: the event handled and the handler that is next
  reads, writes,        \* history: chunks read and calls of uart_write begun
  sent,                 \* history: chunks accepted by the driver
  handled,              \* history: the last chunk taken by E
  got                   \* history: the last chunk that each handler got

stats   == <<loaded, total_in, total_out>>
loop    == <<queue, handlers, event, at, handled, got>>
vars    == <<pc, stats, loop, tx_mutex, suspended, stalled, reads, writes, sent>>

\* UART_EVENT_WRITE; nobody registers a handler for it.
WRITE == 0

Unregistered == -1

Increment == {"load_in", "store_in", "load_out", "store_out"}

TypeOK ==
  /\ pc \in [Tasks -> {"idle", "tx", "copy", "post", "handle"} \cup Increment]
  /\ loaded \in [Tasks -> Nat] /\ total_in \in Nat /\ total_out \in Nat
  /\ queue \in Seq(0..MaxReads) /\ Len(queue) <= QueueSize
  /\ tx_mutex \in Tasks \cup {Nobody}
  /\ suspended \subseteq Suspendable /\ stalled \subseteq Blocking
  /\ handlers \in Seq(Handlers)
  /\ event \in 0..MaxReads /\ at \in 1..(Len(handlers) + 1)
  /\ reads \in 0..MaxReads /\ writes \in 0..MaxWrites /\ sent \in 0..MaxWrites
  /\ handled \in 0..MaxReads
  /\ got \in [Handlers -> {Unregistered} \cup 0..MaxReads]

Init ==
  /\ pc = [t \in Tasks |-> "idle"]
  /\ loaded = [t \in Tasks |-> 0] /\ total_in = 0 /\ total_out = 0
  /\ queue = <<>> /\ tx_mutex = Nobody /\ suspended = {} /\ stalled = {}
  /\ handlers = <<>> /\ event = WRITE /\ at = 1
  /\ reads = 0 /\ writes = 0 /\ sent = 0 /\ handled = 0
  /\ got = [h \in Handlers |-> Unregistered]

-----------------------------------------------------------------------------
Step(t, from, to) ==
  /\ t \notin suspended
  /\ pc[t] = from
  /\ pc' = [pc EXCEPT ![t] = to]

\* esp_event_post by a task other than E waits until there is room.
Post(e) == Len(queue) < QueueSize /\ queue' = Append(queue, e)

(* stream_stats_increment, which both U and the callers of uart_write run.  The *)
(* counters are not locked: each is loaded, added to and stored.               *)

\* A mutant of In: what is written counts as read, too.
InBoth(t) == 1

In(t)  == IF t = "U" THEN 1 ELSE 0
Out(t) == IF t = "U" THEN 0 ELSE 1

LoadIn(t) ==
  /\ Step(t, "load_in", "store_in")
  /\ loaded' = [loaded EXCEPT ![t] = total_in]
  /\ UNCHANGED <<total_in, total_out, loop, tx_mutex, suspended, stalled, reads, writes, sent>>

StoreIn(t) ==
  /\ Step(t, "store_in", "load_out")
  /\ total_in' = loaded[t] + In(t)
  /\ UNCHANGED <<loaded, total_out, loop, tx_mutex, suspended, stalled, reads, writes, sent>>

LoadOut(t) ==
  /\ Step(t, "load_out", "store_out")
  /\ loaded' = [loaded EXCEPT ![t] = total_out]
  /\ UNCHANGED <<total_in, total_out, loop, tx_mutex, suspended, stalled, reads, writes, sent>>

StoreOut(t) ==
  /\ Step(t, "store_out", "post")
  /\ total_out' = loaded[t] + Out(t)
  /\ loaded' = [loaded EXCEPT ![t] = 0]
  /\ UNCHANGED <<total_in, loop, tx_mutex, suspended, stalled, reads, writes, sent>>

IncrementNext(t) == LoadIn(t) \/ StoreIn(t) \/ LoadOut(t) \/ StoreOut(t)

-----------------------------------------------------------------------------
(* U: uart_task *)

\* uart_read_bytes returns data.
URead ==
  /\ Step("U", "idle", "load_in")
  /\ reads < MaxReads /\ reads' = reads + 1
  /\ UNCHANGED <<stats, loop, tx_mutex, suspended, stalled, writes, sent>>

\* A mutant of UPost: the post does not wait for room.
UPostNoWait ==
  /\ Step("U", "post", "idle")
  /\ queue' = IF Len(queue) < QueueSize THEN Append(queue, reads) ELSE queue
  /\ UNCHANGED <<stats, handlers, event, at, handled, got, tx_mutex, suspended, stalled, reads,
                 writes, sent>>

\* A mutant of UPost: the queue is never full.
UPostUnbounded ==
  /\ Step("U", "post", "idle")
  /\ queue' = Append(queue, reads)
  /\ UNCHANGED <<stats, handlers, event, at, handled, got, tx_mutex, suspended, stalled, reads,
                 writes, sent>>

UPost ==
  /\ Step("U", "post", "idle")
  /\ Post(reads)
  /\ UNCHANGED <<stats, handlers, event, at, handled, got, tx_mutex, suspended, stalled, reads,
                 writes, sent>>

-----------------------------------------------------------------------------
(* uart_write *)

\* The caller, a writer or a handler that E runs, enters uart_write.
Write(t, from) ==
  /\ Step(t, from, "tx")
  /\ writes < MaxWrites /\ writes' = writes + 1
  /\ UNCHANGED <<stats, loop, tx_mutex, suspended, stalled, reads, sent>>

\* uart_write_bytes takes the mutex ...
TxTake(t) ==
  /\ Step(t, "tx", "copy")
  /\ tx_mutex = Nobody /\ tx_mutex' = t
  /\ UNCHANGED <<stats, loop, suspended, stalled, reads, writes, sent>>

\* ... and returns it when the data are in the buffer.
TxCopy(t) ==
  /\ Step(t, "copy", "load_in")
  /\ tx_mutex' = Nobody
  /\ sent' = sent + 1
  /\ UNCHANGED <<stats, loop, suspended, stalled, reads, writes>>

WPost(w) ==
  /\ Step(w, "post", "idle")
  /\ Post(WRITE)
  /\ UNCHANGED <<stats, handlers, event, at, handled, got, tx_mutex, suspended, stalled, reads,
                 writes, sent>>

TxNext(t) == TxTake(t) \/ TxCopy(t) \/ IncrementNext(t)

-----------------------------------------------------------------------------
(* E: the event loop *)

\* The loop after the handlers before position i have run.
GoOn(from, i) ==
  /\ at' = IF i > Len(handlers) THEN 1 ELSE i
  /\ Step("E", from, IF i > Len(handlers) THEN "idle" ELSE "handle")

\* The next event: its handlers are those registered now.
ETake ==
  /\ queue # <<>> /\ queue' = Tail(queue)
  /\ event' = Head(queue)
  /\ IF event' = WRITE
       THEN Step("E", "idle", "idle") /\ UNCHANGED <<at, handled>>
       ELSE GoOn("idle", 1) /\ handled' = event'
  /\ UNCHANGED <<stats, handlers, got, tx_mutex, suspended, stalled, reads, writes, sent>>

\* A handler gets the chunk and returns, once none of its writes waits for a peer.
\* What it writes is in the interface's model.
EHandle ==
  /\ GoOn("handle", at + 1)
  /\ handlers[at] \notin stalled
  /\ got' = [got EXCEPT ![handlers[at]] = event]
  /\ UNCHANGED <<stats, queue, handlers, event, handled, tx_mutex, suspended, stalled, reads,
                 writes, sent>>

\* A mutant of EPost: the event loop waits for room in its own queue.
EPostWaits ==
  /\ GoOn("post", at)
  /\ Post(WRITE)
  /\ UNCHANGED <<stats, handlers, event, handled, got, tx_mutex, suspended, stalled, reads,
                 writes, sent>>

\* A handler's uart_write ends: its event is dropped if the queue is full.
EPost ==
  /\ GoOn("post", at)
  /\ queue' = IF Len(queue) < QueueSize THEN Append(queue, WRITE) ELSE queue
  /\ UNCHANGED <<stats, handlers, event, handled, got, tx_mutex, suspended, stalled, reads,
                 writes, sent>>

-----------------------------------------------------------------------------
\* uart_register_read_handler, by the task of an interface.  The event loop's lock
\* lets it happen between two events only.
Register(h) ==
  /\ got[h] = Unregistered /\ pc["E"] = "idle"
  /\ handlers' = Append(handlers, h)
  /\ got' = [got EXCEPT ![h] = handled]
  /\ UNCHANGED <<pc, stats, queue, event, at, handled, tx_mutex, suspended, stalled, reads,
                 writes, sent>>

\* vTaskSuspend by another task, wherever w is: wifi.c:125 and 437 and
\* interface/ntrip_server.c:176 do it.
Suspend(w) ==
  /\ suspended' = suspended \cup {w}
  /\ UNCHANGED <<pc, stats, loop, tx_mutex, stalled, reads, writes, sent>>

Resume(w) ==
  /\ suspended' = suspended \ {w}
  /\ UNCHANGED <<pc, stats, loop, tx_mutex, stalled, reads, writes, sent>>

\* The peers of a handler's sockets stop reading, and read again.
Stall(h) ==
  /\ stalled' = stalled \cup {h}
  /\ UNCHANGED <<pc, stats, loop, tx_mutex, suspended, reads, writes, sent>>

Unstall(h) ==
  /\ stalled' = stalled \ {h}
  /\ UNCHANGED <<pc, stats, loop, tx_mutex, suspended, reads, writes, sent>>

UNext    == URead \/ UPost \/ IncrementNext("U")
ENext    == ETake \/ EHandle \/ Write("E", "handle") \/ TxNext("E") \/ EPost
WNext(w) == Write(w, "idle") \/ TxNext(w) \/ WPost(w)

Next ==
  \/ UNext \/ ENext
  \/ \E w \in Writers : WNext(w)
  \/ \E w \in Suspendable : Suspend(w) \/ Resume(w)
  \/ \E h \in Handlers : Register(h)
  \/ \E h \in Blocking : Stall(h) \/ Unstall(h)

\* The scheduler runs every task; the mutex goes to the waiting task of the
\* highest priority, which is E.  A write that waits goes on whenever the peer reads.
\* Nothing makes a task suspended run again, or a peer read.
Fairness ==
  /\ WF_vars(UPost \/ IncrementNext("U"))
  /\ WF_vars(ETake \/ TxCopy("E") \/ IncrementNext("E") \/ EPost)
  /\ SF_vars(TxTake("E")) /\ SF_vars(EHandle)
  /\ \A w \in Writers : WF_vars(TxNext(w) \/ WPost(w))

Spec == Init /\ [][Next]_vars /\ Fairness

-----------------------------------------------------------------------------
(* Properties *)

\* The bus delivers what Delivery promises: however the queue fills up with the
\* events of writers, no handler misses a chunk, gets one twice or out of order.
D == INSTANCE Delivery WITH produced <- reads
Delivers == D!Spec

\* The totals may lose counts to each other's unlocked updates, but never show
\* more than was read and sent.
NeverOvercounts == total_in <= reads /\ total_out <= sent

\* Every chunk read reaches every handler: neither a full queue nor the handlers' own
\* writes stop the loop for good.  Two things do, and are excluded: a task that stays
\* suspended inside the driver, where it holds the transmit mutex, and a client that
\* takes no more data from a write without a timeout (ntrip_caster.c:67 and
\* socket_server.c:102), which holds up the handlers of all interfaces.
AllDelivered ==
  <>[](tx_mutex \notin suspended) /\ (\A h \in Handlers : []<>(h \notin stalled)) =>
    \A h \in Handlers, c \in 1..MaxReads :
      [](reads >= c /\ got[h] # Unregistered => <>(got[h] >= c))
=============================================================================
