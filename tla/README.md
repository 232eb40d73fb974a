# A verification project for esp32-xbee

This directory holds TLA+ models of the firmware in `src/main`, TLC
configurations that check them on small instances, and proofs of their main
invariants for every instance, checked by TLAPS.  Everything is translated from
the C sources; paths below are relative to `src/main` unless they say otherwise.

    tlc -workers 2 -config MCWifi.cfg MCWifi.tla     # one run
    tlapm Wifi_proof.tla                             # one proof module

## 1. The system

The firmware turns a GNSS receiver on a UART into a network device.  FreeRTOS runs
on both cores of an ESP32 (`CONFIG_FREERTOS_UNICORE` is not set), so tasks
interleave at every memory access, whatever their priorities.  There are almost no
locks: tasks share globals, event-group bits, lists and each other's
suspend/resume state.

| Component | State | Operations | Talks to |
|---|---|---|---|
| UART and bus (`uart.c`) | port, log-forward flag, handlers in the event loop | `uart_task`, `uart_write`, `uart_nmea`, `uart_log`, register | event loop, statistics, everyone |
| Stream statistics (`stream_stats.c`) | totals, rates, list of counters | increment, averaging task, getters | UART, interfaces, web server |
| Reconnect back-off (`retry.c`) | call counter and parameters per handle | init, delay, reset | WiFi, NTRIP server and client, socket client |
| WiFi (`wifi.c`) | event-group bits, `sta_connected`, device list, two tasks that suspend and resume | event handlers, reconnect and status task, waits, getters, scan | driver, esp_netif, interfaces, web server |
| NTRIP server (`interface/ntrip_server.c`) | `sock`, three bits, keep-alive count | connect loop, sleep task, UART handler | back-off, WiFi, UART |
| NTRIP caster (`interface/ntrip_caster.c`) | list of clients, listening socket | accept loop, UART handler | UART |
| NTRIP client (`interface/ntrip_client.c`) | `sock`, ready bit, last GGA | connect and read loop, GGA task, UART handler | back-off, WiFi, UART |
| Socket server (`interface/socket_server.c`) | list of TCP and UDP clients | select loop, UART handler | UART |
| Socket client (`interface/socket_client.c`) | `sock`, connect message | connect and read loop, UART handler | back-off, WiFi, UART |
| Configuration (`config.c`) | NVS items and their defaults | get, set, commit, reset, restart | everyone |
| Web server (`web_server.c`) | none of its own | files, settings, status, log | configuration, WiFi, statistics, log |
| Web page (`src/www/index.html`) | the values it was sent, as its user edits them | show, submit | web server |
| Status LED (`status_led.c`) | list of colours | add, remove, LED task | interfaces, WiFi |
| Log (`log.c`), core dump, NMEA, utilities | ring buffer | log hook, receive | web server, UART |
| Start-up (`main.c`) | none | boot sequence, reset button | all |

`interface/ntrip2_*.c` are not compiled (they are missing from `CMakeLists.txt`).

What is hard in this code, in the order of importance:

* **Two or three threads per interface without locks.**  Each interface has its own
  task and a UART handler that the event loop runs; both use, close and replace the
  same socket or list.
* **Suspend and resume as signals.**  A `vTaskResume` before the `vTaskSuspend` it
  answers is lost; a late one hits the next wait; a task suspended by another may
  hold a driver mutex.
* **Stale reads.**  The event bits are copied once per handler call, the access
  point's device list is read when an event is handled.
* **One bounded event queue** for chunks, write notifications and driver events,
  filled by handlers of the very loop that empties it.
* **Failures everywhere**: no address, refused or lost connections, clients that
  stall, descriptors that run out.

`PROJECT.json` lists each of these at its line, with the properties that cover it.

What makes each component correct, in a sentence each: the *back-off* never waits
past its cap or table, never gets shorter while failing, and always pauses after a
failure; the *NTRIP server* announces readiness only for an accepted connection,
reconnects whenever there is data and a caster, and sends no data elsewhere; the
*WiFi bits* that others wait for agree with the driver, and a disconnected station
is connected again; the *caster* serves each registered client each chunk once and
closes the dead; the *bus* delivers every chunk to every handler in order and
cannot stop itself; the *client* feeds corrections to the UART only from the
current connection and reports its position only over it; the *socket server's*
list survives its two threads; *configuration* updates survive a restart.

## 2. The modules

| Module | Models |
|---|---|
| `RetryOps` | `retry.c` as operators on a handle, shared by the modules below |
| `Retry` | one caller of the back-off: any sequence of delays and resets |
| `NtripServer` | server task T, sleep task S, UART handler H |
| `Wifi` | end of `wifi_init` M, event loop E, reconnect task R, status task W, and driver, esp_netif and devices as environment |
| `NtripClient` | client task T, position task G, UART handler H |
| `Broadcast` | abstract: what the caster promises its clients, each operation on the list in one step |
| `NtripCaster` | accept task T, UART handler H, and the clients as environment; implements `Broadcast` until an overlap |
| `Delivery` | abstract: what the bus promises its handlers |
| `UartBus` | `uart_task` U, event loop E, writers, transmit mutex, queue, unlocked counters; implements `Delivery` |
| `SocketServer` | select loop T, UART handler H, and TCP and UDP clients as environment |
| `Settings` | web server W, restart task R, reset button B, an interface that reads T, power losses |
| `MC...` | the small instances |
| `..._proof` | theorems and proofs |

### Conventions

A thread has a program counter and its actions are named for it by their first letter.
One action is one access to state that another thread writes, or one FreeRTOS,
socket or driver call.  Private computations belong to the action before them.
Variables have the names of the C globals.  Where a call has an effect on
another thread (`xEventGroupSetBits` releases a waiter, `vTaskResume`), the
effect is part of the caller's action.  Texts, LEDs and traffic counters of the
interfaces are left out; they influence nothing that is modelled.  `malloc` succeeds.

### RetryOps, Retry

The handle is the C struct; `attempts` counts modulo `AttemptsMod` (2^16).
`DelaysOffset` is what the loop in `retry_init` computes, described by its result:
the number of leading table entries below `short_delay`.

### NtripServer

`sock` is a descriptor or `NoSock`; `wire[fd]` says how far the handshake has got
on a descriptor and `alive[fd]` whether TCP still believes in it.
`destroy_socket(&sock)` is two actions, the close and the store of -1, in both
threads that run it, because it works on a shared global (`util.c:27-32`).  H's
snapshot `event_bits` is `hbits`.  `data_keep_alive +=` is a load and a store.  The
sleep task's delay of one tick is its freedom to stay at `check`.
`net` is the environment: no address, an address, a caster that serves.

### NtripClient

The conventions of `NtripServer`.  The position task G is created and deleted by T; `gpc = "none"` while
it does not exist (the invariant `TornDown` says that there is never a second one to stand for).
`peer[fd]` is the other end of a connection: `open`; `fin` after an orderly close, when reads return 0 and
sends still succeed; `poked` once something was sent to it after that; `reset` when every call fails.  After an
orderly close the next `read` may return 0 again or an error: that is the TCP/IP stack's business, and the
model allows both.  A read may also time out at any time (`SO_RCVTIMEO` is 10 s), which ends the connection.
Of `nmea_gga_latest` only matters whether it is empty.

### Wifi

Handlers are split at every call that another task can observe.  esp_netif's own
handlers, registered first, run in the first action of `HandleStaConnected` and
`HandleStaDisconnected`.  The driver posts to a queue of `QueueSize` events and
waits when it is full.  A lost link, an address that arrives for a link already
lost, and esp_netif's IP-lost timer all happen at any time.

### NtripCaster, Broadcast

The list is the real one: `head`, and `next` and `socket` per heap block, a step for
each word that both threads touch.  `SLIST_INSERT_HEAD` is `TLink`, `TPublish`;
`SLIST_REMOVE` is `HFindAtHead`, `HReadSecond`, `HStoreHead` for the first element and
`HSearch`, `HSearchOn`, `HUnlink` for another.  The history variable `order` is the list
that the same operations would build under a lock; `due` is who is still owed the
current chunk.  `overlapped` becomes true when an insertion's window (between the
read of the head and its store) overlaps a removal's window (between finding the client at
the head and the store of the head).  Use of freed memory sets `corrupt`; behaviour is undefined after
it, so the model stops there, and the runs do not check for deadlock.

`Broadcast` says: a chunk goes to the clients that are on the list when it comes, in the order of the list
and to each once; a client whose write fails leaves the list, a new one becomes its first, and neither
changes what the pass has before it.  The refinement mapping is `clients <- order`,
`todo <- Todo` (the list from the pass's client on, or after a removal from the one it has saved) and `damaged <- overlapped`;
once the list is damaged `Broadcast` promises nothing.

### UartBus, Delivery

Chunks are numbered and count as one byte.  Posting waits for room, except in the
event loop's own task, where ESP-IDF does not wait and the event is dropped.
`uart_write` takes the driver's transmit mutex, then updates the counters with
unlocked loads and stores, then posts; a handler may call it from within E.  Any
writer in `Suspendable` may be suspended wherever it is.  Registration happens
between two events, because dispatch holds the loop's lock.  A handler in `Blocking` writes to accepted sockets, which
have no send timeout (`ntrip_caster.c:67`, `socket_server.c:102`): while it is in `stalled` a peer of its
does not read, and the handler does not return, nor does the loop go on for any interface.  `Delivery` says: from its
registration a handler gets every chunk, in order, once.  The refinement mapping is
`produced <- reads`, with the history variable `got`.

### SocketServer

The second component with a list that two threads change without a lock.  What becomes of the words of such a
list is `NtripCaster`'s subject; here an insertion or a removal takes effect in one step, and if the
other thread is inside an operation of its own at that step, or a thread follows a pointer to a freed block, or
`malloc` returns a block that the other thread still holds, `undefined` becomes true and the model stops.
What remains is everything that has to be right even when the two never meet on the list: the two accepts with
their failures, the receive pass, the closing of descriptors that `select` waits for, and the restart after
`select` has failed (label `_error`), in which every client is dropped and the ports are opened again.
`socket_set` is the set prepared for `select` and then the set it returns; lwIP's `FD_SET` ignores -1.
`wire[fd]` is the other end of a descriptor: `bound` for a port; `open`, `data`, `fin`, `reset` for TCP; `udp`,
`udpdata`, `deaf` for UDP.  `dgrams` are the datagrams that wait at the port because their source had no
connected socket when they came.  The write of what was received to the UART is in `UartBus`, and left out here
with LED, texts and traffic counters.

### Settings

`config.c` with its callers in `web_server.c` and `main.c`.  `CONFIG_ITEMS` is abstracted to kinds of items, each
named for an example and described by its default (`Default`); a `table` is one choice of items.  A text is its
length, a colour keeps whether it is black and its alpha, a number whether it fits into its item (`NumberRange`).  An item is written to the flash by the
`nvs_set` call itself, at once (`config_commit` adds nothing the program could see).
The conversions are modelled by what they do: the page hides secrets behind a marker (`Shown`), a field that is empty,
absent, or the marker sets nothing, a colour gets the alpha of its default, and a number is cut to the type of its
item (`Requested`: `config_set` casts what `strtol` or `strtoul` returned; parts of an address are cut alike).
The repository's page does not send all that it holds (`Posted`): its input for the pin is commented out, and jQuery's
`serializeArray`, through which `src/www/index.html:50-64` reads the form, sends a line break as two characters, which changes the
default connect message.  Other clients send what they like.
W handles a form item by item (`WSet`, `WSetFails` for a full flash), then commits, starts the restart task and
answers; a body received in part (`WReceivePart`) is used like a whole one.  B erases everything and restarts after
two seconds.  T reads a text in two calls, length and value (`TMeasure`, `TRead`); what a change in between does is
`garbage` (the allocated buffer is not filled) or `overrun` (a default larger than the
measured text is copied).  `PowerLoss` and `BootErased` (NVS from another version) come at any time.  `page` and `shown`
are a page in a browser, which may be submitted much later.  History variables: `kept` (items nobody has written since the page was made),
`asked` (what the form being handled asked for), `promise` (what was acknowledged) and `erased` (items that the button or a
boot has erased since they were last set).  Erasing leaves `asked` and `promise` as they are: a form that the button has
overtaken is still answered "success".

The properties name the exceptions that the code makes.  Of `AcknowledgedIsDurable`: of an erased item the default is read,
also if it was erased while the form that set it was being handled; of a number too large for its item what fits is
read; `wifi_init` names a nameless access point when it is active; items that `uart.c:79-90` reads with another sign
or width than they are stored with (kind `misread`) are never found; a body in part and an item for which the flash has
no room change nothing.  All of them are answered "success".  Of `UneditedIsKept`: a default black loses its alpha
on the way through a page, and a connect message with a line break gets two characters for it.

## 3. The runs

| Run | Bounds | What it shows |
|---|---|---|
| `retry` | real table, real 2^16 counter, the program's two callers | waits are bounded, never get shorter, never vanish after a failure |
| `ntrip_server` | one descriptor, keep-alive of one tick, three delays, two attempts | `ReadyMeansAccepted`, `SleepTaskParked`, `HealedByNextData`, `ReadyAgain` |
| `ntrip_server_early_data` | the same | violated: `NoEarlyData` |
| `wifi` | two devices, three queued events | the bits are truthful; one driver of the link at a time; a joined device is announced; a connection is shown although the status task stores stale reads |
| `wifi_reconnect` | no devices | violated: `ReconnectsWhenDisconnected` |
| `ntrip_client` | one descriptor, three delays, two attempts | `TornDown`, `PositionOnlyToAccepted`, `LossIsNoticed`, `ConnectsAgain` |
| `ntrip_client_ready` | the same | violated: `ReadyMeansConnected` |
| `ntrip_caster` | two descriptors, three blocks, up to the first overlap | list, ownership, delivery, removal |
| `ntrip_caster_lost` | the same, also after an overlap | violated: `DealtWithByHandler` |
| `socket_server` | two blocks, three descriptors, one UDP source, two datagrams | `DescriptorsOwned`, `OneClientPerSource`, `NobodyForgotten`, `ResetIsClosed` |
| `settings` | each kind of item alone, and a pair | `AcknowledgedIsDurable`, `BadReadsEndInRestart`, `UneditedIsKept`, `RestartsAfterSubmit` |
| `uart_bus` | one writer, two handlers, two queued events, two reads, two writes | implements `Delivery`; does not stall; totals never too large |

**Why the bounds are enough.**  *retry*: nothing is bounded.  *ntrip_server*: with one
descriptor every `socket()` returns the number that was closed last, which is the worst case
for a late close; a count only matters when equal to the threshold, and a larger
threshold only makes the sleep task slower; with two attempts the counter is zero or
not.  (The safety invariants also hold with two descriptors, 2 003 352 states.)
*ntrip_client*: with one
descriptor, one that is not closed keeps the client from ever connecting again; the theorems cover any number.
*wifi*: with two devices one can join while the other's leave is handled, and
three events let a join, a leave and a station event wait together.
*ntrip_caster*: two clients give a first and a second list element; the third block
is for a client accepted between the close of a descriptor and the free of its node.
*socket_server*: with three descriptors either both ports are open and one client fits, or one port (the other
failed to open, as happens when a client holds its descriptor) and two clients; every shortage of descriptors
occurs.  Two datagrams of one source are the case that could make it two clients.  (With four descriptors the invariants
also hold, 1 739 558 states.)
*settings*: items do not interact except through the order in which a form is stored, which the pair shows;
the longest text has two characters, so that lengths can be zero, shorter and equal; a number's item holds two values
and a field four, so that what is cut can become either value.
*uart_bus*: two events fill the queue with writers' events, two chunks show a gap or a
swap, and each write can come from the writer or from a handler.  One of the two handlers can stall, before or
after the other in the order of registration.

The run `ntrip_caster` has the state constraint `BeforeOverlap`.  All its properties
are about executions without an overlap (they say `overlapped \/ ...`), so the
states after one add nothing; a behaviour that reaches such a state satisfies the liveness
property by its disjunct `overlapped`.  `ntrip_caster_lost` has no constraint.

Why some configurations do not check for deadlock: the bounded traffic of `uart_bus`
ends; the caster and the socket server stop at undefined behaviour; a station that nobody
reconnects is the very point of `wifi_reconnect`.

### Fairness

Weak fairness of a thread's next step stands for the scheduler, which runs every
ready task.  H's fairness in `NtripServer` and `NtripCaster` includes the arrival of chunks: a
receiver sends at least once a second.  No fairness is assumed of the network, the clients, the
devices at the access point, the suspending tasks or `Resume`.
In `SocketServer` only T is fair: what it must do it must do without data from the UART.  Its two loops that
receive until nothing is left can be kept going by a sender, so `ResetIsClosed` excepts them.  In `Settings` the
web server, the restarts and the boot are fair, the button, the browser and the interface are not.
In `NtripClient` the handler gets no fairness, since a receiver need not send GGA sentences; TCP answers or
gives up data sent to a closed end (`PeerResets`).  In `Wifi` an attempt to connect ends
(the driver times it out).  In `UartBus` the event loop takes the transmit mutex under strong
fairness: FreeRTOS gives a mutex to the waiting task of the highest priority, and that is
the event loop's.  The return of a read handler (`EHandle`) is strongly fair too: a write that waits for its peer goes on whenever
the peer reads.  That the peer reads is not assumed: a client of the caster or the socket server that stops
reading holds up the loop for good, and with it every interface's handler and the WiFi events.  `AllDelivered` therefore
excludes it, and is violated without that condition; the fairness of H in the other modules, and of the event loop
in `Wifi`, supposes the same of the clients of other interfaces, which those modules do not have.  What liveness needs of the environment stands in the property: a caster that
serves for good and a descriptor that is not leaked (`ReadyAgain`), a position to report
(`LossIsNoticed`, `ConnectsAgain`), no client that stalls for
ever (`GoneIsClosed`, `AllDelivered`), no task suspended for ever with the mutex in its hands (`AllDelivered`).

### What the violated runs say

* `NoEarlyData` - `ntrip_server.c:65` says "Ignore if caster is not connected and ready for
  data", but the test uses a copy of the bits: after a late resume the chunk can go to
  the next connection before the caster has accepted it.
* `ReconnectsWhenDisconnected` - `wifi.c:435` says "Reconnect when disconnected", but a resume that
  comes between the reconnect task's `esp_wifi_connect` and its `vTaskSuspend(NULL)` is lost.
* `ReadyMeansConnected` - `ntrip_client.c:87` says "Caster connected and ready for data" of a bit that is
  set again, not cleared, on disconnection (`ntrip_client.c:177`).
* `DealtWithByHandler` - `ntrip_caster.c:225` says "Socket will now be dealt with by
  ntrip_caster_uart_handler", but an insertion that overlaps the removal of the first client
  vanishes from the list, and its socket stays open.

## 4. The proofs

All theorems hold for every value of the constants under the named assumptions in the modules
(`DelaysAssumption`: a non-empty table in increasing order; `CallersAssumption`: the table
reaches the caller's `short_delay`, the cap is not below it; `AttemptsAssumption`, `FdsAssumption`,
`KeepAliveAssumption`, `QueueAssumption`).  TLC evaluates the assumptions in every run.

* **Retry_proof.**  `Bounded`, `Monotone`, `Pauses`.  The invariant says that the last wait is at most
  `DelayOf` of the present handle unless the counter is zero, together with the types.  It rests on
  `DelayMonotone` (the schedule never decreases from one attempt to the next), which in turn needs
  `OffsetInTable`: the offset found by `retry_init` exists.  That is the least-number principle
  (`LeastElement`), derived from the well-foundedness of strict inclusion on finite sets
  because the induction theorems themselves are out of reach (below).
* **NtripServer_proof.**  `TypeCorrect`, `ReadyTruthful`, `Parked`.  `ReadyMeansAccepted` is not inductive:
  the bit alone does not say where T is.  `IInv` adds that the bit is set only at `await` and `woken`
  (`ReadyOnlyConnected`) and that from the caster's answer to the teardown the socket is the accepted one
  or was destroyed by H (`HoldsAccepted`).
* **NtripClient_proof.**  `TypeCorrect`, `CleanStart`, `PositionsGoToCaster`.  `TornDown` needs to know why no
  descriptor can be lost although two tasks destroy the same socket: `IInv` says that only the descriptor in `sock` is ever
  open and that it is closed before either task stores -1 (`NoneLost`), that G exists only while T is connected
  (`GgaOnlyConnected`), and what the open descriptor then is (`HoldsAccepted`).
* **Wifi_proof.**  `TypeCorrect`, `ApTruthful`, `IpTruthful`, `NoneWhileUp`.  The properties of the bits speak of an empty queue, so `IInv`
  says what the queue means.  For the access point: with a device joined, a join is still queued or the bit is set and no clearing is under way
  (`JoinedInv`); with none, the last join or leave queued is a leave, or no join is queued and the bit is clear
  or about to be cleared (`EmptyInv`).  For the station: connections and disconnections alternate from what
  esp_netif has seen to what the driver does next (`Alternate`, `MayConnect`), so no address is dropped without its
  timer; an address has its event queued after every cleanup, or the bit (`BoundInv`); and a bit that no queued event will clear has an address or the timer (`SetInv`).
  For the link: of the start event, a lost link, its handler and the reconnect task at most one may ask for a connection, and only while the
  link is idle (`OneAsks`).
* **UartBus_proof.**  `TypeCorrect`, `NeverTooMuch`, `Implements`.  The totals need to know what every task may still store: what is
  loaded is of chunks counted before (`InInv`), and the callers between the driver's taking of their data and their
  counting are as many as the total may still grow (`OutInv`, by cardinality, for any number of writers).  The
  refinement needs the queue: its chunks are those between the last taken and the last posted, each once and in order, among any
  number of write events (`QueueInv`); and while a chunk is handed out the handlers before position `at` have it
  and the others are one behind (`GotInv`).  `StepSimulation` maps every step to a step of `Delivery` or a stutter.
* **Settings_proof.**  `TypeCorrect`, `Durable`, `BadReadsEnd`, `UneditedKept`.  `Meets` says that an item reads as it was wanted, or as a
  named exception allows (`ReadsAs`); `IInv` has it, of the items that are not erased, of what
  was acknowledged (`PromiseMet`) and of what the form under way has asked for so far (`AskedMet`), since the answer turns
  the latter into the former; erased items read as their defaults (`ErasedMet`).  A length that was read is right unless the settings are changing, and whoever changes them
  restarts the device (`LengthsRight`).  What a page shows of an item nobody has written since is its value (`KeptAsShown`).

* **NtripCaster_proof.**  `TypeCorrect`, `ListKept`, `AllServed`, `OwnedOnce`, `WrittenOnce`, `Implements`, all but the first up to
  the first overlap (below).  The properties compare the words of the list with `order`; the steps between them need to know
  where the handler's pass is.  `IInv` says that the pointers spell out `order` (`ListInv`), that a node being inserted is
  known to nobody and points to the head (`InsertInv`), that the pass stands at a position `At(i)`: what is saved is the next
  position, the chunk is owed to exactly the clients from there on, and the search for a predecessor is before `i` (`PassInv`).
  An insertion moves the position by one and a removal leaves it where it is; that is why a pass that meets one still serves
  everybody.  `SocketInv` gives each node a descriptor of its own.  A removal is `RemoveFirst` on `order`; `WithoutOne` and
  `WithOneMore` say what becomes of every position.  `StepServes` maps every step to a step of `Broadcast` or a stutter: from
  `At(i)`, `Todo` is the list from position `i` on (`TodoIs`), which an insertion keeps (`PartKept`) and a removal shortens by
  its first client (`PartRemoved`).  `Serves`, the refinement as a formula, is proved and not in a run: it would add nothing to
  `EveryClientServed` and `NoChunkTwice` on a small instance but the order of the writes.
* **SocketServer_proof.**  `TypeCorrect`, `Owned`, `OneEach`, `NoneForgotten`, until `undefined`.  `DescriptorsOwned` needs to know
  that no thread removes the client that the other removes and that the field of a client being unlinked is -1
  (`RemovalInv`), and which sockets the task has at which place (`PhaseInv`); `SocketInv` is then inductive.
  `OneClientPerSource` rests on the search: the clients before the loop variable are not the source, and where it ended none
  is (`SourceInv`); the handler may remove any of them meanwhile, which keeps the order of the rest (`Shortened`).
  `NobodyForgotten` rests on the loop that drops everybody being at the first client that is left, although the handler removes others,
  the saved next one included: then the task's pointer is to freed memory and the model stops (`DropInv`).

Each proof module states the inductive invariant, lemmas for the steps of each thread or for each part of the invariant, and the
theorems.  TLC checked each invariant on a small instance before it was proved.

**The provisos.**  What the code does not guarantee cannot be proved of it.  `NtripCaster` and `SocketServer` have lists without a
lock.  The theorems about the caster say what holds before an insertion overlaps a removal of the head (the run
`ntrip_caster_lost` shows what an overlap does); `IInv` keeps types and pointers after it too.  The theorems about the socket server hold until a
thread uses freed memory or meets the other within an operation on the list.  Neither proviso is about the number of
clients, the traffic, failures of calls or the order of the threads' other steps.

**Only model-checked.**  Out of the prover's reach are liveness and `ENABLED`: `HealedByNextData`, `ReadyAgain`, `JoinedIsAnnounced`,
`ConnectedIsShown`, `LossIsNoticed`, `ConnectsAgain`, `GoneIsClosed`, `AllDelivered`, `RestartsAfterSubmit`, `ResetIsClosed`.
So is induction over data, because the library's induction theorems take an operator as a parameter, and
`RECURSIVE` operators (none is used).  Every other property of the passing runs is a theorem.

## 5. What is not modelled

* `wifi.c`: `net_init` and the configuration half of `wifi_init` are straight-line driver calls; the IPv6 bit
  is never set; start/stop flags, NAPT, status getters and the scan are read by or run for the web page only.
* `uart.c`: pin set-up; the negative result of `uart_read_bytes`, which the driver does not give for an
  installed port (`uart.c:104` would count and post it); `uart_inject`, which nobody calls.
* `stream_stats.c`: rates and their task (averages for the web page); the list of counters only grows at start-up.
* `interface/socket_client.c`: from the end of the first successful connection on, its connect message has been freed twice
  (lines 81 and 111), and what the program does then is undefined; before, it is the loop of `NtripClient` without a position task.
* `status_led.c`, `log.c`: not yet; nothing waits for the LED or reads the log but a person.
* `web_server.c`: files, status, log, core dump and scan requests change no state of the program.  A number
  beyond 32 bits, which `strtoul` first brings to the largest it can return, is in `Settings` the number it returns.
* `config.c`: blobs, which no item uses; the NVS library's own recovery.
* Start-up, core dump, NMEA: formatting and straight-line code.
* `interface/ntrip2_*.c`: not built.

## 6. Plan

Done: `RetryOps`/`Retry`, `NtripServer`, `NtripClient`, `Wifi`, `Broadcast`/`NtripCaster`, `Delivery`/`UartBus`,
`SocketServer`, `Settings`; proofs of the safety properties of all of them, and of both refinements.

Next, in this order:

1. Proofs: an abstract list with one owner per client that `SocketServer` implements until `undefined`, and that its
   receive pass leaves no selected client out.
2. `StatusLed` (the lost wake-up of a task that suspends itself on an empty list, `status_led.c:146`) and
   `LogBuffer` (`log.c:54`).
3. The rates of `stream_stats.c`.
