----------------------------- MODULE Wifi_proof -----------------------------
(***************************************************************************)
(* Proofs about the two event bits and about who drives the link, for every *)
(* set of devices, every length of the event queue and every delay table.  *)
(***************************************************************************)
EXTENDS Wifi, TLAPS

Joined == "AP_STACONNECTED"
Left   == "AP_STADISCONNECTED"

\* The last join or leave that E has not handled is a leave.
LastIsLeave ==
  \E i \in 1..Len(queue) :
    queue[i] = Left /\ \A j \in 1..Len(queue) : j > i => queue[j] # Joined

\* A joined device is announced or about to be, and no clearing that was decided
\* before it joined comes after its announcement.
JoinedInv ==
  ap_list # {} => Pending(Joined) \/ (AP_STA_CONNECTED \in bits /\ epc # "ap_clear")

\* With no device joined, the bit is clear or its clearing is still to come.
EmptyInv ==
  ap_list = {} =>
    \/ LastIsLeave
    \/ ~Pending(Joined) /\ (AP_STA_CONNECTED \notin bits \/ epc = "ap_clear")

\* The last of the queued events of A and B is one of A.
Ends(A, B) ==
  \E i \in 1..Len(queue) :
    queue[i] \in A /\ \A j \in 1..Len(queue) : j > i => queue[j] \notin B

\* No event of B is queued.
NoneOf(B) == \A i \in 1..Len(queue) : queue[i] \notin B

Disconnecting == {"disconnected_status", "disconnected_reconnect", "disconnected_bits"}

\* Connections and disconnections alternate, from what esp_netif has seen of them ...
Alternate ==
  \A i \in 1..Len(queue) : queue[i] = "STA_CONNECTED" =>
    \/ netif = "down" /\ \A k \in 1..(i - 1) : queue[k] # "STA_CONNECTED"
    \/ \E j \in 1..(i - 1) :
         queue[j] = "STA_DISCONNECTED" /\ \A k \in (j + 1)..(i - 1) : queue[k] # "STA_CONNECTED"

\* ... to what the driver does next.
MayConnect ==
  link # "connected" =>
    \/ Ends({"STA_DISCONNECTED"}, {"STA_CONNECTED"})
    \/ netif = "down" /\ NoneOf({"STA_CONNECTED"})

\* While a disconnection is handled the interface is down, and the IP-lost timer
\* does not run for an address.
DownWhileHandled ==
  /\ epc \in Disconnecting => netif = "down"
  /\ netif = "bound" => ~lost_timer

\* An address is announced or about to be, after the cleanup of an earlier one.
BoundInv ==
  netif = "bound" =>
    \/ Ends({"GOT_IP"}, {"LOST_IP"})
    \/ NoneOf({"GOT_IP", "LOST_IP"}) /\ GOT_IPV4 \in bits

\* A bit that no queued event will clear has an address or the timer running.
SetInv ==
  \/ Ends({"GOT_IP"}, {"LOST_IP", "STA_DISCONNECTED"})
  \/ NoneOf({"GOT_IP", "LOST_IP", "STA_DISCONNECTED"}) /\ GOT_IPV4 \in bits
       /\ epc \notin Disconnecting
  => netif = "bound" \/ lost_timer

StationInv == Alternate /\ MayConnect /\ DownWhileHandled /\ BoundInv /\ SetInv

\* The reconnect task will not ask for a connection before it is resumed.
Passive  == "R" \in suspended \/ rpc \in {"none", "suspend"}
Resuming == epc \in {"disconnected_status", "disconnected_reconnect"}

\* Of the events that make somebody ask for a connection one is queued at most.
OnlyOnce ==
  \A i, j \in 1..Len(queue) :
    queue[i] \in {"STA_START", "STA_DISCONNECTED"} /\ queue[j] = queue[i] => j = i

\* Until wifi_init has started the driver there is no such event, and the
\* reconnect task is suspended before.
BootInv ==
  /\ mpc # "done" =>
       link = "stopped" /\ NoneOf({"STA_START", "STA_DISCONNECTED"}) /\ ~Resuming
  /\ mpc = "start" => Passive

\* Whoever may ask for a connection is the only one, and the link is idle.
StartInv  == Pending("STA_START") =>
               Passive /\ ~Resuming /\ link = "idle" /\ ~Pending("STA_DISCONNECTED")
LostInv   == Pending("STA_DISCONNECTED") => Passive /\ ~Resuming /\ link = "idle"
ResumeInv == Resuming => Passive /\ link = "idle"
UpInv     == link \in {"connecting", "connected"} => Passive

OneAsks == OnlyOnce /\ BootInv /\ StartInv /\ LostInv /\ ResumeInv /\ UpInv

IInv == TypeOK /\ JoinedInv /\ EmptyInv /\ StationInv /\ OneAsks

USE DEF GOT_IPV4, AP_STA_CONNECTED

-----------------------------------------------------------------------------
(* The queue *)

\* What is pending after E has taken the first event.
LEMMA AfterTake ==
  ASSUME queue \in Seq(Events), queue # <<>>, queue' = Tail(queue)
  PROVE  /\ queue' \in Seq(Events) /\ Len(queue') = Len(queue) - 1
         /\ \A e : Pending(e)' => Pending(e)
         /\ \A e : Pending(e) /\ e # Head(queue) => Pending(e)'
         /\ LastIsLeave /\ Head(queue) # Left => LastIsLeave'
         /\ LastIsLeave /\ ~LastIsLeave' => ~Pending(Joined)'
<1> DEFINE n == Len(queue)
<1>1. n \in Nat \ {0} /\ Head(queue) = queue[1]
  OBVIOUS
<1>2. queue' \in Seq(Events) /\ Len(queue') = n - 1
      /\ \A k \in 1..(n - 1) : queue'[k] = queue[k + 1]
  OBVIOUS
<1>3. \A e : Pending(e)' => Pending(e)
  BY <1>1, <1>2 DEF Pending
<1>4. ASSUME NEW e, Pending(e), e # Head(queue) PROVE Pending(e)'
  <2>1. PICK i \in 1..n : queue[i] = e
    BY <1>4 DEF Pending
  <2>2. i - 1 \in 1..(n - 1) /\ queue'[i - 1] = e
    BY <1>1, <1>2, <1>4, <2>1
  <2>. QED
    BY <1>2, <2>2 DEF Pending
<1>5. ASSUME NEW i \in 1..n, queue[i] = Left, \A j \in 1..n : j > i => queue[j] # Joined
      PROVE  IF i > 1 THEN LastIsLeave' ELSE ~Pending(Joined)'
  <2>1. \A k \in 1..(n - 1) : k > i - 1 => queue'[k] # Joined
    BY <1>1, <1>2, <1>5
  <2>2. CASE i > 1
    <3>1. i - 1 \in 1..(n - 1) /\ queue'[i - 1] = Left
      BY <1>1, <1>2, <1>5, <2>2
    <3>. QED
      BY <1>2, <2>1, <2>2, <3>1 DEF LastIsLeave
  <2>3. CASE i = 1
    BY <1>2, <2>1, <2>3 DEF Pending
  <2>. QED
    BY <1>1, <2>2, <2>3
<1>6. LastIsLeave /\ Head(queue) # Left => LastIsLeave'
  BY <1>1, <1>5 DEF LastIsLeave
<1>7. LastIsLeave /\ ~LastIsLeave' => ~Pending(Joined)'
  BY <1>1, <1>5 DEF LastIsLeave
<1>. QED
  BY <1>2, <1>3, <1>4, <1>6, <1>7

\* What is pending after the driver has posted event e.
LEMMA AfterPost ==
  ASSUME queue \in Seq(Events), NEW e \in Events, Post(e)
  PROVE  /\ queue' \in Seq(Events) /\ Len(queue') <= QueueSize
         /\ \A d : Pending(d)' <=> (Pending(d) \/ d = e)
         /\ LastIsLeave' <=> (e = Left \/ (LastIsLeave /\ e # Joined))
<1> DEFINE n == Len(queue)
<1>1. /\ n \in Nat /\ n < QueueSize
      /\ queue' \in Seq(Events) /\ Len(queue') = n + 1 /\ queue'[n + 1] = e
      /\ \A k \in 1..n : queue'[k] = queue[k]
  BY DEF Post
<1>2. \A d : Pending(d)' <=> (Pending(d) \/ d = e)
  BY <1>1 DEF Pending
<1>3. e = Left => LastIsLeave'
  BY <1>1 DEF LastIsLeave
<1>4. LastIsLeave /\ e # Joined => LastIsLeave'
  BY <1>1 DEF LastIsLeave
<1>5. LastIsLeave' => e = Left \/ (LastIsLeave /\ e # Joined)
  BY <1>1 DEF LastIsLeave, Left, Joined
<1>. QED
  BY <1>1, <1>2, <1>3, <1>4, <1>5, QueueAssumption

\* Steps that leave the queue, the list and the bit alone, and do not touch the
\* pending clearing of the bit.
LEMMA Untouched ==
  ASSUME JoinedInv, EmptyInv, queue' = queue, ap_list' = ap_list,
         AP_STA_CONNECTED \in bits' <=> AP_STA_CONNECTED \in bits,
         epc' = "ap_clear" <=> epc = "ap_clear"
  PROVE  JoinedInv' /\ EmptyInv'
BY DEF JoinedInv, EmptyInv, Pending, LastIsLeave

\* Steps in which E takes an event of the station.
LEMMA StationEvent ==
  ASSUME TypeOK, JoinedInv, EmptyInv, NEW e \in Events \ {Joined, Left}, NEW to,
         Take(e, to), to # "ap_clear", ap_list' = ap_list,
         AP_STA_CONNECTED \in bits' <=> AP_STA_CONNECTED \in bits
  PROVE  JoinedInv' /\ EmptyInv'
<1>1. /\ queue \in Seq(Events) /\ queue # <<>> /\ queue' = Tail(queue) /\ Head(queue) = e
      /\ epc = "idle" /\ epc' # "ap_clear"
  BY DEF Take, TypeOK
<1>2. /\ Pending(Joined)' <=> Pending(Joined)
      /\ LastIsLeave => LastIsLeave'
  BY <1>1, AfterTake
<1>. QED
  BY <1>1, <1>2 DEF JoinedInv, EmptyInv

\* Steps in which the driver posts an event of the station.
LEMMA StationPost ==
  ASSUME TypeOK, JoinedInv, EmptyInv, NEW e \in Events \ {Joined, Left},
         Post(e), ap_list' = ap_list, bits' = bits, epc' = epc
  PROVE  JoinedInv' /\ EmptyInv'
<1>1. queue \in Seq(Events)
  BY DEF TypeOK
<1>2. /\ Pending(Joined)' <=> Pending(Joined)
      /\ LastIsLeave => LastIsLeave'
  BY <1>1, AfterPost
<1>. QED
  BY <1>2 DEF JoinedInv, EmptyInv

-----------------------------------------------------------------------------
(* Types *)

\* What the back-off does to a handle.
LEMMA HandleTypes ==
  /\ InitialHandle \in Handles
  /\ \A h \in Handles : AfterDelay(h) \in Handles /\ retry_reset(h) \in Handles
<1>1. 0 \in 0..(AttemptsMod - 1)
      /\ \A a \in 0..(AttemptsMod - 1) : (a + 1) % AttemptsMod \in 0..(AttemptsMod - 1)
  BY AttemptsAssumption
<1>2. InitialHandle = [ attempts |-> 0, first_instant |-> TRUE, short_count |-> 5,
                        short_delay |-> 2000, max_delay |-> 60000,
                        delays_offset |-> DelaysOffset(2000) ]
  BY DEF InitialHandle, retry_init
<1>3. InitialHandle \in Handles
  BY <1>1, <1>2 DEF Handles
<1>4. ASSUME NEW h \in Handles
      PROVE  AfterDelay(h) \in Handles /\ retry_reset(h) \in Handles
  <2>1. h.attempts \in 0..(AttemptsMod - 1)
    BY DEF Handles
  <2>2. ASSUME NEW a \in 0..(AttemptsMod - 1)
        PROVE  [h EXCEPT !.attempts = a] \in Handles
    BY DEF Handles
  <2>3. AfterDelay(h) = [h EXCEPT !.attempts = (h.attempts + 1) % AttemptsMod]
    BY DEF AfterDelay
  <2>. QED
    BY <1>1, <2>1, <2>2, <2>3 DEF retry_reset
<1>. QED
  BY <1>3, <1>4

\* The queue of events keeps its type when an event is taken.
LEMMA TakeType ==
  ASSUME TypeOK, NEW e, NEW to, Take(e, to)
  PROVE  queue' \in Seq(Events) /\ Len(queue') <= QueueSize
<1>1. queue \in Seq(Events) /\ queue # <<>> /\ queue' = Tail(queue) /\ Len(queue) <= QueueSize
  BY DEF TypeOK, Take
<1>2. queue' \in Seq(Events) /\ Len(queue') = Len(queue) - 1
  BY <1>1
<1>. QED
  BY <1>1, <1>2, QueueAssumption

\* ... and when one is posted.
LEMMA PostType ==
  ASSUME TypeOK, NEW e \in Events, Post(e)
  PROVE  queue' \in Seq(Events) /\ Len(queue') <= QueueSize
BY AfterPost DEF TypeOK

\* The main task's steps keep the types.
LEMMA MainType == TypeOK /\ MNext => TypeOK'
<1> SUFFICES ASSUME TypeOK, MNext PROVE TypeOK'
  OBVIOUS
<1>1. CASE MCreateStatus
  BY <1>1 DEF MCreateStatus, M, TypeOK, driver
<1>2. CASE MSuspendStatus
  BY <1>2 DEF MSuspendStatus, M, TypeOK, driver
<1>3. CASE MCreateReconnect
  BY <1>3 DEF MCreateReconnect, M, TypeOK, driver
<1>4. CASE MSuspendReconnect
  BY <1>4 DEF MSuspendReconnect, M, TypeOK, driver
<1>5. CASE MStart
  <2>1. queue' \in Seq(Events) /\ Len(queue') <= QueueSize
    BY <1>5, PostType DEF MStart, M, Events
  <2>. QED
    BY <1>5, <2>1 DEF MStart, M, TypeOK, driver
<1>. QED
  BY <1>1, <1>2, <1>3, <1>4, <1>5 DEF MNext

\* The event loop's steps keep the types.
LEMMA EventType == TypeOK /\ ENext => TypeOK'
<1> SUFFICES ASSUME TypeOK, ENext PROVE TypeOK'
  OBVIOUS
<1>1. CASE HandleStaStart
  <2>1. queue' \in Seq(Events) /\ Len(queue') <= QueueSize
    BY <1>1, TakeType DEF HandleStaStart
  <2>. QED
    BY <1>1, <2>1 DEF HandleStaStart, Take, Connect, EPC, TypeOK, driver
<1>2. CASE HandleStaConnected
  <2>1. queue' \in Seq(Events) /\ Len(queue') <= QueueSize
    BY <1>2, TakeType DEF HandleStaConnected
  <2>. QED
    BY <1>2, <2>1 DEF HandleStaConnected, Take, EPC, TypeOK, driver
<1>3. CASE ConnectedReset
  BY <1>3, HandleTypes DEF ConnectedReset, E, EPC, TypeOK, driver
<1>4. CASE ConnectedResumeStatus
  BY <1>4 DEF ConnectedResumeStatus, E, EPC, TypeOK, driver
<1>5. CASE ConnectedSuspendReconnect
  BY <1>5 DEF ConnectedSuspendReconnect, E, EPC, TypeOK, driver
<1>6. CASE HandleStaDisconnected
  <2>1. queue' \in Seq(Events) /\ Len(queue') <= QueueSize
    BY <1>6, TakeType DEF HandleStaDisconnected
  <2>. QED
    BY <1>6, <2>1 DEF HandleStaDisconnected, Take, EPC, TypeOK, driver
<1>7. CASE DisconnectedSuspendStatus
  BY <1>7 DEF DisconnectedSuspendStatus, E, EPC, TypeOK, driver
<1>8. CASE DisconnectedResumeReconnect
  BY <1>8 DEF DisconnectedResumeReconnect, E, EPC, TypeOK, driver
<1>9. CASE DisconnectedClearBits
  BY <1>9 DEF DisconnectedClearBits, E, EPC, TypeOK, driver
<1>10. CASE HandleGotIp
  <2>1. queue' \in Seq(Events) /\ Len(queue') <= QueueSize
    BY <1>10, TakeType DEF HandleGotIp
  <2>. QED
    BY <1>10, <2>1 DEF HandleGotIp, Take, EPC, TypeOK, driver
<1>11. CASE HandleLostIp
  <2>1. queue' \in Seq(Events) /\ Len(queue') <= QueueSize
    BY <1>11, TakeType DEF HandleLostIp
  <2>. QED
    BY <1>11, <2>1 DEF HandleLostIp, Take, EPC, TypeOK, driver
<1>12. CASE HandleApStaConnected
  <2>1. queue' \in Seq(Events) /\ Len(queue') <= QueueSize
    BY <1>12, TakeType DEF HandleApStaConnected
  <2>. QED
    BY <1>12, <2>1 DEF HandleApStaConnected, Take, EPC, TypeOK, driver
<1>13. CASE HandleApStaDisconnected
  <2>1. queue' \in Seq(Events) /\ Len(queue') <= QueueSize
    BY <1>13, TakeType DEF HandleApStaDisconnected
  <2>. QED
    BY <1>13, <2>1 DEF HandleApStaDisconnected, Take, EPC, TypeOK, driver
<1>14. CASE ApClearBit
  BY <1>14 DEF ApClearBit, E, EPC, TypeOK, driver
<1>. QED
  BY <1>1, <1>2, <1>3, <1>4, <1>5, <1>6, <1>7, <1>8, <1>9, <1>10, <1>11, <1>12, <1>13, <1>14 DEF ENext

\* The steps of the reconnect and status tasks keep the types.
LEMMA TaskType == TypeOK /\ (RNext \/ WNext) => TypeOK'
<1> SUFFICES ASSUME TypeOK, (RNext \/ WNext) PROVE TypeOK'
  OBVIOUS
<1>1. CASE RRetryDelay
  BY <1>1, HandleTypes DEF RRetryDelay, R, TypeOK, driver
<1>2. CASE RConnect
  BY <1>2 DEF RConnect, R, Connect, TypeOK, driver
<1>3. CASE RSuspendSelf
  BY <1>3 DEF RSuspendSelf, R, TypeOK, driver
<1>4. CASE WRead
  BY <1>4 DEF WRead, W, TypeOK, driver
<1>5. CASE WStore
  BY <1>5 DEF WStore, W, TypeOK, driver
<1>. QED
  BY <1>1, <1>2, <1>3, <1>4, <1>5 DEF RNext, WNext

\* The driver's steps keep the types.
LEMMA DriverType == TypeOK /\ DriverNext => TypeOK'
<1> SUFFICES ASSUME TypeOK, DriverNext PROVE TypeOK'
  OBVIOUS
<1>1. CASE LinkUp
  <2>1. queue' \in Seq(Events) /\ Len(queue') <= QueueSize
    BY <1>1, PostType DEF LinkUp, program, Events
  <2>. QED
    BY <1>1, <2>1 DEF LinkUp, program, TypeOK, driver
<1>2. CASE LinkFails
  <2>1. queue' \in Seq(Events) /\ Len(queue') <= QueueSize
    BY <1>2, PostType DEF LinkFails, program, Events
  <2>. QED
    BY <1>2, <2>1 DEF LinkFails, program, TypeOK, driver
<1>3. CASE LinkDown
  <2>1. queue' \in Seq(Events) /\ Len(queue') <= QueueSize
    BY <1>3, PostType DEF LinkDown, program, Events
  <2>. QED
    BY <1>3, <2>1 DEF LinkDown, program, TypeOK, driver
<1>4. CASE DhcpBound
  <2>1. queue' \in Seq(Events) /\ Len(queue') <= QueueSize
    BY <1>4, PostType DEF DhcpBound, program, Events
  <2>. QED
    BY <1>4, <2>1 DEF DhcpBound, program, TypeOK, driver
<1>5. CASE LostTimerFires
  <2>1. queue' \in Seq(Events) /\ Len(queue') <= QueueSize
    BY <1>5, PostType DEF LostTimerFires, program, Events
  <2>. QED
    BY <1>5, <2>1 DEF LostTimerFires, program, TypeOK, driver
<1>6. CASE \E s \in Stations : ApJoin(s)
  <2>1. queue' \in Seq(Events) /\ Len(queue') <= QueueSize
    BY <1>6, PostType DEF ApJoin, program, Events
  <2>. QED
    BY <1>6, <2>1 DEF ApJoin, program, TypeOK, driver
<1>7. CASE \E s \in Stations : ApLeave(s)
  <2>1. queue' \in Seq(Events) /\ Len(queue') <= QueueSize
    BY <1>7, PostType DEF ApLeave, program, Events
  <2>. QED
    BY <1>7, <2>1 DEF ApLeave, program, TypeOK, driver
<1>. QED
  BY <1>1, <1>2, <1>3, <1>4, <1>5, <1>6, <1>7 DEF DriverNext

-----------------------------------------------------------------------------
(* The access point's bit *)

\* The main task's steps.
LEMMA MainStep == IInv /\ MNext => JoinedInv' /\ EmptyInv'
<1> SUFFICES ASSUME IInv, MNext PROVE JoinedInv' /\ EmptyInv'
  OBVIOUS
<1>. USE DEF IInv
<1>1. CASE MCreateStatus
  BY <1>1, Untouched DEF MCreateStatus, driver
<1>2. CASE MSuspendStatus
  BY <1>2, Untouched DEF MSuspendStatus, driver
<1>3. CASE MCreateReconnect
  BY <1>3, Untouched DEF MCreateReconnect, driver
<1>4. CASE MSuspendReconnect
  BY <1>4, Untouched DEF MSuspendReconnect, driver
<1>5. CASE MStart
  BY <1>5, StationPost DEF MStart, Events, Joined, Left
<1>. QED
  BY <1>1, <1>2, <1>3, <1>4, <1>5 DEF MNext

\* Handling of a join sets the bit.
LEMMA JoinHandled == IInv /\ HandleApStaConnected => JoinedInv' /\ EmptyInv'
<1> SUFFICES ASSUME IInv, HandleApStaConnected PROVE JoinedInv' /\ EmptyInv'
  OBVIOUS
<1>1. /\ queue \in Seq(Events) /\ queue # <<>> /\ queue' = Tail(queue)
      /\ Head(queue) = Joined /\ Head(queue) # Left
      /\ epc' # "ap_clear" /\ ap_list' = ap_list /\ AP_STA_CONNECTED \in bits'
  BY DEF HandleApStaConnected, Take, IInv, TypeOK, Joined, Left
<1>2. Pending(Joined)
  BY <1>1 DEF Pending
<1>3. ap_list = {} => LastIsLeave'
  BY <1>1, <1>2, AfterTake DEF IInv, EmptyInv
<1>. QED
  BY <1>1, <1>3 DEF JoinedInv, EmptyInv

\* Handling of a leave decides to clear the bit if nobody is joined.
LEMMA LeaveHandled == IInv /\ HandleApStaDisconnected => JoinedInv' /\ EmptyInv'
<1> SUFFICES ASSUME IInv, HandleApStaDisconnected PROVE JoinedInv' /\ EmptyInv'
  OBVIOUS
<1>1. /\ queue \in Seq(Events) /\ queue # <<>> /\ queue' = Tail(queue)
      /\ Head(queue) # Joined
      /\ ap_list' = ap_list /\ bits' = bits /\ epc = "idle"
      /\ ap_list = {} => epc' = "ap_clear"
      /\ ap_list # {} => epc' # "ap_clear"
  BY DEF HandleApStaDisconnected, Take, IInv, TypeOK, Joined
<1>2. /\ Pending(Joined)' <=> Pending(Joined)
      /\ LastIsLeave => LastIsLeave' \/ ~Pending(Joined)'
  BY <1>1, AfterTake
<1>. QED
  BY <1>1, <1>2 DEF IInv, JoinedInv, EmptyInv

\* The clearing itself: whoever has joined since is still to be announced.
LEMMA BitCleared == IInv /\ ApClearBit => JoinedInv' /\ EmptyInv'
<1> SUFFICES ASSUME IInv, ApClearBit PROVE JoinedInv' /\ EmptyInv'
  OBVIOUS
<1>1. /\ epc = "ap_clear" /\ epc' # "ap_clear"
      /\ queue' = queue /\ ap_list' = ap_list /\ AP_STA_CONNECTED \notin bits'
  BY DEF ApClearBit, E, driver
<1>. QED
  BY <1>1 DEF IInv, JoinedInv, EmptyInv, Pending, LastIsLeave

\* The event loop's steps.
LEMMA EventStep == IInv /\ ENext => JoinedInv' /\ EmptyInv'
<1> SUFFICES ASSUME IInv, ENext PROVE JoinedInv' /\ EmptyInv'
  OBVIOUS
<1>. USE DEF IInv
<1>1. CASE HandleStaStart
  BY <1>1, StationEvent DEF HandleStaStart, Events, Joined, Left
<1>2. CASE HandleStaConnected
  BY <1>2, StationEvent DEF HandleStaConnected, Events, Joined, Left
<1>3. CASE ConnectedReset \/ ConnectedResumeStatus \/ ConnectedSuspendReconnect
  BY <1>3, Untouched DEF ConnectedReset, ConnectedResumeStatus, ConnectedSuspendReconnect,
                         E, driver
<1>4. CASE HandleStaDisconnected
  BY <1>4, StationEvent DEF HandleStaDisconnected, Events, Joined, Left
<1>5. CASE DisconnectedSuspendStatus \/ DisconnectedResumeReconnect
  BY <1>5, Untouched DEF DisconnectedSuspendStatus, DisconnectedResumeReconnect, E, driver
<1>6. CASE DisconnectedClearBits
  BY <1>6, Untouched DEF DisconnectedClearBits, E, driver
<1>7. CASE HandleGotIp
  BY <1>7, StationEvent DEF HandleGotIp, Events, Joined, Left
<1>8. CASE HandleLostIp
  BY <1>8, StationEvent DEF HandleLostIp, Events, Joined, Left
<1>. QED
  BY <1>1, <1>2, <1>3, <1>4, <1>5, <1>6, <1>7, <1>8, JoinHandled, LeaveHandled, BitCleared
     DEF ENext

\* The steps of the reconnect and status tasks.
LEMMA TaskStep == IInv /\ (RNext \/ WNext) => JoinedInv' /\ EmptyInv'
<1> SUFFICES ASSUME IInv, RNext \/ WNext PROVE JoinedInv' /\ EmptyInv'
  OBVIOUS
<1>1. queue' = queue /\ ap_list' = ap_list /\ bits' = bits /\ epc' = epc
  BY DEF RNext, WNext, RRetryDelay, RConnect, RSuspendSelf, WRead, WStore, driver
<1>. QED
  BY <1>1, Untouched DEF IInv

\* The driver's steps: a join posts its announcement, a leave its clearing.
LEMMA DriverStep == IInv /\ DriverNext => JoinedInv' /\ EmptyInv'
<1> SUFFICES ASSUME IInv, DriverNext PROVE JoinedInv' /\ EmptyInv'
  OBVIOUS
<1>. USE DEF IInv
<1>1. CASE LinkUp
  BY <1>1, StationPost DEF LinkUp, program, Events, Joined, Left
<1>2. CASE LinkFails
  BY <1>2, StationPost DEF LinkFails, program, Events, Joined, Left
<1>3. CASE LinkDown
  BY <1>3, StationPost DEF LinkDown, program, Events, Joined, Left
<1>4. CASE DhcpBound
  BY <1>4, StationPost DEF DhcpBound, program, Events, Joined, Left
<1>5. CASE LostTimerFires
  BY <1>5, StationPost DEF LostTimerFires, program, Events, Joined, Left
<1>6. ASSUME NEW s \in Stations, ApJoin(s) PROVE JoinedInv' /\ EmptyInv'
  <2>1. queue \in Seq(Events) /\ Post(Joined) /\ Joined \in Events
    BY <1>6 DEF ApJoin, TypeOK, Joined, Events
  <2>2. Pending(Joined)' /\ ap_list' # {}
    BY <1>6, <2>1, AfterPost DEF ApJoin
  <2>. QED
    BY <2>2 DEF JoinedInv, EmptyInv
<1>7. ASSUME NEW s \in Stations, ApLeave(s) PROVE JoinedInv' /\ EmptyInv'
  <2>1. queue \in Seq(Events) /\ Post(Left) /\ Left \in Events /\ Left # Joined
    BY <1>7 DEF ApLeave, TypeOK, Joined, Left, Events
  <2>2. LastIsLeave' /\ (Pending(Joined)' <=> Pending(Joined))
    BY <2>1, AfterPost
  <2>3. (ap_list' # {} => ap_list # {}) /\ bits' = bits /\ epc' = epc
    BY <1>7 DEF ApLeave, program
  <2>. QED
    BY <2>2, <2>3 DEF JoinedInv, EmptyInv
<1>. QED
  BY <1>1, <1>2, <1>3, <1>4, <1>5, <1>6, <1>7 DEF DriverNext

-----------------------------------------------------------------------------
(* The station: the queue *)

\* The places of the queue when E has taken the first event.
LEMMA Shifted ==
  ASSUME TypeOK, NEW e, NEW to, Take(e, to)
  PROVE  /\ Len(queue) \in Nat \ {0} /\ queue[1] = e /\ Len(queue') = Len(queue) - 1
         /\ \A k \in 1..(Len(queue) - 1) : queue'[k] = queue[k + 1]
<1>1. queue \in Seq(Events) /\ queue # <<>> /\ queue' = Tail(queue) /\ Head(queue) = e
  BY DEF TypeOK, Take
<1>. QED
  BY <1>1

\* ... and when the driver has posted one.
LEMMA Extended ==
  ASSUME TypeOK, NEW e \in Events, Post(e)
  PROVE  /\ Len(queue) \in Nat /\ Len(queue') = Len(queue) + 1
         /\ queue'[Len(queue) + 1] = e
         /\ \A k \in 1..Len(queue) : queue'[k] = queue[k]
<1>1. queue \in Seq(Events) /\ queue' = Append(queue, e)
  BY DEF TypeOK, Post
<1>. QED
  BY <1>1

\* What the queue ends with, and what it lacks, when E has taken the first event.
LEMMA EndsTake ==
  ASSUME TypeOK, NEW e, NEW to, Take(e, to), NEW A, NEW B
  PROVE  /\ NoneOf(B) <=> NoneOf(B)' /\ e \notin B
         /\ Ends(A, B) <=> Ends(A, B)' \/ (e \in A /\ NoneOf(B)')
<1> DEFINE n == Len(queue)
<1>1. /\ n \in Nat \ {0} /\ queue[1] = e /\ Len(queue') = n - 1
      /\ \A k \in 1..(n - 1) : queue'[k] = queue[k + 1]
  BY Shifted
<1>2. \A k \in 2..n : k - 1 \in 1..(n - 1) /\ queue'[k - 1] = queue[k]
  BY <1>1
<1>3. NoneOf(B) => NoneOf(B)' /\ e \notin B
  BY <1>1 DEF NoneOf
<1>4. NoneOf(B)' /\ e \notin B => NoneOf(B)
  <2> SUFFICES ASSUME NoneOf(B)', e \notin B, NEW k \in 1..n PROVE queue[k] \notin B
    BY DEF NoneOf
  <2>1. CASE k = 1
    BY <1>1, <2>1
  <2>2. CASE k # 1
    BY <1>1, <1>2, <2>2 DEF NoneOf
  <2>. QED
    BY <2>1, <2>2
<1>5. ASSUME Ends(A, B) PROVE Ends(A, B)' \/ (e \in A /\ NoneOf(B)')
  <2>1. PICK i \in 1..n : queue[i] \in A /\ \A j \in 1..n : j > i => queue[j] \notin B
    BY <1>5 DEF Ends
  <2>2. \A k \in 1..(n - 1) : k > i - 1 => queue'[k] \notin B
    BY <1>1, <2>1
  <2>3. CASE i = 1
    BY <1>1, <2>1, <2>2, <2>3 DEF NoneOf
  <2>4. CASE i # 1
    <3>1. i - 1 \in 1..(n - 1) /\ queue'[i - 1] \in A
      BY <1>2, <2>1, <2>4
    <3>. QED
      BY <1>1, <2>2, <3>1 DEF Ends
  <2>. QED
    BY <2>3, <2>4
<1>6. ASSUME Ends(A, B)' PROVE Ends(A, B)
  <2>1. PICK i \in 1..(n - 1) :
          queue'[i] \in A /\ \A j \in 1..(n - 1) : j > i => queue'[j] \notin B
    BY <1>1, <1>6 DEF Ends
  <2>2. i + 1 \in 1..n /\ queue[i + 1] \in A
    BY <1>1, <2>1
  <2>3. ASSUME NEW j \in 1..n, j > i + 1 PROVE queue[j] \notin B
    <3>1. j - 1 \in 1..(n - 1) /\ j - 1 > i /\ queue'[j - 1] = queue[j]
      BY <1>1, <2>1, <2>3
    <3>. QED
      BY <2>1, <3>1
  <2>. QED
    BY <2>2, <2>3 DEF Ends
<1>7. ASSUME e \in A, NoneOf(B)' PROVE Ends(A, B)
  <2>1. ASSUME NEW j \in 1..n, j > 1 PROVE queue[j] \notin B
    BY <1>1, <1>2, <1>7, <2>1 DEF NoneOf
  <2>. QED
    BY <1>1, <1>7, <2>1 DEF Ends
<1>. QED
  BY <1>3, <1>4, <1>5, <1>6, <1>7

\* ... and when the driver has posted one.
LEMMA EndsPost ==
  ASSUME TypeOK, NEW e \in Events, Post(e), NEW A, NEW B
  PROVE  /\ NoneOf(B)' <=> NoneOf(B) /\ e \notin B
         /\ Ends(A, B)' <=> e \in A \/ (Ends(A, B) /\ e \notin B)
<1> DEFINE n == Len(queue)
<1>1. /\ n \in Nat /\ Len(queue') = n + 1 /\ queue'[n + 1] = e
      /\ \A k \in 1..n : queue'[k] = queue[k]
  BY Extended
<1>2. NoneOf(B)' <=> NoneOf(B) /\ e \notin B
  BY <1>1 DEF NoneOf
<1>3. e \in A => Ends(A, B)'
  BY <1>1 DEF Ends
<1>4. Ends(A, B) /\ e \notin B => Ends(A, B)'
  BY <1>1 DEF Ends
<1>5. Ends(A, B)' => e \in A \/ (Ends(A, B) /\ e \notin B)
  BY <1>1 DEF Ends
<1>. QED
  BY <1>2, <1>3, <1>4, <1>5

-----------------------------------------------------------------------------
(* The station's bit *)

\* Connections and disconnections still alternate when E has taken an event.
LEMMA AlternateTake ==
  ASSUME TypeOK, Alternate, NEW e, NEW to, Take(e, to),
         e = "STA_DISCONNECTED" => netif' = "down",
         e # "STA_CONNECTED" /\ netif = "down" => netif' = "down"
  PROVE  Alternate'
<1> DEFINE n == Len(queue)
           C == "STA_CONNECTED"
           D == "STA_DISCONNECTED"
<1>1. /\ n \in Nat \ {0} /\ queue[1] = e /\ Len(queue') = n - 1
      /\ \A k \in 1..(n - 1) : queue'[k] = queue[k + 1]
  BY Shifted
<1> SUFFICES ASSUME NEW i \in 1..(n - 1), queue'[i] = C
             PROVE  \/ netif' = "down" /\ \A k \in 1..(i - 1) : queue'[k] # C
                    \/ \E j \in 1..(i - 1) :
                         queue'[j] = D /\ \A k \in (j + 1)..(i - 1) : queue'[k] # C
  BY <1>1 DEF Alternate
<1>2. i + 1 \in 1..n /\ queue[i + 1] = C
  BY <1>1
<1>3. CASE netif = "down" /\ \A k \in 1..i : queue[k] # C
  <2>1. e # C
    BY <1>1, <1>3
  <2>2. \A k \in 1..(i - 1) : queue'[k] # C
    BY <1>1, <1>3
  <2>. QED
    BY <1>3, <2>1, <2>2
<1>4. ASSUME NEW j \in 1..i, queue[j] = D, \A k \in (j + 1)..i : queue[k] # C
      PROVE  \/ netif' = "down" /\ \A k \in 1..(i - 1) : queue'[k] # C
             \/ \E m \in 1..(i - 1) :
                  queue'[m] = D /\ \A k \in (m + 1)..(i - 1) : queue'[k] # C
  <2>1. \A k \in j..(i - 1) : queue'[k] # C
    BY <1>1, <1>4
  <2>2. CASE j = 1
    BY <1>1, <1>4, <2>1, <2>2
  <2>3. CASE j # 1
    <3>1. j - 1 \in 1..(i - 1) /\ queue'[j - 1] = D /\ (j - 1) + 1 = j
      BY <1>1, <1>4, <2>3
    <3>. QED
      BY <2>1, <3>1
  <2>. QED
    BY <2>2, <2>3
<1>5. (i + 1) - 1 = i
  OBVIOUS
<1>. QED
  BY <1>2, <1>3, <1>4, <1>5 DEF Alternate

\* ... and when the driver has posted one.
LEMMA AlternatePost ==
  ASSUME TypeOK, Alternate, NEW e \in Events, Post(e),
         netif = "down" => netif' = "down",
         e = "STA_CONNECTED" =>
           \/ Ends({"STA_DISCONNECTED"}, {"STA_CONNECTED"})
           \/ netif = "down" /\ NoneOf({"STA_CONNECTED"})
  PROVE  Alternate'
<1> DEFINE n == Len(queue)
           C == "STA_CONNECTED"
           D == "STA_DISCONNECTED"
<1>1. /\ n \in Nat /\ Len(queue') = n + 1 /\ queue'[n + 1] = e
      /\ \A k \in 1..n : queue'[k] = queue[k]
  BY Extended
<1> SUFFICES ASSUME NEW i \in 1..(n + 1), queue'[i] = C
             PROVE  \/ netif' = "down" /\ \A k \in 1..(i - 1) : queue'[k] # C
                    \/ \E j \in 1..(i - 1) :
                         queue'[j] = D /\ \A k \in (j + 1)..(i - 1) : queue'[k] # C
  BY <1>1 DEF Alternate
<1>2. CASE i \in 1..n
  <2>1. \/ netif = "down" /\ \A k \in 1..(i - 1) : queue[k] # C
        \/ \E j \in 1..(i - 1) :
             queue[j] = D /\ \A k \in (j + 1)..(i - 1) : queue[k] # C
    BY <1>1, <1>2 DEF Alternate
  <2>2. \A k \in 1..(i - 1) : queue'[k] = queue[k]
    BY <1>1, <1>2
  <2>. QED
    BY <2>1, <2>2
<1>3. CASE i = n + 1
  <2>1. e = C
    BY <1>1, <1>3
  <2>2. CASE Ends({D}, {C})
    <3>1. PICK j \in 1..n : queue[j] = D /\ \A k \in 1..n : k > j => queue[k] # C
      BY <2>2 DEF Ends
    <3>2. j \in 1..(i - 1) /\ queue'[j] = D /\ \A k \in (j + 1)..(i - 1) : queue'[k] # C
      BY <1>1, <1>3, <3>1
    <3>. QED
      BY <3>2
  <2>3. CASE netif = "down" /\ NoneOf({C})
    BY <1>1, <1>3, <2>3 DEF NoneOf
  <2>. QED
    BY <2>1, <2>2, <2>3
<1>. QED
  BY <1>1, <1>2, <1>3

\* What E has taken decides what becomes of the interface, the timer and the bit.
LEMMA TakeStation ==
  ASSUME TypeOK, StationInv, NEW e, NEW to, Take(e, to),
         to \in Disconnecting <=> e = "STA_DISCONNECTED",
         link' = "connected" <=> link = "connected",
         netif' = IF e = "STA_CONNECTED" THEN "dhcp"
                  ELSE IF e = "STA_DISCONNECTED" THEN "down" ELSE netif,
         lost_timer' <=> lost_timer \/ (e = "STA_DISCONNECTED" /\ netif = "bound"),
         GOT_IPV4 \in bits' <=> e = "GOT_IP" \/ (GOT_IPV4 \in bits /\ e # "LOST_IP")
  PROVE  StationInv'
<1>. USE DEF StationInv
<1>1. epc = "idle" /\ epc' = to /\ epc \notin Disconnecting
  BY DEF Take, Disconnecting
<1>2. e = "STA_CONNECTED" => netif = "down"
  BY Shifted DEF Alternate
<1>3. Alternate'
  BY AlternateTake
<1>4. MayConnect'
  <2>1. NoneOf({"STA_CONNECTED"}) <=> NoneOf({"STA_CONNECTED"})' /\ e # "STA_CONNECTED"
    BY EndsTake
  <2>2. Ends({"STA_DISCONNECTED"}, {"STA_CONNECTED"}) <=>
          \/ Ends({"STA_DISCONNECTED"}, {"STA_CONNECTED"})'
          \/ e = "STA_DISCONNECTED" /\ NoneOf({"STA_CONNECTED"})'
    BY EndsTake
  <2>. QED
    BY <2>1, <2>2 DEF MayConnect
<1>5. DownWhileHandled'
  BY <1>1, <1>2 DEF DownWhileHandled
<1>6. BoundInv'
  <2>1. NoneOf({"GOT_IP", "LOST_IP"}) =>
          NoneOf({"GOT_IP", "LOST_IP"})' /\ e \notin {"GOT_IP", "LOST_IP"}
    BY EndsTake
  <2>2. Ends({"GOT_IP"}, {"LOST_IP"}) =>
          Ends({"GOT_IP"}, {"LOST_IP"})' \/ (e = "GOT_IP" /\ NoneOf({"LOST_IP"})')
    BY EndsTake
  <2>3. NoneOf({"LOST_IP"})' =>
          Ends({"GOT_IP"}, {"LOST_IP"})' \/ NoneOf({"GOT_IP", "LOST_IP"})'
    BY DEF NoneOf, Ends
  <2>. QED
    BY <1>2, <2>1, <2>2, <2>3 DEF BoundInv
<1>7. SetInv'
  <2> DEFINE G == {"GOT_IP"}
             S == {"LOST_IP", "STA_DISCONNECTED"}
             T == {"GOT_IP", "LOST_IP", "STA_DISCONNECTED"}
  <2>1. NoneOf(T)' /\ e \notin T => NoneOf(T)
    BY EndsTake
  <2>2. Ends(G, S)' \/ (e = "GOT_IP" /\ NoneOf(S)') => Ends(G, S)
    BY EndsTake
  <2>3. NoneOf(T)' => NoneOf(S)'
    BY DEF NoneOf
  <2>4. CASE Ends(G, S)'
    BY <1>2, <2>2, <2>4 DEF SetInv
  <2>5. CASE NoneOf(T)' /\ GOT_IPV4 \in bits' /\ epc' \notin Disconnecting
    BY <1>1, <1>2, <2>1, <2>2, <2>3, <2>5 DEF SetInv
  <2>. QED
    BY <2>4, <2>5 DEF SetInv
<1>. QED
  BY <1>3, <1>4, <1>5, <1>6, <1>7

\* What the driver has posted, likewise.
LEMMA PostStation ==
  ASSUME TypeOK, StationInv, NEW e \in Events, Post(e), bits' = bits, epc' = epc,
         e = "STA_CONNECTED" <=> (link # "connected" /\ link' = "connected"),
         link = "connected" /\ link' # "connected" => e = "STA_DISCONNECTED",
         netif' = netif \/ (netif = "dhcp" /\ netif' = "bound" /\ e = "GOT_IP"),
         e = "GOT_IP" => netif' = "bound" /\ ~lost_timer',
         e = "LOST_IP" => lost_timer /\ ~lost_timer',
         e \notin {"GOT_IP", "LOST_IP"} => lost_timer' = lost_timer
  PROVE  StationInv'
<1>. USE DEF StationInv
<1>1. Alternate'
  BY AlternatePost DEF MayConnect
<1>2. MayConnect'
  <2>1. NoneOf({"STA_CONNECTED"})' <=> NoneOf({"STA_CONNECTED"}) /\ e # "STA_CONNECTED"
    BY EndsPost
  <2>2. Ends({"STA_DISCONNECTED"}, {"STA_CONNECTED"})' <=>
          \/ e = "STA_DISCONNECTED"
          \/ Ends({"STA_DISCONNECTED"}, {"STA_CONNECTED"}) /\ e # "STA_CONNECTED"
    BY EndsPost
  <2>. QED
    BY <2>1, <2>2 DEF MayConnect
<1>3. DownWhileHandled'
  BY DEF DownWhileHandled
<1>4. BoundInv'
  <2>1. NoneOf({"GOT_IP", "LOST_IP"})' <=>
          NoneOf({"GOT_IP", "LOST_IP"}) /\ e \notin {"GOT_IP", "LOST_IP"}
    BY EndsPost
  <2>2. Ends({"GOT_IP"}, {"LOST_IP"})' <=>
          e = "GOT_IP" \/ (Ends({"GOT_IP"}, {"LOST_IP"}) /\ e # "LOST_IP")
    BY EndsPost
  <2>. QED
    BY <2>1, <2>2 DEF BoundInv, DownWhileHandled
<1>5. SetInv'
  <2> DEFINE G == {"GOT_IP"}
             S == {"LOST_IP", "STA_DISCONNECTED"}
             T == {"GOT_IP", "LOST_IP", "STA_DISCONNECTED"}
  <2>1. NoneOf(T)' <=> NoneOf(T) /\ e \notin T
    BY EndsPost
  <2>2. Ends(G, S)' <=> e = "GOT_IP" \/ (Ends(G, S) /\ e \notin S)
    BY EndsPost
  <2>. QED
    BY <2>1, <2>2 DEF SetInv
<1>. QED
  BY <1>1, <1>2, <1>3, <1>4, <1>5

\* Steps that touch neither the queue nor what the driver and esp_netif know.
LEMMA KeepStation ==
  ASSUME StationInv, queue' = queue, netif' = netif, lost_timer' = lost_timer,
         link' = "connected" <=> link = "connected",
         epc' \in Disconnecting => epc \in Disconnecting,
         \/ /\ GOT_IPV4 \in bits' <=> GOT_IPV4 \in bits
            /\ epc' \in Disconnecting <=> epc \in Disconnecting
         \/ epc \in Disconnecting /\ GOT_IPV4 \notin bits'
  PROVE  StationInv'
<1>1. Alternate'
  BY DEF StationInv, Alternate
<1>2. MayConnect'
  BY DEF StationInv, MayConnect, Ends, NoneOf
<1>3. DownWhileHandled'
  BY DEF StationInv, DownWhileHandled
<1>4. BoundInv'
  BY DEF StationInv, BoundInv, DownWhileHandled, Ends, NoneOf
<1>5. SetInv'
  BY DEF StationInv, SetInv, Ends, NoneOf
<1>. QED
  BY <1>1, <1>2, <1>3, <1>4, <1>5 DEF StationInv

\* The steps of the main task and of the reconnect and status tasks.
LEMMA TasksStation ==
  TypeOK /\ StationInv /\ BootInv /\ (MNext \/ RNext \/ WNext) => StationInv'
<1> SUFFICES ASSUME TypeOK, StationInv, BootInv, MNext \/ RNext \/ WNext PROVE StationInv'
  OBVIOUS
<1>1. CASE MStart
  BY <1>1, PostStation DEF MStart, M, Events, BootInv
<1>2. CASE MNext /\ ~MStart
  BY <1>2, KeepStation DEF MNext, MCreateStatus, MSuspendStatus, MCreateReconnect,
                           MSuspendReconnect, driver
<1>3. CASE RConnect
  BY <1>3, KeepStation DEF RConnect, Connect
<1>4. CASE (RNext /\ ~RConnect) \/ WNext
  BY <1>4, KeepStation DEF RNext, WNext, RRetryDelay, RSuspendSelf, WRead, WStore, driver
<1>. QED
  BY <1>1, <1>2, <1>3, <1>4

\* The steps of the event loop.
LEMMA EventStation == TypeOK /\ StationInv /\ ENext => StationInv'
<1> SUFFICES ASSUME TypeOK, StationInv, ENext PROVE StationInv'
  OBVIOUS
<1>. USE DEF Disconnecting
<1>1. CASE HandleStaStart
  BY <1>1, TakeStation DEF HandleStaStart, Connect
<1>2. CASE HandleStaConnected
  BY <1>2, TakeStation DEF HandleStaConnected
<1>3. CASE ConnectedReset \/ ConnectedResumeStatus \/ ConnectedSuspendReconnect
  BY <1>3, KeepStation DEF ConnectedReset, ConnectedResumeStatus, ConnectedSuspendReconnect,
                           E, driver
<1>4. CASE HandleStaDisconnected
  BY <1>4, TakeStation DEF HandleStaDisconnected
<1>5. CASE DisconnectedSuspendStatus \/ DisconnectedResumeReconnect
  BY <1>5, KeepStation DEF DisconnectedSuspendStatus, DisconnectedResumeReconnect, E, driver
<1>6. CASE DisconnectedClearBits
  BY <1>6, KeepStation DEF DisconnectedClearBits, E, driver
<1>7. CASE HandleGotIp
  BY <1>7, TakeStation DEF HandleGotIp
<1>8. CASE HandleLostIp
  BY <1>8, TakeStation DEF HandleLostIp
<1>9. CASE HandleApStaConnected
  BY <1>9, TakeStation DEF HandleApStaConnected
<1>10. CASE HandleApStaDisconnected
  BY <1>10, TakeStation DEF HandleApStaDisconnected
<1>11. CASE ApClearBit
  BY <1>11, KeepStation DEF ApClearBit, E, driver
<1>. QED
  BY <1>1, <1>2, <1>3, <1>4, <1>5, <1>6, <1>7, <1>8, <1>9, <1>10, <1>11 DEF ENext

\* The steps of the driver and of esp_netif.
LEMMA DriverStation == TypeOK /\ StationInv /\ DriverNext => StationInv'
<1> SUFFICES ASSUME TypeOK, StationInv, DriverNext PROVE StationInv'
  OBVIOUS
<1>. USE DEF Events, program
<1>1. CASE LinkUp
  BY <1>1, PostStation DEF LinkUp
<1>2. CASE LinkFails
  BY <1>2, PostStation DEF LinkFails
<1>3. CASE LinkDown
  BY <1>3, PostStation DEF LinkDown
<1>4. CASE DhcpBound
  BY <1>4, PostStation DEF DhcpBound
<1>5. CASE LostTimerFires
  BY <1>5, PostStation DEF LostTimerFires
<1>6. ASSUME NEW s \in Stations, ApJoin(s) PROVE StationInv'
  BY <1>6, PostStation DEF ApJoin
<1>7. ASSUME NEW s \in Stations, ApLeave(s) PROVE StationInv'
  BY <1>7, PostStation DEF ApLeave
<1>. QED
  BY <1>1, <1>2, <1>3, <1>4, <1>5, <1>6, <1>7 DEF DriverNext

-----------------------------------------------------------------------------
(* Who asks for a connection *)

\* What becomes of the pending events when E has taken one.
LEMMA AsksTake ==
  ASSUME TypeOK, OneAsks, NEW e, NEW to, Take(e, to),
         to \in {"disconnected_status", "disconnected_reconnect"} <=> e = "STA_DISCONNECTED",
         suspended' = suspended, rpc' = rpc, mpc' = mpc,
         IF e = "STA_START" /\ link = "idle" THEN link' = "connecting" ELSE link' = link
  PROVE  OneAsks'
<1>. USE DEF OneAsks
<1>1. /\ queue \in Seq(Events) /\ queue # <<>> /\ queue' = Tail(queue) /\ Head(queue) = e
      /\ epc = "idle" /\ epc' = to
  BY DEF TypeOK, Take
<1>2. /\ Len(queue) \in Nat \ {0} /\ queue[1] = e /\ Len(queue') = Len(queue) - 1
      /\ \A k \in 1..(Len(queue) - 1) : queue'[k] = queue[k + 1]
  BY Shifted
<1>3. /\ \A d : Pending(d)' => Pending(d)
      /\ \A d : Pending(d) /\ d # e => Pending(d)'
      /\ Pending(e)
  BY <1>1, <1>2, AfterTake DEF Pending
<1>4. OnlyOnce'
  BY <1>2 DEF OnlyOnce
<1>5. e \in {"STA_START", "STA_DISCONNECTED"} => ~Pending(e)'
  <2> SUFFICES ASSUME e \in {"STA_START", "STA_DISCONNECTED"},
                      NEW k \in 1..(Len(queue) - 1), queue'[k] = e
               PROVE  FALSE
    BY <1>2 DEF Pending
  <2>. QED
    BY <1>2 DEF OnlyOnce
<1>6. NoneOf({"STA_START", "STA_DISCONNECTED"}) <=>
        ~Pending("STA_START") /\ ~Pending("STA_DISCONNECTED")
  BY DEF NoneOf, Pending
<1>7. NoneOf({"STA_START", "STA_DISCONNECTED"})' <=>
        ~Pending("STA_START")' /\ ~Pending("STA_DISCONNECTED")'
  BY DEF NoneOf, Pending
<1>8. Passive' <=> Passive
  BY DEF Passive
<1>9. ~Resuming /\ (Resuming' <=> e = "STA_DISCONNECTED")
  BY <1>1 DEF Resuming
<1>. QED
  BY <1>3, <1>4, <1>5, <1>6, <1>7, <1>8, <1>9
     DEF BootInv, StartInv, LostInv, ResumeInv, UpInv

\* ... and when the driver has posted one.
LEMMA AsksPost ==
  ASSUME TypeOK, OneAsks, NEW e \in Events, Post(e), epc' = epc,
         suspended' = suspended, rpc' = rpc,
         CASE e = "STA_START" -> mpc = "start" /\ mpc' = "done" /\ link' = "idle"
           [] e = "STA_DISCONNECTED" ->
                mpc' = mpc /\ link \in {"connecting", "connected"} /\ link' = "idle"
           [] e \notin {"STA_START", "STA_DISCONNECTED"} ->
                /\ mpc' = mpc
                /\ link' = link \/ (link = "connecting" /\ link' = "connected")
  PROVE  OneAsks'
<1>. USE DEF OneAsks
<1>1. /\ Len(queue) \in Nat /\ Len(queue') = Len(queue) + 1
      /\ queue'[Len(queue) + 1] = e
      /\ \A k \in 1..Len(queue) : queue'[k] = queue[k]
  BY Extended
<1>2. \A d : Pending(d)' <=> (Pending(d) \/ d = e)
  BY AfterPost DEF TypeOK
<1>3. NoneOf({"STA_START", "STA_DISCONNECTED"}) <=>
        ~Pending("STA_START") /\ ~Pending("STA_DISCONNECTED")
  BY DEF NoneOf, Pending
<1>4. NoneOf({"STA_START", "STA_DISCONNECTED"})' <=>
        ~Pending("STA_START")' /\ ~Pending("STA_DISCONNECTED")'
  BY DEF NoneOf, Pending
<1>5. e \in {"STA_START", "STA_DISCONNECTED"} => ~Pending(e)
  BY <1>3 DEF BootInv, LostInv
<1>6. OnlyOnce'
  <2> SUFFICES ASSUME NEW i \in 1..(Len(queue) + 1), NEW j \in 1..(Len(queue) + 1),
                      queue'[i] \in {"STA_START", "STA_DISCONNECTED"}, queue'[j] = queue'[i]
               PROVE  j = i
    BY <1>1 DEF OnlyOnce
  <2>. QED
    BY <1>1, <1>5 DEF OnlyOnce, Pending
<1>7. (Passive' <=> Passive) /\ (Resuming' <=> Resuming)
  BY DEF Passive, Resuming
<1>. QED
  BY <1>2, <1>3, <1>4, <1>6, <1>7 DEF BootInv, StartInv, LostInv, ResumeInv, UpInv

\* Steps that leave the queue alone.
LEMMA AsksKeep ==
  ASSUME OneAsks, queue' = queue, link' = link, Resuming' => Resuming,
         Passive' \/ (~Passive /\ mpc # "start"),
         mpc' = mpc \/ (mpc # "done" /\ mpc' # "done"), mpc' = "start" => Passive'
  PROVE  OneAsks'
<1>1. (OnlyOnce' <=> OnlyOnce) /\ \A d : Pending(d)' <=> Pending(d)
  BY DEF OnlyOnce, Pending
<1>2. NoneOf({"STA_START", "STA_DISCONNECTED"})' <=>
        NoneOf({"STA_START", "STA_DISCONNECTED"})
  BY DEF NoneOf
<1>. QED
  BY <1>1, <1>2 DEF OneAsks, BootInv, StartInv, LostInv, ResumeInv, UpInv

\* The steps of the main task: the reconnect task is created while the driver is
\* not started and suspended before it is.
LEMMA MainAsks == TypeOK /\ OneAsks /\ MNext => OneAsks'
<1> SUFFICES ASSUME TypeOK, OneAsks, MNext PROVE OneAsks'
  OBVIOUS
<1>1. CASE MCreateStatus \/ MSuspendStatus
  BY <1>1, AsksKeep DEF MCreateStatus, MSuspendStatus, M, driver, Passive, Resuming
<1>2. CASE MCreateReconnect
  <2>1. /\ queue' = queue /\ link = "stopped" /\ link' = link /\ epc' = epc
        /\ ~Resuming /\ NoneOf({"STA_START", "STA_DISCONNECTED"})
        /\ mpc # "done" /\ mpc' = "suspend_reconnect"
    BY <1>2 DEF MCreateReconnect, M, driver, OneAsks, BootInv
  <2>. QED
    BY <2>1 DEF OneAsks, OnlyOnce, BootInv, StartInv, LostInv, ResumeInv, UpInv, Resuming,
                Pending, NoneOf
<1>3. CASE MSuspendReconnect
  BY <1>3, AsksKeep DEF MSuspendReconnect, M, driver, Passive, Resuming
<1>4. CASE MStart
  BY <1>4, AsksPost DEF MStart, M, Events
<1>. QED
  BY <1>1, <1>2, <1>3, <1>4 DEF MNext

\* The steps of the event loop: a resume passes the right to ask to the task.
LEMMA EventAsks == TypeOK /\ OneAsks /\ ENext => OneAsks'
<1> SUFFICES ASSUME TypeOK, OneAsks, ENext PROVE OneAsks'
  OBVIOUS
<1>1. CASE HandleStaStart
  BY <1>1, AsksTake DEF HandleStaStart, Connect
<1>2. CASE HandleStaConnected
  BY <1>2, AsksTake DEF HandleStaConnected
<1>3. CASE ConnectedReset \/ ConnectedResumeStatus \/ ConnectedSuspendReconnect
  BY <1>3, AsksKeep DEF ConnectedReset, ConnectedResumeStatus, ConnectedSuspendReconnect,
                        E, driver, Passive, Resuming, OneAsks, BootInv
<1>4. CASE HandleStaDisconnected
  BY <1>4, AsksTake DEF HandleStaDisconnected
<1>5. CASE DisconnectedSuspendStatus \/ DisconnectedClearBits \/ ApClearBit
  BY <1>5, AsksKeep DEF DisconnectedSuspendStatus, DisconnectedClearBits, ApClearBit,
                        E, driver, Passive, Resuming, OneAsks, BootInv
<1>6. CASE DisconnectedResumeReconnect
  <2>1. /\ queue' = queue /\ link' = link /\ mpc' = mpc /\ ~Resuming' /\ Resuming
    BY <1>6 DEF DisconnectedResumeReconnect, E, driver, Resuming
  <2>2. link = "idle" /\ ~Pending("STA_START") /\ ~Pending("STA_DISCONNECTED") /\ mpc = "done"
    BY <2>1 DEF OneAsks, BootInv, StartInv, LostInv, ResumeInv
  <2>. QED
    BY <2>1, <2>2 DEF OneAsks, OnlyOnce, BootInv, StartInv, LostInv, ResumeInv, UpInv, Pending
<1>7. CASE HandleGotIp
  BY <1>7, AsksTake DEF HandleGotIp
<1>8. CASE HandleLostIp
  BY <1>8, AsksTake DEF HandleLostIp
<1>9. CASE HandleApStaConnected
  BY <1>9, AsksTake DEF HandleApStaConnected
<1>10. CASE HandleApStaDisconnected
  BY <1>10, AsksTake DEF HandleApStaDisconnected
<1>. QED
  BY <1>1, <1>2, <1>3, <1>4, <1>5, <1>6, <1>7, <1>8, <1>9, <1>10 DEF ENext

\* The steps of the reconnect and status tasks.
LEMMA TaskAsks == TypeOK /\ OneAsks /\ (RNext \/ WNext) => OneAsks'
<1> SUFFICES ASSUME TypeOK, OneAsks, RNext \/ WNext PROVE OneAsks'
  OBVIOUS
<1>1. CASE RConnect
  <2>1. /\ queue' = queue /\ mpc' = mpc /\ epc' = epc /\ ~Passive /\ Passive'
    BY <1>1 DEF RConnect, R, Passive
  <2>2. /\ link \in {"stopped", "idle"} /\ ~Resuming /\ ~Pending("STA_START")
        /\ ~Pending("STA_DISCONNECTED")
    BY <2>1 DEF OneAsks, StartInv, LostInv, ResumeInv, UpInv, TypeOK
  <2>3. link = "stopped" => link' = "stopped"
    BY <1>1 DEF RConnect, Connect
  <2>. QED
    BY <2>1, <2>2, <2>3 DEF OneAsks, OnlyOnce, BootInv, StartInv, LostInv, ResumeInv, UpInv,
                            Pending, NoneOf, Resuming
<1>2. CASE RRetryDelay
  BY <1>2, AsksKeep DEF RRetryDelay, R, driver, Passive, Resuming, OneAsks, BootInv
<1>3. CASE RSuspendSelf
  BY <1>3, AsksKeep DEF RSuspendSelf, R, driver, Passive, Resuming, OneAsks, BootInv
<1>4. CASE WNext
  BY <1>4, AsksKeep DEF WNext, WRead, WStore, driver, Passive, Resuming, OneAsks, BootInv
<1>. QED
  BY <1>1, <1>2, <1>3, <1>4 DEF RNext

\* The steps of the driver: a lost link is announced once.
LEMMA DriverAsks == TypeOK /\ OneAsks /\ DriverNext => OneAsks'
<1> SUFFICES ASSUME TypeOK, OneAsks, DriverNext PROVE OneAsks'
  OBVIOUS
<1>. USE DEF Events, program
<1>1. CASE LinkUp
  BY <1>1, AsksPost DEF LinkUp
<1>2. CASE LinkFails
  BY <1>2, AsksPost DEF LinkFails
<1>3. CASE LinkDown
  BY <1>3, AsksPost DEF LinkDown
<1>4. CASE DhcpBound
  BY <1>4, AsksPost DEF DhcpBound
<1>5. CASE LostTimerFires
  BY <1>5, AsksPost DEF LostTimerFires
<1>6. ASSUME NEW s \in Stations, ApJoin(s) PROVE OneAsks'
  BY <1>6, AsksPost DEF ApJoin
<1>7. ASSUME NEW s \in Stations, ApLeave(s) PROVE OneAsks'
  BY <1>7, AsksPost DEF ApLeave
<1>. QED
  BY <1>1, <1>2, <1>3, <1>4, <1>5, <1>6, <1>7 DEF DriverNext

-----------------------------------------------------------------------------
(* Theorems *)

\* At boot nobody is joined and nothing is announced.
LEMMA InitIInv == Init => IInv
<1> SUFFICES ASSUME Init PROVE IInv
  OBVIOUS
<1>1. TypeOK
  <2>1. queue \in Seq(Events) /\ Len(queue) <= QueueSize
    BY QueueAssumption DEF Init
  <2>2. delay_handle \in Handles
    BY HandleTypes DEF Init
  <2>3. ap_list \subseteq Stations /\ bits \subseteq {GOT_IPV4, AP_STA_CONNECTED}
        /\ suspended \subseteq {"R", "W"}
    BY DEF Init
  <2>. QED
    BY <2>1, <2>2, <2>3 DEF Init, TypeOK, EPC
<1>2. JoinedInv /\ EmptyInv
  BY DEF Init, JoinedInv, EmptyInv, Pending
<1>3. StationInv
  BY DEF Init, StationInv, Alternate, MayConnect, DownWhileHandled, BoundInv, SetInv, Ends,
         NoneOf, Disconnecting
<1>4. OneAsks
  BY DEF Init, OneAsks, OnlyOnce, BootInv, StartInv, LostInv, ResumeInv, UpInv, Passive,
         Resuming, Pending, NoneOf
<1>. QED
  BY <1>1, <1>2, <1>3, <1>4 DEF IInv

\* The strengthened invariant: types, and what is pending in the event queue for
\* the access point's bit.
THEOREM Invariance == Spec => []IInv
<1>1. IInv /\ [Next]_vars => IInv'
  <2> SUFFICES ASSUME IInv, [Next]_vars PROVE IInv'
    OBVIOUS
  <2>1. CASE Next
    <3>1. TypeOK'
      BY <2>1, MainType, EventType, TaskType, DriverType DEF IInv, Next
    <3>2. JoinedInv' /\ EmptyInv'
      BY <2>1, MainStep, EventStep, TaskStep, DriverStep DEF Next
    <3>3. StationInv'
      BY <2>1, TasksStation, EventStation, DriverStation DEF IInv, OneAsks, Next
    <3>4. OneAsks'
      BY <2>1, MainAsks, EventAsks, TaskAsks, DriverAsks DEF IInv, Next
    <3>. QED
      BY <3>1, <3>2, <3>3, <3>4 DEF IInv
  <2>2. CASE UNCHANGED vars
    <3>1. TypeOK'
      BY <2>2 DEF IInv, TypeOK, vars, program, driver
    <3>2. JoinedInv' /\ EmptyInv'
      BY <2>2, Untouched DEF IInv, vars, program, driver
    <3>3. StationInv'
      BY <2>2, KeepStation DEF IInv, vars, program, driver
    <3>4. OneAsks'
      BY <2>2, AsksKeep DEF IInv, vars, program, driver, Passive, Resuming, OneAsks, BootInv
    <3>. QED
      BY <3>1, <3>2, <3>3, <3>4 DEF IInv
  <2>. QED
    BY <2>1, <2>2
<1>. QED
  BY InitIInv, <1>1, PTL DEF Spec

\* The types of wifi.c's state.
THEOREM TypeCorrect == Spec => []TypeOK
BY Invariance, PTL DEF IInv

\* handle_ap_sta_connected and handle_ap_sta_disconnected keep the bit truthful
\* once the event loop has caught up, for any number of devices.
THEOREM ApTruthful == Spec => []ApBitTruthful
<1>1. IInv => ApBitTruthful
  <2> SUFFICES ASSUME IInv, epc = "idle", ~Pending(Joined), ~Pending(Left)
               PROVE  AP_STA_CONNECTED \in bits <=> ap_list # {}
    BY DEF ApBitTruthful, Joined, Left
  <2>1. ~LastIsLeave
    BY DEF LastIsLeave, Pending
  <2>. QED
    BY <2>1 DEF IInv, JoinedInv, EmptyInv
<1>. QED
  BY Invariance, <1>1, PTL

\* handle_sta_disconnected, handle_got_ip and handle_lost_ip keep the bit that
\* wait_for_ip waits for truthful once the event loop has caught up, for queues of
\* any length.
THEOREM IpTruthful == Spec => []IpBitTruthful
<1>1. IInv => IpBitTruthful
  <2> SUFFICES ASSUME IInv, epc = "idle",
                      \A e \in {"STA_DISCONNECTED", "GOT_IP", "LOST_IP"} : ~Pending(e)
               PROVE  /\ netif = "bound" => GOT_IPV4 \in bits
                      /\ GOT_IPV4 \in bits => netif = "bound" \/ lost_timer
    BY DEF IpBitTruthful
  <2>1. NoneOf({"GOT_IP", "LOST_IP", "STA_DISCONNECTED"})
        /\ ~Ends({"GOT_IP"}, {"LOST_IP"})
    BY DEF NoneOf, Ends, Pending
  <2>. QED
    BY <2>1 DEF IInv, StationInv, BoundInv, SetInv, Disconnecting
<1>. QED
  BY Invariance, <1>1, PTL

\* The reconnect task calls esp_wifi_connect only when the driver is idle or not
\* started: no event and no resume makes two tasks ask for a connection.
THEOREM NoneWhileUp == Spec => NoReconnectWhileUp
<1>1. IInv /\ [Next]_vars => [RConnect => link \in {"stopped", "idle"}]_vars
  BY DEF IInv, TypeOK, OneAsks, UpInv, Passive, RConnect, R
<1>. QED
  BY Invariance, <1>1, PTL DEF Spec, NoReconnectWhileUp
=============================================================================
