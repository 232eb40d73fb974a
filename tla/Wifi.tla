-------------------------------- MODULE Wifi --------------------------------
(***************************************************************************)
(* src/main/wifi.c: the station and the access point.  Threads:            *)
(*   M  the main task in wifi_init, after the event handlers are registered *)
(*   E  the default event loop task, which runs the handlers one at a time  *)
(*   R  wifi_sta_reconnect_task                                            *)
(*   W  wifi_sta_status_task                                               *)
(* The WiFi driver, esp_netif and its DHCP client are outside the program:  *)
(* they change state on their own and post the events that E handles.      *)
(* The station has a dynamic address.  An action is one access to shared    *)
(* state, or one FreeRTOS or driver call.                                   *)
(***************************************************************************)
EXTENDS RetryOps, FiniteSets

CONSTANTS
  Stations,    \* devices that may join the access point
  QueueSize    \* bound on the events waiting in the event loop

ASSUME QueueAssumption == QueueSize \in Nat \ {0}

\* The bits of wifi_event_group that are waited for.
GOT_IPV4         == "STA_GOT_IPV4"
AP_STA_CONNECTED == "AP_STA_CONNECTED"

Events == { "STA_START", "STA_CONNECTED", "STA_DISCONNECTED", "GOT_IP", "LOST_IP",
            "AP_STACONNECTED", "AP_STADISCONNECTED" }

VARIABLES
  bits,           \* wifi_event_group
  sta_connected,
  delay_handle,   \* back-off of R
  suspended,      \* tasks in the suspended state
  mpc, epc, rpc, wpc,   \* program counters
  wread,          \* what W has read from the driver and not stored yet
  queue,          \* driver: events posted and not handled
  link,           \* driver: stopped, idle, connecting or connected
  ap_list,        \* driver: the devices joined to the access point
  netif,          \* esp_netif of the station: down, dhcp or bound
  lost_timer      \* esp_netif: the IP-lost timer is running

program == <<bits, sta_connected, delay_handle, suspended, mpc, epc, rpc, wpc, wread>>
driver  == <<queue, link, ap_list, netif, lost_timer>>
vars    == <<program, driver>>

InitialHandle == retry_init(TRUE, 5, 2000, 60000)

Handles ==
  [ attempts : 0..(AttemptsMod - 1), first_instant : BOOLEAN, short_count : {5},
    short_delay : {2000}, max_delay : {60000}, delays_offset : {DelaysOffset(2000)} ]

EPC == { "idle", "connected_reset", "connected_status", "connected_reconnect",
         "disconnected_status", "disconnected_reconnect", "disconnected_bits", "ap_clear" }

TypeOK ==
  /\ bits \subseteq {GOT_IPV4, AP_STA_CONNECTED}
  /\ sta_connected \in BOOLEAN
  /\ delay_handle \in Handles
  /\ suspended \subseteq {"R", "W"}
  /\ mpc \in {"status", "suspend_status", "reconnect", "suspend_reconnect", "start", "done"}
  /\ epc \in EPC
  /\ rpc \in {"none", "delay", "connect", "suspend"}
  /\ wpc \in {"none", "read", "store"}
  /\ wread \in BOOLEAN
  /\ queue \in Seq(Events) /\ Len(queue) <= QueueSize
  /\ link \in {"stopped", "idle", "connecting", "connected"}
  /\ ap_list \subseteq Stations
  /\ netif \in {"down", "dhcp", "bound"}
  /\ lost_timer \in BOOLEAN

Init ==
  /\ bits = {} /\ sta_connected = FALSE
  /\ delay_handle = InitialHandle
  /\ suspended = {}
  /\ mpc = "status" /\ epc = "idle" /\ rpc = "none" /\ wpc = "none" /\ wread = FALSE
  /\ queue = <<>> /\ link = "stopped" /\ ap_list = {}
  /\ netif = "down" /\ lost_timer = FALSE

-----------------------------------------------------------------------------
\* The driver or esp_netif posts an event; a full queue makes it wait.
Post(e) == Len(queue) < QueueSize /\ queue' = Append(queue, e)

\* esp_wifi_connect: starts an attempt; refused when the driver is not started,
\* or has an attempt or a connection already.
Connect == link' = IF link = "idle" THEN "connecting" ELSE link

-----------------------------------------------------------------------------
(* M: the end of wifi_init *)

M(from, to) == mpc = from /\ mpc' = to

MCreateStatus ==
  /\ M("status", "suspend_status")
  /\ wpc' = "read"
  /\ UNCHANGED <<bits, sta_connected, delay_handle, suspended, epc, rpc, wread, driver>>

MSuspendStatus ==
  /\ M("suspend_status", "reconnect")
  /\ suspended' = suspended \cup {"W"}
  /\ UNCHANGED <<bits, sta_connected, delay_handle, epc, rpc, wpc, wread, driver>>

MCreateReconnect ==
  /\ M("reconnect", "suspend_reconnect")
  /\ rpc' = "delay"
  /\ UNCHANGED <<bits, sta_connected, delay_handle, suspended, epc, wpc, wread, driver>>

MSuspendReconnect ==
  /\ M("suspend_reconnect", "start")
  /\ suspended' = suspended \cup {"R"}
  /\ UNCHANGED <<bits, sta_connected, delay_handle, epc, rpc, wpc, wread, driver>>

\* esp_wifi_start: the driver starts and posts STA_START.
MStart ==
  /\ M("start", "done")
  /\ link' = "idle"
  /\ Post("STA_START")
  /\ UNCHANGED <<bits, sta_connected, delay_handle, suspended, epc, rpc, wpc, wread,
                 ap_list, netif, lost_timer>>

MNext == MCreateStatus \/ MSuspendStatus \/ MCreateReconnect \/ MSuspendReconnect \/ MStart

-----------------------------------------------------------------------------
(* E: the event handlers *)

\* E takes event e from the queue and runs the first step of its handler.
Take(e, to) ==
  /\ epc = "idle" /\ epc' = to
  /\ queue # <<>> /\ Head(queue) = e /\ queue' = Tail(queue)

E(from, to) == epc = from /\ epc' = to

HandleStaStart ==
  /\ Take("STA_START", "idle")
  /\ Connect
  /\ UNCHANGED <<bits, sta_connected, delay_handle, suspended, mpc, rpc, wpc, wread,
                 ap_list, netif, lost_timer>>

\* esp_netif's own handler runs first and starts DHCP; then handle_sta_connected.
HandleStaConnected ==
  /\ Take("STA_CONNECTED", "connected_reset")
  /\ netif' = "dhcp"
  /\ sta_connected' = TRUE
  /\ UNCHANGED <<bits, delay_handle, suspended, mpc, rpc, wpc, wread,
                 link, ap_list, lost_timer>>

ConnectedReset ==
  /\ E("connected_reset", "connected_status")
  /\ delay_handle' = retry_reset(delay_handle)
  /\ UNCHANGED <<bits, sta_connected, suspended, mpc, rpc, wpc, wread, driver>>

ConnectedResumeStatus ==
  /\ E("connected_status", "connected_reconnect")
  /\ suspended' = suspended \ {"W"}
  /\ UNCHANGED <<bits, sta_connected, delay_handle, mpc, rpc, wpc, wread, driver>>

\* A mutant of ConnectedSuspendReconnect: the wrong task is suspended.
ConnectedSuspendStatus ==
  /\ E("connected_reconnect", "idle")
  /\ suspended' = suspended \cup {"W"}
  /\ UNCHANGED <<bits, sta_connected, delay_handle, mpc, rpc, wpc, wread, driver>>

ConnectedSuspendReconnect ==
  /\ E("connected_reconnect", "idle")
  /\ suspended' = suspended \cup {"R"}
  /\ UNCHANGED <<bits, sta_connected, delay_handle, mpc, rpc, wpc, wread, driver>>

\* esp_netif's own handler stops DHCP and, if there was an address, starts the
\* IP-lost timer; then handle_sta_disconnected.
HandleStaDisconnected ==
  /\ Take("STA_DISCONNECTED", "disconnected_status")
  /\ netif' = "down"
  /\ lost_timer' = (lost_timer \/ netif = "bound")
  /\ sta_connected' = FALSE
  /\ UNCHANGED <<bits, delay_handle, suspended, mpc, rpc, wpc, wread, link, ap_list>>

DisconnectedSuspendStatus ==
  /\ E("disconnected_status", "disconnected_reconnect")
  /\ suspended' = suspended \cup {"W"}
  /\ UNCHANGED <<bits, sta_connected, delay_handle, mpc, rpc, wpc, wread, driver>>

DisconnectedResumeReconnect ==
  /\ E("disconnected_reconnect", "disconnected_bits")
  /\ suspended' = suspended \ {"R"}
  /\ UNCHANGED <<bits, sta_connected, delay_handle, mpc, rpc, wpc, wread, driver>>

DisconnectedClearBits ==
  /\ E("disconnected_bits", "idle")
  /\ bits' = bits \ {GOT_IPV4}
  /\ UNCHANGED <<sta_connected, delay_handle, suspended, mpc, rpc, wpc, wread, driver>>

HandleGotIp ==
  /\ Take("GOT_IP", "idle")
  /\ bits' = bits \cup {GOT_IPV4}
  /\ UNCHANGED <<sta_connected, delay_handle, suspended, mpc, rpc, wpc, wread,
                 link, ap_list, netif, lost_timer>>

\* A mutant of HandleLostIp: the bit is left set.
HandleLostIpIgnored ==
  /\ Take("LOST_IP", "idle")
  /\ UNCHANGED <<bits, sta_connected, delay_handle, suspended, mpc, rpc, wpc, wread,
                 link, ap_list, netif, lost_timer>>

HandleLostIp ==
  /\ Take("LOST_IP", "idle")
  /\ bits' = bits \ {GOT_IPV4}
  /\ UNCHANGED <<sta_connected, delay_handle, suspended, mpc, rpc, wpc, wread,
                 link, ap_list, netif, lost_timer>>

HandleApStaConnected ==
  /\ Take("AP_STACONNECTED", "idle")
  /\ bits' = bits \cup {AP_STA_CONNECTED}
  /\ UNCHANGED <<sta_connected, delay_handle, suspended, mpc, rpc, wpc, wread,
                 link, ap_list, netif, lost_timer>>

\* A mutant of HandleApStaDisconnected: the list of devices is not looked at.
HandleApStaDisconnectedBlind ==
  /\ Take("AP_STADISCONNECTED", "ap_clear")
  /\ UNCHANGED <<bits, sta_connected, delay_handle, suspended, mpc, rpc, wpc, wread,
                 link, ap_list, netif, lost_timer>>

\* The list of devices is read when the event is handled, not when it happened.
HandleApStaDisconnected ==
  /\ Take("AP_STADISCONNECTED", IF ap_list = {} THEN "ap_clear" ELSE "idle")
  /\ UNCHANGED <<bits, sta_connected, delay_handle, suspended, mpc, rpc, wpc, wread,
                 link, ap_list, netif, lost_timer>>

ApClearBit ==
  /\ E("ap_clear", "idle")
  /\ bits' = bits \ {AP_STA_CONNECTED}
  /\ UNCHANGED <<sta_connected, delay_handle, suspended, mpc, rpc, wpc, wread, driver>>

ENext ==
  \/ HandleStaStart
  \/ HandleStaConnected \/ ConnectedReset \/ ConnectedResumeStatus
  \/ ConnectedSuspendReconnect
  \/ HandleStaDisconnected \/ DisconnectedSuspendStatus \/ DisconnectedResumeReconnect
  \/ DisconnectedClearBits
  \/ HandleGotIp \/ HandleLostIp
  \/ HandleApStaConnected \/ HandleApStaDisconnected \/ ApClearBit

-----------------------------------------------------------------------------
(* R: wifi_sta_reconnect_task *)

R(from, to) == "R" \notin suspended /\ rpc = from /\ rpc' = to

RRetryDelay ==
  /\ R("delay", "connect")
  /\ delay_handle' = AfterDelay(delay_handle)
  /\ UNCHANGED <<bits, sta_connected, suspended, mpc, epc, wpc, wread, driver>>

RConnect ==
  /\ R("connect", "suspend")
  /\ Connect
  /\ UNCHANGED <<bits, sta_connected, delay_handle, suspended, mpc, epc, wpc, wread,
                 queue, ap_list, netif, lost_timer>>

\* A mutant of RSuspendSelf: the loop goes on.
RSuspendSelfForgotten ==
  /\ R("suspend", "delay")
  /\ UNCHANGED <<bits, sta_connected, delay_handle, suspended, mpc, epc, wpc, wread, driver>>

\* vTaskSuspend(NULL): "Wait for next disconnect event".
RSuspendSelf ==
  /\ R("suspend", "delay")
  /\ suspended' = suspended \cup {"R"}
  /\ UNCHANGED <<bits, sta_connected, delay_handle, mpc, epc, wpc, wread, driver>>

RNext == RRetryDelay \/ RConnect \/ RSuspendSelf

-----------------------------------------------------------------------------
(* W: wifi_sta_status_task *)

W(from, to) == "W" \notin suspended /\ wpc = from /\ wpc' = to

WRead ==
  /\ W("read", "store")
  /\ wread' = (link = "connected")
  /\ UNCHANGED <<bits, sta_connected, delay_handle, suspended, mpc, epc, rpc, driver>>

WStore ==
  /\ W("store", "read")
  /\ sta_connected' = wread
  /\ wread' = FALSE
  /\ UNCHANGED <<bits, delay_handle, suspended, mpc, epc, rpc, driver>>

WNext == WRead \/ WStore

-----------------------------------------------------------------------------
(* The driver and esp_netif *)

LinkUp ==
  /\ link = "connecting" /\ link' = "connected"
  /\ Post("STA_CONNECTED")
  /\ UNCHANGED <<program, ap_list, netif, lost_timer>>

\* The access point was not found, or refused the station.
LinkFails ==
  /\ link = "connecting" /\ link' = "idle"
  /\ Post("STA_DISCONNECTED")
  /\ UNCHANGED <<program, ap_list, netif, lost_timer>>

LinkDown ==
  /\ link = "connected" /\ link' = "idle"
  /\ Post("STA_DISCONNECTED")
  /\ UNCHANGED <<program, ap_list, netif, lost_timer>>

ApJoin(s) ==
  /\ link # "stopped" /\ s \notin ap_list
  /\ ap_list' = ap_list \cup {s}
  /\ Post("AP_STACONNECTED")
  /\ UNCHANGED <<program, link, netif, lost_timer>>

ApLeave(s) ==
  /\ s \in ap_list
  /\ ap_list' = ap_list \ {s}
  /\ Post("AP_STADISCONNECTED")
  /\ UNCHANGED <<program, link, netif, lost_timer>>

\* An address arrives while DHCP runs, also after a loss of the link that E has
\* not handled yet.
DhcpBound ==
  /\ netif = "dhcp" /\ netif' = "bound"
  /\ lost_timer' = FALSE
  /\ Post("GOT_IP")
  /\ UNCHANGED <<program, link, ap_list>>

LostTimerFires ==
  /\ lost_timer /\ lost_timer' = FALSE
  /\ Post("LOST_IP")
  /\ UNCHANGED <<program, link, ap_list, netif>>

DriverNext ==
  \/ LinkUp \/ LinkFails \/ LinkDown \/ DhcpBound \/ LostTimerFires
  \/ \E s \in Stations : ApJoin(s) \/ ApLeave(s)

Next == MNext \/ ENext \/ RNext \/ WNext \/ DriverNext

\* The scheduler runs every task that is ready, and an attempt to connect ends.  The
\* event loop is the UART's, too: no handler of an interface stays in a write for ever.
Fairness ==
  /\ WF_vars(MNext) /\ WF_vars(ENext) /\ WF_vars(RNext) /\ WF_vars(WNext)
  /\ WF_vars(LinkUp \/ LinkFails)

Spec == Init /\ [][Next]_vars /\ Fairness

-----------------------------------------------------------------------------
(* Properties *)

Pending(e) == \E i \in 1..Len(queue) : queue[i] = e

\* Once the event loop has caught up with the access point's events, the bit that
\* wait_for_network waits for says whether a device is joined, however joins and
\* leaves were interleaved with handlers that read the list late.
ApBitTruthful ==
  (epc = "idle" /\ ~Pending("AP_STACONNECTED") /\ ~Pending("AP_STADISCONNECTED")) =>
    (AP_STA_CONNECTED \in bits <=> ap_list # {})

\* Once the event loop has caught up with the station's events, the bit that
\* wait_for_ip waits for is set if there is an address, and a bit that outlived
\* its address (the address came after the loss of the link) has its cleanup ahead.
IpBitTruthful ==
  (epc = "idle" /\ \A e \in {"STA_DISCONNECTED", "GOT_IP", "LOST_IP"} : ~Pending(e)) =>
    /\ netif = "bound" => GOT_IPV4 \in bits
    /\ GOT_IPV4 \in bits => netif = "bound" \/ lost_timer

\* The reconnect task never asks the driver to connect while an attempt is under
\* way or the link is up: at most one of R and the start handler drives the link.
NoReconnectWhileUp ==
  [][RConnect => link \in {"stopped", "idle"}]_vars

\* If from some time on a device stays joined, the bit is set for good, even with
\* others joining and leaving all the time.
JoinedIsAnnounced ==
  <>[](ap_list # {}) => <>[](AP_STA_CONNECTED \in bits)

\* A station that stays connected is shown as connected for good, although the
\* status task may store what it read before the connection (wifi.c:67-68) after
\* handle_sta_connected has set the flag.
ConnectedIsShown ==
  <>[](link = "connected") => <>[]sta_connected

\* "Reconnect when disconnected" (wifi.c:435).
ReconnectsWhenDisconnected == (link = "idle") ~> (link # "idle")
=============================================================================
