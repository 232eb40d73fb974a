-------------------------- MODULE NtripClient_proof --------------------------
(***************************************************************************)
(* Proofs about the NTRIP client for every set of descriptors, delay table  *)
(* and counter width.                                                       *)
(***************************************************************************)
EXTENDS NtripClient, TLAPS

\* The part of the loop between the caster's answer and the clean-up.
Connected == {"spawn", "ready", "read", "forward", "disconnected", "delete"}

\* The GGA task exists only from its creation to its deletion.
GgaOnlyConnected == gpc # "none" => tpc \in Connected \ {"spawn"}

\* No descriptor is open that sock does not hold: whoever stores -1 has closed
\* the descriptor before, and nobody stores a new one in between.
NoneLost ==
  /\ \A fd \in Fds : wire[fd] # "closed" => fd = sock
  /\ gpc = "forget" \/ tpc = "forget" => \A fd \in Fds : wire[fd] = "closed"

\* While connected the socket is the accepted one, or the GGA task has closed it.
HoldsAccepted ==
  tpc \in Connected => \A fd \in Fds : wire[fd] \in {"accepted", "closed"}

\* Between two attempts there is no socket.
NoSocket == tpc \in {"delay", "ip", "connect"} => sock = NoSock

IInv == TypeOK /\ GgaOnlyConnected /\ NoneLost /\ HoldsAccepted /\ NoSocket

\* What the back-off does to a handle.
LEMMA HandleTypes ==
  /\ InitialHandle \in Handles
  /\ \A h \in Handles : AfterDelay(h) \in Handles /\ retry_reset(h) \in Handles
<1>1. 0 \in 0..(AttemptsMod - 1)
      /\ \A a \in 0..(AttemptsMod - 1) : (a + 1) % AttemptsMod \in 0..(AttemptsMod - 1)
  BY AttemptsAssumption
<1>2. InitialHandle \in Handles
  BY <1>1 DEF InitialHandle, retry_init, Handles
<1>3. ASSUME NEW h \in Handles
      PROVE  AfterDelay(h) \in Handles /\ retry_reset(h) \in Handles
  <2>1. h.attempts \in 0..(AttemptsMod - 1)
    BY DEF Handles
  <2>2. \A a \in 0..(AttemptsMod - 1) : [h EXCEPT !.attempts = a] \in Handles
    BY DEF Handles
  <2>3. AfterDelay(h) = [h EXCEPT !.attempts = (h.attempts + 1) % AttemptsMod]
    BY DEF AfterDelay
  <2>. QED
    BY <1>1, <2>1, <2>2, <2>3 DEF retry_reset
<1>. QED
  BY <1>2, <1>3

LEMMA InitIInv == Init => IInv
<1> SUFFICES ASSUME Init PROVE IInv
  OBVIOUS
<1>1. delay_handle \in Handles
  BY HandleTypes DEF Init
<1>2. TypeOK
  BY <1>1 DEF Init, TypeOK, TPC, GPC, Ends
<1>. QED
  BY <1>2 DEF Init, IInv, GgaOnlyConnected, NoneLost, HoldsAccepted, NoSocket, Connected

\* The GGA task's steps.
LEMMA GgaType == TypeOK /\ GNext => TypeOK'
<1> SUFFICES ASSUME TypeOK, GNext PROVE TypeOK'
  OBVIOUS
<1>1. CASE GDelay
  BY <1>1 DEF GDelay, G, GPC, Ends, IsOpen, CloseSock, TypeOK, shared
<1>2. CASE GSendOk
  BY <1>2 DEF GSendOk, G, GPC, Ends, IsOpen, CloseSock, TypeOK, shared
<1>3. CASE GSendFails
  BY <1>3 DEF GSendFails, G, GPC, Ends, IsOpen, CloseSock, TypeOK, shared
<1>4. CASE GClose
  BY <1>4 DEF GClose, G, GPC, Ends, IsOpen, CloseSock, TypeOK, shared
<1>5. CASE GForget
  BY <1>5 DEF GForget, G, GPC, Ends, IsOpen, CloseSock, TypeOK, shared
<1>. QED
  BY <1>1, <1>2, <1>3, <1>4, <1>5 DEF GNext

LEMMA GgaStep == IInv /\ GNext => IInv'
<1> SUFFICES ASSUME IInv, GNext
             PROVE  (GgaOnlyConnected /\ NoneLost /\ HoldsAccepted /\ NoSocket)'
  BY GgaType DEF IInv
<1> USE DEF IInv, GgaOnlyConnected, NoneLost, HoldsAccepted, NoSocket, Connected, shared
<1>1. CASE GDelay
  BY <1>1, FdsAssumption DEF GDelay, G, GPC, Ends, IsOpen, CloseSock, TypeOK
<1>2. CASE GSendOk
  BY <1>2, FdsAssumption DEF GSendOk, G, GPC, Ends, IsOpen, CloseSock, TypeOK
<1>3. CASE GSendFails
  BY <1>3, FdsAssumption DEF GSendFails, G, GPC, Ends, IsOpen, CloseSock, TypeOK
<1>4. CASE GClose
  BY <1>4, FdsAssumption DEF GClose, G, GPC, Ends, IsOpen, CloseSock, TypeOK
<1>5. CASE GForget
  BY <1>5, FdsAssumption DEF GForget, G, GPC, Ends, IsOpen, CloseSock, TypeOK
<1>. QED
  BY <1>1, <1>2, <1>3, <1>4, <1>5 DEF GNext

\* The client task's steps.
LEMMA ClientType == TypeOK /\ TNext => TypeOK'
<1> SUFFICES ASSUME TypeOK, TNext PROVE TypeOK'
  OBVIOUS
<1>1. CASE TRetryDelay
  BY <1>1, HandleTypes DEF TRetryDelay, T, TPC, GPC, Ends, IsOpen, Usable, CloseSock, TypeOK, shared
<1>2. CASE TWaitForIp
  BY <1>2 DEF TWaitForIp, T, TPC, GPC, Ends, IsOpen, Usable, CloseSock, TypeOK, shared
<1>3. CASE TConnect
  BY <1>3 DEF TConnect, T, TPC, GPC, Ends, IsOpen, Usable, CloseSock, TypeOK, shared
<1>4. CASE TConnectFails
  BY <1>4 DEF TConnectFails, T, TPC, GPC, Ends, IsOpen, Usable, CloseSock, TypeOK, shared
<1>5. CASE TRequest
  BY <1>5 DEF TRequest, T, TPC, GPC, Ends, IsOpen, Usable, CloseSock, TypeOK, shared
<1>6. CASE TRequestFails
  BY <1>6 DEF TRequestFails, T, TPC, GPC, Ends, IsOpen, Usable, CloseSock, TypeOK, shared
<1>7. CASE TAccepted
  BY <1>7, HandleTypes DEF TAccepted, T, TPC, GPC, Ends, IsOpen, Usable, CloseSock, TypeOK, shared
<1>8. CASE TRefused
  BY <1>8 DEF TRefused, T, TPC, GPC, Ends, IsOpen, Usable, CloseSock, TypeOK, shared
<1>9. CASE TCreateGga
  BY <1>9 DEF TCreateGga, T, TPC, GPC, Ends, IsOpen, Usable, CloseSock, TypeOK, shared
<1>10. CASE TSetCasterReady
  BY <1>10 DEF TSetCasterReady, T, TPC, GPC, Ends, IsOpen, Usable, CloseSock, TypeOK, shared
<1>11. CASE TRead
  BY <1>11 DEF TRead, T, TPC, GPC, Ends, IsOpen, Usable, CloseSock, TypeOK, shared
<1>12. CASE TReadFails
  BY <1>12 DEF TReadFails, T, TPC, GPC, Ends, IsOpen, Usable, CloseSock, TypeOK, shared
<1>13. CASE TUartWrite
  BY <1>13 DEF TUartWrite, T, TPC, GPC, Ends, IsOpen, Usable, CloseSock, TypeOK, shared
<1>14. CASE TDisconnected
  BY <1>14 DEF TDisconnected, T, TPC, GPC, Ends, IsOpen, Usable, CloseSock, TypeOK, shared
<1>15. CASE TDeleteGga
  BY <1>15 DEF TDeleteGga, T, TPC, GPC, Ends, IsOpen, Usable, CloseSock, TypeOK, shared
<1>16. CASE TClose
  BY <1>16 DEF TClose, T, TPC, GPC, Ends, IsOpen, Usable, CloseSock, TypeOK, shared
<1>17. CASE TForget
  BY <1>17 DEF TForget, T, TPC, GPC, Ends, IsOpen, Usable, CloseSock, TypeOK, shared
<1>. QED
  BY <1>1, <1>2, <1>3, <1>4, <1>5, <1>6, <1>7, <1>8, <1>9, <1>10, <1>11, <1>12, <1>13, <1>14, <1>15, <1>16, <1>17 DEF TNext

LEMMA ClientStep == IInv /\ TNext => IInv'
<1> SUFFICES ASSUME IInv, TNext
             PROVE  (GgaOnlyConnected /\ NoneLost /\ HoldsAccepted /\ NoSocket)'
  BY ClientType DEF IInv
<1> USE DEF IInv, GgaOnlyConnected, NoneLost, HoldsAccepted, NoSocket, Connected, shared
<1>1. CASE TRetryDelay
  BY <1>1, FdsAssumption DEF TRetryDelay, T, TPC, GPC, Ends, IsOpen, Usable, CloseSock, TypeOK
<1>2. CASE TWaitForIp
  BY <1>2, FdsAssumption DEF TWaitForIp, T, TPC, GPC, Ends, IsOpen, Usable, CloseSock, TypeOK
<1>3. CASE TConnect
  BY <1>3, FdsAssumption DEF TConnect, T, TPC, GPC, Ends, IsOpen, Usable, CloseSock, TypeOK
<1>4. CASE TConnectFails
  BY <1>4, FdsAssumption DEF TConnectFails, T, TPC, GPC, Ends, IsOpen, Usable, CloseSock, TypeOK
<1>5. CASE TRequest
  BY <1>5, FdsAssumption DEF TRequest, T, TPC, GPC, Ends, IsOpen, Usable, CloseSock, TypeOK
<1>6. CASE TRequestFails
  BY <1>6, FdsAssumption DEF TRequestFails, T, TPC, GPC, Ends, IsOpen, Usable, CloseSock, TypeOK
<1>7. CASE TAccepted
  BY <1>7, FdsAssumption DEF TAccepted, T, TPC, GPC, Ends, IsOpen, Usable, CloseSock, TypeOK
<1>8. CASE TRefused
  BY <1>8, FdsAssumption DEF TRefused, T, TPC, GPC, Ends, IsOpen, Usable, CloseSock, TypeOK
<1>9. CASE TCreateGga
  BY <1>9, FdsAssumption DEF TCreateGga, T, TPC, GPC, Ends, IsOpen, Usable, CloseSock, TypeOK
<1>10. CASE TSetCasterReady
  BY <1>10, FdsAssumption DEF TSetCasterReady, T, TPC, GPC, Ends, IsOpen, Usable, CloseSock, TypeOK
<1>11. CASE TRead
  BY <1>11, FdsAssumption DEF TRead, T, TPC, GPC, Ends, IsOpen, Usable, CloseSock, TypeOK
<1>12. CASE TReadFails
  BY <1>12, FdsAssumption DEF TReadFails, T, TPC, GPC, Ends, IsOpen, Usable, CloseSock, TypeOK
<1>13. CASE TUartWrite
  BY <1>13, FdsAssumption DEF TUartWrite, T, TPC, GPC, Ends, IsOpen, Usable, CloseSock, TypeOK
<1>14. CASE TDisconnected
  BY <1>14, FdsAssumption DEF TDisconnected, T, TPC, GPC, Ends, IsOpen, Usable, CloseSock, TypeOK
<1>15. CASE TDeleteGga
  BY <1>15, FdsAssumption DEF TDeleteGga, T, TPC, GPC, Ends, IsOpen, Usable, CloseSock, TypeOK
<1>16. CASE TClose
  BY <1>16, FdsAssumption DEF TClose, T, TPC, GPC, Ends, IsOpen, Usable, CloseSock, TypeOK
<1>17. CASE TForget
  BY <1>17, FdsAssumption DEF TForget, T, TPC, GPC, Ends, IsOpen, Usable, CloseSock, TypeOK
<1>. QED
  BY <1>1, <1>2, <1>3, <1>4, <1>5, <1>6, <1>7, <1>8, <1>9, <1>10, <1>11, <1>12, <1>13, <1>14, <1>15, <1>16, <1>17 DEF TNext

\* The handler's and the environment's steps touch none of what the rest speaks of.
LEMMA OtherStep == IInv /\ (HNext \/ NetChange \/ PeerCloses \/ PeerResets) => IInv'
<1> SUFFICES ASSUME IInv, HNext \/ NetChange \/ PeerCloses \/ PeerResets PROVE IInv'
  OBVIOUS
<1>1. TypeOK'
  BY DEF IInv, TypeOK, Ends, shared, HNext, HGetBits, HExtract, NetChange, PeerCloses, PeerResets
<1>2. UNCHANGED <<sock, wire, tpc, gpc>>
  BY DEF shared, HNext, HGetBits, HExtract, NetChange, PeerCloses, PeerResets
<1>. QED
  BY <1>1, <1>2 DEF IInv, GgaOnlyConnected, NoneLost, HoldsAccepted, NoSocket

\* The inductive invariant holds in every reachable state.
THEOREM Invariance == Spec => []IInv
<1>1. IInv /\ UNCHANGED vars => IInv'
  BY DEF IInv, GgaOnlyConnected, NoneLost, HoldsAccepted, NoSocket, TypeOK, vars, shared
<1>2. IInv /\ [Next]_vars => IInv'
  BY <1>1, GgaStep, ClientStep, OtherStep DEF Next
<1>. QED
  BY <1>2, InitIInv, PTL DEF Spec

\* Every variable keeps its type.
THEOREM TypeCorrect == Spec => []TypeOK
<1>1. IInv => TypeOK
  BY DEF IInv
<1>. QED
  BY <1>1, Invariance, PTL

\* Every attempt to connect starts without a GGA task, a socket or an open
\* descriptor left from the last one, for any number of descriptors.
THEOREM CleanStart == Spec => []TornDown
<1>1. IInv => TornDown
  BY FdsAssumption DEF IInv, TypeOK, GgaOnlyConnected, NoneLost, NoSocket, Connected, TornDown
<1>. QED
  BY <1>1, Invariance, PTL

\* Every position goes to a connection that the caster has accepted.
THEOREM PositionsGoToCaster == Spec => PositionOnlyToAccepted
<1>1. IInv /\ [Next]_vars => [GSendOk => wire[sock] = "accepted"]_vars
  BY DEF IInv, GgaOnlyConnected, HoldsAccepted, Connected, GSendOk, G, IsOpen
<1>. QED
  BY <1>1, Invariance, PTL DEF Spec, PositionOnlyToAccepted
=============================================================================
