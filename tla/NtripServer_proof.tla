-------------------------- MODULE NtripServer_proof --------------------------
(***************************************************************************)
(* Proofs about the NTRIP server for every set of descriptors, keep-alive   *)
(* threshold, delay table and counter width.                                *)
(***************************************************************************)
EXTENDS NtripServer, TLAPS

\* CASTER_READY belongs to the part of the loop between its two comments
\* "Connected" and "Disconnected".
ReadyOnlyConnected == CASTER_READY \in bits => tpc \in {"await", "woken"}

\* From the caster's answer to the teardown the socket is the accepted one, or
\* the handler has destroyed it.
HoldsAccepted ==
  tpc \in {"ready", "await", "woken"} =>
    /\ delay_handle.attempts = 0
    /\ sock = NoSock \/ wire[sock] = "accepted" \/ hpc = "forget"

IInv == TypeOK /\ ReadyOnlyConnected /\ HoldsAccepted /\ SleepTaskParked

USE DEF CASTER_READY, DATA_READY, DATA_SENT

\* What the back-off does to a handle.
LEMMA HandleTypes ==
  /\ InitialHandle \in Handles
  /\ InitialHandle.attempts = 0
  /\ \A h \in Handles : /\ AfterDelay(h) \in Handles
                         /\ retry_reset(h) \in Handles
                         /\ retry_reset(h).attempts = 0
<1>1. 0 \in 0..(AttemptsMod - 1)
      /\ \A a \in 0..(AttemptsMod - 1) : (a + 1) % AttemptsMod \in 0..(AttemptsMod - 1)
  BY AttemptsAssumption
<1>2. InitialHandle = [ attempts |-> 0, first_instant |-> TRUE, short_count |-> 5,
                        short_delay |-> 2000, max_delay |-> 0,
                        delays_offset |-> DelaysOffset(2000) ]
  BY DEF InitialHandle, retry_init
<1>3. InitialHandle \in Handles /\ InitialHandle.attempts = 0
  BY <1>1, <1>2 DEF Handles
<1>4. ASSUME NEW h \in Handles
      PROVE  AfterDelay(h) \in Handles /\ retry_reset(h) \in Handles
             /\ retry_reset(h).attempts = 0
  <2>1. h.attempts \in 0..(AttemptsMod - 1)
    BY DEF Handles
  <2>2. ASSUME NEW a \in 0..(AttemptsMod - 1)
        PROVE  [h EXCEPT !.attempts = a] \in Handles /\ [h EXCEPT !.attempts = a].attempts = a
    BY DEF Handles
  <2>3. AfterDelay(h) = [h EXCEPT !.attempts = (h.attempts + 1) % AttemptsMod]
    BY DEF AfterDelay
  <2>. QED
    BY <1>1, <2>1, <2>2, <2>3 DEF retry_reset
<1>. QED
  BY <1>3, <1>4

LEMMA InitIInv == Init => IInv
<1> SUFFICES ASSUME Init PROVE IInv
  OBVIOUS
<1>1. delay_handle \in Handles
  BY HandleTypes DEF Init
<1>2. TypeOK
  BY <1>1, KeepAliveAssumption DEF Init, TypeOK, Bits, Ticks, TPC, SPC, HPC
<1>. QED
  BY <1>2 DEF Init, IInv, ReadyOnlyConnected, HoldsAccepted, SleepTaskParked

\* Setting DATA_READY or DATA_SENT keeps the types and releases at most T from
\* its wait for data.
LEMMA SetBitsEffect ==
  ASSUME TypeOK, NEW b \in {DATA_READY, DATA_SENT}, SetBits(b)
  PROVE  /\ bits' \subseteq Bits
         /\ CASTER_READY \in bits' <=> CASTER_READY \in bits
         /\ tpc' = tpc \/ (tpc = "blocked" /\ tpc' = "resume")
BY DEF SetBits, TypeOK, Bits

\* The handler's steps.
LEMMA HandlerStep == IInv /\ HNext => IInv'
<1> SUFFICES ASSUME IInv, HNext PROVE IInv'
  OBVIOUS
<1> USE FdsAssumption
    DEF IInv, ReadyOnlyConnected, HoldsAccepted, SleepTaskParked, shared, H
<1>1. CASE HGetBits
  BY <1>1 DEF HGetBits, TypeOK, HPC
<1>2. CASE HSetDataReady
  <2>1. TypeOK'
    BY <1>2, SetBitsEffect DEF HSetDataReady, TypeOK, HPC, TPC
  <2>2. ReadyOnlyConnected' /\ HoldsAccepted' /\ SleepTaskParked'
    BY <1>2, SetBitsEffect DEF HSetDataReady
  <2>. QED
    BY <2>1, <2>2
<1>3. CASE HResetKeepAlive
  BY <1>3, KeepAliveAssumption DEF HResetKeepAlive, TypeOK, HPC, Ticks
<1>4. CASE HSetDataSent
  <2>1. TypeOK'
    BY <1>4, SetBitsEffect DEF HSetDataSent, TypeOK, HPC, TPC
  <2>2. ReadyOnlyConnected' /\ HoldsAccepted' /\ SleepTaskParked'
    BY <1>4, SetBitsEffect DEF HSetDataSent
  <2>. QED
    BY <2>1, <2>2
<1>5. CASE HWriteOk
  BY <1>5 DEF HWriteOk, TypeOK, HPC
<1>6. CASE HWriteFails
  BY <1>6 DEF HWriteFails, TypeOK, HPC
<1>7. CASE HClose
  BY <1>7 DEF HClose, CloseSock, TypeOK, HPC
<1>8. CASE HForget
  BY <1>8 DEF HForget, TypeOK, HPC
<1>9. CASE HResume
  BY <1>9 DEF HResume, TypeOK, HPC
<1>. QED
  BY <1>1, <1>2, <1>3, <1>4, <1>5, <1>6, <1>7, <1>8, <1>9 DEF HNext

\* The sleep task's steps: while it is parked it can at most suspend itself.
LEMMA SleepStep == IInv /\ SNext => IInv'
<1> SUFFICES ASSUME IInv, SNext PROVE IInv'
  OBVIOUS
<1> USE KeepAliveAssumption
    DEF IInv, ReadyOnlyConnected, HoldsAccepted, SleepTaskParked, shared, S,
        TypeOK, SPC, Ticks
<1>1. CASE SSuspendSelf
  BY <1>1 DEF SSuspendSelf
<1>2. CASE SCheck
  BY <1>2 DEF SCheck
<1>3. CASE SClearDataReady
  BY <1>3 DEF SClearDataReady
<1>4. CASE SLoad
  BY <1>4 DEF SLoad
<1>5. CASE SStore
  BY <1>5 DEF SStore
<1>. QED
  BY <1>1, <1>2, <1>3, <1>4, <1>5 DEF SNext

\* The server task's steps keep the types.
LEMMA ServerType == TypeOK /\ TNext => TypeOK'
<1> SUFFICES ASSUME TypeOK, TNext PROVE TypeOK'
  OBVIOUS
<1>1. CASE TRetryDelay
  BY <1>1, HandleTypes DEF TRetryDelay, T, TypeOK, TPC, shared
<1>2. CASE TCheckData
  BY <1>2 DEF TCheckData, T, TypeOK, TPC, shared
<1>3. CASE TWaitData
  BY <1>3 DEF TWaitData, T, TypeOK, TPC, shared
<1>4. CASE TResumeSleep
  BY <1>4 DEF TResumeSleep, T, TypeOK, TPC, shared
<1>5. CASE TWaitForIp
  BY <1>5 DEF TWaitForIp, T, TypeOK, TPC, shared
<1>6. CASE TConnect
  BY <1>6 DEF TConnect, T, TypeOK, TPC, shared
<1>7. CASE TConnectFails
  BY <1>7 DEF TConnectFails, T, TypeOK, TPC, shared
<1>8. CASE TRequest
  BY <1>8 DEF TRequest, T, TypeOK, TPC, shared, Usable
<1>9. CASE TAccepted
  BY <1>9, HandleTypes DEF TAccepted, T, TypeOK, TPC, shared, Usable
<1>10. CASE TRefused
  BY <1>10 DEF TRefused, T, TypeOK, TPC, shared
<1>11. CASE TSetCasterReady
  BY <1>11 DEF TSetCasterReady, T, TypeOK, TPC, shared, Bits
<1>12. CASE TAwaitDisconnect
  BY <1>12 DEF TAwaitDisconnect, T, TypeOK, TPC, shared
<1>13. CASE TDisconnected
  BY <1>13 DEF TDisconnected, T, TypeOK, TPC, shared
<1>14. CASE TSuspendSleep
  BY <1>14 DEF TSuspendSleep, T, TypeOK, TPC, shared
<1>15. CASE TClose
  BY <1>15 DEF TClose, T, TypeOK, TPC, shared, CloseSock
<1>16. CASE TForget
  BY <1>16 DEF TForget, T, TypeOK, TPC, shared
<1>. QED
  BY <1>1, <1>2, <1>3, <1>4, <1>5, <1>6, <1>7, <1>8, <1>9, <1>10, <1>11, <1>12, <1>13, <1>14, <1>15, <1>16 DEF TNext

\* The server task's steps keep the rest of the inductive invariant.
LEMMA ServerStep == IInv /\ TNext => IInv'
<1> SUFFICES ASSUME IInv, TNext
             PROVE  (ReadyOnlyConnected /\ HoldsAccepted /\ SleepTaskParked)'
  BY ServerType DEF IInv
<1>1. CASE TRetryDelay
  BY <1>1 DEF TRetryDelay, T, shared, IInv, ReadyOnlyConnected, HoldsAccepted, SleepTaskParked
<1>2. CASE TCheckData
  BY <1>2 DEF TCheckData, T, shared, IInv, ReadyOnlyConnected, HoldsAccepted, SleepTaskParked
<1>3. CASE TWaitData
  BY <1>3 DEF TWaitData, T, shared, IInv, ReadyOnlyConnected, HoldsAccepted, SleepTaskParked
<1>4. CASE TResumeSleep
  BY <1>4 DEF TResumeSleep, T, shared, IInv, ReadyOnlyConnected, HoldsAccepted, SleepTaskParked
<1>5. CASE TWaitForIp
  BY <1>5 DEF TWaitForIp, T, shared, IInv, ReadyOnlyConnected, HoldsAccepted, SleepTaskParked
<1>6. CASE TConnect
  BY <1>6 DEF TConnect, T, shared, IInv, ReadyOnlyConnected, HoldsAccepted, SleepTaskParked
<1>7. CASE TConnectFails
  BY <1>7 DEF TConnectFails, T, shared, IInv, ReadyOnlyConnected, HoldsAccepted, SleepTaskParked
<1>8. CASE TRequest
  BY <1>8 DEF TRequest, T, shared, IInv, ReadyOnlyConnected, HoldsAccepted, SleepTaskParked
<1>9. CASE TAccepted
  BY <1>9, HandleTypes DEF TAccepted, T, shared, IInv, ReadyOnlyConnected, HoldsAccepted,
                           SleepTaskParked, Usable, TypeOK
<1>10. CASE TRefused
  BY <1>10 DEF TRefused, T, shared, IInv, ReadyOnlyConnected, HoldsAccepted, SleepTaskParked
<1>11. CASE TSetCasterReady
  BY <1>11 DEF TSetCasterReady, T, shared, IInv, ReadyOnlyConnected, HoldsAccepted, SleepTaskParked
<1>12. CASE TAwaitDisconnect
  BY <1>12 DEF TAwaitDisconnect, T, shared, IInv, ReadyOnlyConnected, HoldsAccepted, SleepTaskParked
<1>13. CASE TDisconnected
  BY <1>13 DEF TDisconnected, T, shared, IInv, ReadyOnlyConnected, HoldsAccepted, SleepTaskParked
<1>14. CASE TSuspendSleep
  BY <1>14 DEF TSuspendSleep, T, shared, IInv, ReadyOnlyConnected, HoldsAccepted, SleepTaskParked
<1>15. CASE TClose
  BY <1>15 DEF TClose, T, shared, IInv, ReadyOnlyConnected, HoldsAccepted, SleepTaskParked, CloseSock
<1>16. CASE TForget
  BY <1>16 DEF TForget, T, shared, IInv, ReadyOnlyConnected, HoldsAccepted, SleepTaskParked
<1>. QED
  BY <1>1, <1>2, <1>3, <1>4, <1>5, <1>6, <1>7, <1>8, <1>9, <1>10, <1>11, <1>12, <1>13, <1>14, <1>15, <1>16 DEF TNext

\* The environment's steps.
LEMMA EnvironmentStep == IInv /\ (NetChange \/ ConnectionLost) => IInv'
BY DEF IInv, ReadyOnlyConnected, HoldsAccepted, SleepTaskParked, TypeOK, shared,
       NetChange, ConnectionLost

\* The inductive invariant holds in every reachable state.
THEOREM Invariance == Spec => []IInv
<1>1. IInv /\ UNCHANGED vars => IInv'
  BY DEF IInv, ReadyOnlyConnected, HoldsAccepted, SleepTaskParked, TypeOK, vars, shared
<1>2. IInv /\ [Next]_vars => IInv'
  BY <1>1, HandlerStep, SleepStep, ServerStep, EnvironmentStep DEF Next
<1>. QED
  BY <1>2, InitIInv, PTL DEF Spec

\* Every variable keeps its type.
THEOREM TypeCorrect == Spec => []TypeOK
<1>1. IInv => TypeOK
  BY DEF IInv
<1>. QED
  BY <1>1, Invariance, PTL

\* CASTER_READY is never announced for a connection that the caster has not
\* accepted, for any number of descriptors.
THEOREM ReadyTruthful == Spec => []ReadyMeansAccepted
<1>1. IInv => ReadyMeansAccepted
  BY DEF IInv, ReadyOnlyConnected, HoldsAccepted, ReadyMeansAccepted
<1>. QED
  BY <1>1, Invariance, PTL

\* The sleep task is parked whenever the server task is between connections.
THEOREM Parked == Spec => []SleepTaskParked
<1>1. IInv => SleepTaskParked
  BY DEF IInv
<1>. QED
  BY <1>1, Invariance, PTL
=============================================================================
