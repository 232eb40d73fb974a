---------------------------- MODULE Retry_proof ----------------------------
(***************************************************************************)
(* Proofs about the back-off for every delay table, counter width and set  *)
(* of callers that satisfy the assumptions of RetryOps and Retry.          *)
(***************************************************************************)
EXTENDS Retry, FiniteSetTheorems, TLAPS

\* The least-number principle for a set of naturals, from the well-foundedness
\* of strict inclusion on the initial segments 0..n.
LEMMA LeastElement ==
  ASSUME NEW T, T \subseteq Nat, T # {}
  PROVE  \E m \in T : \A k \in T : m <= k
<1> DEFINE R == StrictSubsetOrdering(Nat)
           Segments == {0..n : n \in T}
<1>1. Segments \subseteq FiniteSubsetsOf(Nat)
  <2> SUFFICES ASSUME NEW n \in T
               PROVE  IsFiniteSet(0..n)
    BY DEF FiniteSubsetsOf
  <2>. QED
    BY FS_Interval
<1>2. \E x \in Segments : \A y \in Segments : <<y, x>> \notin R
  <2>1. IsWellFoundedOn(R, FiniteSubsetsOf(Nat))
    BY FS_StrictSubsetOrderingWellFounded
  <2>2. Segments # {}
    OBVIOUS
  <2> HIDE DEF R, Segments
  <2>. QED
    BY <1>1, <2>1, <2>2, WFMin
<1>3. PICK m \in T : \A k \in T : <<0..k, 0..m>> \notin R
  BY <1>2
<1>4. ASSUME NEW k \in T, k < m PROVE FALSE
  <2>1. 0..k \subseteq 0..m /\ 0..k # 0..m
    BY <1>4, SMT
  <2>2. <<0..k, 0..m>> \in R
    BY <2>1 DEF StrictSubsetOrdering
  <2>. QED
    BY <1>3, <2>2
<1>. QED
  BY <1>4, SMT

\* The loop of retry_init ends at an entry of the table that is not below
\* short_delay, for a caller whose short_delay the table reaches.
LEMMA OffsetInTable ==
  ASSUME NEW sd \in Nat, sd <= LastDelay
  PROVE  /\ DelaysOffset(sd) \in 0..(Len(Delays) - 1)
         /\ Delays[DelaysOffset(sd) + 1] >= sd
<1> USE DelaysAssumption
<1> DEFINE Ends == {n \in 0..Len(Delays) : n < Len(Delays) => Delays[n + 1] >= sd}
           IsOffset(n) == /\ \A i \in 1..n : Delays[i] < sd
                          /\ n < Len(Delays) => Delays[n + 1] >= sd
<1>1. PICK m \in Ends : \A k \in Ends : m <= k
  <2>1. Ends \subseteq Nat /\ Len(Delays) \in Ends
    OBVIOUS
  <2> HIDE DEF Ends
  <2>. QED
    BY <2>1, LeastElement
<1>2. \A i \in 1..m : Delays[i] < sd
  <2> SUFFICES ASSUME NEW i \in 1..m
               PROVE  Delays[i] < sd
    OBVIOUS
  <2>1. m \in 0..Len(Delays) /\ i - 1 \in 0..Len(Delays) /\ ~(m <= i - 1)
    OBVIOUS
  <2>2. (i - 1) \notin Ends
    <3> HIDE DEF Ends
    <3>. QED
      BY <1>1, <2>1
  <2>3. ~(Delays[(i - 1) + 1] >= sd)
    BY <2>1, <2>2
  <2>4. (i - 1) + 1 = i /\ i \in 1..Len(Delays)
    BY <2>1
  <2>5. Delays[i] \in Nat
    BY <2>4
  <2>. QED
    BY <2>3, <2>4, <2>5
<1>3. \E n \in 0..Len(Delays) : IsOffset(n)
  BY <1>1, <1>2
<1>4. DelaysOffset(sd) \in 0..Len(Delays) /\ IsOffset(DelaysOffset(sd))
  BY <1>3 DEF DelaysOffset
<1>5. DelaysOffset(sd) # Len(Delays)
  BY <1>4 DEF LastDelay
<1>. QED
  BY <1>4, <1>5

\* TableDelay stays in the table, and never decreases.
LEMMA TableDelayMonotone ==
  ASSUME NEW i \in Nat, NEW j \in Nat, i <= j
  PROVE  /\ TableDelay(i) \in Nat
         /\ TableDelay(i) <= TableDelay(j)
         /\ TableDelay(i) <= LastDelay
BY DelaysAssumption DEF TableDelay, LastDelay

\* What a call waits, for a handle of the program: a delay within the bound, and
\* not below short_delay unless it is the first call.
LEMMA DelayBounds ==
  ASSUME NEW c \in Callers, NEW h \in Handles(c)
  PROVE  /\ DelayOf(h) \in Nat
         /\ DelayOf(h) <= IF h.max_delay > 0 THEN h.max_delay ELSE LastDelay
         /\ h.attempts # 0 => DelayOf(h) >= h.short_delay
<1> DEFINE i == h.attempts - h.short_count + h.delays_offset
<1> USE CallersAssumption, AttemptsAssumption
<1>1. LastDelay \in Nat
  BY DelaysAssumption DEF LastDelay
<1>2. /\ h.attempts \in Nat /\ h.first_instant \in BOOLEAN /\ h.short_count \in Nat
      /\ h.short_delay \in Nat \ {0} /\ h.short_delay <= LastDelay /\ h.max_delay \in Nat
      /\ h.max_delay = 0 \/ h.max_delay >= h.short_delay
      /\ h.delays_offset = DelaysOffset(h.short_delay)
  BY DEF Handles
<1>3. h.delays_offset \in Nat /\ TableDelay(h.delays_offset) >= h.short_delay
  BY <1>2, OffsetInTable DEF TableDelay
<1>4. ASSUME ~(h.attempts < h.short_count)
      PROVE  TableDelay(i) \in Nat /\ TableDelay(i) <= LastDelay
             /\ TableDelay(i) >= h.short_delay
  <2>1. i \in Nat /\ h.delays_offset <= i
    BY <1>2, <1>3, <1>4
  <2>2. TableDelay(h.delays_offset) \in Nat /\ TableDelay(h.delays_offset) <= TableDelay(i)
    BY <1>3, <2>1, TableDelayMonotone
  <2>3. TableDelay(i) \in Nat /\ TableDelay(i) <= LastDelay
    BY <2>1, TableDelayMonotone
  <2>. QED
    BY <1>2, <1>3, <2>2, <2>3
<1>. QED
  BY <1>1, <1>2, <1>4 DEF DelayOf, Capped

\* One more failed attempt never shortens the wait.
LEMMA DelayMonotone ==
  ASSUME NEW c \in Callers, NEW h \in Handles(c), h.attempts > 0
  PROVE  DelayOf([h EXCEPT !.attempts = h.attempts - 1]) <= DelayOf(h)
<1> DEFINE g == [h EXCEPT !.attempts = h.attempts - 1]
           i == h.attempts - h.short_count + h.delays_offset
<1> USE CallersAssumption, AttemptsAssumption
<1>1. g \in Handles(c)
  BY DEF Handles
<1>2. /\ h.attempts \in Nat /\ h.short_count \in Nat /\ h.max_delay \in Nat
      /\ h.short_delay \in Nat /\ h.short_delay <= LastDelay
      /\ h.delays_offset = DelaysOffset(h.short_delay)
      /\ g.attempts = h.attempts - 1
      /\ g.first_instant = h.first_instant /\ g.short_count = h.short_count
      /\ g.short_delay = h.short_delay /\ g.max_delay = h.max_delay
      /\ g.delays_offset = h.delays_offset
  BY DEF Handles
<1>3. /\ DelayOf(g) \in Nat /\ DelayOf(h) \in Nat /\ DelayOf(h) >= h.short_delay
  BY <1>1, <1>2, DelayBounds
<1>4. CASE g.attempts = 0 /\ g.first_instant
  BY <1>3, <1>4 DEF DelayOf
<1>5. CASE ~(g.attempts = 0 /\ g.first_instant) /\ g.attempts < g.short_count
  BY <1>2, <1>3, <1>5 DEF DelayOf
<1>6. CASE ~(g.attempts = 0 /\ g.first_instant) /\ ~(g.attempts < g.short_count)
  <2>1. h.delays_offset \in Nat
    BY <1>2, OffsetInTable
  <2>2. i - 1 \in Nat /\ i \in Nat
    BY <1>2, <1>6, <2>1
  <2>3. TableDelay(i - 1) \in Nat /\ TableDelay(i) \in Nat /\ TableDelay(i - 1) <= TableDelay(i)
    BY <2>2, TableDelayMonotone
  <2>4. DelayOf(h) = Capped(TableDelay(i), h.max_delay)
    BY <1>2, <1>6 DEF DelayOf
  <2>5. DelayOf(g) = Capped(TableDelay(i - 1), h.max_delay)
    <3>1. g.attempts - g.short_count + g.delays_offset = i - 1
      BY <1>2, <2>1
    <3>. QED
      BY <1>2, <1>6, <3>1 DEF DelayOf
  <2>. QED
    BY <1>2, <2>3, <2>4, <2>5 DEF Capped
<1>. QED
  BY <1>4, <1>5, <1>6

-----------------------------------------------------------------------------
\* The strengthening: BackoffMonotone needs that waited is the delay of the previous attempt.
WaitedIsPrevious ==
  handle.attempts > 0 =>
    waited = DelayOf([handle EXCEPT !.attempts = handle.attempts - 1])

\* The inductive invariant.
IInv == TypeOK /\ WaitBounded /\ WaitedIsPrevious

LEMMA InitIInv == Init => IInv
<1> SUFFICES ASSUME Init PROVE IInv
  OBVIOUS
<1>1. PICK c \in Callers :
        handle = retry_init(c.first_instant, c.short_count, c.short_delay, c.max_delay)
  BY DEF Init
<1>2. handle \in Handles(c)
  BY <1>1, AttemptsAssumption DEF retry_init, Handles
<1>3. handle.max_delay \in Nat /\ handle.attempts = 0 /\ LastDelay \in Nat
  BY <1>1, CallersAssumption, DelaysAssumption DEF retry_init, LastDelay
<1>. QED
  BY <1>2, <1>3 DEF Init, IInv, TypeOK, WaitBounded, WaitedIsPrevious

LEMMA NextIInv == IInv /\ [Next]_vars => IInv'
<1> SUFFICES ASSUME IInv, [Next]_vars PROVE IInv'
  OBVIOUS
<1>1. PICK c \in Callers : handle \in Handles(c)
  BY DEF IInv, TypeOK
<1>2. CASE Delay
  <2>1. handle' \in Handles(c) /\ handle'.max_delay = handle.max_delay
    BY <1>1, <1>2, AttemptsAssumption DEF Delay, AfterDelay, Handles
  <2>2. waited' = DelayOf(handle) /\ waited' \in Nat
    BY <1>1, <1>2, DelayBounds DEF Delay
  <2>3. WaitBounded'
    BY <1>1, <2>1, <2>2, DelayBounds DEF WaitBounded
  <2>4. WaitedIsPrevious'
    <3> SUFFICES ASSUME handle'.attempts > 0
                 PROVE  waited' = DelayOf([handle' EXCEPT !.attempts = handle'.attempts - 1])
      BY DEF WaitedIsPrevious
    <3>1. handle.attempts \in 0..(AttemptsMod - 1)
          /\ handle' = [handle EXCEPT !.attempts = (handle.attempts + 1) % AttemptsMod]
      BY <1>1, <1>2 DEF Delay, AfterDelay, Handles
    <3>2. handle'.attempts = (handle.attempts + 1) % AttemptsMod
      BY <1>1, <3>1 DEF Handles
    <3>3. handle'.attempts = handle.attempts + 1
      BY <3>1, <3>2, AttemptsAssumption
    <3>4. [handle' EXCEPT !.attempts = handle'.attempts - 1] = handle
      <4>1. handle'.attempts - 1 = handle.attempts
        BY <3>1, <3>3
      <4>2. [handle' EXCEPT !.attempts = handle.attempts] = handle
        BY <1>1, <3>1 DEF Handles
      <4>. QED
        BY <4>1, <4>2
    <3>. QED
      BY <2>2, <3>4
  <2>. QED
    BY <2>1, <2>2, <2>3, <2>4 DEF IInv, TypeOK
<1>3. CASE Reset
  <2>1. /\ handle' \in Handles(c) /\ handle'.max_delay = handle.max_delay
        /\ handle'.attempts = 0 /\ waited' = waited
    BY <1>1, <1>3, AttemptsAssumption DEF Reset, retry_reset, Handles
  <2>. QED
    BY <2>1 DEF IInv, TypeOK, WaitBounded, WaitedIsPrevious
<1>4. CASE UNCHANGED vars
  BY <1>4 DEF vars, IInv, TypeOK, WaitBounded, WaitedIsPrevious
<1>. QED
  BY <1>2, <1>3, <1>4 DEF Next

\* The inductive invariant holds in every reachable state.
THEOREM Invariance == Spec => []IInv
BY InitIInv, NextIInv, PTL DEF Spec

\* The types of a caller's handle and of its last wait.
THEOREM TypeCorrect == Spec => []TypeOK
BY Invariance, PTL DEF IInv

\* Every wait of every caller is within its cap or within the table.
THEOREM Bounded == Spec => []WaitBounded
<1>1. IInv => WaitBounded
  BY DEF IInv
<1>. QED
  BY <1>1, Invariance, PTL

\* The back-off never shrinks while the caller keeps failing.
THEOREM Monotone == Spec => BackoffMonotone
<1>1. IInv /\ [Next]_vars => [(Delay /\ handle.attempts # 0) => waited' >= waited]_vars
  <2> SUFFICES ASSUME IInv, Delay, handle.attempts # 0
               PROVE  waited' >= waited
    OBVIOUS
  <2>1. PICK c \in Callers : handle \in Handles(c)
    BY DEF IInv, TypeOK
  <2>2. handle.attempts > 0
    BY <2>1, AttemptsAssumption DEF Handles
  <2>3. waited = DelayOf([handle EXCEPT !.attempts = handle.attempts - 1])
    BY <2>2 DEF IInv, WaitedIsPrevious
  <2>4. waited' \in Nat /\ waited <= waited'
    BY <2>1, <2>2, <2>3, DelayMonotone, DelayBounds DEF Delay
  <2>5. waited \in Int
    BY DEF IInv, TypeOK
  <2>. QED
    BY <2>4, <2>5
<1>. QED
  BY <1>1, Invariance, PTL DEF Spec, BackoffMonotone

\* A caller that has just failed pauses at least short_delay.
THEOREM Pauses == Spec => PausesAfterFailure
<1>1. IInv /\ [Next]_vars => [(Delay /\ handle.attempts # 0) => waited' >= handle.short_delay]_vars
  BY DelayBounds DEF IInv, TypeOK, Delay
<1>. QED
  BY <1>1, Invariance, PTL DEF Spec, PausesAfterFailure
=============================================================================
