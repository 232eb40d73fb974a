-------------------------------- MODULE Retry --------------------------------
(***************************************************************************)
(* One user of the back-off: any interleaving of retry_delay calls (the    *)
(* connection failed again) and retry_reset calls (it succeeded).          *)
(***************************************************************************)
EXTENDS RetryOps

CONSTANT Callers   \* the parameter lists that the program passes to retry_init

\* What the monotonicity of the back-off needs of a caller's parameters: the
\* table reaches short_delay, and a cap, if there is one, is not below it.
ASSUME CallersAssumption ==
  \A c \in Callers :
    /\ c.first_instant \in BOOLEAN
    /\ c.short_count \in Nat
    /\ c.short_delay \in Nat \ {0}
    /\ c.short_delay <= LastDelay
    /\ c.max_delay \in Nat
    /\ c.max_delay = 0 \/ c.max_delay >= c.short_delay

VARIABLES
  handle,   \* the struct retry_delay
  waited    \* how long the last retry_delay call waited, -1 before the first

vars == <<handle, waited>>

Handles(c) ==
  [ attempts      : 0..(AttemptsMod - 1),
    first_instant : {c.first_instant},
    short_count   : {c.short_count},
    short_delay   : {c.short_delay},
    max_delay     : {c.max_delay},
    delays_offset : {DelaysOffset(c.short_delay)} ]

TypeOK ==
  /\ \E c \in Callers : handle \in Handles(c)
  /\ waited \in {-1} \cup Nat

Init ==
  /\ \E c \in Callers :
       handle = retry_init(c.first_instant, c.short_count, c.short_delay, c.max_delay)
  /\ waited = -1

Delay ==
  /\ waited' = DelayOf(handle)
  /\ handle' = AfterDelay(handle)

Reset ==
  /\ handle' = retry_reset(handle)
  /\ UNCHANGED waited

Next == Delay \/ Reset

Spec == Init /\ [][Next]_vars

-----------------------------------------------------------------------------
\* Every wait is within the caller's cap, or within the table when it has none:
\* no arithmetic on attempts, short_count and delays_offset escapes the table.
WaitBounded ==
  waited <= IF handle.max_delay > 0 THEN handle.max_delay ELSE LastDelay

\* While the caller keeps failing its waits never get shorter, across the three
\* phases (instant, short, table) and the cap.  Only a reset, or the counter
\* wrapping to 0, starts the schedule again.
BackoffMonotone ==
  [][(Delay /\ handle.attempts # 0) => waited' >= waited]_vars

\* A caller that has just failed always pauses before its next attempt: only the
\* first call after a reset (or a wrap of the counter) may return at once.
PausesAfterFailure ==
  [][(Delay /\ handle.attempts # 0) => waited' >= handle.short_delay]_vars
=============================================================================
