------------------------------ MODULE RetryOps ------------------------------
(***************************************************************************)
(* The reconnect back-off of src/main/retry.c as operators on a handle.    *)
(* The handle is the C struct retry_delay: the parameters given to         *)
(* retry_init, the offset computed from them, and a 16-bit call counter.   *)
(* The modules of the tasks that reconnect (Retry, NtripServer, Wifi) keep  *)
(* one handle each.  A delay is in milliseconds.                           *)
(***************************************************************************)
EXTENDS Integers, Sequences

CONSTANTS
  Delays,        \* the delay table, in increasing order
  AttemptsMod    \* values of the attempts field (2^16, it is a uint16_t)

ASSUME DelaysAssumption ==
  /\ Delays \in Seq(Nat \ {0})
  /\ Len(Delays) > 0
  /\ \A i, j \in 1..Len(Delays) : i <= j => Delays[i] <= Delays[j]

ASSUME AttemptsAssumption == AttemptsMod \in Nat \ {0}

LastDelay == Delays[Len(Delays)]

\* delays_offset: how many leading entries of the table are below short_delay.
DelaysOffset(short_delay) ==
  CHOOSE n \in 0..Len(Delays) :
    /\ \A i \in 1..n : Delays[i] < short_delay
    /\ n < Len(Delays) => Delays[n + 1] >= short_delay

retry_init(first_instant, short_count, short_delay, max_delay) ==
  [ attempts      |-> 0,
    first_instant |-> first_instant,
    short_count   |-> short_count,
    short_delay   |-> short_delay,
    max_delay     |-> max_delay,
    delays_offset |-> DelaysOffset(short_delay) ]

\* The table entry i places after the start, the last one when past the end.
TableDelay(i) == IF i < Len(Delays) THEN Delays[i + 1] ELSE LastDelay

\* A mutant of Capped: max_delay is forgotten.
CappedNever(d, max_delay) == d

Capped(d, max_delay) == IF max_delay > 0 /\ d > max_delay THEN max_delay ELSE d

\* Mutants of DelayOf: the table is read without delays_offset; the instant first
\* attempt is not limited to the first attempt.
DelayNoOffset(h) ==
  IF h.attempts = 0 /\ h.first_instant THEN 0
  ELSE IF h.attempts < h.short_count THEN h.short_delay
  ELSE Capped(TableDelay(h.attempts - h.short_count), h.max_delay)

DelayAlwaysInstant(h) ==
  IF h.first_instant THEN 0
  ELSE IF h.attempts < h.short_count THEN h.short_delay
  ELSE Capped(TableDelay(h.attempts - h.short_count + h.delays_offset), h.max_delay)

\* How long retry_delay(h) makes its caller wait.
DelayOf(h) ==
  IF h.attempts = 0 /\ h.first_instant THEN 0
  ELSE IF h.attempts < h.short_count THEN h.short_delay
  ELSE Capped(TableDelay(h.attempts - h.short_count + h.delays_offset), h.max_delay)

\* A mutant of AfterDelay: a counter without a width.
AfterDelayUnbounded(h) == [h EXCEPT !.attempts = @ + 1]

\* The handle after a call of retry_delay: attempts++ on a uint16_t.
AfterDelay(h) == [h EXCEPT !.attempts = (@ + 1) % AttemptsMod]

retry_reset(h) == [h EXCEPT !.attempts = 0]
=============================================================================
