------------------------------- MODULE MCRetry -------------------------------
(* The real table, the real counter width and the program's two callers.     *)
EXTENDS Retry

MCDelays == << 1000, 2000, 5000, 10000, 15000, 30000, 45000, 60000, 90000,
  120000, 300000, 600000, 900000, 1800000, 2700000, 3600000 >>

MCCallers ==
  { [first_instant |-> TRUE, short_count |-> 5, short_delay |-> 2000, max_delay |-> m] :
      m \in {0, 60000} }
=============================================================================
