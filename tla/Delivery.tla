------------------------------ MODULE Delivery ------------------------------
(***************************************************************************)
(* What the read side of the UART promises its handlers: from the moment it *)
(* is registered, a handler gets every chunk that is read, in the order of   *)
(* reading, none twice and none left out.                                   *)
(***************************************************************************)
EXTENDS Integers

CONSTANTS
  Handlers   \* the functions that may be registered

Unregistered == -1

VARIABLES
  produced,   \* chunks read so far
  got         \* got[h]: the last chunk that h got, or must not get

Init ==
  /\ produced = 0
  /\ got = [h \in Handlers |-> Unregistered]

Produce ==
  /\ produced' = produced + 1
  /\ got' = got

\* Chunks that are on their way may still reach the new handler.
Register(h) ==
  /\ got[h] = Unregistered
  /\ \E k \in 0..produced : got' = [got EXCEPT ![h] = k]
  /\ produced' = produced

Deliver(h) ==
  /\ got[h] # Unregistered /\ got[h] < produced
  /\ got' = [got EXCEPT ![h] = @ + 1]
  /\ produced' = produced

Next == Produce \/ \E h \in Handlers : Register(h) \/ Deliver(h)

Spec == Init /\ [][Next]_<<produced, got>>
=============================================================================
