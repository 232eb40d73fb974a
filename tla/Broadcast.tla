----------------------------- MODULE Broadcast -----------------------------
(***************************************************************************)
(* What the caster promises its clients, as if each operation on the list   *)
(* were one step: a chunk goes to the clients that are on the list when it  *)
(* comes, in the order of the list, and to each of them once, whoever is    *)
(* inserted meanwhile; a client whose write fails is removed, no other is.  *)
(* Nothing is promised once the list is damaged.                            *)
(***************************************************************************)
EXTENDS Sequences, SequencesExt

CONSTANTS
  Clients    \* those that may be on the list

VARIABLES
  clients,   \* the list, the last that was inserted first
  todo,      \* the clients that the current chunk has not been written to
  damaged

Init ==
  /\ clients = <<>> /\ todo = <<>>
  /\ damaged = FALSE

Insert(c) ==
  /\ \A i \in DOMAIN clients : clients[i] # c
  /\ clients' = <<c>> \o clients
  /\ todo' = todo

Chunk ==
  /\ todo = <<>> /\ todo' = clients
  /\ clients' = clients

Write ==
  /\ todo # <<>> /\ todo' = Tail(todo)
  /\ clients' = clients

Drop ==
  /\ todo # <<>> /\ todo' = Tail(todo)
  /\ \E i \in DOMAIN clients :
       clients[i] = Head(todo) /\ clients' = RemoveAt(clients, i)

Serve == Chunk \/ Write \/ Drop \/ \E c \in Clients : Insert(c)

Next == damaged' = TRUE \/ (~damaged /\ Serve /\ damaged' = FALSE)

Spec == Init /\ [][Next]_<<clients, todo, damaged>>
=============================================================================
