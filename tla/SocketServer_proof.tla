------------------------- MODULE SocketServer_proof -------------------------
(***************************************************************************)
(* Proofs about the socket server for any number of clients, descriptors    *)
(* and sources: until freed memory is used, every descriptor has one owner, *)
(* a source is one client, and a restart finds nothing left of the clients. *)
(***************************************************************************)
EXTENDS SocketServer, SequenceTheorems, TLAPS

(* The inductive invariant *)

Distinct(s)  == \A i, j \in 1..Len(s) : s[i] = s[j] => i = j
Elements(s)  == { s[i] : i \in 1..Len(s) }

Adding == pc["T"] = "publish"

\* The clients are the nodes that are allocated, each on the list once; only the one
\* that is just inserted is not on it, and the handler does not know that one.
ListInv ==
  /\ Distinct(clients)
  /\ live = Elements(clients) \cup IF Adding THEN {cur["T"]} ELSE {}
  /\ Adding => cur["T"] \notin Elements(clients) \cup {NULL, cur["H"], tmp["H"]}

\* A thread that removes a client holds one that is allocated, and not the other's.
RemovalInv ==
  /\ \A w \in Threads : pc[w] \in Removing => cur[w] \in live
  /\ \A w \in Threads : pc[w] \in {"find", "unlink"} => socket[cur[w]] = NoSocket
  /\ ~(pc["T"] \in Removing /\ pc["H"] \in Removing /\ cur["T"] = cur["H"])

\* Where the task is, and the sockets that it then has.
PhaseInv ==
  /\ IF pc["T"] \in {"connect", "insert"} THEN sock \in Fds ELSE sock = NoSocket
  /\ pc["T"] \in {"init", "udp"} \/ closing => sock_udp = NoSocket
  /\ pc["T"] = "init" \/ closing => sock_tcp = NoSocket
  /\ closing => pc["T"] \in {"next", "close", "init"} \cup Removing

\* Node n owns its socket unless the socket was closed and the field still has it.
OwnsSocket(n) ==
  /\ n \in live /\ socket[n] # NoSocket
  /\ \A w \in Threads : ~(pc[w] = "forget" /\ cur[w] = n)

\* The ports and the socket being accepted are open and differ.
PortInv ==
  /\ \A f \in {sock_tcp, sock_udp, sock} \ {NoSocket} : f \in Open
  /\ sock_tcp # NoSocket => sock_tcp # sock_udp /\ sock_tcp # sock
  /\ sock_udp # NoSocket => sock_udp # sock

\* The others that are open are owned by one client each, and what is owned is open.
OwnedInv ==
  /\ \A n \in Nodes : OwnsSocket(n) => socket[n] \in Open \ {sock_tcp, sock_udp, sock}
  /\ \A m, n \in Nodes : OwnsSocket(m) /\ OwnsSocket(n) /\ socket[m] = socket[n] => m = n
  /\ \A f \in Open \ {sock_tcp, sock_udp, sock} : \E n \in Nodes : OwnsSocket(n) /\ socket[n] = f

SocketInv == PortInv /\ OwnedInv

\* Sources have one client each.  The task has compared the sender of a datagram with
\* the clients before its loop variable, or with all of them.
SourceInv ==
  /\ \A m, n \in live : addr[m] = addr[n] /\ addr[m] # NULL => m = n
  /\ pc["T"] = "has" => source_addr # NULL
  /\ pc["T"] = "has" /\ cur["T"] \in live =>
       \A i, j \in 1..Len(clients) :
         clients[j] = cur["T"] /\ i < j => addr[clients[i]] # source_addr
  /\ (pc["T"] = "has" /\ cur["T"] = NULL) \/ pc["T"] \in {"socket", "connect", "insert"} =>
       \A n \in live : source_addr # NULL => addr[n] # source_addr

\* While everybody is dropped, the task is at the first client that is left, unless
\* the handler has freed the one that the task holds.
DropInv ==
  /\ pc["T"] = "init" => clients = <<>>
  /\ closing /\ pc["T"] = "next" =>
       /\ cur["T"] = NULL => clients = <<>>
       /\ cur["T"] \in live => cur["T"] = clients[1]
  /\ closing /\ pc["T"] \in {"close"} \cup Removing /\ cur["T"] \in live =>
       /\ cur["T"] = clients[1]
       /\ tmp["T"] = NULL => Len(clients) = 1
       /\ tmp["T"] \in live => Len(clients) >= 2 /\ tmp["T"] = clients[2]

Safe == ListInv /\ RemovalInv /\ PhaseInv /\ SocketInv /\ SourceInv /\ DropInv

IInv == TypeOK /\ (undefined \/ Safe)

-----------------------------------------------------------------------------
(* Sequences *)

\* A sequence is one over any set that has its elements.
LEMMA NarrowSeq ==
  ASSUME NEW S, NEW R, NEW s \in Seq(S), Elements(s) \subseteq R
  PROVE  s \in Seq(R)
<1>1. s \in [1..Len(s) -> R] /\ Len(s) \in Nat
  BY DEF Elements
<1> QED
  BY <1>1, SeqDef

\* What RemoveFirst returns of a sequence without repetitions.
LEMMA FirstRemoved ==
  ASSUME NEW S, NEW s \in Seq(S), NEW k \in 1..Len(s), Distinct(s)
  PROVE  /\ RemoveFirst(s, s[k]) \in Seq(S)
         /\ Len(RemoveFirst(s, s[k])) = Len(s) - 1
         /\ \A j \in 1..(Len(s) - 1) : RemoveFirst(s, s[k])[j] = IF j < k THEN s[j] ELSE s[j + 1]
<1>1. { i \in 1..Len(s) : s[i] = s[k] } = {k}
  BY DEF Distinct
<1>2. Min({k}) = k
  BY DEF Min
<1>3. SelectInSeq(s, LAMBDA v : v = s[k]) = k
  BY <1>1, <1>2 DEF SelectInSeq
<1>4. RemoveFirst(s, s[k]) = RemoveAt(s, k)
  BY <1>3 DEF RemoveFirst
<1> DEFINE before == SubSeq(s, 1, k - 1)
           after  == SubSeq(s, k + 1, Len(s))
<1>5. RemoveAt(s, k) = before \o after
  BY DEF RemoveAt
<1>6. /\ before \in Seq(S) /\ Len(before) = k - 1
      /\ \A i \in 1..(k - 1) : before[i] = s[i]
  BY SubSeqProperties
<1>7. /\ after \in Seq(S) /\ Len(after) = Len(s) - k
      /\ \A i \in 1..(Len(s) - k) : after[i] = s[k + i]
  BY SubSeqProperties
<1> HIDE DEF before, after
<1>8. before \o after \in Seq(S) /\ Len(before \o after) = Len(s) - 1
  <2>1. before \o after \in Seq(S) /\ Len(before \o after) = Len(before) + Len(after)
    BY <1>6, <1>7, ConcatProperties
  <2>2. (k - 1) + (Len(s) - k) = Len(s) - 1
    OBVIOUS
  <2> QED
    BY <1>6, <1>7, <2>1, <2>2
<1>9. ASSUME NEW j \in 1..(Len(s) - 1)
      PROVE  (before \o after)[j] = IF j < k THEN s[j] ELSE s[j + 1]
  <2>1. (before \o after)[j] = IF j <= k - 1 THEN before[j] ELSE after[j - (k - 1)]
    BY <1>6, <1>7, ConcatProperties
  <2>2. CASE j < k
    BY <1>6, <2>1, <2>2
  <2>3. CASE ~(j < k)
    <3>1. j - (k - 1) \in 1..(Len(s) - k) /\ k + (j - (k - 1)) = j + 1
      BY <2>3
    <3> QED
      BY <1>7, <2>1, <2>3, <3>1
  <2> QED
    BY <2>2, <2>3
<1> QED
  BY <1>4, <1>5, <1>8, <1>9

\* List t is s without its k-th element, the others in their order.
Shortened(t, s, k) ==
  /\ t \in Seq(Elements(s) \ {s[k]}) /\ Len(t) = Len(s) - 1 /\ Distinct(t)
  /\ Elements(t) = Elements(s) \ {s[k]}
  /\ \A j \in 1..(Len(s) - 1) : t[j] = IF j < k THEN s[j] ELSE s[j + 1]
  /\ \A i, j \in 1..Len(t) :
       i < j => \E p, q \in 1..Len(s) : p < q /\ t[i] = s[p] /\ t[j] = s[q]

\* Removing the client at position k leaves the others, in their order.
LEMMA WithoutOne ==
  ASSUME NEW S, NEW s \in Seq(S), NEW k \in 1..Len(s), Distinct(s)
  PROVE  Shortened(RemoveFirst(s, s[k]), s, k)
<1> DEFINE t == RemoveFirst(s, s[k])
           at(n) == IF n < k THEN n ELSE n + 1
<1>1. /\ t \in Seq(S) /\ Len(t) = Len(s) - 1
      /\ \A j \in 1..(Len(s) - 1) : t[j] = IF j < k THEN s[j] ELSE s[j + 1]
  BY FirstRemoved
<1> HIDE DEF t
<1>2. \A n \in 1..Len(t) : at(n) \in 1..Len(s) /\ at(n) # k /\ t[n] = s[at(n)]
  BY <1>1
<1>3. \A i, j \in 1..Len(t) : i < j => at(i) < at(j)
  BY <1>1
<1>4. Distinct(t)
  <2> SUFFICES ASSUME NEW i \in 1..Len(t), NEW j \in 1..Len(t), t[i] = t[j] PROVE i = j
    BY DEF Distinct
  <2>1. at(i) = at(j)
    <3> HIDE DEF at
    <3> QED
      BY <1>2 DEF Distinct
  <2> QED
    BY <2>1
<1>5. Elements(t) \subseteq Elements(s) \ {s[k]}
  <2> SUFFICES ASSUME NEW n \in 1..Len(t) PROVE t[n] \in Elements(s) \ {s[k]}
    BY DEF Elements
  <2> HIDE DEF at
  <2> QED
    BY <1>2 DEF Elements, Distinct
<1>6. Elements(s) \ {s[k]} \subseteq Elements(t)
  <2> SUFFICES ASSUME NEW n \in 1..Len(s), n # k PROVE s[n] \in Elements(t)
    BY DEF Elements
  <2> DEFINE m == IF n < k THEN n ELSE n - 1
  <2>1. m \in 1..Len(t) /\ t[m] = s[n]
    BY <1>1
  <2> QED
    BY <2>1 DEF Elements
<1>7. t \in Seq(Elements(s) \ {s[k]})
  BY <1>1, <1>5, NarrowSeq
<1>8. ASSUME NEW i \in 1..Len(t), NEW j \in 1..Len(t), i < j
      PROVE  \E p, q \in 1..Len(s) : p < q /\ t[i] = s[p] /\ t[j] = s[q]
  <2>1. at(i) \in 1..Len(s) /\ at(j) \in 1..Len(s) /\ at(i) < at(j)
    BY <1>2, <1>3, <1>8
  <2> HIDE DEF at
  <2> QED
    BY <1>2, <2>1
<1>9. Shortened(t, s, k)
  BY <1>1, <1>4, <1>5, <1>6, <1>7, <1>8 DEF Shortened
<1> QED
  BY <1>9 DEF t

\* A list with a new first element.
LEMMA WithOneMore ==
  ASSUME NEW S, NEW s \in Seq(S), NEW e \in S, Distinct(s), e \notin Elements(s)
  PROVE  /\ <<e>> \o s \in Seq(S) /\ Distinct(<<e>> \o s)
         /\ Elements(<<e>> \o s) = Elements(s) \cup {e}
<1> DEFINE t == <<e>> \o s
<1>1. <<e>> \in Seq(S) /\ Len(<<e>>) = 1 /\ <<e>>[1] = e
  OBVIOUS
<1>2. /\ t \in Seq(S) /\ Len(t) = Len(s) + 1
      /\ \A i \in 1..(Len(s) + 1) : t[i] = IF i <= 1 THEN e ELSE s[i - 1]
  BY <1>1, ConcatProperties
<1> HIDE DEF t
<1>3. Distinct(t)
  <2> SUFFICES ASSUME NEW i \in 1..(Len(s) + 1), NEW j \in 1..(Len(s) + 1), t[i] = t[j]
               PROVE  i = j
    BY <1>2 DEF Distinct
  <2>1. \A m \in 1..(Len(s) + 1) : m <= 1 \/ (m - 1 \in 1..Len(s) /\ t[m] = s[m - 1])
    BY <1>2
  <2>2. \A m \in 1..(Len(s) + 1) : m <= 1 <=> t[m] = e
    BY <1>2, <2>1 DEF Elements
  <2>3. CASE t[i] = e
    <3>1. i <= 1 /\ j <= 1
      BY <2>2, <2>3, Zenon
    <3>2. Len(s) \in Nat
      OBVIOUS
    <3> QED
      BY <3>1, <3>2
  <2>4. CASE t[i] # e
    <3>1. i - 1 \in 1..Len(s) /\ j - 1 \in 1..Len(s) /\ s[i - 1] = s[j - 1]
      BY <2>1, <2>2, <2>4
    <3>2. i - 1 = j - 1
      BY <3>1 DEF Distinct
    <3> QED
      BY <3>2
  <2> QED
    BY <2>3, <2>4
<1>4. Elements(t) \subseteq Elements(s) \cup {e}
  <2> SUFFICES ASSUME NEW i \in 1..(Len(s) + 1)
               PROVE  t[i] \in Elements(s) \cup {e}
    BY <1>2 DEF Elements
  <2>1. i <= 1 \/ (i - 1 \in 1..Len(s) /\ t[i] = s[i - 1])
    BY <1>2
  <2> QED
    BY <1>2, <2>1 DEF Elements
<1>5. \A i \in 1..Len(s) : i + 1 \in 1..Len(t) /\ t[i + 1] = s[i]
  BY <1>2
<1>6. 1 \in 1..Len(t) /\ t[1] = e
  BY <1>2
<1>7. Elements(s) \cup {e} \subseteq Elements(t)
  BY <1>5, <1>6 DEF Elements
<1> QED
  BY <1>2, <1>3, <1>4, <1>7 DEF t

\* The successor of the client at position k.
LEMMA Successor ==
  ASSUME TypeOK, Distinct(clients), NEW k \in 1..Len(clients)
  PROVE  After(clients[k]) = IF k = Len(clients) THEN NULL ELSE clients[k + 1]
<1>1. DOMAIN clients = 1..Len(clients)
  BY DEF TypeOK
<1>2. (CHOOSE i \in DOMAIN clients : clients[i] = clients[k]) = k
  BY <1>1 DEF Distinct
<1> DEFINE at(n) == CHOOSE i \in DOMAIN clients : clients[i] = n
<1>3. \A n : After(n) = IF at(n) = Len(clients) THEN NULL ELSE clients[at(n) + 1]
  BY DEF After
<1>4. at(clients[k]) = k
  BY <1>2
<1> HIDE DEF at
<1> QED
  BY <1>3, <1>4

\* A thread that holds an allocated client holds one of the list.
LEMMA HoldsListed ==
  ASSUME ListInv, NEW w \in Threads, cur[w] \in live, w = "H" \/ ~Adding
  PROVE  cur[w] \in Elements(clients)
BY DEF ListInv, Threads

\* The successor of a client on the list is on the list, or there is none.
LEMMA AfterListed ==
  ASSUME TypeOK, ListInv, NEW w \in Threads, cur[w] \in live, w = "H" \/ ~Adding
  PROVE  After(cur[w]) \in Elements(clients) \cup {NULL}
<1>1. PICK k \in 1..Len(clients) : cur[w] = clients[k]
  BY HoldsListed DEF Elements
<1>2. clients \in Seq(live) /\ Distinct(clients)
  BY DEF TypeOK, ListInv
<1> QED
  BY <1>1, <1>2, Successor DEF Elements

\* The first client is on the list, unless the list is empty.
LEMMA FirstListed ==
  ASSUME TypeOK
  PROVE  /\ First \in Elements(clients) \cup {NULL}
         /\ First = NULL <=> clients = <<>>
         /\ clients # <<>> => First = clients[1]
<1>1. clients \in Seq(live) /\ NULL \notin live
  BY NullAssumption DEF TypeOK
<1>2. CASE clients = <<>>
  BY <1>2 DEF First
<1>3. CASE clients # <<>>
  <2>1. 1 \in 1..Len(clients) /\ First = clients[1] /\ clients[1] \in live
    BY <1>1, <1>3 DEF First
  <2> QED
    BY <1>1, <1>3, <2>1 DEF Elements
<1> QED
  BY <1>2, <1>3

-----------------------------------------------------------------------------
(* Types *)

USE NullAssumption, FdsAssumption
USE DEF At, Go, Move, Threads, tvars, list, outside, PC, Wires, TcpWires, UdpWires, Opens,
        Removing

\* What the list operations return are nodes.
LEMMA Pointers ==
  ASSUME TypeOK
  PROVE  /\ Elements(clients) \subseteq live
         /\ First \in Nodes \cup {NULL}
         /\ ListInv => \A w \in Threads : cur[w] \in live /\ (w = "H" \/ ~Adding)
                                            => After(cur[w]) \in Nodes \cup {NULL}
<1>1. Elements(clients) \subseteq live /\ live \subseteq Nodes
  BY DEF TypeOK, Elements
<1> QED
  BY <1>1, FirstListed, AfterListed

\* The loop that both threads have keeps the types.
LEMMA WalkTypes ==
  ASSUME TypeOK, ListInv, NEW w \in Threads, Walk(w)
  PROVE  TypeOK'
<1>1. CASE Pick(w)
  <2>1. After(cur[w]) \in Nodes \cup {NULL}
    BY <1>1, Pointers DEF Pick, Adding
  <2> QED
    BY <1>1, <2>1 DEF TypeOK, Pick, Body
<1>2. CASE Finish(w)
  BY <1>2 DEF TypeOK, Finish, End
<1>3. CASE Close(w)
  BY <1>3 DEF TypeOK, Close, Closed
<1>4. CASE Forget(w)
  BY <1>4 DEF TypeOK, Forget
<1>5. CASE Find(w)
  BY <1>5 DEF TypeOK, Find
<1>6. CASE UseAfterFree(w)
  BY <1>6 DEF TypeOK, UseAfterFree
<1>20. CASE Unlink(w)
  <2>1. PICK k \in 1..Len(clients) : cur[w] = clients[k]
    BY <1>20, HoldsListed DEF Unlink, Elements, Adding
  <2>2. Shortened(clients', clients, k)
    BY <1>20, <2>1, WithoutOne DEF Unlink, TypeOK, ListInv
  <2>3. Elements(clients') \subseteq live'
    BY <1>20, <2>1, <2>2, Pointers DEF Unlink, Shortened
  <2>4. clients' \in Seq(live')
    BY <2>2, <2>3, NarrowSeq DEF Shortened
  <2> QED
    BY <1>20, <2>4 DEF TypeOK, Unlink, Inside
<1> QED
  BY <1>1, <1>2, <1>3, <1>4, <1>5, <1>6, <1>20 DEF Walk

\* So do the steps of the handler,
LEMMA HTypes ==
  ASSUME TypeOK, ListInv, HNext
  PROVE  TypeOK'
<1>1. CASE Walk("H")
  BY <1>1, WalkTypes
<1>2. CASE HChunk
  BY <1>2, Pointers DEF TypeOK, HChunk
<1>3. CASE HWrite
  BY <1>3 DEF TypeOK, HWrite
<1>4. CASE HWriteFails
  BY <1>4 DEF TypeOK, HWriteFails
<1> QED
  BY <1>1, <1>2, <1>3, <1>4 DEF HNext

\* those of the clients,
LEMMA ClientTypes ==
  ASSUME TypeOK, Clients
  PROVE  TypeOK'
<1>1. CASE ClientConnects
  BY <1>1 DEF TypeOK, ClientConnects
<1>2. ASSUME NEW f \in Fds, ClientDeaf(f)
      PROVE  TypeOK'
  BY <1>2 DEF TypeOK, ClientDeaf
<1>3. ASSUME NEW f \in Fds, NEW state \in {"data", "fin", "reset"}, ClientTcp(f, state)
      PROVE  TypeOK'
  BY <1>3 DEF TypeOK, ClientTcp
<1>4. ASSUME NEW s \in Sources, ClientSends(s)
      PROVE  TypeOK'
  <2>1. CASE ConnectedTo(s) # {}
    BY <1>4, <2>1 DEF TypeOK, ClientSends
  <2>2. CASE ConnectedTo(s) = {}
    <3>1. dgrams' \in Seq(Sources) /\ Len(dgrams') <= MaxDgrams
      <4>1. dgrams' = Append(dgrams, s) /\ Len(dgrams) < MaxDgrams /\ dgrams \in Seq(Sources)
        BY <1>4, <2>2 DEF TypeOK, ClientSends
      <4>2. dgrams' \in Seq(Sources) /\ Len(dgrams') = Len(dgrams) + 1 /\ Len(dgrams) \in Nat
        BY <4>1
      <4> QED
        BY <4>1, <4>2
    <3> QED
      BY <1>4, <2>2, <3>1 DEF TypeOK, ClientSends
  <2> QED
    BY <2>1, <2>2
<1> QED
  BY <1>1, <1>2, <1>3, <1>4 DEF Clients

\* and those of the task.
LEMMA TTypes ==
  ASSUME TypeOK, ListInv, DropInv, TNext
  PROVE  TypeOK'
<1>1. CASE Walk("T")
  BY <1>1, WalkTypes
<1>2. CASE TTcpInit
  <2>1. <<>> \in Seq(live)
    OBVIOUS
  <2> QED
    BY <1>2, <2>1 DEF TypeOK, TTcpInit
<1>3. CASE TUdpInit
  BY <1>3 DEF TypeOK, TUdpInit
<1>4. CASE TZero
  BY <1>4, Pointers DEF TypeOK, TZero
<1>5. CASE TCollect
  <2>1. After(cur["T"]) \in Nodes \cup {NULL}
    BY <1>5, Pointers DEF TCollect, Adding
  <2> QED
    BY <1>5, <2>1 DEF TypeOK, TCollect
<1>6. CASE TCollected
  BY <1>6 DEF TypeOK, TCollected
<1>7. CASE TBlock
  BY <1>7 DEF TypeOK, TBlock
<1>8. CASE TWake
  BY <1>8 DEF TypeOK, TWake, Readable
<1>9. CASE TSelectFails
  BY <1>9 DEF TypeOK, TSelectFails
<1>10. CASE TError
  <2>1. wire' \in [Fds -> Wires]
    BY <1>10 DEF TypeOK, TError, Closed
  <2>2. <<>> \in Seq(Sources) /\ Len(<<>>) <= MaxDgrams
    OBVIOUS
  <2> QED
    BY <1>10, <2>1, <2>2, Pointers DEF TypeOK, TError
<1>11. CASE TAccept
  BY <1>11 DEF TypeOK, TAccept
<1>12. CASE TNoAccept
  BY <1>12 DEF TypeOK, TNoAccept
<1>13. CASE TDatagram
  BY <1>13, Pointers DEF TypeOK, TDatagram
<1>14. CASE TNoDatagram
  BY <1>14, Pointers DEF TypeOK, TNoDatagram
<1>15. CASE THas
  <2>1. After(cur["T"]) \in Nodes \cup {NULL}
    BY <1>15, Pointers DEF THas, Adding
  <2> QED
    BY <1>15, <2>1 DEF TypeOK, THas
<1>16. CASE THasNot
  BY <1>16 DEF TypeOK, THasNot
<1>17. CASE TUdpSocket
  BY <1>17 DEF TypeOK, TUdpSocket
<1>18. CASE TUdpSocketFails
  BY <1>18 DEF TypeOK, TUdpSocketFails
<1>19. CASE TUdpConnect
  BY <1>19 DEF TypeOK, TUdpConnect
<1>20. CASE TUdpConnectFails
  BY <1>20 DEF TypeOK, TUdpConnectFails, Closed
<1>21. CASE TReceive
  BY <1>21 DEF TypeOK, TReceive
<1>22. CASE TReceived
  BY <1>22 DEF TypeOK, TReceived
<1>23. CASE TReceiveFails
  BY <1>23 DEF TypeOK, TReceiveFails
<1>24. ASSUME NEW n \in Nodes, TInsert(n)
      PROVE  TypeOK'
  <2>1. clients' \in Seq(live')
    BY <1>24, Pointers, NarrowSeq DEF TypeOK, TInsert
  <2> QED
    BY <1>24, <2>1 DEF TypeOK, TInsert
<1>25. CASE TPublish
  <2>1. cur["T"] \in live /\ live' = live
    BY <1>25 DEF TPublish, ListInv, Adding
  <2>2. clients' \in Seq(live)
    BY <1>25, <2>1 DEF TypeOK, TPublish
  <2> QED
    BY <1>25, <2>1, <2>2 DEF TypeOK, TPublish, Inside
<1> QED
  BY <1>1, <1>2, <1>3, <1>4, <1>5, <1>6, <1>7, <1>8, <1>9, <1>10, <1>11, <1>12, <1>13, <1>14,
     <1>15, <1>16, <1>17, <1>18, <1>19, <1>20, <1>21, <1>22, <1>23, <1>24, <1>25 DEF TNext

\* After undefined behaviour nothing is said of the program: the model stops.
LEMMA Stops ==
  ASSUME Next
  PROVE  ~undefined
<1>1. \A w \in Threads : Walk(w) => ~undefined
  BY DEF Walk, Pick, Finish, Close, Forget, Find, Unlink, UseAfterFree
<1>2. HNext => ~undefined
  BY <1>1 DEF HNext, HChunk, HWrite, HWriteFails
<1>3. Clients => ~undefined
  BY DEF Clients, ClientConnects, ClientDeaf, ClientTcp, ClientSends
<1>4. TNext => ~undefined
  BY <1>1 DEF TNext, TTcpInit, TUdpInit, TZero, TCollect, TCollected, TBlock, TWake,
     TSelectFails, TError, TAccept, TNoAccept, TDatagram, TNoDatagram, THas, THasNot,
     TUdpSocket, TUdpSocketFails, TUdpConnect, TUdpConnectFails, TInsert, TPublish,
     TReceive, TReceived, TReceiveFails
<1> QED
  BY <1>2, <1>3, <1>4 DEF Next

\* Every step keeps the types.
LEMMA TypeStep ==
  ASSUME IInv, [Next]_vars
  PROVE  TypeOK'
<1>1. CASE Next
  BY <1>1, Stops, TTypes, HTypes, ClientTypes DEF IInv, Safe, Next
<1>2. CASE UNCHANGED vars
  BY <1>2 DEF IInv, TypeOK, vars
<1> QED
  BY <1>1, <1>2

-----------------------------------------------------------------------------
(* The list *)

\* A step that leaves the list alone, and shows a new client to nobody.
LEMMA QuietList ==
  ASSUME ListInv, clients' = clients, live' = live, Adding' <=> Adding,
         Adding => cur'["T"] = cur["T"],
         Adding => {cur'["H"], tmp'["H"]}
                     \subseteq Elements(clients) \cup {NULL, cur["H"], tmp["H"]}
  PROVE  ListInv'
BY DEF ListInv, Adding

\* A removal takes one client off the list, and only that.
LEMMA ListKeptByUnlink ==
  ASSUME TypeOK, ListInv, NEW w \in Threads, Unlink(w), ~undefined'
  PROVE  ListInv'
<1>1. PICK k \in 1..Len(clients) : cur[w] = clients[k]
  BY HoldsListed DEF Unlink, Elements, Adding
<1>2. Shortened(clients', clients, k)
  BY <1>1, WithoutOne DEF Unlink, TypeOK, ListInv
<1>3. /\ Distinct(clients') /\ Elements(clients') = Elements(clients) \ {cur[w]}
      /\ cur[w] \in Elements(clients)
  BY <1>1, <1>2 DEF Shortened, Elements
<1>4. ~Adding /\ ~Adding'
  BY DEF Adding, Unlink, Inside, Other, TypeOK
<1> QED
  BY <1>3, <1>4 DEF ListInv, Unlink

\* Every step keeps the list, as long as no operation on it meets another.
LEMMA ListStep ==
  ASSUME TypeOK, ListInv, DropInv, Next, ~undefined'
  PROVE  ListInv'
<1>1. ASSUME NEW w \in Threads, Walk(w)
      PROVE  ListInv'
  <2>1. CASE Unlink(w)
    BY <2>1, ListKeptByUnlink
  <2>2. CASE Pick(w)
    <3>1. w = "H" => After(cur[w]) \in Elements(clients) \cup {NULL}
      BY <2>2, AfterListed DEF Pick
    <3> QED
      BY <2>2, <3>1, QuietList DEF Pick, TypeOK, Adding, Body
  <2>3. CASE Finish(w)
    BY <2>3, QuietList DEF Finish, TypeOK, Adding, End
  <2>4. CASE Close(w) \/ Forget(w) \/ Find(w) \/ UseAfterFree(w)
    BY <2>4, QuietList DEF Close, Forget, Find, UseAfterFree, TypeOK, Adding
  <2> QED
    BY <1>1, <2>1, <2>2, <2>3, <2>4 DEF Walk
<1>2. CASE HChunk
  BY <1>2, FirstListed, QuietList DEF HChunk, TypeOK, Adding
<1>3. CASE HWrite \/ HWriteFails
  BY <1>3, QuietList DEF HWrite, HWriteFails, TypeOK, Adding
<1>4. CASE Clients
  BY <1>4, QuietList DEF Clients, ClientConnects, ClientDeaf, ClientTcp, ClientSends, Adding
<1>5. CASE TTcpInit
  BY <1>5 DEF TTcpInit, DropInv, ListInv, TypeOK, Adding
<1>6. ASSUME NEW n \in Nodes, TInsert(n)
      PROVE  ListInv'
  BY <1>6, Pointers DEF TInsert, ListInv, TypeOK, Adding
<1>7. CASE TPublish
  <2>1. cur["T"] \in live /\ cur["T"] \notin Elements(clients)
    BY <1>7 DEF TPublish, ListInv, Adding
  <2>2. Distinct(clients') /\ Elements(clients') = Elements(clients) \cup {cur["T"]}
    BY <1>7, <2>1, WithOneMore DEF TPublish, TypeOK, ListInv
  <2> QED
    BY <1>7, <2>2 DEF TPublish, ListInv, TypeOK, Adding
<1>8. CASE TUdpInit \/ TZero \/ TCollect \/ TCollected \/ TBlock
  BY <1>8, QuietList DEF TUdpInit, TZero, TCollect, TCollected, TBlock, TypeOK, Adding
<1>9. CASE TWake \/ TSelectFails \/ TError \/ TAccept \/ TNoAccept
  BY <1>9, QuietList DEF TWake, TSelectFails, TError, TAccept, TNoAccept, TypeOK, Adding
<1>10. CASE TDatagram \/ TNoDatagram \/ THas \/ THasNot \/ TUdpSocket
  BY <1>10, QuietList DEF TDatagram, TNoDatagram, THas, THasNot, TUdpSocket, TypeOK, Adding
<1>11. CASE TUdpSocketFails \/ TUdpConnect \/ TUdpConnectFails \/ TReceive \/ TReceived
  BY <1>11, QuietList DEF TUdpSocketFails, TUdpConnect, TUdpConnectFails, TReceive, TReceived,
     TypeOK, Adding
<1>12. CASE TReceiveFails
  BY <1>12, QuietList DEF TReceiveFails, TypeOK, Adding
<1> QED
  BY <1>1, <1>2, <1>3, <1>4, <1>5, <1>6, <1>7, <1>8, <1>9, <1>10, <1>11, <1>12 DEF Next, TNext,
     HNext

-----------------------------------------------------------------------------
(* Where the threads are *)

\* A thread begins to remove a client only while the other does not remove it.
LEMMA RemovalWalk ==
  ASSUME TypeOK, RemovalInv, NEW w \in Threads, Walk(w), ~undefined'
  PROVE  RemovalInv'
<1>1. CASE Pick(w)
  BY <1>1 DEF Pick, Body, TypeOK, RemovalInv
<1>2. CASE Finish(w)
  BY <1>2 DEF Finish, End, TypeOK, RemovalInv
<1>3. CASE Close(w)
  BY <1>3 DEF Close, Other, TypeOK, RemovalInv
<1>4. CASE Forget(w)
  BY <1>4 DEF Forget, TypeOK, RemovalInv
<1>5. CASE Find(w)
  BY <1>5 DEF Find, TypeOK, RemovalInv
<1>6. CASE Unlink(w)
  BY <1>6 DEF Unlink, Inside, Other, TypeOK, RemovalInv
<1>7. CASE UseAfterFree(w)
  BY <1>7 DEF UseAfterFree
<1> QED
  BY <1>1, <1>2, <1>3, <1>4, <1>5, <1>6, <1>7 DEF Walk

\* No other step disturbs a removal: what is allocated anew is not the client being removed.
LEMMA RemovalStep ==
  ASSUME TypeOK, RemovalInv, Next, ~undefined'
  PROVE  RemovalInv'
<1>1. ASSUME NEW w \in Threads, Walk(w)
      PROVE  RemovalInv'
  BY <1>1, RemovalWalk
<1>2. CASE HChunk \/ HWrite \/ HWriteFails
  BY <1>2 DEF HChunk, HWrite, HWriteFails, TypeOK, RemovalInv
<1>3. CASE Clients
  BY <1>3 DEF Clients, ClientConnects, ClientDeaf, ClientTcp, ClientSends, RemovalInv
<1>4. ASSUME NEW n \in Nodes, TInsert(n)
      PROVE  RemovalInv'
  BY <1>4 DEF TInsert, TypeOK, RemovalInv
<1>5. CASE TTcpInit \/ TUdpInit \/ TZero \/ TCollect
  BY <1>5 DEF TTcpInit, TUdpInit, TZero, TCollect, TypeOK, RemovalInv
<1>6. CASE TCollected \/ TBlock \/ TWake \/ TSelectFails
  BY <1>6 DEF TCollected, TBlock, TWake, TSelectFails, TypeOK, RemovalInv
<1>7. CASE TError \/ TAccept \/ TNoAccept \/ TDatagram
  BY <1>7 DEF TError, TAccept, TNoAccept, TDatagram, TypeOK, RemovalInv
<1>8. CASE TNoDatagram \/ THas \/ THasNot \/ TUdpSocket
  BY <1>8 DEF TNoDatagram, THas, THasNot, TUdpSocket, TypeOK, RemovalInv
<1>9. CASE TUdpSocketFails \/ TUdpConnect \/ TUdpConnectFails \/ TPublish
  BY <1>9 DEF TUdpSocketFails, TUdpConnect, TUdpConnectFails, TPublish, TypeOK, RemovalInv
<1>10. CASE TReceive \/ TReceived \/ TReceiveFails
  BY <1>10 DEF TReceive, TReceived, TReceiveFails, TypeOK, RemovalInv
<1> QED
  BY <1>1, <1>2, <1>3, <1>4, <1>5, <1>6, <1>7, <1>8, <1>9, <1>10 DEF Next, TNext, HNext

\* Every step keeps the sockets of the task as its program counter says.
LEMMA PhaseStep ==
  ASSUME TypeOK, PhaseInv, Next
  PROVE  PhaseInv'
<1>1. CASE Walk("T")
  BY <1>1 DEF Walk, Pick, Finish, Close, Forget, Find, Unlink, UseAfterFree, Body, End, TypeOK,
     PhaseInv
<1>2. CASE HNext
  BY <1>2 DEF HNext, Walk, Pick, Finish, Close, Forget, Find, Unlink, UseAfterFree, HChunk,
     HWrite,
     HWriteFails, TypeOK, PhaseInv
<1>3. CASE Clients
  BY <1>3 DEF Clients, ClientConnects, ClientDeaf, ClientTcp, ClientSends, PhaseInv
<1>4. ASSUME NEW n \in Nodes, TInsert(n)
      PROVE  PhaseInv'
  BY <1>4 DEF TInsert, TypeOK, PhaseInv
<1>5. CASE TTcpInit \/ TUdpInit \/ TZero \/ TCollect
  BY <1>5 DEF TTcpInit, TUdpInit, TZero, TCollect, TypeOK, PhaseInv
<1>6. CASE TCollected \/ TBlock \/ TWake \/ TSelectFails
  BY <1>6 DEF TCollected, TBlock, TWake, TSelectFails, TypeOK, PhaseInv
<1>7. CASE TError \/ TAccept \/ TNoAccept \/ TDatagram
  BY <1>7 DEF TError, TAccept, TNoAccept, TDatagram, TypeOK, PhaseInv
<1>8. CASE TNoDatagram \/ THas \/ THasNot \/ TUdpSocket
  BY <1>8 DEF TNoDatagram, THas, THasNot, TUdpSocket, TypeOK, PhaseInv
<1>9. CASE TUdpSocketFails \/ TUdpConnect \/ TUdpConnectFails \/ TPublish
  BY <1>9 DEF TUdpSocketFails, TUdpConnect, TUdpConnectFails, TPublish, TypeOK, PhaseInv
<1>10. CASE TReceive \/ TReceived \/ TReceiveFails
  BY <1>10 DEF TReceive, TReceived, TReceiveFails, TypeOK, PhaseInv
<1> QED
  BY <1>1, <1>2, <1>3, <1>4, <1>5, <1>6, <1>7, <1>8, <1>9, <1>10 DEF Next, TNext

-----------------------------------------------------------------------------
(* Descriptors *)

\* What the operations on descriptors do to the set of those that are open.
LEMMA OpenAfter ==
  ASSUME TypeOK
  PROVE  /\ \A f \in Fds, state \in Wires \ {"closed"} :
              Opens(f, state) => f \notin Open /\ Open' = Open \cup {f}
         /\ \A fds : wire' = Closed(fds) => Open' = Open \ fds
         /\ \A f \in Open, state \in Wires \ {"closed"} :
              wire' = [wire EXCEPT ![f] = state] => Open' = Open
         /\ wire' = wire => Open' = Open
<1>1. \A f \in Fds, state \in Wires \ {"closed"} :
        Opens(f, state) => f \notin Open /\ Open' = Open \cup {f}
  BY DEF TypeOK, Open
<1>2. \A fds : wire' = Closed(fds) => Open' = Open \ fds
  BY DEF TypeOK, Open, Closed
<1>3. \A f \in Open, state \in Wires \ {"closed"} :
        wire' = [wire EXCEPT ![f] = state] => Open' = Open
  BY DEF TypeOK, Open
<1>4. wire' = wire => Open' = Open
  BY DEF Open
<1> QED
  BY <1>1, <1>2, <1>3, <1>4, Zenon

\* A step that opens and closes nothing, and gives no client a socket or takes it away.
LEMMA SameOwners ==
  ASSUME SocketInv, sock_tcp' = sock_tcp, sock_udp' = sock_udp, sock' = sock, Open' = Open,
         \A n \in Nodes : OwnsSocket(n)' <=> OwnsSocket(n),
         \A n \in Nodes : OwnsSocket(n) => socket'[n] = socket[n]
  PROVE  SocketInv'
<1>1. PortInv'
  BY DEF SocketInv, PortInv
<1>2. OwnedInv'
  BY DEF SocketInv, OwnedInv
<1> QED
  BY <1>1, <1>2 DEF SocketInv

\* Such a step changes no client, and no thread begins or ends the closing of one.
LEMMA QuietSockets ==
  ASSUME TypeOK, SocketInv, sock_tcp' = sock_tcp, sock_udp' = sock_udp, sock' = sock, Open' = Open,
         live' = live, socket' = socket,
         \A w \in Threads : /\ pc'[w] = "forget" <=> pc[w] = "forget"
                            /\ pc[w] = "forget" => cur'[w] = cur[w]
  PROVE  SocketInv'
<1>1. \A n \in Nodes : OwnsSocket(n)' <=> OwnsSocket(n)
  BY DEF OwnsSocket
<1> QED
  BY <1>1, SameOwners

\* A step that opens a descriptor for the task.
LEMMA OpenedOne ==
  ASSUME TypeOK, SocketInv, NEW f \in Fds, f \notin Open, Open' = Open \cup {f},
         \/ sock_tcp = NoSocket /\ sock_tcp' = f /\ UNCHANGED <<sock_udp, sock>>
         \/ sock_udp = NoSocket /\ sock_udp' = f /\ UNCHANGED <<sock_tcp, sock>>
         \/ sock = NoSocket /\ sock' = f /\ UNCHANGED <<sock_tcp, sock_udp>>,
         live' = live, socket' = socket,
         \A w \in Threads : /\ pc'[w] = "forget" <=> pc[w] = "forget"
                            /\ pc[w] = "forget" => cur'[w] = cur[w]
  PROVE  SocketInv'
<1>1. \A n \in Nodes : OwnsSocket(n)' <=> OwnsSocket(n)
  BY DEF OwnsSocket
<1>2. f # NoSocket
  BY DEF NoSocket
<1>3. PortInv'
  BY <1>2 DEF SocketInv, PortInv
<1>4. OwnedInv'
  <2>1. Open' \ {sock_tcp', sock_udp', sock'} = Open \ {sock_tcp, sock_udp, sock}
    BY <1>2 DEF SocketInv, PortInv, Open, NoSocket
  <2> QED
    BY <1>1, <2>1 DEF SocketInv, OwnedInv
<1> QED
  BY <1>3, <1>4 DEF SocketInv

\* Only the closing of a client closes a descriptor, and it is its own.
LEMMA SocketWalk ==
  ASSUME TypeOK, RemovalInv, SocketInv, NEW w \in Threads, Walk(w), ~undefined'
  PROVE  SocketInv'
<1>1. CASE Pick(w)
  BY <1>1, OpenAfter, QuietSockets DEF Pick, Body, TypeOK
<1>2. CASE Finish(w)
  BY <1>2, OpenAfter, QuietSockets DEF Finish, End, TypeOK
<1>3. CASE Close(w)
  <2>1. /\ cur[w] \in live \cap Nodes /\ pc[w] = "close" /\ live' = live /\ socket' = socket
        /\ Open' = Open \ {socket[cur[w]]}
        /\ UNCHANGED <<sock_tcp, sock_udp, sock>>
    BY <1>3, OpenAfter DEF Close, TypeOK
  <2>2. ~(pc[Other(w)] = "forget" /\ cur[Other(w)] = cur[w])
    BY <1>3 DEF Close
  <2>3. socket[cur[w]] = NoSocket \/ OwnsSocket(cur[w])
    BY <2>1, <2>2 DEF OwnsSocket, Other
  <2>4. \A n \in Nodes : OwnsSocket(n)' <=> OwnsSocket(n) /\ n # cur[w]
    BY <1>3, <2>1 DEF Close, OwnsSocket, TypeOK
  <2>5. NoSocket \notin Open
    BY DEF Open, NoSocket
  <2>6. PortInv'
    BY <2>1, <2>3, <2>5 DEF SocketInv, PortInv, OwnedInv
  <2>7. OwnedInv'
    BY <2>1, <2>3, <2>4, <2>5 DEF SocketInv, OwnedInv
  <2> QED
    BY <2>6, <2>7 DEF SocketInv
<1>4. CASE Forget(w)
  <2>1. \A n \in Nodes : OwnsSocket(n)' <=> OwnsSocket(n)
    BY <1>4 DEF Forget, OwnsSocket, TypeOK
  <2>2. \A n \in Nodes : OwnsSocket(n) => socket'[n] = socket[n]
    BY <1>4 DEF Forget, OwnsSocket, TypeOK
  <2> QED
    BY <1>4, <2>1, <2>2, OpenAfter, SameOwners DEF Forget
<1>5. CASE Find(w)
  BY <1>5, OpenAfter, QuietSockets DEF Find, TypeOK
<1>6. CASE Unlink(w)
  <2>1. \A n \in Nodes : OwnsSocket(n)' <=> OwnsSocket(n)
    BY <1>6 DEF Unlink, OwnsSocket, TypeOK, RemovalInv
  <2> QED
    BY <1>6, <2>1, OpenAfter, SameOwners DEF Unlink
<1>7. CASE UseAfterFree(w)
  BY <1>7 DEF UseAfterFree
<1> QED
  BY <1>1, <1>2, <1>3, <1>4, <1>5, <1>6, <1>7 DEF Walk

\* Every step keeps one owner for each open descriptor.
LEMMA SocketStep ==
  ASSUME TypeOK, RemovalInv, PhaseInv, SocketInv, Next, ~undefined'
  PROVE  SocketInv'
<1>1. ASSUME NEW w \in Threads, Walk(w)
      PROVE  SocketInv'
  BY <1>1, SocketWalk
<1>2. CASE HChunk \/ HWriteFails
  BY <1>2, OpenAfter, QuietSockets DEF HChunk, HWriteFails, TypeOK
<1>3. CASE HWrite
  <2>1. \/ wire' = wire
        \/ /\ socket[cur["H"]] \in Open
           /\ wire' = [wire EXCEPT ![socket[cur["H"]]] = "reset"]
    BY <1>3 DEF HWrite, WireOf, Open, TypeOK
  <2>2. Open' = Open
    BY <2>1, OpenAfter
  <2> QED
    BY <1>3, <2>2, QuietSockets DEF HWrite, TypeOK
<1>4. CASE TReceive
  <2>1. /\ socket[cur["T"]] \in Open
        /\ \E state \in Wires \ {"closed"} : wire' = [wire EXCEPT ![socket[cur["T"]]] = state]
    BY <1>4 DEF TReceive, WireOf, Open, TypeOK
  <2>2. Open' = Open
    BY <2>1, OpenAfter
  <2> QED
    BY <1>4, <2>2, QuietSockets DEF TReceive
<1>5. CASE Clients
  <2>1. \/ wire' = wire
        \/ \E f \in Open, state \in Wires \ {"closed"} : wire' = [wire EXCEPT ![f] = state]
    <3>1. CASE ClientConnects
      BY <3>1 DEF ClientConnects
    <3>2. ASSUME NEW f \in Fds, NEW state,
                 ClientDeaf(f) \/ (state \in TcpWires /\ ClientTcp(f, state))
          PROVE  f \in Open /\ \E s \in Wires \ {"closed"} : wire' = [wire EXCEPT ![f] = s]
      BY <3>2 DEF ClientDeaf, ClientTcp, Open
    <3>3. ASSUME NEW s \in Sources, ClientSends(s), wire' # wire
          PROVE  \E f \in Open : wire' = [wire EXCEPT ![f] = "udpdata"]
      BY <3>3 DEF ClientSends, ConnectedTo, Open
    <3> QED
      BY <1>5, <3>1, <3>2, <3>3 DEF Clients
  <2>2. Open' = Open
    BY <2>1, OpenAfter
  <2>3. UNCHANGED <<pc, cur, tvars, list>>
    BY <1>5 DEF Clients, ClientConnects, ClientDeaf, ClientTcp, ClientSends
  <2> QED
    BY <2>2, <2>3, QuietSockets
<1>6. CASE TTcpInit
  <2>1. \/ wire' = wire /\ sock_tcp' = NoSocket
        \/ \E f \in Fds : f \notin Open /\ Open' = Open \cup {f} /\ sock_tcp' = f
    BY <1>6, OpenAfter DEF TTcpInit
  <2>2. sock_tcp = NoSocket
    BY <1>6 DEF TTcpInit, PhaseInv
  <2> QED
    BY <1>6, <2>1, <2>2, OpenAfter, OpenedOne, QuietSockets DEF TTcpInit, TypeOK
<1>7. CASE TUdpInit
  <2>1. \/ wire' = wire /\ sock_udp' = NoSocket
        \/ \E f \in Fds : f \notin Open /\ Open' = Open \cup {f} /\ sock_udp' = f
    BY <1>7, OpenAfter DEF TUdpInit
  <2>2. sock_udp = NoSocket
    BY <1>7 DEF TUdpInit, PhaseInv
  <2> QED
    BY <1>7, <2>1, <2>2, OpenAfter, OpenedOne, QuietSockets DEF TUdpInit, TypeOK
<1>8. CASE TAccept \/ TUdpSocket
  <2>1. \E f \in Fds : f \notin Open /\ Open' = Open \cup {f} /\ sock' = f
    BY <1>8, OpenAfter DEF TAccept, TUdpSocket
  <2>2. sock = NoSocket
    BY <1>8 DEF TAccept, TUdpSocket, PhaseInv
  <2> QED
    BY <1>8, <2>1, <2>2, OpenedOne DEF TAccept, TUdpSocket, TypeOK
<1>9. CASE TUdpConnect
  <2>1. sock \in Open
    BY <1>9 DEF TUdpConnect, PhaseInv, SocketInv, PortInv, NoSocket
  <2>2. Open' = Open
    BY <1>9, <2>1, OpenAfter DEF TUdpConnect
  <2> QED
    BY <1>9, <2>2, QuietSockets DEF TUdpConnect, TypeOK
<1>10. CASE TUdpConnectFails
  <2>1. Open' = Open \ {sock} /\ sock \in Open /\ sock # NoSocket
    BY <1>10, OpenAfter DEF TUdpConnectFails, PhaseInv, SocketInv, PortInv, NoSocket
  <2>2. \A n \in Nodes : OwnsSocket(n)' <=> OwnsSocket(n)
    BY <1>10 DEF TUdpConnectFails, OwnsSocket, TypeOK
  <2>3. PortInv'
    BY <1>10, <2>1 DEF TUdpConnectFails, SocketInv, PortInv
  <2>4. Open' \ {sock_tcp', sock_udp', sock'} = Open \ {sock_tcp, sock_udp, sock}
    BY <1>10, <2>1 DEF TUdpConnectFails, Open, NoSocket
  <2> QED
    BY <1>10, <2>2, <2>3, <2>4 DEF TUdpConnectFails, SocketInv, OwnedInv
<1>11. CASE TError
  <2>1. Open' = Open \ {sock_tcp, sock_udp} /\ sock = NoSocket
    BY <1>11, OpenAfter DEF TError, PhaseInv
  <2>2. \A n \in Nodes : OwnsSocket(n)' <=> OwnsSocket(n)
    BY <1>11 DEF TError, OwnsSocket, TypeOK
  <2>3. PortInv'
    BY <1>11, <2>1 DEF TError, SocketInv, PortInv
  <2>4. Open' \ {sock_tcp', sock_udp', sock'} = Open \ {sock_tcp, sock_udp, sock}
    BY <1>11, <2>1 DEF TError, Open, NoSocket
  <2> QED
    BY <1>11, <2>2, <2>3, <2>4 DEF TError, SocketInv, OwnedInv
<1>12. ASSUME NEW n \in Nodes, TInsert(n)
       PROVE  SocketInv'
  <2>1. /\ sock \in Fds /\ sock # NoSocket /\ n \notin live /\ Open' = Open
        /\ sock' = NoSocket /\ socket' = [socket EXCEPT ![n] = sock]
        /\ UNCHANGED <<sock_tcp, sock_udp>>
    BY <1>12, OpenAfter DEF TInsert, PhaseInv, NoSocket
  <2>2. \A m \in Nodes : OwnsSocket(m)' <=> OwnsSocket(m) \/ m = n
    BY <1>12, <2>1 DEF TInsert, OwnsSocket, TypeOK, RemovalInv
  <2>3. ~OwnsSocket(n)
    BY <2>1 DEF OwnsSocket
  <2>4. PortInv'
    BY <2>1 DEF SocketInv, PortInv
  <2>5. Open' \ {sock_tcp', sock_udp', sock'} = (Open \ {sock_tcp, sock_udp, sock}) \cup {sock}
    BY <2>1 DEF SocketInv, PortInv, Open, NoSocket
  <2>6. socket'[n] = sock /\ \A m \in Nodes \ {n} : socket'[m] = socket[m]
    BY <2>1 DEF TypeOK
  <2>7. \A m \in Nodes : OwnsSocket(m) => socket[m] # sock
    BY DEF SocketInv, OwnedInv
  <2>8. \A m \in Nodes : OwnsSocket(m)' => socket'[m] \in Open' \ {sock_tcp', sock_udp', sock'}
    BY <2>2, <2>5, <2>6 DEF SocketInv, OwnedInv
  <2>9. \A l, m \in Nodes : OwnsSocket(l)' /\ OwnsSocket(m)' /\ socket'[l] = socket'[m] => l = m
    BY <2>2, <2>3, <2>6, <2>7 DEF SocketInv, OwnedInv
  <2>10. \A f \in Open' \ {sock_tcp', sock_udp', sock'} :
           \E m \in Nodes : OwnsSocket(m)' /\ socket'[m] = f
    BY <2>2, <2>3, <2>5, <2>6 DEF SocketInv, OwnedInv
  <2>11. OwnedInv'
    BY <2>8, <2>9, <2>10 DEF OwnedInv
  <2> QED
    BY <2>4, <2>11 DEF SocketInv
<1>13. CASE TZero \/ TCollect \/ TCollected \/ TBlock
  BY <1>13, OpenAfter, QuietSockets DEF TZero, TCollect, TCollected, TBlock, TypeOK
<1>14. CASE TWake \/ TSelectFails \/ TNoAccept \/ TDatagram
  BY <1>14, OpenAfter, QuietSockets DEF TWake, TSelectFails, TNoAccept, TDatagram, TypeOK
<1>15. CASE TNoDatagram \/ THas \/ THasNot \/ TUdpSocketFails
  BY <1>15, OpenAfter, QuietSockets DEF TNoDatagram, THas, THasNot, TUdpSocketFails, TypeOK
<1>16. CASE TPublish \/ TReceived \/ TReceiveFails
  BY <1>16, OpenAfter, QuietSockets DEF TPublish, TReceived, TReceiveFails, TypeOK
<1> QED
  BY <1>1, <1>2, <1>3, <1>4, <1>5, <1>6, <1>7, <1>8, <1>9, <1>10, <1>11, <1>12, <1>13, <1>14,
     <1>15, <1>16 DEF Next, TNext, HNext

-----------------------------------------------------------------------------
(* Sources *)

\* A step of the handler or of the clients' that changes neither the list nor the search.
LEMMA QuietSources ==
  ASSUME SourceInv, UNCHANGED <<clients, live, addr>>,
         \/ pc'["T"] \notin {"has", "socket", "connect", "insert"}
         \/ source_addr' = source_addr /\ pc'["T"] = pc["T"] /\ cur'["T"] = cur["T"]
  PROVE  SourceInv'
BY DEF SourceInv

\* A removal keeps what the search has found of the clients that are left.
LEMMA SourceUnlink ==
  ASSUME TypeOK, ListInv, SourceInv, NEW w \in Threads, Unlink(w)
  PROVE  SourceInv'
<1>1. PICK k \in 1..Len(clients) : cur[w] = clients[k]
  BY HoldsListed DEF Unlink, Elements, Adding
<1>2. Shortened(clients', clients, k)
  BY <1>1, WithoutOne DEF Unlink, TypeOK, ListInv
<1>3. /\ live' = live \ {cur[w]} /\ live \subseteq Nodes /\ source_addr' = source_addr
      /\ \A n \in live' : addr'[n] = addr[n]
  BY DEF Unlink, TypeOK
<1>4. \A m, n \in live' : addr'[m] = addr'[n] /\ addr'[m] # NULL => m = n
  BY <1>3 DEF SourceInv
<1>5. CASE w = "T"
  <2>1. pc'["T"] = "next"
    BY <1>5 DEF Unlink, TypeOK
  <2> QED
    BY <1>4, <2>1 DEF SourceInv
<1>6. CASE w = "H"
  <2>1. pc'["T"] = pc["T"] /\ cur'["T"] = cur["T"]
    BY <1>6 DEF Unlink, TypeOK
  <2>2. ASSUME pc["T"] = "has", cur["T"] \in live',
               NEW i \in 1..Len(clients'), NEW j \in 1..Len(clients'),
               clients'[j] = cur["T"], i < j
        PROVE  addr'[clients'[i]] # source_addr
    <3>1. PICK p, q \in 1..Len(clients) :
            p < q /\ clients'[i] = clients[p] /\ clients'[j] = clients[q]
      BY <1>2, <2>2 DEF Shortened
    <3>2. addr[clients'[i]] # source_addr
      BY <1>3, <2>2, <3>1 DEF SourceInv
    <3>3. clients'[i] \in live'
      BY <1>1, <1>2, <1>3, Pointers DEF Shortened
    <3> QED
      BY <1>2, <1>3, <3>2, <3>3
  <2> QED
    BY <1>3, <1>4, <2>1, <2>2 DEF SourceInv
<1> QED
  BY <1>5, <1>6

\* The loop that both threads have keeps one client for each source.
LEMMA SourceWalk ==
  ASSUME TypeOK, ListInv, SourceInv, NEW w \in Threads, Walk(w), ~undefined'
  PROVE  SourceInv'
<1>1. CASE Pick(w)
  BY <1>1, QuietSources DEF Pick, Body, TypeOK
<1>2. CASE Finish(w)
  BY <1>2, QuietSources DEF Finish, End, TypeOK
<1>3. CASE Close(w) \/ Forget(w) \/ Find(w)
  BY <1>3, QuietSources DEF Close, Forget, Find, TypeOK
<1>4. CASE Unlink(w)
  BY <1>4, SourceUnlink
<1>5. CASE UseAfterFree(w)
  BY <1>5 DEF UseAfterFree
<1> QED
  BY <1>1, <1>2, <1>3, <1>4, <1>5 DEF Walk

\* The search goes on behind a client that is not the source.
LEMMA SourceSearch ==
  ASSUME TypeOK, ListInv, SourceInv, THas
  PROVE  SourceInv'
<1>1. CASE addr[cur["T"]] = source_addr
  BY <1>1, QuietSources DEF THas, TypeOK
<1>2. CASE addr[cur["T"]] # source_addr
  <2>1. PICK k \in 1..Len(clients) : cur["T"] = clients[k]
    BY HoldsListed DEF THas, Elements, Adding
  <2>2. cur'["T"] = IF k = Len(clients) THEN NULL ELSE clients[k + 1]
    BY <1>2, <2>1, Successor DEF THas, TypeOK, ListInv
  <2>3. /\ pc'["T"] = "has" /\ pc["T"] = "has" /\ UNCHANGED <<clients, live, addr, source_addr>>
        /\ Len(clients) \in Nat /\ cur["T"] \in live
    BY <1>2 DEF THas, TypeOK
  <2>4. \A i \in 1..Len(clients) : i <= k => addr[clients[i]] # source_addr
    <3>1. \A i \in 1..Len(clients) : i < k => addr[clients[i]] # source_addr
      BY <2>1, <2>3 DEF SourceInv
    <3> QED
      BY <1>2, <2>1, <3>1
  <2>5. CASE k = Len(clients)
    <3>1. cur'["T"] = NULL /\ NULL \notin live
      BY <2>2, <2>5 DEF TypeOK
    <3>2. \A n \in Elements(clients) : addr[n] # source_addr
      BY <2>3, <2>4, <2>5 DEF Elements
    <3>3. \A n \in live : addr[n] # source_addr
      BY <2>3, <3>2 DEF ListInv, Adding
    <3> QED
      BY <2>3, <3>1, <3>3 DEF SourceInv
  <2>6. CASE k # Len(clients)
    <3>1. k + 1 \in 1..Len(clients) /\ cur'["T"] = clients[k + 1] /\ clients[k + 1] # NULL
      <4>1. k + 1 \in 1..Len(clients)
        BY <2>3, <2>6
      <4>2. clients[k + 1] \in live
        BY <4>1 DEF TypeOK
      <4> QED
        BY <2>2, <2>6, <4>1, <4>2 DEF TypeOK
    <3>2. \A i, j \in 1..Len(clients) : clients[j] = cur'["T"] /\ i < j => i <= k
      <4>1. \A j \in 1..Len(clients) : clients[j] = cur'["T"] => j = k + 1
        BY <3>1 DEF ListInv, Distinct
      <4> QED
        BY <4>1
    <3> QED
      BY <2>3, <2>4, <3>1, <3>2 DEF SourceInv
  <2> QED
    BY <2>5, <2>6
<1> QED
  BY <1>1, <1>2

\* Every step keeps one client for each source.
LEMMA SourceStep ==
  ASSUME TypeOK, ListInv, SourceInv, Next, ~undefined'
  PROVE  SourceInv'
<1>1. ASSUME NEW w \in Threads, Walk(w)
      PROVE  SourceInv'
  BY <1>1, SourceWalk
<1>2. CASE HChunk \/ HWrite \/ HWriteFails
  BY <1>2, QuietSources DEF HChunk, HWrite, HWriteFails, TypeOK
<1>3. CASE Clients
  BY <1>3, QuietSources DEF Clients, ClientConnects, ClientDeaf, ClientTcp, ClientSends
<1>4. CASE THas
  BY <1>4, SourceSearch
<1>5. CASE TDatagram
  <2>1. /\ pc'["T"] = "has" /\ cur'["T"] = First /\ source_addr' \in Sources
        /\ UNCHANGED <<clients, live, addr>>
    BY <1>5 DEF TDatagram, TypeOK
  <2>2. First = NULL => live = {}
    BY <1>5, FirstListed DEF TDatagram, ListInv, Adding, Elements
  <2>3. First # NULL => \A i, j \in 1..Len(clients) : clients[j] = First => ~(i < j)
    <3>1. ASSUME First # NULL, NEW j \in 1..Len(clients), clients[j] = First
          PROVE  j = 1
      BY <3>1, FirstListed DEF ListInv, Distinct
    <3> QED
      BY <3>1
  <2> QED
    BY <2>1, <2>2, <2>3 DEF SourceInv, TypeOK
<1>6. CASE THasNot \/ TUdpSocket \/ TUdpConnect
  BY <1>6 DEF THasNot, TUdpSocket, TUdpConnect, SourceInv, TypeOK
<1>7. CASE TAccept
  BY <1>7 DEF TAccept, SourceInv, TypeOK
<1>8. ASSUME NEW n \in Nodes, TInsert(n)
      PROVE  SourceInv'
  BY <1>8 DEF TInsert, SourceInv, TypeOK
<1>9. CASE TTcpInit
  BY <1>9 DEF TTcpInit, SourceInv, TypeOK
<1>10. CASE TPublish
  BY <1>10 DEF TPublish, SourceInv, TypeOK
<1>11. CASE TUdpInit \/ TZero \/ TCollect \/ TCollected
  BY <1>11, QuietSources DEF TUdpInit, TZero, TCollect, TCollected, TypeOK
<1>12. CASE TBlock \/ TWake \/ TSelectFails \/ TError
  BY <1>12, QuietSources DEF TBlock, TWake, TSelectFails, TError, TypeOK
<1>13. CASE TNoAccept \/ TNoDatagram \/ TUdpSocketFails \/ TUdpConnectFails
  BY <1>13, QuietSources DEF TNoAccept, TNoDatagram, TUdpSocketFails, TUdpConnectFails, TypeOK
<1>14. CASE TReceive \/ TReceived \/ TReceiveFails
  BY <1>14, QuietSources DEF TReceive, TReceived, TReceiveFails, TypeOK
<1> QED
  BY <1>1, <1>2, <1>3, <1>4, <1>5, <1>6, <1>7, <1>8, <1>9, <1>10, <1>11, <1>12, <1>13, <1>14
     DEF Next, TNext, HNext

-----------------------------------------------------------------------------
(* The end of all clients *)

\* A step that is not about the list, or not of the task while it drops everybody.
LEMMA QuietDrop ==
  ASSUME DropInv,
         \/ closing' = FALSE /\ pc'["T"] # "init"
         \/ UNCHANGED <<clients, live, closing>> /\ pc'["T"] = pc["T"] /\ cur'["T"] = cur["T"]
            /\ tmp'["T"] = tmp["T"]
  PROVE  DropInv'
BY DEF DropInv

\* While everybody is dropped, a removal by either thread leaves the task at the first client.
LEMMA DropUnlink ==
  ASSUME TypeOK, ListInv, PhaseInv, DropInv, NEW w \in Threads, Unlink(w)
  PROVE  DropInv'
<1>1. PICK k \in 1..Len(clients) : cur[w] = clients[k]
  BY HoldsListed DEF Unlink, Elements, Adding
<1>2. /\ clients' \in Seq(live) /\ Len(clients') = Len(clients) - 1
      /\ \A j \in 1..(Len(clients) - 1) : clients'[j] = IF j < k THEN clients[j] ELSE clients[j + 1]
  <2>1. clients' = RemoveFirst(clients, clients[k]) /\ clients \in Seq(live) /\ Distinct(clients)
    BY <1>1 DEF Unlink, TypeOK, ListInv
  <2> QED
    BY <2>1, FirstRemoved
<1>3. /\ live' = live \ {cur[w]} /\ closing' = closing /\ Len(clients) \in Nat /\ NULL \notin live
      /\ clients # <<>>
  BY <1>1 DEF Unlink, TypeOK
<1>4. Len(clients) = 1 => clients' = <<>>
  BY <1>2
<1>5. CASE ~closing
  BY <1>3, <1>5, QuietDrop DEF Unlink, DropInv, TypeOK
<1>6. CASE closing /\ w = "T"
  <2>1. cur'["T"] = tmp["T"] /\ pc'["T"] = "next" /\ pc["T"] = "unlink" /\ cur["T"] \in live
    BY <1>6 DEF Unlink, TypeOK
  <2>2. tmp["T"] = NULL => clients' = <<>>
    BY <1>4, <1>6, <2>1 DEF DropInv
  <2>3. tmp["T"] \in live => tmp["T"] = clients'[1]
    <3>1. SUFFICES ASSUME tmp["T"] \in live
                   PROVE  tmp["T"] = clients'[1]
      OBVIOUS
    <3>2. Len(clients) >= 2 /\ tmp["T"] = clients[2] /\ clients[k] = clients[1]
      BY <1>1, <1>6, <2>1, <3>1 DEF DropInv
    <3>3. k = 1
      BY <1>3, <3>2 DEF ListInv, Distinct
    <3> QED
      BY <1>2, <1>3, <3>2, <3>3
  <2> QED
    BY <1>3, <2>1, <2>2, <2>3 DEF DropInv
<1>7. CASE closing /\ w = "H"
  <2>1. UNCHANGED <<cur["T"], tmp["T"], pc["T"]>>
    BY <1>7 DEF Unlink, TypeOK
  <2>2. ASSUME cur["T"] = clients[1], cur["T"] \in live'
        PROVE  k > 1 /\ clients'[1] = clients[1]
    <3>1. k # 1
      BY <1>1, <1>3, <2>2
    <3> QED
      BY <1>2, <3>1
  <2>3. ASSUME Len(clients) >= 2, tmp["T"] = clients[2], tmp["T"] \in live', k > 1
        PROVE  Len(clients') >= 2 /\ clients'[2] = clients[2]
    <3>1. k # 2
      BY <1>1, <1>3, <2>3
    <3> QED
      BY <1>2, <1>3, <2>3, <3>1
  <2>4. pc["T"] # "init" /\ ~(closing /\ pc["T"] = "next" /\ cur["T"] = NULL)
    BY <1>3 DEF DropInv
  <2>5. closing /\ pc["T"] = "next" /\ cur["T"] \in live' => cur["T"] = clients'[1]
    BY <1>3, <2>2 DEF DropInv
  <2>6. ASSUME closing, pc["T"] \in {"close"} \cup Removing, cur["T"] \in live'
        PROVE  /\ cur["T"] = clients'[1]
               /\ tmp["T"] # NULL
               /\ tmp["T"] \in live' => Len(clients') >= 2 /\ tmp["T"] = clients'[2]
    <3>1. /\ cur["T"] = clients[1]
          /\ tmp["T"] = NULL => Len(clients) = 1
          /\ tmp["T"] \in live => Len(clients) >= 2 /\ tmp["T"] = clients[2]
      BY <1>3, <2>6 DEF DropInv
    <3>2. k > 1 /\ clients'[1] = clients[1]
      BY <2>2, <2>6, <3>1
    <3>3. tmp["T"] # NULL
      <4>1. Len(clients) # 1
        <5>1. k \in Int /\ Len(clients) \in Int /\ 1 <= k /\ k <= Len(clients)
          BY <1>3
        <5>2. k > 1
          BY <3>2
        <5>3. \A a, b \in Int : a > 1 /\ a <= b => b # 1
          OBVIOUS
        <5> QED
          BY <5>1, <5>2, <5>3, Zenon
      <4> QED
        BY <3>1, <4>1
    <3>4. tmp["T"] \in live' => tmp["T"] \in live
      BY <1>3
    <3> QED
      BY <2>3, <3>1, <3>2, <3>3, <3>4
  <2> QED
    BY <1>3, <2>1, <2>4, <2>5, <2>6 DEF DropInv
<1> QED
  BY <1>5, <1>6, <1>7 DEF TypeOK

\* The loop goes on until no client is left.
LEMMA DropWalk ==
  ASSUME TypeOK, ListInv, PhaseInv, DropInv, NEW w \in Threads, Walk(w), ~undefined'
  PROVE  DropInv'
<1>1. CASE Pick(w)
  <2>1. CASE w = "H" \/ ~closing
    BY <1>1, <2>1, QuietDrop DEF Pick, Body, TypeOK
  <2>2. CASE w = "T" /\ closing
    <3>1. PICK k \in 1..Len(clients) : cur["T"] = clients[k]
      BY <1>1, <2>2, HoldsListed DEF Pick, Elements, Adding
    <3>2. cur["T"] = clients[1] /\ 1 \in 1..Len(clients)
      BY <1>1, <2>2, <3>1 DEF Pick, DropInv
    <3>3. tmp'["T"] = IF 1 = Len(clients) THEN NULL ELSE clients[2]
      <4>1. After(clients[1]) = IF 1 = Len(clients) THEN NULL ELSE clients[1 + 1]
        BY <3>2, Successor DEF ListInv
      <4> QED
        BY <1>1, <2>2, <3>2, <4>1 DEF Pick, TypeOK
    <3>4. /\ pc'["T"] = "close" /\ cur'["T"] = cur["T"] /\ UNCHANGED <<clients, live, closing>>
          /\ clients \in Seq(live) /\ NULL \notin live
      BY <1>1, <2>2 DEF Pick, Body, TypeOK
    <3>5. 1 # Len(clients) => Len(clients) >= 2 /\ clients[2] \in live
      <4>1. Len(clients) \in Nat
        BY <3>4
      <4>2. 1 # Len(clients) => Len(clients) >= 2 /\ 2 \in 1..Len(clients)
        <5>1. 1 \in 1..Len(clients)
          BY <3>2
        <5> QED
          BY <4>1, <5>1
      <4> QED
        BY <3>4, <4>2
    <3> QED
      BY <3>2, <3>3, <3>4, <3>5 DEF DropInv
  <2> QED
    BY <2>1, <2>2
<1>2. CASE Finish(w)
  <2>1. CASE w = "H" \/ ~closing
    BY <1>2, <2>1, QuietDrop DEF Finish, End, TypeOK
  <2>2. CASE w = "T" /\ closing
    BY <1>2, <2>2 DEF Finish, End, DropInv, TypeOK
  <2> QED
    BY <2>1, <2>2
<1>3. CASE Close(w) \/ Forget(w) \/ Find(w)
  BY <1>3 DEF Close, Forget, Find, DropInv, TypeOK
<1>4. CASE Unlink(w)
  BY <1>4, DropUnlink
<1>5. CASE UseAfterFree(w)
  BY <1>5 DEF UseAfterFree
<1> QED
  BY <1>1, <1>2, <1>3, <1>4, <1>5 DEF Walk

\* Every step keeps the loop that drops everybody at the first client.
LEMMA DropStep ==
  ASSUME TypeOK, ListInv, PhaseInv, DropInv, Next, ~undefined'
  PROVE  DropInv'
<1>1. ASSUME NEW w \in Threads, Walk(w)
      PROVE  DropInv'
  BY <1>1, DropWalk
<1>2. CASE HChunk \/ HWrite \/ HWriteFails
  BY <1>2, QuietDrop DEF HChunk, HWrite, HWriteFails, TypeOK
<1>3. CASE Clients
  BY <1>3, QuietDrop DEF Clients, ClientConnects, ClientDeaf, ClientTcp, ClientSends
<1>4. CASE TTcpInit
  BY <1>4, QuietDrop DEF TTcpInit, TypeOK
<1>5. CASE TError
  BY <1>5, FirstListed DEF TError, DropInv, TypeOK
<1>6. ASSUME NEW n \in Nodes, TInsert(n)
      PROVE  DropInv'
  BY <1>6, QuietDrop DEF TInsert, PhaseInv, TypeOK
<1>7. CASE TUdpInit \/ TZero \/ TCollect \/ TCollected
  BY <1>7, QuietDrop DEF TUdpInit, TZero, TCollect, TCollected, PhaseInv, TypeOK
<1>8. CASE TBlock \/ TWake \/ TSelectFails \/ TAccept
  BY <1>8, QuietDrop DEF TBlock, TWake, TSelectFails, TAccept, PhaseInv, TypeOK
<1>9. CASE TNoAccept \/ TDatagram \/ TNoDatagram \/ THas
  BY <1>9, QuietDrop DEF TNoAccept, TDatagram, TNoDatagram, THas, PhaseInv, TypeOK
<1>10. CASE THasNot \/ TUdpSocket \/ TUdpSocketFails \/ TUdpConnect
  BY <1>10, QuietDrop DEF THasNot, TUdpSocket, TUdpSocketFails, TUdpConnect, PhaseInv, TypeOK
<1>11. CASE TUdpConnectFails \/ TPublish \/ TReceive \/ TReceived
  BY <1>11, QuietDrop DEF TUdpConnectFails, TPublish, TReceive, TReceived, PhaseInv, TypeOK
<1>12. CASE TReceiveFails
  BY <1>12, QuietDrop DEF TReceiveFails, PhaseInv, TypeOK
<1> QED
  BY <1>1, <1>2, <1>3, <1>4, <1>5, <1>6, <1>7, <1>8, <1>9, <1>10, <1>11, <1>12 DEF Next, TNext,
     HNext

-----------------------------------------------------------------------------
(* The invariant, and what it says of the program *)

\* The first states satisfy the invariant.
LEMMA InitInv == Init => IInv
<1> SUFFICES ASSUME Init PROVE IInv
  OBVIOUS
<1>1. TypeOK
  <2>1. <<>> \in Seq({}) /\ <<>> \in Seq(Sources) /\ Len(<<>>) = 0
    OBVIOUS
  <2>2. pc \in [Threads -> PC]
    BY DEF Init
  <2>3. /\ clients \in Seq(live) /\ live \subseteq Nodes
        /\ dgrams \in Seq(Sources) /\ Len(dgrams) <= MaxDgrams
    BY <2>1 DEF Init
  <2> QED
    BY <2>2, <2>3 DEF Init, TypeOK
<1>2. ListInv
  BY DEF Init, ListInv, Distinct, Elements, Adding
<1>3. RemovalInv /\ PhaseInv /\ DropInv
  BY DEF Init, RemovalInv, PhaseInv, DropInv
<1>4. SocketInv
  BY DEF Init, SocketInv, PortInv, OwnedInv, OwnsSocket, Open
<1>5. SourceInv
  BY DEF Init, SourceInv
<1> QED
  BY <1>1, <1>2, <1>3, <1>4, <1>5 DEF IInv, Safe

\* And every step keeps it.
LEMMA InvStep == IInv /\ [Next]_vars => IInv'
<1> SUFFICES ASSUME IInv, [Next]_vars PROVE IInv'
  OBVIOUS
<1>1. TypeOK'
  BY TypeStep
<1>2. CASE Next
  <2>1. Safe /\ TypeOK
    BY <1>2, Stops DEF IInv
  <2>2. ~undefined' => Safe'
    BY <1>2, <2>1, ListStep, RemovalStep, PhaseStep, SocketStep, SourceStep, DropStep DEF Safe
  <2> QED
    BY <1>1, <2>2 DEF IInv
<1>3. CASE UNCHANGED vars
  <2>1. Safe => Safe'
    BY <1>3 DEF vars, Safe, ListInv, RemovalInv, PhaseInv, SocketInv, PortInv, OwnedInv,
       OwnsSocket, Open, SourceInv,
       DropInv, Adding
  <2> QED
    BY <1>1, <1>3, <2>1 DEF IInv, vars
<1> QED
  BY <1>2, <1>3

\* IInv holds in every reachable state, for any number of clients, descriptors,
\* sources and waiting datagrams.
THEOREM Invariance == Spec => []IInv
BY InitInv, InvStep, PTL DEF Spec

\* Every variable keeps to its values (TypeOK of SocketServer).
THEOREM TypeCorrect == Spec => []TypeOK
<1>1. IInv => TypeOK
  BY DEF IInv
<1> QED
  BY <1>1, Invariance, PTL

\* The owners of DescriptorsOwned are the ports, the socket being accepted and the clients
\* of OwnedInv.
LEMMA OwnedOK ==
  ASSUME IInv
  PROVE  DescriptorsOwned
<1> SUFFICES ASSUME TypeOK, PortInv, OwnedInv, NEW f \in Fds
             PROVE  IF f \in Open THEN \E x \in Owners(f) : Owners(f) = {x} ELSE Owners(f) = {}
  BY DEF IInv, Safe, SocketInv, DescriptorsOwned
<1> DEFINE ports == { v \in {"sock_tcp", "sock_udp", "sock"} :
                       f = CASE v = "sock_tcp" -> sock_tcp [] v = "sock_udp" -> sock_udp
                             [] OTHER -> sock }
           nodes == { <<n>> : n \in { m \in Nodes : OwnsSocket(m) /\ socket[m] = f } }
<1>1. f # NoSocket
  BY DEF NoSocket
<1>2. Owners(f) = ports \cup nodes
  <2>1. { m \in live : /\ socket[m] = f
                       /\ \A w \in Threads : ~(pc[w] = "forget" /\ cur[w] = m) }
        = { m \in Nodes : OwnsSocket(m) /\ socket[m] = f }
    BY <1>1 DEF OwnsSocket, TypeOK
  <2> QED
    BY <2>1 DEF Owners
<1>3. /\ "sock_tcp" \in ports <=> sock_tcp = f
      /\ "sock_udp" \in ports <=> sock_udp = f
      /\ "sock" \in ports <=> sock = f
      /\ ports \subseteq {"sock_tcp", "sock_udp", "sock"}
  OBVIOUS
<1>4. \A x : x \in nodes <=> \E n \in Nodes : x = <<n>> /\ OwnsSocket(n) /\ socket[n] = f
  OBVIOUS
<1> HIDE DEF ports, nodes
<1>5. CASE f \notin Open
  <2>1. ports = {}
    BY <1>1, <1>3, <1>5 DEF PortInv
  <2>2. nodes = {}
    BY <1>4, <1>5 DEF OwnedInv
  <2> QED
    BY <1>2, <1>5, <2>1, <2>2
<1>6. CASE f \in {sock_tcp, sock_udp, sock}
  <2>1. f \in Open
    BY <1>1, <1>6 DEF PortInv
  <2>2. nodes = {}
    BY <1>4, <1>6 DEF OwnedInv
  <2>3. ports = {"sock_tcp"} \/ ports = {"sock_udp"} \/ ports = {"sock"}
    BY <1>1, <1>3, <1>6 DEF PortInv
  <2> QED
    BY <1>2, <2>1, <2>2, <2>3
<1>7. CASE f \in Open \ {sock_tcp, sock_udp, sock}
  <2>1. ports = {}
    BY <1>3, <1>7
  <2>2. PICK n \in Nodes : OwnsSocket(n) /\ socket[n] = f
    BY <1>7 DEF OwnedInv
  <2>3. nodes = { <<n>> }
    BY <1>4, <2>2 DEF OwnedInv
  <2> QED
    BY <1>2, <1>7, <2>1, <2>3
<1> QED
  BY <1>5, <1>6, <1>7

\* Every open descriptor has one owner that will close it, and no other has any,
\* whatever fails on the way to a client or is removed by which thread.
THEOREM Owned == Spec => []DescriptorsOwned
BY OwnedOK, Invariance, PTL

\* Two positions with the address of one source hold one node, and are then one position.
LEMMA OneEachOK ==
  ASSUME IInv
  PROVE  OneClientPerSource
BY DEF IInv, Safe, SourceInv, ListInv, Distinct, OneClientPerSource, TypeOK

\* However often a source sends before it has a socket, it becomes one client.
THEOREM OneEach == Spec => []OneClientPerSource
BY OneEachOK, Invariance, PTL

\* What would be left open at a restart would have an owner, and there is none.
LEMMA NoneLeft ==
  ASSUME IInv
  PROVE  NobodyForgotten
<1> SUFFICES ASSUME Safe, pc["T"] = "init" PROVE clients = <<>> /\ live = {} /\ Open = {}
  BY DEF IInv, NobodyForgotten
<1>1. clients = <<>> /\ live = {}
  BY DEF Safe, DropInv, ListInv, Adding, Elements
<1>2. sock_tcp = NoSocket /\ sock_udp = NoSocket /\ sock = NoSocket
  BY DEF Safe, PhaseInv
<1>3. Open = {}
  <2>1. \A n \in Nodes : ~OwnsSocket(n)
    BY <1>1 DEF OwnsSocket
  <2>2. Open \ {sock_tcp, sock_udp, sock} = {}
    BY <2>1 DEF Safe, SocketInv, OwnedInv
  <2>3. NoSocket \notin Open
    BY DEF Open, NoSocket
  <2> QED
    BY <1>2, <2>2, <2>3
<1> QED
  BY <1>1, <1>3

\* When the server starts again after an error, every client was closed and freed and
\* no descriptor is left open, whatever the handler removed meanwhile.
THEOREM NoneForgotten == Spec => []NobodyForgotten
BY NoneLeft, Invariance, PTL
=============================================================================
