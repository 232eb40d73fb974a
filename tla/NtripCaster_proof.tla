------------------------- MODULE NtripCaster_proof -------------------------
(***************************************************************************)
(* Proofs about the caster for any number of heap blocks and descriptors:   *)
(* as long as no insertion overlaps a removal of the head, the unlocked     *)
(* list is the one that two critical sections would have built, no client   *)
(* misses a chunk, and every descriptor has one owner.                      *)
(***************************************************************************)
EXTENDS NtripCaster, SequenceTheorems, FiniteSetTheorems, TLAPS

(* Sequences without repetitions *)

Distinct(s) == \A i, j \in 1..Len(s) : s[i] = s[j] => i = j

\* The element at position i, or null after the end.
Elem(s, i) == IF i \in 1..Len(s) THEN s[i] ELSE NULL

\* The elements from position i on.
Rest(s, i) == { s[j] : j \in i..Len(s) }

(* The inductive invariant *)

\* Nothing but a value of its type is in the variables that a step dereferences.
PointerInv ==
  /\ tpc \in {"init", "accept"} => sock_client = NoSocket
  /\ tpc \in TPC \ {"init", "destroy", "accept"} => sock_client \in Fds
  /\ tpc \in {"link", "publish", "release"} => tnode \in Nodes
  /\ hpc \in {"pop", "store"} => head \in Nodes
  /\ hpc = "search" /\ ~corrupt => cursor \in Nodes

\* The pointers spell out order, in which no client appears twice.
ListInv ==
  /\ ~corrupt
  /\ Distinct(order)
  /\ head = Elem(order, 1)
  /\ \A i \in 1..Len(order) : order[i] \in live /\ next[order[i]] = Elem(order, i + 1)

\* The node that is inserted is on no list yet, and once linked points to the head.
InsertInv ==
  /\ tpc \in {"link", "publish"} =>
       tnode \in live /\ tnode \notin Rest(order, 1) /\ (hpc # "idle" => tnode # client)
  /\ tpc = "publish" => next[tnode] = head /\ ~Popping

\* The handler has noticed that its client is lost, and not yet removed it.
Losing == hpc \in {"close", "remove", "pop", "store", "search"}

\* Where the pass stands: what is saved is the next position, and the chunk is owed
\* to exactly the clients from there on.
At(i) ==
  /\ hpc \in {"next", "write"} \/ Losing => i <= Len(order) /\ client = order[i]
  /\ hpc = "write" \/ Losing => client_tmp = Elem(order, i + 1)
  /\ due = Rest(order, IF Losing THEN i + 1 ELSE i)
  /\ hpc \in {"pop", "store"} => i = 1
  /\ hpc = "store" => cursor = client_tmp
  /\ hpc = "search" => \E j \in 1..(i - 1) : cursor = order[j]
  /\ hpc = "free" => /\ client_tmp = Elem(order, i)
                    /\ client \in live /\ client \notin Rest(order, 1)

PassInv ==
  /\ hpc = "idle" => due = {}
  /\ hpc # "idle" => \E i \in 1..(Len(order) + 1) : At(i)
  /\ registered = IF Losing THEN Rest(order, 1) \ {client} ELSE Rest(order, 1)

\* A node that is used has a socket of its own, which is open, and which the accept
\* loop has forgotten unless it is just inserting it.
SocketInv ==
  /\ \A n \in live : socket[n] # NoSocket => peer[socket[n]] # "closed"
  /\ \A m, n \in live : socket[m] = socket[n] /\ socket[m] # NoSocket => m = n
  /\ \A n \in live : socket[n] = sock_client /\ sock_client # NoSocket =>
       tpc \in {"link", "publish", "release"} /\ n = tnode
  /\ \A f \in Fds : peer[f] # "closed" => sock_client = f \/ \E n \in live : socket[n] = f
  /\ tpc \in {"read", "refuse", "welcome", "malloc"} => peer[sock_client] # "closed"
  /\ tpc \in {"link", "publish", "release"} =>
       \/ tnode \in live /\ socket[tnode] = sock_client
       \/ tpc = "release" /\ peer[sock_client] = "closed"
  /\ hpc \in {"remove", "pop", "store", "search", "free"} => socket[client] = NoSocket

IInv ==
  /\ TypeOK /\ PointerInv
  /\ overlapped \/ (ListInv /\ InsertInv /\ PassInv /\ SocketInv)

-----------------------------------------------------------------------------
(* Sequences *)

\* From each position on, there is the element there and what follows it.
LEMMA RestOf ==
  ASSUME NEW S, NEW s \in Seq(S), NEW i \in 1..Len(s)
  PROVE  /\ Rest(s, i) = Rest(s, i + 1) \cup {s[i]}
         /\ Distinct(s) => s[i] \notin Rest(s, i + 1)
         /\ Elem(s, i) = s[i] /\ s[i] \in Rest(s, 1) /\ s[i] \in S
<1>1. i..Len(s) = ((i + 1)..Len(s)) \cup {i}
  OBVIOUS
<1>2. Rest(s, i) = Rest(s, i + 1) \cup {s[i]}
  BY <1>1 DEF Rest
<1>3. Distinct(s) => s[i] \notin Rest(s, i + 1)
  BY DEF Distinct, Rest
<1> QED
  BY <1>2, <1>3 DEF Elem, Rest

\* After the last position there is nothing.
LEMMA RestEnds ==
  ASSUME NEW S, NEW s \in Seq(S)
  PROVE  /\ Rest(s, Len(s) + 1) = {}
         /\ Elem(s, Len(s) + 1) = NULL
         /\ \A i \in Nat \ {0} : Rest(s, i) \subseteq Rest(s, 1) /\ Rest(s, i) \subseteq S
<1>1. Rest(s, Len(s) + 1) = {}
  BY DEF Rest
<1>2. ASSUME NEW i \in Nat \ {0} PROVE Rest(s, i) \subseteq Rest(s, 1) /\ Rest(s, i) \subseteq S
  BY DEF Rest
<1> QED
  BY <1>1, <1>2 DEF Elem

\* RemoveFirst takes the element out at the one position where it is.
LEMMA RemovedAt ==
  ASSUME NEW S, NEW s \in Seq(S), NEW k \in 1..Len(s), Distinct(s)
  PROVE  RemoveFirst(s, s[k]) = RemoveAt(s, k)
<1>1. { i \in 1..Len(s) : s[i] = s[k] } = {k}
  BY DEF Distinct
<1>2. Min({k}) = k
  BY DEF Min
<1>3. SelectInSeq(s, LAMBDA v : v = s[k]) = k
  BY <1>1, <1>2 DEF SelectInSeq
<1> QED
  BY <1>3 DEF RemoveFirst

\* What RemoveFirst returns of a sequence without repetitions.
LEMMA FirstRemoved ==
  ASSUME NEW S, NEW s \in Seq(S), NEW k \in 1..Len(s), Distinct(s)
  PROVE  /\ RemoveFirst(s, s[k]) \in Seq(S)
         /\ Len(RemoveFirst(s, s[k])) = Len(s) - 1
         /\ \A j \in 1..(Len(s) - 1) : RemoveFirst(s, s[k])[j] = IF j < k THEN s[j] ELSE s[j + 1]
<1>4. RemoveFirst(s, s[k]) = RemoveAt(s, k)
  BY RemovedAt
<1> DEFINE before == SubSeq(s, 1, k - 1)
           after  == SubSeq(s, k + 1, Len(s))
<1>5. RemoveAt(s, k) = before \o after
  BY DEF RemoveAt
<1>6. /\ before \in Seq(S) /\ Len(before) = k - 1
      /\ \A i \in 1..(k - 1) : before[i] = s[i]
  BY SubSeqProperties
<1>7. /\ after \in Seq(S) /\ Len(after) = Len(s) - k
      /\ \A i \in 1..(Len(s) - k) : after[i] = s[k + i]
  BY SubSeqProperties
<1> HIDE DEF before, after
<1>8. before \o after \in Seq(S) /\ Len(before \o after) = Len(s) - 1
  <2>1. before \o after \in Seq(S) /\ Len(before \o after) = Len(before) + Len(after)
    BY <1>6, <1>7, ConcatProperties
  <2>2. (k - 1) + (Len(s) - k) = Len(s) - 1
    OBVIOUS
  <2> QED
    BY <1>6, <1>7, <2>1, <2>2
<1>9. ASSUME NEW j \in 1..(Len(s) - 1)
      PROVE  (before \o after)[j] = IF j < k THEN s[j] ELSE s[j + 1]
  <2>1. (before \o after)[j] = IF j <= k - 1 THEN before[j] ELSE after[j - (k - 1)]
    BY <1>6, <1>7, ConcatProperties
  <2>2. CASE j < k
    BY <1>6, <2>1, <2>2
  <2>3. CASE ~(j < k)
    <3>1. j - (k - 1) \in 1..(Len(s) - k) /\ k + (j - (k - 1)) = j + 1
      BY <2>3
    <3> QED
      BY <1>7, <2>1, <2>3, <3>1
  <2> QED
    BY <2>2, <2>3
<1> QED
  BY <1>4, <1>5, <1>8, <1>9

\* List t is s without its k-th element: the positions after k move up.
Shortened(t, s, k) ==
  /\ t \in Seq(Nodes) /\ Len(t) = Len(s) - 1 /\ Distinct(t)
  /\ \A i \in 1..(k - 1) : Elem(t, i) = Elem(s, i)
  /\ \A i \in Nat : i >= k => Elem(t, i) = Elem(s, i + 1) /\ Rest(t, i) = Rest(s, i + 1)
  /\ Rest(t, 1) = Rest(s, 1) \ {s[k]}

\* RemoveFirst takes one client out of the list; the others keep their order.
LEMMA WithoutOne ==
  ASSUME NEW s \in Seq(Nodes), NEW k \in 1..Len(s), Distinct(s)
  PROVE  Shortened(RemoveFirst(s, s[k]), s, k)
<1> DEFINE t == RemoveFirst(s, s[k])
<1>1. /\ t \in Seq(Nodes) /\ Len(t) = Len(s) - 1
      /\ \A j \in 1..(Len(s) - 1) : t[j] = IF j < k THEN s[j] ELSE s[j + 1]
  BY FirstRemoved
<1> HIDE DEF t
<1>2. Distinct(t)
  <2> SUFFICES ASSUME NEW i \in 1..Len(t), NEW j \in 1..Len(t), t[i] = t[j] PROVE i = j
    BY DEF Distinct
  <2> DEFINE at(n) == IF n < k THEN n ELSE n + 1
  <2>1. ASSUME NEW n \in 1..Len(t)
        PROVE  at(n) \in 1..Len(s) /\ t[n] = s[at(n)]
    <3>1. n \in 1..(Len(s) - 1) /\ Len(s) \in Nat /\ k \in Nat
      BY <1>1
    <3>2. t[n] = IF n < k THEN s[n] ELSE s[n + 1]
      BY <1>1, <3>1, Zenon
    <3>3. at(n) \in 1..Len(s)
      BY <3>1
    <3> QED
      BY <3>2, <3>3
  <2>2. at(i) = at(j)
    <3> HIDE DEF at
    <3> QED
      BY <2>1 DEF Distinct
  <2> QED
    BY <2>2
<1>3. ASSUME NEW i \in 1..(k - 1) PROVE Elem(t, i) = Elem(s, i)
  BY <1>1 DEF Elem
<1>4. ASSUME NEW i \in Nat, i >= k PROVE Elem(t, i) = Elem(s, i + 1) /\ Rest(t, i) = Rest(s, i + 1)
  <2>1. Elem(t, i) = Elem(s, i + 1)
    BY <1>1, <1>4 DEF Elem
  <2>2. Rest(t, i) \subseteq Rest(s, i + 1)
    <3> SUFFICES ASSUME NEW j \in i..Len(t) PROVE t[j] \in Rest(s, i + 1)
      BY DEF Rest
    <3>1. t[j] = s[j + 1] /\ j + 1 \in (i + 1)..Len(s)
      BY <1>1, <1>4
    <3> QED
      BY <3>1 DEF Rest
  <2>3. Rest(s, i + 1) \subseteq Rest(t, i)
    <3> SUFFICES ASSUME NEW j \in (i + 1)..Len(s) PROVE s[j] \in Rest(t, i)
      BY DEF Rest
    <3>1. j - 1 \in i..Len(t) /\ t[j - 1] = s[j]
      BY <1>1, <1>4
    <3> QED
      BY <3>1 DEF Rest
  <2> QED
    BY <2>1, <2>2, <2>3
<1>5. Rest(t, 1) = Rest(s, 1) \ {s[k]}
  <2>1. ASSUME NEW j \in 1..Len(t) PROVE t[j] \in Rest(s, 1) \ {s[k]}
    <3> DEFINE at == IF j < k THEN j ELSE j + 1
    <3>1. at \in 1..Len(s) /\ at # k /\ t[j] = s[at]
      BY <1>1
    <3> QED
      BY <3>1 DEF Rest, Distinct
  <2>2. ASSUME NEW j \in 1..Len(s), s[j] # s[k] PROVE s[j] \in Rest(t, 1)
    <3> DEFINE at == IF j < k THEN j ELSE j - 1
    <3>1. at \in 1..Len(t) /\ t[at] = s[j]
      BY <1>1, <2>2
    <3> QED
      BY <3>1 DEF Rest
  <2> QED
    BY <2>1, <2>2 DEF Rest
<1>6. Shortened(t, s, k)
  BY <1>1, <1>2, <1>3, <1>4, <1>5 DEF Shortened
<1> QED
  BY <1>6 DEF t

\* List t is s with a new first element e: all positions move down.
Lengthened(t, s, e) ==
  /\ t \in Seq(Nodes) /\ Len(t) = Len(s) + 1 /\ t[1] = e
  /\ \A i \in Nat \ {0} : Elem(t, i + 1) = Elem(s, i) /\ Rest(t, i + 1) = Rest(s, i)
  /\ \A i \in 1..Len(s) : t[i + 1] = s[i]
  /\ Rest(t, 1) = Rest(s, 1) \cup {e}
  /\ Distinct(s) /\ e \notin Rest(s, 1) => Distinct(t)

\* A client inserted at the head of the list is its first.
LEMMA WithOneMore ==
  ASSUME NEW s \in Seq(Nodes), NEW e \in Nodes
  PROVE  Lengthened(<<e>> \o s, s, e)
<1> DEFINE t == <<e>> \o s
<1>1. <<e>> \in Seq(Nodes) /\ Len(<<e>>) = 1 /\ <<e>>[1] = e
  OBVIOUS
<1>2. /\ t \in Seq(Nodes) /\ Len(t) = Len(s) + 1
      /\ \A i \in 1..(Len(s) + 1) : t[i] = IF i <= 1 THEN e ELSE s[i - 1]
  BY <1>1, ConcatProperties
<1> HIDE DEF t
<1>3. ASSUME NEW i \in Nat \ {0} PROVE Elem(t, i + 1) = Elem(s, i) /\ Rest(t, i + 1) = Rest(s, i)
  <2>1. Elem(t, i + 1) = Elem(s, i)
    BY <1>2 DEF Elem
  <2>2. ASSUME NEW j \in (i + 1)..Len(t) PROVE t[j] \in Rest(s, i)
    <3>1. j - 1 \in i..Len(s) /\ t[j] = s[j - 1]
      BY <1>2
    <3> QED
      BY <3>1 DEF Rest
  <2>3. ASSUME NEW j \in i..Len(s) PROVE s[j] \in Rest(t, i + 1)
    <3>1. j + 1 \in (i + 1)..Len(t) /\ t[j + 1] = s[j]
      BY <1>2
    <3> QED
      BY <3>1 DEF Rest
  <2> QED
    BY <2>1, <2>2, <2>3 DEF Rest
<1>4. t[1] = e /\ \A i \in 1..Len(s) : t[i + 1] = s[i]
  BY <1>2
<1>5. Rest(t, 1) = Rest(s, 1) \cup {e}
  <2>1. 1..Len(t) = {1} \cup (2..Len(t))
    BY <1>2
  <2>2. Rest(t, 1) = {t[1]} \cup Rest(t, 2)
    BY <2>1 DEF Rest
  <2>3. Rest(t, 2) = Rest(s, 1)
    <3>1. 1 \in Nat \ {0} /\ 1 + 1 = 2
      OBVIOUS
    <3>2. Rest(t, 1 + 1) = Rest(s, 1)
      BY <1>3, <3>1, Zenon
    <3> QED
      BY <3>1, <3>2
  <2> QED
    BY <1>4, <2>2, <2>3
<1>6. Distinct(s) /\ e \notin Rest(s, 1) => Distinct(t)
  BY <1>2 DEF Distinct, Rest
<1>7. Lengthened(t, s, e)
  BY <1>2, <1>3, <1>4, <1>5, <1>6 DEF Lengthened
<1> QED
  BY <1>7 DEF t

\* The least-number principle for a set of naturals, from the well-foundedness
\* of strict inclusion on the initial segments 0..n.
LEMMA LeastElement ==
  ASSUME NEW N, N \subseteq Nat, N # {}
  PROVE  \E m \in N : \A k \in N : m <= k
<1> DEFINE R == StrictSubsetOrdering(Nat)
           Segments == {0..n : n \in N}
<1>1. Segments \subseteq FiniteSubsetsOf(Nat)
  <2> SUFFICES ASSUME NEW n \in N
               PROVE  IsFiniteSet(0..n)
    BY DEF FiniteSubsetsOf
  <2>1. 0 \in Int /\ n \in Int
    OBVIOUS
  <2>. QED
    BY <2>1, FS_Interval, Zenon
<1>2. \E x \in Segments : \A y \in Segments : <<y, x>> \notin R
  <2>1. IsWellFoundedOn(R, FiniteSubsetsOf(Nat))
    BY FS_StrictSubsetOrderingWellFounded
  <2>2. Segments # {}
    OBVIOUS
  <2> HIDE DEF R, Segments
  <2>. QED
    BY <1>1, <2>1, <2>2, WFMin
<1>3. PICK m \in N : \A k \in N : <<0..k, 0..m>> \notin R
  BY <1>2
<1>4. ASSUME NEW k \in N, k < m PROVE FALSE
  <2>1. 0..k \subseteq 0..m /\ 0..k # 0..m
    BY <1>4, SMT
  <2>2. <<0..k, 0..m>> \in R
    BY <2>1 DEF StrictSubsetOrdering
  <2>. QED
    BY <1>3, <2>2
<1>. QED
  BY <1>4, SMT

\* Whatever the list has become, RemoveFirst of it is a list of nodes.
LEMMA RemovedType ==
  ASSUME NEW S, NEW s \in Seq(S), NEW e
  PROVE  RemoveFirst(s, e) \in Seq(S)
<1> DEFINE I == { i \in 1..Len(s) : s[i] = e }
           k == SelectInSeq(s, LAMBDA v : v = e)
<1>1. CASE I = {}
  BY <1>1 DEF RemoveFirst
<1>2. CASE I # {}
  <2>1. k = Min(I)
    BY <1>2 DEF SelectInSeq
  <2>2. \E m \in I : \A i \in I : m <= i
    <3>1. I \subseteq Nat
      OBVIOUS
    <3> HIDE DEF I
    <3> QED
      BY <1>2, <3>1, LeastElement
  <2>3. k \in 1..Len(s)
    BY <2>1, <2>2 DEF Min
  <2> HIDE DEF k
  <2>4. SubSeq(s, 1, k - 1) \in Seq(S) /\ SubSeq(s, k + 1, Len(s)) \in Seq(S)
    BY <2>3, SubSeqProperties
  <2>5. RemoveAt(s, k) \in Seq(S)
    BY <2>4, ConcatProperties DEF RemoveAt
  <2> QED
    BY <1>2, <2>5 DEF RemoveFirst, k
<1> QED
  BY <1>1, <1>2

-----------------------------------------------------------------------------
(* Types and pointers *)

\* The first states have the types.
LEMMA InitTypes == Init => TypeOK /\ PointerInv
<1> SUFFICES ASSUME Init PROVE TypeOK /\ PointerInv
  OBVIOUS
<1>1. <<>> \in Seq(Nodes)
  BY EmptySeq
<1>2. TypeOK
  BY <1>1 DEF Init, TypeOK, TPC, HPC, Peers, NoSocket
<1> QED
  BY <1>2 DEF Init, PointerInv, TPC

\* The steps of the accept loop keep the types,
LEMMA AcceptTypes == TypeOK /\ PointerInv /\ TNext => TypeOK' /\ PointerInv'
<1> SUFFICES ASSUME TypeOK, PointerInv, TNext PROVE TypeOK' /\ PointerInv'
  OBVIOUS
<1> USE DEF TypeOK, PointerInv, hvars, list, history, T, TPC, NoSocket
<1>1. CASE TSocketInit
  BY <1>1 DEF TSocketInit
<1>2. CASE TDestroyClient
  BY <1>2 DEF TDestroyClient, Close, Peers
<1>3. CASE TAcceptFails
  BY <1>3 DEF TAcceptFails
<1>4. ASSUME NEW f \in Fds, TAccept(f) PROVE TypeOK' /\ PointerInv'
  BY <1>4 DEF TAccept, Peers
<1>5. CASE TReadRequest
  BY <1>5 DEF TReadRequest
<1>6. CASE TReadFails \/ TRefuse \/ TWelcomeFails
  BY <1>6 DEF TReadFails, TRefuse, TWelcomeFails
<1>7. CASE TWelcome
  BY <1>7 DEF TWelcome
<1>8. ASSUME NEW n \in Nodes, TMalloc(n) PROVE TypeOK' /\ PointerInv'
  BY <1>8 DEF TMalloc
<1>9. CASE TLink
  BY <1>9 DEF TLink
<1>10. CASE TPublish
  <2>1. order' \in Seq(Nodes)
    BY <1>10, WithOneMore DEF TPublish, Lengthened
  <2> QED
    BY <1>10, <2>1 DEF TPublish
<1>11. CASE TRelease
  BY <1>11 DEF TRelease
<1> QED
  BY <1>1, <1>2, <1>3, <1>4, <1>5, <1>6, <1>7, <1>8, <1>9, <1>10, <1>11 DEF TNext

\* those of the handler do,
LEMMA HandlerTypes == TypeOK /\ PointerInv /\ HNext => TypeOK' /\ PointerInv'
<1> SUFFICES ASSUME TypeOK, PointerInv, HNext PROVE TypeOK' /\ PointerInv'
  OBVIOUS
<1> USE NullAssumption DEF TypeOK, PointerInv, tvars, list, history, H, Visit, HPC
<1>1. CASE HChunk
  BY <1>1 DEF HChunk
<1>2. CASE HSaveNext
  BY <1>2 DEF HSaveNext
<1>3. CASE HWrite
  BY <1>3 DEF HWrite
<1>4. CASE HWriteFails
  BY <1>4 DEF HWriteFails
<1>5. CASE HClose
  BY <1>5 DEF HClose, Close, NoSocket, Peers
<1>6. CASE HFindAtHead
  BY <1>6 DEF HFindAtHead
<1>7. CASE HReadSecond
  BY <1>7 DEF HReadSecond
<1>8. CASE HStoreHead
  <2>1. order' \in Seq(Nodes)
    BY <1>8, RemovedType DEF HStoreHead
  <2> QED
    BY <1>8, <2>1 DEF HStoreHead
<1>9. CASE HSearch
  BY <1>9 DEF HSearch
<1>10. CASE HSearchOn
  BY <1>10 DEF HSearchOn
<1>11. CASE HUnlink
  <2>1. order' \in Seq(Nodes)
    BY <1>11, RemovedType DEF HUnlink
  <2> QED
    BY <1>11, <2>1 DEF HUnlink
<1>12. CASE HFree
  BY <1>12 DEF HFree
<1> QED
  BY <1>1, <1>2, <1>3, <1>4, <1>5, <1>6, <1>7, <1>8, <1>9, <1>10, <1>11, <1>12 DEF HNext

\* and those of the peers.
LEMMA PeerTypes == TypeOK /\ PointerInv /\ PeerNext => TypeOK' /\ PointerInv'
<1> SUFFICES ASSUME TypeOK, PointerInv,
                    NEW f \in Fds, NEW from \in SUBSET Peers, NEW to \in Peers,
                    Becomes(f, from, to)
             PROVE  TypeOK' /\ PointerInv'
  BY DEF PeerNext, SendRequest, Stall, Resume, Reset, Peers
<1>1. UNCHANGED <<tvars, hvars, list, corrupt, history>> /\ peer' \in [Fds -> Peers]
  BY DEF Becomes, TypeOK
<1> QED
  BY <1>1 DEF TypeOK, PointerInv, tvars, hvars, list, history

-----------------------------------------------------------------------------
(* The list and the pass over it: steps of the accept loop *)

\* A client that a pass is at is allocated.
LEMMA ClientLive ==
  ASSUME TypeOK, ListInv, PassInv, hpc # "idle"
  PROVE  client \in live
<1>1. PICK i \in 1..(Len(order) + 1) : At(i)
  BY DEF PassInv
<1> QED
  BY <1>1 DEF At, ListInv, Losing, TypeOK, HPC

\* What is on the list is allocated.
LEMMA OnListLive ==
  ASSUME TypeOK, ListInv
  PROVE  Rest(order, 1) \subseteq live
BY DEF ListInv, Rest, TypeOK

\* A step that leaves the list, the pass and the history alone.
LEMMA QuietStep ==
  ASSUME ListInv, InsertInv, PassInv, UNCHANGED <<hvars, list, history, corrupt>>,
         tpc' \notin {"link", "publish"}
  PROVE  ListInv' /\ InsertInv' /\ PassInv'
<1>1. ListInv'
  BY DEF ListInv, list, history
<1>2. InsertInv'
  BY DEF InsertInv
<1>3. PassInv'
  BY DEF PassInv, At, Losing, hvars, list, history
<1> QED
  BY <1>1, <1>2, <1>3

\* Every step of the accept loop keeps the list, the insertion and the pass.
LEMMA AcceptList ==
  ASSUME TypeOK, PointerInv, ListInv, InsertInv, PassInv, TNext, ~overlapped'
  PROVE  ListInv' /\ InsertInv' /\ PassInv'
<1>1. CASE \/ TSocketInit \/ TDestroyClient \/ TAcceptFails \/ TReadRequest \/ TReadFails
           \/ TRefuse \/ TWelcome \/ TWelcomeFails \/ TRelease \/ \E f \in Fds : TAccept(f)
  <2>1. tpc' \notin {"link", "publish"} /\ UNCHANGED <<hvars, list, history, corrupt>>
    BY <1>1 DEF TSocketInit, TDestroyClient, TAcceptFails, TReadRequest, TReadFails, TRefuse,
                TWelcome, TWelcomeFails, TRelease, TAccept, T
  <2> QED
    BY <2>1, QuietStep
<1>2. ASSUME NEW n \in Nodes, TMalloc(n) PROVE ListInv' /\ InsertInv' /\ PassInv'
  <2>1. /\ n \notin live /\ live' = live \cup {n} /\ tnode' = n /\ tpc' = "link"
        /\ UNCHANGED <<hvars, head, next, corrupt, history>>
    BY <1>2 DEF TMalloc, T
  <2>2. ListInv'
    BY <2>1 DEF ListInv, history
  <2>3. n \notin Rest(order, 1) /\ (hpc # "idle" => n # client)
    BY <2>1, OnListLive, ClientLive
  <2>4. InsertInv'
    BY <2>1, <2>3 DEF InsertInv, hvars, history
  <2>5. PassInv'
    <3>1. \A i \in 1..(Len(order) + 1) : At(i) => At(i)'
      BY <2>1 DEF At, Losing, hvars, history
    <3> QED
      BY <2>1, <3>1 DEF PassInv, Losing, hvars, history
  <2> QED
    BY <2>2, <2>4, <2>5
<1>3. CASE TLink
  <2>1. /\ tpc = "link" /\ tpc' = "publish" /\ next' = [next EXCEPT ![tnode] = head]
        /\ ~Popping /\ UNCHANGED <<tnode, hvars, head, socket, live, corrupt, registered, order>>
    BY <1>3 DEF TLink, T
  <2>2. tnode \in Nodes /\ tnode \in live /\ tnode \notin Rest(order, 1)
    BY <2>1 DEF InsertInv, PointerInv
  <2>3. \A i \in 1..Len(order) : order[i] # tnode /\ next'[order[i]] = next[order[i]]
    BY <2>1, <2>2 DEF Rest, TypeOK
  <2>4. ListInv'
    BY <2>1, <2>3 DEF ListInv
  <2>5. InsertInv'
    BY <2>1, <2>2 DEF InsertInv, Popping, hvars, TypeOK
  <2>6. PassInv'
    BY <2>1 DEF PassInv, At, Losing, hvars
  <2> QED
    BY <2>4, <2>5, <2>6
<1>4. CASE TPublish
  <2>1. /\ tpc = "publish" /\ tpc' = "release" /\ head' = tnode
        /\ registered' = registered \cup {tnode} /\ order' = <<tnode>> \o order
        /\ UNCHANGED <<tnode, hvars, next, socket, live, corrupt>>
    BY <1>4 DEF TPublish, T
  <2>2. /\ tnode \in live /\ tnode \in Nodes /\ tnode \notin Rest(order, 1) /\ ~Popping
        /\ (hpc # "idle" => tnode # client) /\ next[tnode] = head
    BY <2>1 DEF InsertInv, PointerInv
  <2>3. order \in Seq(Nodes)
    BY DEF TypeOK
  <2>4. Lengthened(order', order, tnode)
    BY <2>1, <2>2, <2>3, WithOneMore, Zenon
  <2>5. ListInv'
    <3>1. Distinct(order') /\ ~corrupt' /\ head' = Elem(order', 1)
      BY <2>1, <2>2, <2>3, <2>4 DEF ListInv, Elem, Lengthened
    <3>2. order'[1] \in live /\ next[order'[1]] = Elem(order', 2)
      <4>1. 1 \in Nat \ {0} /\ 1 + 1 = 2
        OBVIOUS
      <4>2. Elem(order', 1 + 1) = Elem(order, 1)
        BY <2>4, <4>1, Zenon DEF Lengthened
      <4> QED
        BY <2>2, <2>4, <4>1, <4>2 DEF ListInv, Lengthened
    <3>3. ASSUME NEW i \in 2..Len(order')
          PROVE  order'[i] \in live /\ next[order'[i]] = Elem(order', i + 1)
      <4>1. PICK k \in 1..Len(order) : i = k + 1
        BY <2>3, <2>4 DEF Lengthened
      <4>2. order'[i] = order[k]
        BY <2>4, <4>1 DEF Lengthened
      <4>3. k + 1 \in Nat \ {0}
        BY <2>3
      <4>4. Elem(order', (k + 1) + 1) = Elem(order, k + 1)
        BY <2>4, <4>3, Zenon DEF Lengthened
      <4> QED
        BY <4>1, <4>2, <4>4 DEF ListInv
    <3> QED
      <4>1. \A i \in 1..Len(order') : i = 1 \/ i \in 2..Len(order')
        BY <2>3, <2>4 DEF Lengthened
      <4>2. 1 + 1 = 2
        OBVIOUS
      <4> QED
        BY <2>1, <3>1, <3>2, <3>3, <4>1, <4>2 DEF ListInv
  <2>6. InsertInv'
    BY <2>1 DEF InsertInv
  <2>7. ASSUME NEW i \in 1..(Len(order) + 1), At(i)
        PROVE  i + 1 \in 1..(Len(order') + 1) /\ At(i + 1)'
    <3>1. /\ Elem(order', i + 1) = Elem(order, i) /\ Rest(order', i + 1) = Rest(order, i)
          /\ Elem(order', (i + 1) + 1) = Elem(order, i + 1)
          /\ Rest(order', (i + 1) + 1) = Rest(order, i + 1)
      <4>1. i \in Nat \ {0} /\ i + 1 \in Nat \ {0}
        BY <2>3
      <4> QED
        BY <2>4, <4>1, Zenon DEF Lengthened
    <3>2. i + 1 \in 1..(Len(order') + 1) /\ (i <= Len(order) => i + 1 <= Len(order'))
      <4>1. Len(order') = Len(order) + 1
        BY <2>4, Zenon DEF Lengthened
      <4> QED
        BY <2>3, <4>1
    <3>3. ASSUME NEW j \in 1..(i - 1), cursor = order[j], i <= Len(order)
          PROVE  \E k \in 1..i : cursor = order'[k]
      <4>1. j + 1 \in 1..i /\ order'[j + 1] = order[j]
        BY <2>3, <2>4, <3>3 DEF Lengthened
      <4> QED
        BY <3>3, <4>1
    <3>4. (i + 1) - 1 = i /\ hpc \notin {"pop", "store"}
      BY <2>2 DEF Popping
    <3>5. hpc = "free" => client \notin Rest(order', 1)
      BY <2>2, <2>4, <2>7 DEF At, Losing, Lengthened
    <3>6. hpc = "search" => i <= Len(order) /\ \E j \in 1..(i - 1) : cursor = order[j]
      BY <2>7 DEF At, Losing
    <3>7. hpc = "search" => \E k \in 1..((i + 1) - 1) : cursor = order'[k]
      BY <3>3, <3>4, <3>6
    <3>8. hpc \in {"next", "write"} \/ Losing =>
            i + 1 <= Len(order') /\ client = order'[i + 1]
      <4>1. hpc \in {"next", "write"} \/ Losing => i <= Len(order) /\ client = order[i]
        BY <2>7 DEF At
      <4>2. i <= Len(order) => order'[i + 1] = order[i]
        BY <2>3, <2>4 DEF Lengthened
      <4> QED
        BY <3>2, <4>1, <4>2
    <3>9. hpc = "write" \/ Losing => client_tmp = Elem(order', (i + 1) + 1)
      BY <2>7, <3>1 DEF At
    <3>10. due = Rest(order', IF Losing THEN (i + 1) + 1 ELSE i + 1)
      BY <2>7, <3>1 DEF At
    <3>11. hpc = "free" => client_tmp = Elem(order', i + 1) /\ client \in live
      BY <2>7, <3>1 DEF At
    <3> QED
      BY <2>1, <3>2, <3>4, <3>5, <3>7, <3>8, <3>9, <3>10, <3>11 DEF At, Losing, hvars
  <2>8. registered' = IF Losing THEN Rest(order', 1) \ {client} ELSE Rest(order', 1)
    BY <2>1, <2>2, <2>4 DEF PassInv, Losing, Lengthened
  <2>9. PassInv'
    BY <2>1, <2>7, <2>8 DEF PassInv, Losing, hvars
  <2> QED
    BY <2>5, <2>6, <2>9
<1> QED
  BY <1>1, <1>2, <1>3, <1>4 DEF TNext

-----------------------------------------------------------------------------
(* The list and the pass over it: steps of the handler *)

\* The pass goes on with position i, or ends there: nobody else is owed the chunk.
LEMMA GoesOn ==
  ASSUME TypeOK, ListInv', InsertInv', NEW i \in 1..(Len(order) + 1), order' = order,
         client' = Elem(order, i), due' = Rest(order, i), registered' = Rest(order, 1),
         hpc' = IF client' = NULL THEN "idle" ELSE "next"
  PROVE  PassInv'
<1>1. order \in Seq(Nodes) /\ Len(order) \in Nat
  BY DEF TypeOK
<1>2. CASE i = Len(order) + 1
  <2>1. client' = NULL /\ due' = {}
    BY <1>1, <1>2, RestEnds
  <2> QED
    BY <2>1 DEF PassInv, Losing
<1>3. CASE i # Len(order) + 1
  <2>1. i \in 1..Len(order) /\ client' = order[i] /\ order[i] \in Nodes
    BY <1>1, <1>3 DEF Elem
  <2>2. client' # NULL
    BY <2>1, NullAssumption
  <2>3. hpc' = "next" /\ ~Losing'
    BY <2>2 DEF Losing
  <2>4. At(i)'
    BY <2>1, <2>3 DEF At
  <2> QED
    BY <1>1, <2>3, <2>4 DEF PassInv
<1> QED
  BY <1>2, <1>3

\* What a step needs of the list when it neither changes it nor frees a client.
LEMMA SameList ==
  ASSUME ListInv, UNCHANGED <<head, next, live, order>>, ~corrupt'
  PROVE  ListInv'
BY DEF ListInv

\* A step of the handler that leaves the list alone leaves a running insertion alone.
LEMMA SameInsert ==
  ASSUME InsertInv, UNCHANGED <<tvars, head, next, live, order>>,
         tpc = "publish" => ~Popping',
         hpc' # "idle" /\ tpc \in {"link", "publish"} => client' # tnode
  PROVE  InsertInv'
BY DEF InsertInv, tvars

\* A new chunk starts a pass at the head.
LEMMA ChunkStep ==
  ASSUME TypeOK, ListInv, InsertInv, PassInv, HChunk
  PROVE  ListInv' /\ InsertInv' /\ PassInv'
<1>1. /\ hpc = "idle" /\ client' = head /\ due' = registered
      /\ hpc' = IF client' = NULL THEN "idle" ELSE "next"
      /\ UNCHANGED <<tvars, head, next, live, order, corrupt, registered>>
  BY DEF HChunk, Visit, list, history
<1>2. order \in Seq(Nodes) /\ 1 \in 1..(Len(order) + 1)
  BY DEF TypeOK
<1>3. head = Elem(order, 1) /\ registered = Rest(order, 1)
  BY <1>1 DEF ListInv, PassInv, Losing
<1>4. ListInv'
  BY <1>1, SameList DEF ListInv
<1>5. hpc' # "idle" /\ tpc \in {"link", "publish"} => client' # tnode
  <2>1. client' # NULL => client' \in Rest(order, 1)
    BY <1>1, <1>2, <1>3 DEF Elem, Rest
  <2> QED
    BY <1>1, <2>1 DEF InsertInv
<1>6. InsertInv'
  BY <1>1, <1>5, SameInsert DEF Popping
<1> QED
  BY <1>1, <1>2, <1>3, <1>4, <1>6, GoesOn

\* Saving the next client keeps the pass where it is.
LEMMA SaveStep ==
  ASSUME TypeOK, ListInv, InsertInv, PassInv, HSaveNext
  PROVE  ListInv' /\ InsertInv' /\ PassInv'
<1>1. /\ hpc = "next" /\ hpc' = "write" /\ client_tmp' = next[client]
      /\ corrupt' = (client \notin live)
      /\ UNCHANGED <<tvars, client, due, head, next, live, order, registered>>
  BY DEF HSaveNext, H, list, history
<1>2. PICK i \in 1..(Len(order) + 1) : At(i)
  BY <1>1 DEF PassInv
<1>3. Len(order) \in Nat /\ i \in 1..Len(order) /\ client = order[i] /\ due = Rest(order, i)
  BY <1>1, <1>2 DEF At, Losing, TypeOK
<1>4. client \in live /\ next[client] = Elem(order, i + 1)
  BY <1>3 DEF ListInv
<1>5. ListInv'
  BY <1>1, <1>4, SameList
<1>6. InsertInv'
  BY <1>1, SameInsert DEF Popping, InsertInv
<1>7. At(i)'
  BY <1>1, <1>3, <1>4 DEF At, Losing
<1>8. PassInv'
  BY <1>1, <1>2, <1>7 DEF PassInv, Losing
<1> QED
  BY <1>5, <1>6, <1>8

\* A client that was written is done, and the pass goes on to the next.
LEMMA WriteStep ==
  ASSUME TypeOK, ListInv, InsertInv, PassInv, HWrite
  PROVE  ListInv' /\ InsertInv' /\ PassInv' /\ client \in due
<1>1. /\ hpc = "write" /\ client' = client_tmp /\ due' = due \ {client}
      /\ hpc' = IF client' = NULL THEN "idle" ELSE "next"
      /\ UNCHANGED <<tvars, head, next, live, order, corrupt, registered>>
  BY DEF HWrite, Visit, list, history
<1>2. PICK i \in 1..(Len(order) + 1) : At(i)
  BY <1>1 DEF PassInv
<1>3. /\ order \in Seq(Nodes) /\ Len(order) \in Nat /\ i \in 1..Len(order)
      /\ client = order[i] /\ due = Rest(order, i) /\ client_tmp = Elem(order, i + 1)
  BY <1>1, <1>2 DEF At, Losing, TypeOK
<1>4. /\ Rest(order, i) = Rest(order, i + 1) \cup {client} /\ client \notin Rest(order, i + 1)
  BY <1>3, RestOf DEF ListInv
<1>5. ListInv'
  BY <1>1, SameList DEF ListInv
<1>6. hpc' # "idle" /\ tpc \in {"link", "publish"} => client' # tnode
  <2>1. client' # NULL => client' \in Rest(order, 1)
    BY <1>1, <1>3 DEF Elem, Rest
  <2> QED
    BY <1>1, <2>1 DEF InsertInv
<1>7. InsertInv'
  BY <1>1, <1>6, SameInsert DEF Popping
<1>8. i + 1 \in 1..(Len(order) + 1) /\ due' = Rest(order, i + 1) /\ registered = Rest(order, 1)
  BY <1>1, <1>3, <1>4 DEF PassInv, Losing
<1> QED
  BY <1>1, <1>3, <1>4, <1>5, <1>7, <1>8, GoesOn

\* A client whose write failed is at the same position, now to be removed.
LEMMA WriteFailsStep ==
  ASSUME TypeOK, ListInv, InsertInv, PassInv, HWriteFails
  PROVE  ListInv' /\ InsertInv' /\ PassInv'
<1>1. /\ hpc = "write" /\ hpc' = "close" /\ due' = due \ {client}
      /\ registered' = registered \ {client}
      /\ UNCHANGED <<tvars, client, client_tmp, head, next, live, order, corrupt>>
  BY DEF HWriteFails, H, list
<1>2. PICK i \in 1..(Len(order) + 1) : At(i)
  BY <1>1 DEF PassInv
<1>3. /\ order \in Seq(Nodes) /\ Len(order) \in Nat /\ i \in 1..Len(order)
      /\ client = order[i] /\ due = Rest(order, i) /\ client_tmp = Elem(order, i + 1)
  BY <1>1, <1>2 DEF At, Losing, TypeOK
<1>4. Rest(order, i) = Rest(order, i + 1) \cup {client} /\ client \notin Rest(order, i + 1)
  BY <1>3, RestOf DEF ListInv
<1>5. ListInv'
  BY <1>1, SameList DEF ListInv
<1>6. InsertInv'
  BY <1>1, SameInsert DEF Popping, InsertInv
<1>7. At(i)'
  BY <1>1, <1>3, <1>4 DEF At, Losing
<1>8. registered' = Rest(order, 1) \ {client}
  BY <1>1 DEF PassInv, Losing
<1>9. PassInv'
  BY <1>1, <1>2, <1>7, <1>8 DEF PassInv, Losing
<1> QED
  BY <1>5, <1>6, <1>9

\* Closing its socket leaves it on the list.
LEMMA CloseStep ==
  ASSUME TypeOK, ListInv, InsertInv, PassInv, HClose
  PROVE  ListInv' /\ InsertInv' /\ PassInv'
<1>1. /\ hpc = "close" /\ hpc' = "remove"
      /\ UNCHANGED <<tvars, client, client_tmp, due, head, next, live, order, corrupt, registered>>
  BY DEF HClose, H, history
<1>2. PICK i \in 1..(Len(order) + 1) : At(i)
  BY <1>1 DEF PassInv
<1>3. At(i)'
  BY <1>1, <1>2 DEF At, Losing
<1>4. PassInv'
  BY <1>1, <1>2, <1>3 DEF PassInv, Losing
<1> QED
  BY <1>1, <1>4, SameList, SameInsert DEF ListInv, InsertInv, Popping

\* The client is the head: it is at position 1.
LEMMA FindStep ==
  ASSUME TypeOK, ListInv, InsertInv, PassInv, HFindAtHead, ~overlapped'
  PROVE  ListInv' /\ InsertInv' /\ PassInv'
<1>1. /\ hpc = "remove" /\ hpc' = "pop" /\ head = client /\ tpc # "publish"
      /\ UNCHANGED <<tvars, client, client_tmp, due, head, next, live, order, corrupt, registered>>
  BY DEF HFindAtHead, H, list, Inserting
<1>2. PICK i \in 1..(Len(order) + 1) : At(i)
  BY <1>1 DEF PassInv
<1>3. Len(order) \in Nat /\ i \in 1..Len(order) /\ client = order[i]
  BY <1>1, <1>2 DEF At, Losing, TypeOK
<1>4. i = 1
  BY <1>1, <1>3 DEF ListInv, Elem, Distinct
<1>5. At(i)'
  BY <1>1, <1>2, <1>4 DEF At, Losing
<1>6. PassInv'
  BY <1>1, <1>2, <1>5 DEF PassInv, Losing
<1> QED
  BY <1>1, <1>6, SameList, SameInsert DEF ListInv, InsertInv, Popping

\* A removal at the head reads the second client.
LEMMA ReadStep ==
  ASSUME TypeOK, ListInv, InsertInv, PassInv, HReadSecond
  PROVE  ListInv' /\ InsertInv' /\ PassInv'
<1>1. /\ hpc = "pop" /\ hpc' = "store" /\ cursor' = next[head] /\ corrupt' = (head \notin live)
      /\ UNCHANGED <<tvars, client, client_tmp, due, head, next, live, order, registered>>
  BY DEF HReadSecond, H, list, history
<1>2. PICK i \in 1..(Len(order) + 1) : At(i)
  BY <1>1 DEF PassInv
<1>3. /\ Len(order) \in Nat /\ i = 1 /\ i \in 1..Len(order) /\ client = order[i]
      /\ client_tmp = Elem(order, i + 1)
  BY <1>1, <1>2 DEF At, Losing, TypeOK
<1>4. head = order[i] /\ head \in live /\ next[head] = client_tmp
  BY <1>3 DEF ListInv, Elem
<1>5. At(i)'
  BY <1>1, <1>2, <1>3, <1>4 DEF At, Losing
<1>6. PassInv'
  BY <1>1, <1>2, <1>5 DEF PassInv, Losing
<1> QED
  BY <1>1, <1>4, <1>6, SameList, SameInsert DEF InsertInv, Popping

\* When a client leaves the list, the pass stands at the position it had.
LEMMA LeavesList ==
  ASSUME TypeOK, ListInv, PassInv, Losing, NEW i \in 1..Len(order), At(i),
         order' = RemoveFirst(order, client), hpc' = "free",
         UNCHANGED <<client, client_tmp, due, live, registered>>
  PROVE  PassInv'
<1>1. /\ order \in Seq(Nodes) /\ Len(order) \in Nat /\ client = order[i]
      /\ due = Rest(order, i + 1) /\ client_tmp = Elem(order, i + 1) /\ Distinct(order)
      /\ i \in Nat
  BY DEF At, TypeOK, ListInv
<1>2. Shortened(order', order, i)
  BY <1>1, WithoutOne, Zenon
<1>3. Elem(order', i) = Elem(order, i + 1) /\ Rest(order', i) = Rest(order, i + 1)
  <2>1. i \in Nat /\ i >= i
    BY <1>1
  <2> QED
    BY <1>2, <2>1, Zenon DEF Shortened
<1>4. i \in 1..(Len(order') + 1) /\ Rest(order', 1) = Rest(order, 1) \ {client}
  <2>1. Len(order') = Len(order) - 1 /\ Rest(order', 1) = Rest(order, 1) \ {order[i]}
    BY <1>2, Zenon DEF Shortened
  <2> QED
    BY <1>1, <2>1
<1>5. client \in live
  BY <1>1 DEF ListInv
<1>6. At(i)'
  BY <1>1, <1>3, <1>4, <1>5 DEF At, Losing
<1>7. registered' = Rest(order', 1)
  BY <1>4 DEF PassInv
<1> QED
  BY <1>4, <1>6, <1>7 DEF PassInv, Losing

\* The store of the second client as the head removes the first.
LEMMA StoreStep ==
  ASSUME TypeOK, ListInv, InsertInv, PassInv, HStoreHead
  PROVE  ListInv' /\ InsertInv' /\ PassInv'
<1>1. /\ hpc = "store" /\ hpc' = "free" /\ head' = cursor /\ order' = RemoveFirst(order, client)
      /\ UNCHANGED <<tvars, client, client_tmp, due, next, live, corrupt, registered>>
  BY DEF HStoreHead, H
<1>2. PICK i \in 1..(Len(order) + 1) : At(i)
  BY <1>1 DEF PassInv
<1>3. /\ order \in Seq(Nodes) /\ Len(order) \in Nat /\ i = 1 /\ i \in 1..Len(order)
      /\ client = order[1] /\ cursor = Elem(order, 1 + 1) /\ Distinct(order)
  BY <1>1, <1>2 DEF At, Losing, TypeOK, ListInv
<1>4. Shortened(order', order, 1)
  BY <1>1, <1>3, WithoutOne, Zenon
<1>5. ListInv'
  <2>1. head' = Elem(order', 1)
    BY <1>1, <1>3, <1>4 DEF Shortened
  <2>2. ASSUME NEW n \in 1..Len(order')
        PROVE  order'[n] \in live /\ next[order'[n]] = Elem(order', n + 1)
    <3>1. n + 1 \in 1..Len(order) /\ n \in Nat /\ n >= 1
      BY <1>3, <1>4 DEF Shortened
    <3>2. order'[n] = order[n + 1]
      BY <1>4, <3>1 DEF Elem, Shortened
    <3>3. Elem(order', n + 1) = Elem(order, (n + 1) + 1)
      BY <1>4, <3>1 DEF Shortened
    <3> QED
      BY <3>1, <3>2, <3>3 DEF ListInv
  <2> QED
    BY <1>1, <1>4, <2>1, <2>2 DEF ListInv, Shortened
<1>6. InsertInv'
  BY <1>1, <1>4 DEF InsertInv, Popping, tvars, Shortened
<1>7. PassInv'
  BY <1>1, <1>2, <1>3, LeavesList DEF Losing
<1> QED
  BY <1>5, <1>6, <1>7

\* The search for the predecessor of a client that is not the first stays before it,
LEMMA SearchStep ==
  ASSUME TypeOK, ListInv, InsertInv, PassInv, HSearch
  PROVE  ListInv' /\ InsertInv' /\ PassInv'
<1>1. /\ hpc = "remove" /\ hpc' = "search" /\ head # client /\ cursor' = head
      /\ corrupt' = (head = NULL)
      /\ UNCHANGED <<tvars, client, client_tmp, due, head, next, live, order, registered>>
  BY DEF HSearch, H, list, history
<1>2. PICK i \in 1..(Len(order) + 1) : At(i)
  BY <1>1 DEF PassInv
<1>3. order \in Seq(Nodes) /\ Len(order) \in Nat /\ i \in 1..Len(order) /\ client = order[i]
  BY <1>1, <1>2 DEF At, Losing, TypeOK
<1>4. head = order[1] /\ head \in Nodes
  BY <1>3 DEF ListInv, Elem
<1>5. 1 \in 1..(i - 1) /\ cursor' = order[1] /\ ~corrupt'
  <2>1. i # 1 /\ head # NULL
    BY <1>1, <1>3, <1>4, NullAssumption
  <2>2. ~corrupt'
    BY <1>1, <2>1, Zenon
  <2> QED
    BY <1>1, <1>3, <1>4, <2>1, <2>2
<1>6. At(i)'
  BY <1>1, <1>2, <1>5 DEF At, Losing
<1>7. PassInv'
  BY <1>1, <1>2, <1>6 DEF PassInv, Losing
<1> QED
  BY <1>1, <1>5, <1>7, SameList, SameInsert DEF InsertInv, Popping

\* The cursor is before the client, so the next node is not null.
LEMMA SearchOnStep ==
  ASSUME TypeOK, ListInv, InsertInv, PassInv, HSearchOn
  PROVE  ListInv' /\ InsertInv' /\ PassInv'
<1>1. /\ hpc = "search" /\ hpc' = "search" /\ next[cursor] # client /\ cursor' = next[cursor]
      /\ corrupt' = (cursor \notin live \/ next[cursor] = NULL)
      /\ UNCHANGED <<tvars, client, client_tmp, due, head, next, live, order, registered>>
  BY DEF HSearchOn, H, list, history
<1>2. PICK i \in 1..(Len(order) + 1) : At(i)
  BY <1>1 DEF PassInv
<1>3. /\ order \in Seq(Nodes) /\ Len(order) \in Nat /\ i \in 1..Len(order) /\ client = order[i]
      /\ \E j \in 1..(i - 1) : cursor = order[j]
  BY <1>1, <1>2 DEF At, Losing, TypeOK
<1>4. PICK j \in 1..(i - 1) : cursor = order[j]
  BY <1>3
<1>5. /\ j \in 1..Len(order) /\ j + 1 \in 1..Len(order) /\ cursor \in live
      /\ next[cursor] = order[j + 1] /\ order[j + 1] \in Nodes
  BY <1>3, <1>4 DEF ListInv, Elem
<1>6. j + 1 \in 1..(i - 1) /\ cursor' = order[j + 1] /\ ~corrupt'
  <2>1. j + 1 # i
    BY <1>1, <1>3, <1>5
  <2>2. order[j + 1] # NULL
    BY <1>5, NullAssumption
  <2>3. ~corrupt'
    BY <1>1, <1>5, <2>2, Zenon
  <2> QED
    BY <1>1, <1>3, <1>4, <1>5, <2>1, <2>3
<1>7. At(i)'
  BY <1>1, <1>2, <1>6 DEF At, Losing
<1>8. PassInv'
  BY <1>1, <1>2, <1>7 DEF PassInv, Losing
<1> QED
  BY <1>1, <1>6, <1>8, SameList, SameInsert DEF InsertInv, Popping

\* The cursor is just before the client, and now points past it.
LEMMA UnlinkStep ==
  ASSUME TypeOK, ListInv, InsertInv, PassInv, HUnlink
  PROVE  ListInv' /\ InsertInv' /\ PassInv'
<1>1. /\ hpc = "search" /\ hpc' = "free" /\ next[cursor] = client
      /\ next' = [next EXCEPT ![cursor] = next[client]] /\ corrupt' = (cursor \notin live)
      /\ order' = RemoveFirst(order, client)
      /\ UNCHANGED <<tvars, client, client_tmp, due, head, live, registered>>
  BY DEF HUnlink, H
<1>2. PICK i \in 1..(Len(order) + 1) : At(i)
  BY <1>1 DEF PassInv
<1>3. /\ order \in Seq(Nodes) /\ Len(order) \in Nat /\ i \in 1..Len(order) /\ client = order[i]
      /\ Distinct(order) /\ \E j \in 1..(i - 1) : cursor = order[j]
  BY <1>1, <1>2 DEF At, Losing, TypeOK, ListInv
<1>4. PICK j \in 1..(i - 1) : cursor = order[j]
  BY <1>3
<1>5. /\ j \in 1..Len(order) /\ j + 1 \in 1..Len(order) /\ cursor \in live
      /\ next[cursor] = order[j + 1] /\ cursor \in Nodes
      /\ next[client] = Elem(order, i + 1)
  <2>1. j \in 1..Len(order) /\ j + 1 \in 1..Len(order)
    BY <1>3, <1>4
  <2>2. cursor \in live /\ next[cursor] = Elem(order, j + 1)
    BY <1>4, <2>1 DEF ListInv
  <2> QED
    BY <1>3, <1>4, <2>1, <2>2 DEF ListInv, Elem
<1>6. j + 1 = i
  BY <1>1, <1>3, <1>5 DEF Distinct
<1>7. Shortened(order', order, i)
  BY <1>1, <1>3, WithoutOne, Zenon
<1>8. /\ next'[order[j]] = Elem(order, i + 1)
      /\ \A n \in 1..Len(order) : n # j => next'[order[n]] = Elem(order, n + 1)
  BY <1>1, <1>3, <1>4, <1>5 DEF Distinct, ListInv, TypeOK
<1>9. ListInv'
  <2>1. head' = Elem(order', 1)
    BY <1>1, <1>4, <1>7 DEF ListInv, Shortened
  <2>2. ASSUME NEW n \in 1..Len(order'), n < i
        PROVE  order'[n] \in live /\ next'[order'[n]] = Elem(order', n + 1)
    <3>1. n \in 1..(i - 1) /\ n \in 1..Len(order)
      BY <1>3, <1>7, <2>2 DEF Shortened
    <3>2. order'[n] = order[n] /\ order[n] \in live
      BY <1>7, <3>1 DEF Elem, ListInv, Shortened
    <3>3. CASE n = j
      <4>1. next'[order[n]] = Elem(order, i + 1) /\ n + 1 = i
        BY <1>6, <1>8, <3>3
      <4>2. i \in Nat /\ i >= i
        BY <1>3
      <4>3. Elem(order', i) = Elem(order, i + 1)
        BY <1>7, <4>2, Zenon DEF Shortened
      <4> QED
        BY <3>2, <4>1, <4>3
    <3>4. CASE n # j
      <4>1. n + 1 \in 1..(i - 1)
        BY <1>3, <1>6, <3>1, <3>4
      <4> QED
        BY <1>7, <1>8, <3>1, <3>2, <3>4, <4>1 DEF Shortened
    <3> QED
      BY <3>3, <3>4
  <2>3. ASSUME NEW n \in 1..Len(order'), n >= i
        PROVE  order'[n] \in live /\ next'[order'[n]] = Elem(order', n + 1)
    <3>1. n + 1 \in 1..Len(order) /\ n \in Nat /\ n + 1 \in Nat /\ n + 1 >= i /\ n + 1 # j
      BY <1>3, <1>4, <1>7, <2>3 DEF Shortened
    <3>2. order'[n] = order[n + 1] /\ order[n + 1] \in live
      BY <1>7, <2>3, <3>1 DEF Elem, ListInv, Shortened
    <3>3. Elem(order', n + 1) = Elem(order, (n + 1) + 1)
      BY <1>7, <3>1 DEF Shortened
    <3> QED
      BY <1>8, <3>1, <3>2, <3>3
  <2>4. \A n \in 1..Len(order') : n < i \/ n >= i
    BY <1>3, <1>7 DEF Shortened
  <2> QED
    BY <1>1, <1>5, <1>7, <2>1, <2>2, <2>3, <2>4 DEF ListInv, Shortened
<1>10. InsertInv'
  <2>1. tnode \notin Rest(order, 1) => next'[tnode] = next[tnode]
    BY <1>1, <1>4, <1>5 DEF Rest, TypeOK
  <2> QED
    BY <1>1, <1>7, <2>1 DEF InsertInv, Popping, tvars, Shortened
<1>11. PassInv'
  BY <1>1, <1>2, <1>3, LeavesList DEF Losing
<1> QED
  BY <1>9, <1>10, <1>11

\* A client is freed when the list no longer has it.
LEMMA FreeStep ==
  ASSUME TypeOK, ListInv, InsertInv, PassInv, HFree
  PROVE  ListInv' /\ InsertInv' /\ PassInv'
<1>1. /\ hpc = "free" /\ client' = client_tmp /\ live' = live \ {client}
      /\ hpc' = IF client' = NULL THEN "idle" ELSE "next"
      /\ UNCHANGED <<tvars, due, head, next, order, corrupt, registered>>
  BY DEF HFree, Visit, history
<1>2. PICK i \in 1..(Len(order) + 1) : At(i)
  BY <1>1 DEF PassInv
<1>3. /\ order \in Seq(Nodes) /\ client_tmp = Elem(order, i) /\ due = Rest(order, i)
      /\ client \notin Rest(order, 1) /\ registered = Rest(order, 1)
  BY <1>1, <1>2 DEF At, Losing, TypeOK, PassInv
<1>4. ListInv'
  BY <1>1, <1>3 DEF ListInv, Rest
<1>5. hpc' # "idle" => client' \in Rest(order, 1)
  BY <1>1, <1>3 DEF Elem, Rest
<1>6. InsertInv'
  BY <1>1, <1>5 DEF InsertInv, Popping, tvars
<1> QED
  BY <1>1, <1>3, <1>4, <1>6, GoesOn

\* Every step of the handler keeps the list, the insertion and the pass.
LEMMA HandlerList ==
  ASSUME TypeOK, ListInv, InsertInv, PassInv, HNext, ~overlapped'
  PROVE  ListInv' /\ InsertInv' /\ PassInv'
BY ChunkStep, SaveStep, WriteStep, WriteFailsStep, CloseStep, FindStep, ReadStep, StoreStep,
   SearchStep, SearchOnStep, UnlinkStep, FreeStep DEF HNext

-----------------------------------------------------------------------------
(* Sockets *)

\* A step that leaves nodes, sockets and descriptors alone.
LEMMA SameSockets ==
  ASSUME SocketInv, UNCHANGED <<tpc, sock_client, tnode, socket, live, peer>>,
         hpc' \in {"remove", "pop", "store", "search", "free"} =>
           client' = client /\ hpc \in {"remove", "pop", "store", "search", "free"}
  PROVE  SocketInv'
BY DEF SocketInv

\* Every step of the accept loop keeps one owner for each open descriptor,
LEMMA AcceptSockets ==
  ASSUME TypeOK, PointerInv, ListInv, InsertInv, PassInv, SocketInv, TNext
  PROVE  SocketInv'
<1> USE DEF TypeOK, PointerInv, SocketInv, hvars, list, TPC, NoSocket
<1>1. CASE TSocketInit
  BY <1>1 DEF TSocketInit, T
<1>2. CASE TDestroyClient
  BY <1>2 DEF TDestroyClient, Close, T
<1>3. CASE TAcceptFails
  BY <1>3 DEF TAcceptFails, T
<1>4. ASSUME NEW f \in Fds, TAccept(f) PROVE SocketInv'
  <2>1. /\ tpc = "accept" /\ tpc' = "read" /\ peer[f] = "closed" /\ sock_client' = f
        /\ peer' = [peer EXCEPT ![f] = "silent"]
        /\ UNCHANGED <<tnode, hpc, client, socket, live>>
    BY <1>4 DEF TAccept, T
  <2>2. f # NoSocket /\ \A n \in live : socket[n] # f
    BY <2>1, FdsAssumption
  <2>3. peer'[f] = "silent" /\ \A g \in Fds : g # f => peer'[g] = peer[g]
    BY <2>1
  <2>4. \A n \in live : socket'[n] = socket[n] /\ (socket[n] # NoSocket => socket[n] \in Fds)
    BY <2>1
  <2>5. \A g \in Fds : peer[g] # "closed" => \E n \in live : socket[n] = g
    BY <2>1, FdsAssumption
  <2>6. \A g \in Fds : peer'[g] # "closed" => g = f \/ \E n \in live : socket'[n] = g
    BY <2>3, <2>4, <2>5
  <2>7. \A n \in live : socket'[n] # NoSocket => peer'[socket'[n]] # "closed"
    BY <2>2, <2>3, <2>4
  <2> QED
    BY <2>1, <2>2, <2>3, <2>4, <2>6, <2>7
<1>5. CASE TReadRequest
  BY <1>5 DEF TReadRequest, T
<1>6. CASE TReadFails \/ TRefuse \/ TWelcomeFails
  BY <1>6 DEF TReadFails, TRefuse, TWelcomeFails, T
<1>7. CASE TWelcome
  BY <1>7 DEF TWelcome, T
<1>8. ASSUME NEW n \in Nodes, TMalloc(n) PROVE SocketInv'
  <2>1. /\ tpc = "malloc" /\ tpc' = "link" /\ n \notin live /\ live' = live \cup {n}
        /\ tnode' = n /\ socket' = [socket EXCEPT ![n] = sock_client]
        /\ UNCHANGED <<sock_client, hpc, client, peer>>
    BY <1>8 DEF TMalloc, T
  <2>2. hpc # "idle" => client # n
    BY <2>1, ClientLive
  <2>3. \A m \in live : socket'[m] = socket[m] /\ socket[m] # sock_client
    BY <2>1, FdsAssumption
  <2>4. hpc # "idle" => socket'[client] = socket[client]
    BY <2>1, <2>2
  <2>5. socket'[n] = sock_client
    BY <2>1
  <2> QED
    BY <2>1, <2>3, <2>4, <2>5
<1>9. CASE TLink
  BY <1>9 DEF TLink, T
<1>10. CASE TPublish
  BY <1>10 DEF TPublish, T
<1>11. CASE TRelease
  BY <1>11 DEF TRelease, T
<1> QED
  BY <1>1, <1>2, <1>3, <1>4, <1>5, <1>6, <1>7, <1>8, <1>9, <1>10, <1>11 DEF TNext

\* every step of the handler does,
LEMMA HandlerSockets ==
  ASSUME TypeOK, PointerInv, ListInv, InsertInv, PassInv, SocketInv, HNext
  PROVE  SocketInv'
<1>1. CASE HChunk \/ HSaveNext \/ HWrite \/ HWriteFails
  <2>1. /\ UNCHANGED <<tpc, sock_client, tnode, socket, live, peer>>
        /\ hpc' \in {"idle", "next", "write", "close"}
    BY <1>1 DEF HChunk, HSaveNext, HWrite, HWriteFails, H, Visit, tvars, list
  <2> QED
    BY <2>1, SameSockets
<1>2. CASE HFindAtHead \/ HReadSecond \/ HStoreHead \/ HSearch \/ HSearchOn \/ HUnlink
  <2>1. /\ UNCHANGED <<tpc, sock_client, tnode, socket, live, peer, client>>
        /\ hpc \in {"remove", "pop", "store", "search", "free"}
    BY <1>2 DEF HFindAtHead, HReadSecond, HStoreHead, HSearch, HSearchOn, HUnlink, H, tvars, list
  <2> QED
    BY <2>1, SameSockets
<1>3. CASE HClose
  <2>1. /\ hpc = "close" /\ hpc' = "remove" /\ Close(socket[client])
        /\ socket' = [socket EXCEPT ![client] = NoSocket]
        /\ UNCHANGED <<tpc, sock_client, tnode, live, client>>
    BY <1>3 DEF HClose, H, tvars
  <2>2. client \in live /\ client \in Nodes /\ live \subseteq Nodes
    BY <2>1, ClientLive DEF TypeOK
  <2>3. socket'[client] = NoSocket /\ \A n \in live : n # client => socket'[n] = socket[n]
    BY <2>1, <2>2 DEF TypeOK
  <2>4. CASE socket[client] = NoSocket
    <3>1. peer' = peer /\ \A n \in live : socket'[n] = socket[n]
      BY <2>1, <2>3, <2>4 DEF Close
    <3> QED
      BY <2>1, <2>2, <2>3, <3>1 DEF SocketInv
  <2>5. CASE socket[client] # NoSocket
    <3>1. PICK f \in Fds : f = socket[client]
      BY <2>2, <2>5 DEF TypeOK
    <3>2. /\ peer' = [peer EXCEPT ![f] = "closed"] /\ peer'[f] = "closed"
          /\ \A g \in Fds : g # f => peer'[g] = peer[g]
      BY <2>1, <2>5, <3>1 DEF Close, TypeOK
    <3>3. \A n \in live : n # client => socket[n] # f
      BY <2>2, <2>5, <3>1 DEF SocketInv
    <3>4. \A n \in live : socket'[n] # NoSocket => n # client /\ socket[n] \in Fds \ {f}
      BY <2>2, <2>3, <3>3 DEF TypeOK
    <3>5. \A n \in live : socket'[n] # NoSocket => peer'[socket'[n]] # "closed"
      BY <2>3, <3>2, <3>4 DEF SocketInv
    <3>6. \A m, n \in live : socket'[m] = socket'[n] /\ socket'[m] # NoSocket => m = n
      BY <2>3, <3>4 DEF SocketInv
    <3>7. \A n \in live : socket'[n] = sock_client /\ sock_client # NoSocket =>
            tpc \in {"link", "publish", "release"} /\ n = tnode
      BY <2>3, <3>4 DEF SocketInv
    <3>8. \A g \in Fds : peer'[g] # "closed" => sock_client = g \/ \E n \in live : socket'[n] = g
      BY <2>3, <3>1, <3>2 DEF SocketInv
    <3>9. tpc \in {"read", "refuse", "welcome", "malloc"} => peer'[sock_client] # "closed"
      BY <2>2, <2>5, <3>1, <3>2 DEF SocketInv, PointerInv, TPC
    <3>10. tpc \in {"link", "publish", "release"} =>
             \/ tnode \in live /\ socket'[tnode] = sock_client
             \/ tpc = "release" /\ peer'[sock_client] = "closed"
      <4>1. CASE tpc \in {"link", "publish"}
        BY <2>1, <2>2, <2>3, <4>1 DEF SocketInv, InsertInv
      <4>2. CASE tpc = "release" /\ tnode \in live /\ socket[tnode] = sock_client
        BY <2>2, <2>3, <3>1, <3>2, <4>2 DEF SocketInv
      <4>3. CASE tpc = "release" /\ peer[sock_client] = "closed"
        BY <3>2, <4>3 DEF PointerInv, TPC
      <4> QED
        BY <4>1, <4>2, <4>3 DEF SocketInv
    <3> QED
      BY <2>1, <2>3, <3>5, <3>6, <3>7, <3>8, <3>9, <3>10 DEF SocketInv
  <2> QED
    BY <2>4, <2>5
<1>4. CASE HFree
  <2>1. /\ hpc = "free" /\ hpc' \in {"idle", "next"} /\ live' = live \ {client}
        /\ UNCHANGED <<tpc, sock_client, tnode, socket, peer>>
    BY <1>4 DEF HFree, Visit, tvars
  <2>2. socket[client] = NoSocket
    BY <2>1 DEF SocketInv
  <2>3. \A f \in Fds : f # NoSocket
    BY FdsAssumption DEF NoSocket
  <2>4. \A n \in live : socket[n] # NoSocket => n \in live'
    BY <2>1, <2>2
  <2>5. tpc \in {"link", "publish", "release"} => sock_client # NoSocket
    BY <2>3 DEF PointerInv, TPC
  <2> QED
    BY <2>1, <2>3, <2>4, <2>5 DEF SocketInv
<1> QED
  BY <1>1, <1>2, <1>3, <1>4 DEF HNext

\* and every step of the peers, who open and close none.
LEMMA PeerSockets ==
  ASSUME TypeOK, PointerInv, SocketInv, PeerNext
  PROVE  SocketInv'
<1> USE DEF TypeOK, PointerInv, TPC, NoSocket
<1>1. PICK f \in Fds, to \in {"open", "stalled", "gone"} :
        /\ peer[f] # "closed" /\ peer' = [peer EXCEPT ![f] = to]
        /\ UNCHANGED <<tvars, hvars, list>>
  BY DEF PeerNext, SendRequest, Stall, Resume, Reset, Becomes
<1>2. \A g \in Fds : (peer'[g] = "closed") <=> (peer[g] = "closed")
  BY <1>1
<1> QED
  BY <1>1, <1>2 DEF SocketInv, tvars, hvars, list

-----------------------------------------------------------------------------
(* The invariant *)

\* An overlap is not forgotten.
LEMMA OverlapStays == overlapped /\ Next => overlapped'
<1> SUFFICES ASSUME overlapped, Next PROVE overlapped'
  OBVIOUS
<1>1. CASE TNext
  BY <1>1, Zenon DEF TNext, TSocketInit, TDestroyClient, TAcceptFails, TAccept, TReadRequest,
                     TReadFails, TRefuse, TWelcome, TWelcomeFails, TMalloc, TLink, TPublish,
                     TRelease, history
<1>2. CASE HNext
  BY <1>2, Zenon DEF HNext, HChunk, HSaveNext, HWrite, HWriteFails, HClose, HFindAtHead,
                     HReadSecond, HStoreHead, HSearch, HSearchOn, HUnlink, HFree, history
<1>3. CASE PeerNext
  BY <1>3, Zenon DEF PeerNext, SendRequest, Stall, Resume, Reset, Becomes, history
<1> QED
  BY <1>1, <1>2, <1>3 DEF Next

\* The peers do not touch the list.
LEMMA PeerList ==
  ASSUME ListInv, InsertInv, PassInv, PeerNext
  PROVE  ListInv' /\ InsertInv' /\ PassInv'
<1>1. UNCHANGED <<tvars, hvars, list, corrupt, history>>
  BY DEF PeerNext, SendRequest, Stall, Resume, Reset, Becomes
<1>2. ListInv' /\ InsertInv'
  BY <1>1 DEF ListInv, InsertInv, Popping, tvars, hvars, list, history
<1>3. PassInv'
  BY <1>1 DEF PassInv, At, Losing, hvars, list, history
<1> QED
  BY <1>2, <1>3

\* The first states satisfy the invariant.
LEMMA InitIInv == Init => IInv
<1> SUFFICES ASSUME Init PROVE IInv
  OBVIOUS
<1>1. Len(order) = 0 /\ Rest(order, 1) = {}
  BY DEF Init, Rest
<1>2. ListInv
  BY <1>1 DEF Init, ListInv, Distinct, Elem
<1>3. InsertInv /\ PassInv
  BY <1>1 DEF Init, InsertInv, PassInv, Losing
<1>4. SocketInv
  BY DEF Init, SocketInv
<1> QED
  BY <1>2, <1>3, <1>4, InitTypes DEF IInv

\* And every step keeps it.
LEMMA NextIInv == IInv /\ [Next]_vars => IInv'
<1> SUFFICES ASSUME IInv, [Next]_vars PROVE IInv'
  OBVIOUS
<1>1. CASE Next
  <2>1. TypeOK' /\ PointerInv'
    BY <1>1, AcceptTypes, HandlerTypes, PeerTypes DEF IInv, Next
  <2>2. ASSUME ~overlapped' PROVE ListInv' /\ InsertInv' /\ PassInv' /\ SocketInv'
    <3>1. ~overlapped
      BY <1>1, <2>2, OverlapStays
    <3>2. TypeOK /\ PointerInv /\ ListInv /\ InsertInv /\ PassInv /\ SocketInv
      BY <3>1 DEF IInv
    <3>3. CASE TNext
      BY <2>2, <3>2, <3>3, AcceptList, AcceptSockets
    <3>4. CASE HNext
      BY <2>2, <3>2, <3>4, HandlerList, HandlerSockets
    <3>5. CASE PeerNext
      BY <3>2, <3>5, PeerList, PeerSockets
    <3> QED
      BY <1>1, <3>3, <3>4, <3>5 DEF Next
  <2> QED
    BY <2>1, <2>2 DEF IInv
<1>2. CASE UNCHANGED vars
  <2>1. TypeOK' /\ PointerInv'
    BY <1>2 DEF IInv, TypeOK, PointerInv, vars, tvars, hvars, list, history
  <2>2. ASSUME ListInv, InsertInv, PassInv, SocketInv
        PROVE  ListInv' /\ InsertInv' /\ PassInv' /\ SocketInv'
    <3>1. ListInv' /\ InsertInv'
      BY <1>2, <2>2 DEF ListInv, InsertInv, Popping, vars, tvars, hvars, list, history
    <3>2. PassInv'
      BY <1>2, <2>2 DEF PassInv, At, Losing, vars, hvars, list, history
    <3>3. SocketInv'
      BY <1>2, <2>2 DEF SocketInv, vars, tvars, hvars, list
    <3> QED
      BY <3>1, <3>2, <3>3
  <2>3. overlapped' = overlapped
    BY <1>2 DEF vars, history
  <2> QED
    BY <2>1, <2>2, <2>3, Zenon DEF IInv
<1> QED
  BY <1>1, <1>2

\* In every behaviour of the two threads the invariant holds.
THEOREM Invariance == Spec => []IInv
<1>1. Init => IInv
  BY InitIInv
<1>2. IInv /\ [Next]_vars => IInv'
  BY NextIInv
<1> QED
  BY <1>1, <1>2, PTL DEF Spec

-----------------------------------------------------------------------------
(* The properties *)

\* Every variable has its type, also after an overlap, up to the first use of freed
\* memory.
THEOREM TypeCorrect == Spec => []TypeOK
<1>1. IInv => TypeOK
  BY DEF IInv
<1> QED
  BY <1>1, Invariance, PTL

\* Unless an insertion overlapped a removal of the head, the unlocked SLIST is the
\* list that two critical sections would have built, of allocated nodes, and no freed
\* or null node was ever used.
THEOREM ListKept == Spec => []ListIntact
<1>1. IInv => ListIntact
  <2> SUFFICES ASSUME ListInv, TypeOK, ~overlapped PROVE ListIntact
    BY DEF IInv, ListIntact
  <2>1. order \in Seq(Nodes) /\ Len(order) \in Nat
    BY DEF TypeOK
  <2>2. Elem(order, 1) = IF order = <<>> THEN NULL ELSE order[1]
    BY <2>1, EmptySeq DEF Elem
  <2>3. \A i \in 1..Len(order) : Elem(order, i + 1) = IF i = Len(order) THEN NULL ELSE order[i + 1]
    BY <2>1 DEF Elem
  <2> QED
    BY <2>1, <2>2, <2>3 DEF ListInv, ListIntact
<1> QED
  BY <1>1, Invariance, PTL

\* With the same proviso, when a pass of ntrip_caster_uart_handler ends, every client
\* that was registered when the chunk came has been written to or was lost.
THEOREM AllServed == Spec => []EveryClientServed
<1>1. IInv => EveryClientServed
  BY DEF IInv, EveryClientServed, PassInv
<1> QED
  BY <1>1, Invariance, PTL

\* With the same proviso, every open descriptor will be closed by the accept loop or
\* with one node, and by both only while the node is being inserted.
THEOREM OwnedOnce == Spec => []OneOwner
<1>1. IInv => OneOwner
  <2> SUFFICES ASSUME TypeOK, PointerInv, SocketInv, NEW f \in Fds, peer[f] # "closed"
               PROVE  LET owners == { n \in live : socket[n] = f }
                      IN  /\ owners # {} \/ sock_client = f
                          /\ \A m, n \in owners : m = n
                          /\ (owners # {} /\ sock_client = f) =>
                               tpc \in {"link", "publish", "release"} /\ owners = {tnode}
    BY DEF IInv, OneOwner
  <2>1. f # NoSocket
    BY FdsAssumption DEF NoSocket
  <2> QED
    BY <2>1 DEF SocketInv
<1> QED
  BY <1>1, Invariance, PTL

\* With the same proviso, the handler writes a chunk only to a client that is still
\* owed it: none gets it twice, none gets one that came before it was registered.
THEOREM WrittenOnce == Spec => NoChunkTwice
<1>1. IInv /\ [Next]_vars => [HWrite => overlapped \/ client \in due]_vars
  <2> SUFFICES ASSUME IInv, HWrite, ~overlapped PROVE client \in due
    BY DEF NoChunkTwice
  <2> QED
    BY WriteStep DEF IInv
<1> QED
  BY <1>1, Invariance, PTL DEF Spec, NoChunkTwice

-----------------------------------------------------------------------------
(* The refinement *)

\* What From gives, from the position of a client on.
LEMMA FromAt ==
  ASSUME NEW s \in Seq(Nodes), Distinct(s), NEW i \in 1..(Len(s) + 1)
  PROVE  From(s, Elem(s, i)) = SubSeq(s, i, Len(s))
<1> DEFINE at == { j \in 1..Len(s) : s[j] = Elem(s, i) }
<1>1. CASE i <= Len(s)
  <2>1. i \in 1..Len(s) /\ at = {i}
    BY <1>1 DEF Elem, Distinct
  <2>2. Min({i}) = i
    BY DEF Min
  <2> QED
    BY <2>1, <2>2 DEF From
<1>2. CASE i = Len(s) + 1
  <2>1. at = {}
    BY <1>2, NullAssumption DEF Elem
  <2>2. SubSeq(s, i, Len(s)) = <<>>
    BY <1>2, SubSeqProperties
  <2> QED
    BY <2>1, <2>2 DEF From
<1> QED
  BY <1>1, <1>2

\* Its first element, what follows it, and the whole list.
LEMMA Parts ==
  ASSUME NEW s \in Seq(Nodes)
  PROVE  /\ SubSeq(s, 1, Len(s)) = s
         /\ SubSeq(s, Len(s) + 1, Len(s)) = <<>>
         /\ \A i \in 1..Len(s) : /\ SubSeq(s, i, Len(s)) # <<>>
                                 /\ Head(SubSeq(s, i, Len(s))) = s[i]
                                 /\ Tail(SubSeq(s, i, Len(s))) = SubSeq(s, i + 1, Len(s))
<1>1. SubSeq(s, 1, Len(s)) = s
  <2>1. /\ SubSeq(s, 1, Len(s)) \in Seq(Nodes) /\ Len(SubSeq(s, 1, Len(s))) = Len(s)
        /\ \A i \in 1..Len(s) : SubSeq(s, 1, Len(s))[i] = s[i]
    BY SubSeqProperties
  <2> QED
    BY <2>1, SeqEqual
<1>2. SubSeq(s, Len(s) + 1, Len(s)) = <<>>
  BY SubSeqEmpty
<1>3. ASSUME NEW i \in 1..Len(s)
      PROVE  /\ SubSeq(s, i, Len(s)) # <<>>
             /\ Head(SubSeq(s, i, Len(s))) = s[i]
             /\ Tail(SubSeq(s, i, Len(s))) = SubSeq(s, i + 1, Len(s))
  <2>1. /\ SubSeq(s, i, Len(s)) \in Seq(Nodes)
        /\ Len(SubSeq(s, i, Len(s))) = Len(s) - i + 1
        /\ \A j \in 1..(Len(s) - i + 1) : SubSeq(s, i, Len(s))[j] = s[i + j - 1]
    BY SubSeqProperties
  <2>2. SubSeq(s, i, Len(s)) # <<>>
    <3>1. Len(SubSeq(s, i, Len(s))) # 0
      BY <2>1
    <3>2. Len(<<>>) = 0
      OBVIOUS
    <3> QED
      BY <3>1, <3>2, Zenon
  <2>3. Head(SubSeq(s, i, Len(s))) = s[i]
    BY <2>1, <2>2
  <2>4. Tail(SubSeq(s, i, Len(s))) = SubSeq(s, i + 1, Len(s))
    <3>1. i \in 1..Len(s) /\ Len(s) \in i..Len(s)
      OBVIOUS
    <3> QED
      BY <3>1, HeadTailOfSubSeq, Zenon
  <2> QED
    BY <2>2, <2>3, <2>4
<1> QED
  BY <1>1, <1>2, <1>3

\* Insertion at the head moves the rest of a pass by one,
LEMMA PartKept ==
  ASSUME NEW s \in Seq(Nodes), NEW e \in Nodes, NEW i \in 1..(Len(s) + 1)
  PROVE  SubSeq(<<e>> \o s, i + 1, Len(s) + 1) = SubSeq(s, i, Len(s))
<1> DEFINE t == <<e>> \o s
<1>1. /\ t \in Seq(Nodes) /\ Len(t) = Len(s) + 1
      /\ \A j \in 1..Len(s) : t[j + 1] = s[j]
  BY WithOneMore DEF Lengthened
<1> HIDE DEF t
<1>2. /\ SubSeq(s, i, Len(s)) \in Seq(Nodes)
      /\ Len(SubSeq(s, i, Len(s))) = Len(s) - i + 1
      /\ \A j \in 1..(Len(s) - i + 1) : SubSeq(s, i, Len(s))[j] = s[i + j - 1]
  BY SubSeqProperties
<1>3. /\ SubSeq(t, i + 1, Len(s) + 1) \in Seq(Nodes)
      /\ Len(SubSeq(t, i + 1, Len(s) + 1)) = Len(s) - i + 1
      /\ \A j \in 1..(Len(s) - i + 1) : SubSeq(t, i + 1, Len(s) + 1)[j] = t[i + j]
  <2>1. /\ i + 1 \in Int /\ Len(s) + 1 \in Int
        /\ \A j \in (i + 1)..(Len(s) + 1) : t[j] \in Nodes
    BY <1>1
  <2>2. /\ SubSeq(t, i + 1, Len(s) + 1) \in Seq(Nodes)
        /\ Len(SubSeq(t, i + 1, Len(s) + 1))
             = IF i + 1 <= Len(s) + 1 THEN (Len(s) + 1) - (i + 1) + 1 ELSE 0
        /\ \A j \in 1..((Len(s) + 1) - (i + 1) + 1) :
             SubSeq(t, i + 1, Len(s) + 1)[j] = t[(i + 1) + j - 1]
    BY <2>1, SubSeqProperties
  <2> QED
    BY <2>2
<1>4. \A j \in 1..(Len(s) - i + 1) : t[i + j] = s[i + j - 1]
  <2> SUFFICES ASSUME NEW j \in 1..(Len(s) - i + 1)
               PROVE  t[i + j] = s[i + j - 1]
    OBVIOUS
  <2>1. i + j - 1 \in 1..Len(s) /\ (i + j - 1) + 1 = i + j
    OBVIOUS
  <2> QED
    BY <1>1, <2>1
<1>5. SubSeq(t, i + 1, Len(s) + 1) = SubSeq(s, i, Len(s))
  <2> DEFINE u == SubSeq(t, i + 1, Len(s) + 1)
             v == SubSeq(s, i, Len(s))
  <2>1. u \in Seq(Nodes) /\ v \in Seq(Nodes) /\ Len(u) = Len(v)
    BY <1>2, <1>3
  <2>2. \A j \in 1..Len(u) : u[j] = v[j]
    BY <1>2, <1>3, <1>4
  <2> HIDE DEF u, v
  <2>3. u = v
    BY <2>1, <2>2, SeqEqual, Zenon
  <2> QED
    BY <2>3 DEF u, v
<1> QED
  BY <1>5 DEF t

\* and removal of its client leaves what comes after that one.
LEMMA PartRemoved ==
  ASSUME NEW s \in Seq(Nodes), Distinct(s), NEW i \in 1..Len(s)
  PROVE  SubSeq(RemoveFirst(s, s[i]), i, Len(s) - 1) = SubSeq(s, i + 1, Len(s))
<1> DEFINE t == RemoveFirst(s, s[i])
<1>1. /\ t \in Seq(Nodes) /\ Len(t) = Len(s) - 1
      /\ \A j \in 1..(Len(s) - 1) : t[j] = IF j < i THEN s[j] ELSE s[j + 1]
  BY FirstRemoved
<1> HIDE DEF t
<1>2. /\ SubSeq(s, i + 1, Len(s)) \in Seq(Nodes)
      /\ Len(SubSeq(s, i + 1, Len(s))) = Len(s) - i
      /\ \A j \in 1..(Len(s) - i) : SubSeq(s, i + 1, Len(s))[j] = s[i + j]
  <2>1. /\ SubSeq(s, i + 1, Len(s)) \in Seq(Nodes)
        /\ Len(SubSeq(s, i + 1, Len(s))) = IF i + 1 <= Len(s) THEN Len(s) - (i + 1) + 1 ELSE 0
        /\ \A j \in 1..(Len(s) - (i + 1) + 1) : SubSeq(s, i + 1, Len(s))[j] = s[(i + 1) + j - 1]
    BY SubSeqProperties
  <2> QED
    BY <2>1
<1>3. /\ SubSeq(t, i, Len(s) - 1) \in Seq(Nodes)
      /\ Len(SubSeq(t, i, Len(s) - 1)) = Len(s) - i
      /\ \A j \in 1..(Len(s) - i) : SubSeq(t, i, Len(s) - 1)[j] = t[i + j - 1]
  <2>1. /\ SubSeq(t, i, Len(s) - 1) \in Seq(Nodes)
        /\ Len(SubSeq(t, i, Len(s) - 1)) = IF i <= Len(s) - 1 THEN (Len(s) - 1) - i + 1 ELSE 0
        /\ \A j \in 1..((Len(s) - 1) - i + 1) : SubSeq(t, i, Len(s) - 1)[j] = t[i + j - 1]
    BY <1>1, SubSeqProperties
  <2> QED
    BY <2>1
<1>4. \A j \in 1..(Len(s) - i) : t[i + j - 1] = s[i + j]
  <2> SUFFICES ASSUME NEW j \in 1..(Len(s) - i)
               PROVE  t[i + j - 1] = s[i + j]
    OBVIOUS
  <2>1. i + j - 1 \in 1..(Len(s) - 1) /\ ~(i + j - 1 < i) /\ (i + j - 1) + 1 = i + j
    OBVIOUS
  <2> QED
    BY <1>1, <2>1
<1>5. SubSeq(t, i, Len(s) - 1) = SubSeq(s, i + 1, Len(s))
  <2> DEFINE u == SubSeq(t, i, Len(s) - 1)
             v == SubSeq(s, i + 1, Len(s))
  <2>1. u \in Seq(Nodes) /\ v \in Seq(Nodes) /\ Len(u) = Len(v)
    BY <1>2, <1>3
  <2>2. \A j \in 1..Len(u) : u[j] = v[j]
    BY <1>2, <1>3, <1>4
  <2> HIDE DEF u, v
  <2>3. u = v
    BY <2>1, <2>2, SeqEqual, Zenon
  <2> QED
    BY <2>3 DEF u, v
<1> QED
  BY <1>5 DEF t

\* Where the pass stands, Todo is the list from there on.
LEMMA TodoIs ==
  ASSUME TypeOK, ListInv, hpc # "idle", NEW i \in 1..(Len(order) + 1), At(i)
  PROVE  Todo = SubSeq(order, i, Len(order))
<1>1. order \in Seq(Nodes) /\ Distinct(order) /\ hpc \in HPC
  BY DEF TypeOK, ListInv
<1>2. CASE hpc = "free"
  <2>1. Todo = From(order, Elem(order, i))
    BY <1>2 DEF Todo, At
  <2> QED
    BY <1>1, <2>1, FromAt
<1>3. CASE hpc # "free"
  <2>1. client = Elem(order, i)
    BY <1>1, <1>3 DEF At, Losing, HPC, Elem
  <2>2. Todo = From(order, Elem(order, i))
    BY <1>3, <2>1 DEF Todo
  <2> QED
    BY <1>1, <2>2, FromAt
<1> QED
  BY <1>2, <1>3

\* Where the loop goes on with the client at position i, or ends, that is all it has
\* before it.
LEMMA TodoAfter ==
  ASSUME TypeOK', ListInv', NEW i \in 1..(Len(order') + 1), client' = Elem(order', i),
         hpc' = IF client' = NULL THEN "idle" ELSE "next"
  PROVE  Todo' = SubSeq(order', i, Len(order'))
<1>1. order' \in Seq(Nodes) /\ Distinct(order')
  BY DEF TypeOK, ListInv
<1>2. CASE client' = NULL
  <2>1. i = Len(order') + 1
    BY <1>1, <1>2, NullAssumption DEF Elem
  <2>2. Todo' = <<>>
    BY <1>2 DEF Todo
  <2> QED
    BY <1>1, <2>1, <2>2, Parts
<1>3. CASE client' # NULL
  <2>1. Todo' = From(order', Elem(order', i))
    BY <1>3 DEF Todo
  <2> QED
    BY <1>1, <2>1, FromAt
<1> QED
  BY <1>2, <1>3

\* A pass begins with the whole list.
LEMMA ChunkServes ==
  ASSUME TypeOK, TypeOK', ListInv, ListInv', HChunk
  PROVE  Broadcasts!Chunk
<1>1. /\ hpc = "idle" /\ client' = head /\ order' = order
      /\ hpc' = IF client' = NULL THEN "idle" ELSE "next"
  BY DEF HChunk, Visit, history
<1>2. order \in Seq(Nodes) /\ client' = Elem(order', 1) /\ 1 \in 1..(Len(order') + 1)
  BY <1>1 DEF TypeOK, ListInv
<1>3. Todo' = SubSeq(order', 1, Len(order'))
  BY <1>1, <1>2, TodoAfter
<1>4. Todo' = order /\ Todo = <<>>
  BY <1>1, <1>2, <1>3, Parts DEF Todo
<1> QED
  BY <1>1, <1>4 DEF Broadcasts!Chunk

\* A write takes the first of the clients that are left.
LEMMA WriteServes ==
  ASSUME TypeOK, TypeOK', ListInv, ListInv', PassInv, HWrite
  PROVE  Broadcasts!Write
<1>1. /\ hpc = "write" /\ client' = client_tmp /\ order' = order
      /\ hpc' = IF client' = NULL THEN "idle" ELSE "next"
  BY DEF HWrite, Visit, history
<1>2. PICK i \in 1..(Len(order) + 1) : At(i)
  BY <1>1 DEF PassInv
<1>3. /\ order \in Seq(Nodes) /\ i \in 1..Len(order) /\ i + 1 \in 1..(Len(order') + 1)
      /\ client' = Elem(order', i + 1)
  BY <1>1, <1>2 DEF TypeOK, At
<1>4. Todo = SubSeq(order, i, Len(order))
  BY <1>1, <1>2, TodoIs
<1>5. Todo' = SubSeq(order, i + 1, Len(order))
  BY <1>1, <1>3, TodoAfter
<1>6. Todo # <<>> /\ Todo' = Tail(Todo)
  BY <1>3, <1>4, <1>5, Parts
<1> QED
  BY <1>1, <1>6 DEF Broadcasts!Write

\* A removal takes the first of the clients that are left from the list.
LEMMA RemovalServes ==
  ASSUME TypeOK, TypeOK', ListInv, ListInv', PassInv, HStoreHead \/ HUnlink
  PROVE  Broadcasts!Drop
<1>1. /\ hpc \in {"store", "search"} /\ hpc' = "free" /\ client_tmp' = client_tmp
      /\ order' = RemoveFirst(order, client)
  BY DEF HStoreHead, HUnlink, H
<1>2. PICK i \in 1..(Len(order) + 1) : At(i)
  BY <1>1 DEF PassInv
<1>3. /\ order \in Seq(Nodes) /\ Distinct(order) /\ i \in 1..Len(order) /\ client = order[i]
      /\ client_tmp = Elem(order, i + 1)
  BY <1>1, <1>2 DEF TypeOK, ListInv, At, Losing
<1>4. Shortened(order', order, i)
  BY <1>1, <1>3, WithoutOne
<1>5. /\ order' \in Seq(Nodes) /\ Len(order') = Len(order) - 1 /\ Distinct(order')
      /\ i \in 1..(Len(order') + 1) /\ client_tmp' = Elem(order', i)
  BY <1>1, <1>3, <1>4 DEF Shortened
<1>6. Todo' = SubSeq(order', i, Len(order'))
  <2>1. Todo' = From(order', Elem(order', i))
    BY <1>1, <1>5 DEF Todo
  <2> QED
    BY <1>5, <2>1, FromAt
<1>7. Todo' = SubSeq(order, i + 1, Len(order))
  BY <1>1, <1>3, <1>5, <1>6, PartRemoved
<1>8. Todo = SubSeq(order, i, Len(order))
  BY <1>1, <1>2, TodoIs
<1>9. Todo # <<>> /\ Todo' = Tail(Todo) /\ Head(Todo) = order[i]
  BY <1>3, <1>7, <1>8, Parts
<1>10. i \in DOMAIN order /\ order' = RemoveAt(order, i)
  BY <1>1, <1>3, RemovedAt
<1>11. order' = Broadcasts!RemoveAt(order, i)
  BY <1>10 DEF RemoveAt, Broadcasts!RemoveAt
<1> QED
  BY <1>9, <1>10, <1>11 DEF Broadcasts!Drop

\* An insertion does not change what a pass has before it.
LEMMA InsertionServes ==
  ASSUME TypeOK, ListInv, InsertInv, PassInv, PointerInv, TPublish
  PROVE  \E n \in Nodes : Broadcasts!Insert(n)
<1>1. /\ tpc = "publish" /\ order' = <<tnode>> \o order /\ UNCHANGED hvars
  BY DEF TPublish, T
<1>2. /\ order \in Seq(Nodes) /\ tnode \in Nodes /\ Distinct(order)
      /\ tnode \notin Rest(order, 1)
  BY <1>1 DEF TypeOK, ListInv, InsertInv, PointerInv
<1>3. Lengthened(order', order, tnode)
  BY <1>1, <1>2, WithOneMore
<1>4. order' \in Seq(Nodes) /\ Distinct(order') /\ Len(order') = Len(order) + 1
  BY <1>2, <1>3 DEF Lengthened
<1>5. Todo' = Todo
  <2>1. CASE hpc = "idle"
    BY <1>1, <2>1 DEF Todo, hvars
  <2>2. CASE hpc # "idle"
    <3> DEFINE c == IF hpc = "free" THEN client_tmp ELSE client
    <3>1. PICK i \in 1..(Len(order) + 1) : At(i)
      BY <2>2 DEF PassInv
    <3>2. c = Elem(order, i) /\ Len(order) \in Nat
      BY <1>2, <2>2, <3>1 DEF At, Losing, Elem, TypeOK, HPC
    <3>3. c = Elem(order', i + 1) /\ i + 1 \in 1..(Len(order') + 1)
      <4>1. i \in Nat \ {0} /\ i + 1 \in 1..(Len(order') + 1)
        BY <1>4, <3>2
      <4>2. Elem(order', i + 1) = Elem(order, i)
        BY <1>3, <4>1, Zenon DEF Lengthened
      <4> HIDE DEF c
      <4> QED
        BY <3>2, <4>1, <4>2
    <3>4. Todo' = From(order', c)
      BY <1>1, <2>2 DEF Todo, hvars
    <3> HIDE DEF c
    <3>5. Todo' = SubSeq(order', i + 1, Len(order'))
      BY <1>4, <3>3, <3>4, FromAt
    <3>6. Todo = SubSeq(order, i, Len(order))
      BY <2>2, <3>1, TodoIs
    <3> QED
      BY <1>1, <1>2, <1>4, <3>5, <3>6, PartKept
  <2> QED
    BY <2>1, <2>2
<1>6. \A i \in DOMAIN order : order[i] # tnode
  BY <1>2 DEF Rest
<1>7. Broadcasts!Insert(tnode)
  BY <1>1, <1>5, <1>6 DEF Broadcasts!Insert
<1> QED
  BY <1>2, <1>7

\* Where neither the list nor the position of the pass changes, nor does Todo.
LEMMA TodoKept ==
  ASSUME UNCHANGED <<order, client, client_tmp>>,
         hpc' = hpc \/ {hpc, hpc'} \cap {"idle", "free"} = {}
  PROVE  Todo' = Todo
BY DEF Todo

\* After a removal the pass goes on with the client it has saved.
LEMMA FreeServes ==
  ASSUME TypeOK, TypeOK', ListInv, ListInv', PassInv, HFree
  PROVE  order' = order /\ Todo' = Todo
<1>1. /\ hpc = "free" /\ client' = client_tmp /\ order' = order
      /\ hpc' = IF client' = NULL THEN "idle" ELSE "next"
  BY DEF HFree, Visit, history
<1>2. PICK i \in 1..(Len(order) + 1) : At(i)
  BY <1>1 DEF PassInv
<1>3. client' = Elem(order', i) /\ i \in 1..(Len(order') + 1)
  BY <1>1, <1>2 DEF At
<1>4. Todo' = SubSeq(order', i, Len(order'))
  BY <1>1, <1>3, TodoAfter
<1>5. Todo = SubSeq(order, i, Len(order))
  BY <1>1, <1>2, TodoIs
<1> QED
  BY <1>1, <1>4, <1>5

\* What a step does to the list and to the clients that a pass has before it.
Quiet == UNCHANGED <<order, Todo>>

\* Only its last step of an insertion is seen,
LEMMA AcceptServes ==
  ASSUME TypeOK, ListInv, InsertInv, PassInv, PointerInv, TNext
  PROVE  Quiet \/ Broadcasts!Serve
<1>1. CASE TPublish
  BY <1>1, InsertionServes DEF Broadcasts!Serve
<1>2. CASE ~TPublish
  <2>1. UNCHANGED <<hvars, order>>
    BY <1>2 DEF TNext, TSocketInit, TDestroyClient, TAcceptFails, TAccept, TReadRequest,
                TReadFails, TRefuse, TWelcome, TWelcomeFails, TMalloc, TLink, TRelease, history
  <2>2. UNCHANGED <<order, client, client_tmp, hpc>>
    BY <2>1 DEF hvars
  <2> QED
    BY <2>2, TodoKept DEF Quiet
<1> QED
  BY <1>1, <1>2

\* and of a pass its beginning, its writes and its removals.
LEMMA HandlerServes ==
  ASSUME TypeOK, TypeOK', ListInv, ListInv', PassInv, HNext
  PROVE  Quiet \/ Broadcasts!Serve
<1>1. CASE HChunk
  BY <1>1, ChunkServes DEF Broadcasts!Serve
<1>2. CASE HWrite
  BY <1>2, WriteServes DEF Broadcasts!Serve
<1>3. CASE HStoreHead \/ HUnlink
  BY <1>3, RemovalServes DEF Broadcasts!Serve
<1>4. CASE HFree
  BY <1>4, FreeServes DEF Quiet
<1>5. CASE HSaveNext \/ HReadSecond \/ HSearch \/ HSearchOn
  <2>1. order' = order /\ client' = client
    BY <1>5 DEF HSaveNext, HReadSecond, HSearch, HSearchOn, history
  <2>2. CASE HSaveNext
    BY <2>1, <2>2 DEF HSaveNext, H, Todo, Quiet
  <2>3. CASE HReadSecond \/ HSearch \/ HSearchOn
    <3>1. client_tmp' = client_tmp /\ {hpc, hpc'} \cap {"idle", "free"} = {}
      BY <2>3 DEF HReadSecond, HSearch, HSearchOn, H
    <3> QED
      BY <2>1, <3>1, TodoKept DEF Quiet
  <2> QED
    BY <1>5, <2>2, <2>3
<1>6. CASE HWriteFails \/ HClose \/ HFindAtHead
  <2>1. /\ UNCHANGED <<order, client, client_tmp>>
        /\ {hpc, hpc'} \cap {"idle", "free"} = {}
    BY <1>6 DEF HWriteFails, HClose, HFindAtHead, H, history
  <2> QED
    BY <2>1, TodoKept DEF Quiet
<1> QED
  BY <1>1, <1>2, <1>3, <1>4, <1>5, <1>6 DEF HNext

\* Every step of the caster is one of Broadcast or changes nothing there.
LEMMA StepServes ==
  ASSUME IInv, IInv', [Next]_vars
  PROVE  [Broadcasts!Next]_<<order, Todo, overlapped>>
<1>1. CASE overlapped'
  BY <1>1 DEF Broadcasts!Next, IInv, TypeOK
<1>2. CASE ~overlapped'
  <2>1. ~overlapped
    <3>1. CASE Next
      BY <1>2, <3>1, OverlapStays
    <3>2. CASE UNCHANGED vars
      BY <1>2, <3>2 DEF vars, history
    <3> QED
      BY <3>1, <3>2
  <2>2. /\ TypeOK /\ ListInv /\ InsertInv /\ PassInv /\ PointerInv
        /\ TypeOK' /\ ListInv'
    BY <1>2, <2>1 DEF IInv
  <2>3. overlapped = FALSE /\ overlapped' = FALSE
    BY <1>2, <2>1, <2>2 DEF TypeOK
  <2>4. Quiet \/ Broadcasts!Serve
    <3>1. CASE TNext
      BY <2>2, <3>1, AcceptServes
    <3>2. CASE HNext
      BY <2>2, <3>2, HandlerServes
    <3>3. CASE PeerNext \/ UNCHANGED vars
      <4>1. UNCHANGED <<order, client, client_tmp, hpc>>
        BY <3>3 DEF PeerNext, SendRequest, Stall, Resume, Reset, Becomes, vars, hvars, history
      <4> QED
        BY <4>1, TodoKept DEF Quiet
    <3> QED
      BY <3>1, <3>2, <3>3 DEF Next
  <2> QED
    BY <2>1, <2>3, <2>4 DEF Broadcasts!Next, Quiet
<1> QED
  BY <1>1, <1>2

\* Until an insertion overlaps a removal of the head, the caster, whose list no lock
\* protects, keeps what Broadcast promises of one critical section per operation: each
\* chunk goes to the clients that were on the list when it came, in order and once.
THEOREM Implements == Spec => Serves
<1>1. Init => Broadcasts!Init
  BY DEF Init, Broadcasts!Init, Todo
<1>2. IInv /\ IInv' /\ [Next]_vars => [Broadcasts!Next]_<<order, Todo, overlapped>>
  BY StepServes
<1> QED
  BY <1>1, <1>2, Invariance, PTL DEF Spec, Serves, Broadcasts!Spec
=============================================================================
