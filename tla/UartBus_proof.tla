--------------------------- MODULE UartBus_proof ---------------------------
(***************************************************************************)
(* Proofs about the UART's bus for any writers, handlers, queue length and  *)
(* amount of traffic: the unlocked totals never show too much, and the bus   *)
(* implements Delivery.                                                    *)
(***************************************************************************)
EXTENDS UartBus, FiniteSetTheorems, TLAPS

(* The totals *)

\* Chunks whose count uart_task has stored.
Counted == IF pc["U"] \in {"load_in", "store_in"} THEN reads - 1 ELSE reads

\* What is stored, or loaded and stored soon, is of chunks counted before.
InInv ==
  /\ total_in <= Counted
  /\ \A t \in Tasks : pc[t] = "store_in" => loaded[t] <= Counted

\* The callers of uart_write before and after the driver has taken their data.
CallersAt(S) == { t \in Tasks \ {"U"} : pc[t] \in S }
Copying      == CallersAt({"tx", "copy"})
Counting     == CallersAt(Increment)

\* Each call of uart_write hands over its data once ...
SentInv == IsFiniteSet(Copying) /\ sent + Cardinality(Copying) <= writes

\* ... and is counted after that, at most once.
OutInv ==
  /\ IsFiniteSet(Counting)
  /\ total_out + Cardinality(Counting) <= sent
  /\ \A t \in Tasks : pc[t] = "store_out" => loaded[t] + Cardinality(Counting) <= sent

(* The chunks *)

\* The last chunk posted.
Posted == IF pc["U"] = "idle" THEN reads ELSE reads - 1

\* The chunks queued are those between the last one taken and the last one posted,
\* each at one place, in this order.
QueueInv ==
  /\ handled <= Posted
  /\ \A i \in 1..Len(queue) : queue[i] # WRITE => handled < queue[i] /\ queue[i] <= Posted
  /\ \A i, j \in 1..Len(queue) :
       i < j /\ queue[i] # WRITE /\ queue[j] # WRITE => queue[i] < queue[j]
  /\ \A c \in (handled + 1)..Posted : \E i \in 1..Len(queue) : queue[i] = c

\* A handler is registered once.
RegisteredInv ==
  /\ \A i, j \in 1..Len(handlers) : handlers[i] = handlers[j] => i = j
  /\ \A h \in Handlers : got[h] # Unregistered => \E i \in 1..Len(handlers) : handlers[i] = h
  /\ \A i \in 1..Len(handlers) : got[handlers[i]] # Unregistered

\* Between events every handler has got the last chunk taken; while one is
\* handled, those before position at have.
GotInv ==
  IF pc["E"] = "idle"
  THEN \A i \in 1..Len(handlers) : got[handlers[i]] = handled
  ELSE /\ event = handled /\ handled > 0 /\ at <= Len(handlers)
       /\ \A i \in 1..Len(handlers) : got[handlers[i]] = IF i < at THEN handled ELSE handled - 1

IInv == /\ TypeOK /\ InInv /\ SentInv /\ OutInv
        /\ QueueInv /\ RegisteredInv /\ GotInv

-----------------------------------------------------------------------------
(* The totals *)

\* A step of t moves t alone.
LEMMA Moves ==
  ASSUME TypeOK, NEW t \in Tasks, NEW from, NEW to, Step(t, from, to),
         NEW S, IsFiniteSet(CallersAt(S))
  PROVE  /\ IsFiniteSet(CallersAt(S)')
         /\ Cardinality(CallersAt(S)) \in Nat
         /\ Cardinality(CallersAt(S)') =
              IF t = "U" \/ (from \in S <=> to \in S) THEN Cardinality(CallersAt(S))
              ELSE IF to \in S THEN Cardinality(CallersAt(S)) + 1
              ELSE Cardinality(CallersAt(S)) - 1
<1>1. pc \in [Tasks -> {"idle", "tx", "copy", "post", "handle"} \cup Increment]
      /\ pc[t] = from /\ pc' = [pc EXCEPT ![t] = to]
  BY DEF TypeOK, Step
<1>2. Cardinality(CallersAt(S)) \in Nat
  BY FS_CardinalityType
<1>3. CASE t = "U" \/ (from \in S <=> to \in S)
  <2>1. CallersAt(S)' = CallersAt(S)
    BY <1>1, <1>3 DEF CallersAt
  <2>. QED
    BY <1>2, <1>3, <2>1
<1>4. CASE t # "U" /\ from \notin S /\ to \in S
  <2>1. CallersAt(S)' = CallersAt(S) \cup {t} /\ t \notin CallersAt(S)
    BY <1>1, <1>4 DEF CallersAt
  <2>. QED
    BY <1>2, <1>4, <2>1, FS_AddElement
<1>5. CASE t # "U" /\ from \in S /\ to \notin S
  <2>1. CallersAt(S)' = CallersAt(S) \ {t} /\ t \in CallersAt(S)
    BY <1>1, <1>5 DEF CallersAt
  <2>. QED
    BY <1>2, <1>5, <2>1, FS_RemoveElement
<1>. QED
  BY <1>3, <1>4, <1>5

\* A caller whose data the driver is taking has begun a call that is not counted.
LEMMA CopyBound ==
  ASSUME TypeOK, SentInv, NEW t \in Tasks \ {"U"}, pc[t] = "copy"
  PROVE  sent + 1 <= writes
<1>1. t \in Copying
  BY DEF Copying, CallersAt
<1>2. Cardinality(Copying) \in Nat /\ Cardinality(Copying) # 0
  BY <1>1, FS_CardinalityType, FS_EmptySet DEF SentInv
<1>. QED
  BY <1>2 DEF SentInv, TypeOK

\* The types of the step's task.
LEMMA StepType ==
  ASSUME TypeOK, NEW t, NEW from, NEW to, Step(t, from, to),
         to \in {"idle", "tx", "copy", "post", "handle"} \cup Increment
  PROVE  pc' \in [Tasks -> {"idle", "tx", "copy", "post", "handle"} \cup Increment]
BY DEF TypeOK, Step

\* Steps outside uart_write and the counters.
LEMMA TotalsKeep ==
  ASSUME TypeOK, InInv, SentInv, OutInv, NEW t \in Tasks, NEW from, NEW to,
         Step(t, from, to), {from, to} \cap (Increment \cup {"tx", "copy"}) = {},
         stats' = stats, reads' = reads, writes' = writes, sent' = sent
  PROVE  InInv' /\ SentInv' /\ OutInv'
<1>1. pc \in [Tasks -> {"idle", "tx", "copy", "post", "handle"} \cup Increment]
      /\ pc[t] = from /\ pc' = [pc EXCEPT ![t] = to]
  BY DEF TypeOK, Step
<1>2. from \notin Increment /\ to \notin Increment
      /\ from \notin {"tx", "copy"} /\ to \notin {"tx", "copy"}
  OBVIOUS
<1>3. IsFiniteSet(Copying') /\ Cardinality(Copying') = Cardinality(Copying)
  BY <1>2, Moves DEF SentInv, Copying
<1>4. IsFiniteSet(Counting') /\ Cardinality(Counting') = Cardinality(Counting)
  BY <1>2, Moves DEF OutInv, Counting
<1>5. InInv'
  BY <1>1, <1>2 DEF InInv, Counted, stats, Increment
<1>6. SentInv'
  BY <1>3 DEF SentInv
<1>7. OutInv'
  BY <1>1, <1>2, <1>4 DEF OutInv, stats, Increment
<1>. QED
  BY <1>5, <1>6, <1>7

\* Steps that leave the counters, the threads and the traffic alone.
LEMMA TotalsSame ==
  ASSUME InInv, SentInv, OutInv, pc' = pc, stats' = stats, reads' = reads,
         writes' = writes, sent' = sent
  PROVE  InInv' /\ SentInv' /\ OutInv'
BY DEF InInv, SentInv, OutInv, Counted, Copying, Counting, CallersAt, stats

\* stream_stats_increment by any task, one load or store at a time.
LEMMA IncrementTotals ==
  ASSUME TypeOK, InInv, SentInv, OutInv, NEW t \in Tasks, IncrementNext(t)
  PROVE  TypeOK' /\ InInv' /\ SentInv' /\ OutInv'
<1> DEFINE PCs == {"idle", "tx", "copy", "post", "handle"} \cup Increment
<1>1. pc \in [Tasks -> PCs] /\ loaded \in [Tasks -> Nat] /\ loaded[t] \in Nat
      /\ total_in \in Nat /\ total_out \in Nat /\ reads \in Nat /\ sent \in Nat
  BY BoundsAssumption DEF TypeOK
<1>2. UNCHANGED <<loop, tx_mutex, suspended, stalled, reads, writes, sent>>
  BY DEF IncrementNext, LoadIn, StoreIn, LoadOut, StoreOut
<1>3. \A from, to \in Increment \cup {"post"} : Step(t, from, to) =>
        /\ pc[t] = from /\ pc' = [pc EXCEPT ![t] = to] /\ pc' \in [Tasks -> PCs]
        /\ IsFiniteSet(Copying') /\ Cardinality(Copying') = Cardinality(Copying)
  <2> SUFFICES ASSUME NEW from \in Increment \cup {"post"}, NEW to \in Increment \cup {"post"},
                      Step(t, from, to)
               PROVE  /\ pc[t] = from /\ pc' = [pc EXCEPT ![t] = to] /\ pc' \in [Tasks -> PCs]
                      /\ IsFiniteSet(Copying') /\ Cardinality(Copying') = Cardinality(Copying)
    OBVIOUS
  <2>1. from \notin {"tx", "copy"} /\ to \notin {"tx", "copy"}
    BY DEF Increment
  <2>2. IsFiniteSet(Copying') /\ Cardinality(Copying') = Cardinality(Copying)
    BY <2>1, Moves DEF SentInv, Copying
  <2>. QED
    BY <1>1, <2>2, StepType DEF Step
<1>4. Cardinality(Counting) \in Nat
  BY FS_CardinalityType DEF OutInv
<1>5. CASE LoadIn(t)
  <2>1. /\ Step(t, "load_in", "store_in") /\ loaded' = [loaded EXCEPT ![t] = total_in]
        /\ total_in' = total_in /\ total_out' = total_out
    BY <1>5 DEF LoadIn
  <2>2. IsFiniteSet(Counting') /\ Cardinality(Counting') = Cardinality(Counting)
    BY <2>1, Moves DEF OutInv, Counting, Increment
  <2>3. /\ pc[t] = "load_in" /\ pc' = [pc EXCEPT ![t] = "store_in"] /\ pc' \in [Tasks -> PCs]
        /\ IsFiniteSet(Copying') /\ Cardinality(Copying') = Cardinality(Copying)
    BY <1>3, <2>1 DEF Increment
  <2>4. TypeOK'
    <3>1. loaded' \in [Tasks -> Nat]
      BY <1>1, <2>1
    <3>. QED
      BY <1>1, <1>2, <2>1, <2>3, <3>1 DEF TypeOK, loop
  <2>5. InInv'
    BY <1>1, <1>2, <2>1, <2>3 DEF InInv, Counted
  <2>6. SentInv' /\ OutInv'
    BY <1>1, <1>2, <2>1, <2>2, <2>3 DEF SentInv, OutInv
  <2>. QED
    BY <2>4, <2>5, <2>6
<1>6. CASE StoreIn(t)
  <2>1. /\ Step(t, "store_in", "load_out") /\ total_in' = loaded[t] + In(t)
        /\ loaded' = loaded /\ total_out' = total_out
    BY <1>6 DEF StoreIn
  <2>2. IsFiniteSet(Counting') /\ Cardinality(Counting') = Cardinality(Counting)
    BY <2>1, Moves DEF OutInv, Counting, Increment
  <2>3. /\ pc[t] = "store_in" /\ pc' = [pc EXCEPT ![t] = "load_out"] /\ pc' \in [Tasks -> PCs]
        /\ IsFiniteSet(Copying') /\ Cardinality(Copying') = Cardinality(Copying)
    BY <1>3, <2>1 DEF Increment
  <2>4. TypeOK'
    <3>1. total_in' \in Nat
      BY <1>1, <2>1 DEF In
    <3>. QED
      BY <1>1, <1>2, <2>1, <2>3, <3>1 DEF TypeOK, loop
  <2>5. InInv'
    <3>1. loaded[t] <= Counted /\ Counted' = Counted + In(t)
      BY <1>1, <1>2, <2>3 DEF InInv, Counted, In, Tasks
    <3>2. Counted \in Int /\ In(t) \in {0, 1}
      BY <1>1 DEF Counted, In
    <3>. QED
      BY <1>1, <2>1, <2>3, <3>1, <3>2 DEF InInv
  <2>6. SentInv' /\ OutInv'
    BY <1>1, <1>2, <2>1, <2>2, <2>3 DEF SentInv, OutInv
  <2>. QED
    BY <2>4, <2>5, <2>6
<1>7. CASE LoadOut(t)
  <2>1. /\ Step(t, "load_out", "store_out") /\ loaded' = [loaded EXCEPT ![t] = total_out]
        /\ total_in' = total_in /\ total_out' = total_out
    BY <1>7 DEF LoadOut
  <2>2. IsFiniteSet(Counting') /\ Cardinality(Counting') = Cardinality(Counting)
    BY <2>1, Moves DEF OutInv, Counting, Increment
  <2>3. /\ pc[t] = "load_out" /\ pc' = [pc EXCEPT ![t] = "store_out"] /\ pc' \in [Tasks -> PCs]
        /\ IsFiniteSet(Copying') /\ Cardinality(Copying') = Cardinality(Copying)
    BY <1>3, <2>1 DEF Increment
  <2>4. TypeOK'
    <3>1. loaded' \in [Tasks -> Nat]
      BY <1>1, <2>1
    <3>. QED
      BY <1>1, <1>2, <2>1, <2>3, <3>1 DEF TypeOK, loop
  <2>5. InInv'
    BY <1>1, <1>2, <2>1, <2>3 DEF InInv, Counted
  <2>6. SentInv' /\ OutInv'
    BY <1>1, <1>2, <2>1, <2>2, <2>3 DEF SentInv, OutInv
  <2>. QED
    BY <2>4, <2>5, <2>6
<1>8. CASE StoreOut(t)
  <2>1. /\ Step(t, "store_out", "post") /\ total_out' = loaded[t] + Out(t)
        /\ loaded' = [loaded EXCEPT ![t] = 0] /\ total_in' = total_in
    BY <1>8 DEF StoreOut
  <2>2. IsFiniteSet(Counting') /\ Cardinality(Counting') = Cardinality(Counting) - Out(t)
    <3>1. "store_out" \in Increment /\ "post" \notin Increment
      BY DEF Increment
    <3>. QED
      BY <1>4, <2>1, <3>1, Moves DEF OutInv, Counting, Out
  <2>3. /\ pc[t] = "store_out" /\ pc' = [pc EXCEPT ![t] = "post"] /\ pc' \in [Tasks -> PCs]
        /\ IsFiniteSet(Copying') /\ Cardinality(Copying') = Cardinality(Copying)
    BY <1>3, <2>1 DEF Increment
  <2>4. TypeOK'
    <3>1. total_out' \in Nat /\ loaded' \in [Tasks -> Nat]
      BY <1>1, <2>1 DEF Out
    <3>. QED
      BY <1>1, <1>2, <2>1, <2>3, <3>1 DEF TypeOK, loop
  <2>5. InInv'
    BY <1>1, <1>2, <2>1, <2>3 DEF InInv, Counted
  <2>6. SentInv'
    BY <1>2, <2>3 DEF SentInv
  <2>7. OutInv'
    <3>1. loaded[t] + Cardinality(Counting) <= sent /\ Out(t) \in {0, 1}
      BY <2>3 DEF OutInv, Out
    <3>. QED
      BY <1>1, <1>2, <1>4, <2>1, <2>2, <2>3, <3>1 DEF OutInv
  <2>. QED
    BY <2>4, <2>5, <2>6, <2>7
<1>. QED
  BY <1>5, <1>6, <1>7, <1>8 DEF IncrementNext

\* uart_read_bytes: the chunk is not counted yet.
LEMMA ReadTotals ==
  ASSUME TypeOK, InInv, SentInv, OutInv, URead
  PROVE  TypeOK' /\ InInv' /\ SentInv' /\ OutInv'
<1>1. /\ Step("U", "idle", "load_in") /\ "U" \in Tasks
      /\ reads \in Nat /\ reads < MaxReads /\ reads' = reads + 1
      /\ UNCHANGED <<stats, loop, tx_mutex, suspended, stalled, writes, sent>>
  BY BoundsAssumption DEF URead, TypeOK, Tasks
<1>2. pc \in [Tasks -> {"idle", "tx", "copy", "post", "handle"} \cup Increment]
      /\ pc["U"] = "idle" /\ pc' = [pc EXCEPT !["U"] = "load_in"]
  BY <1>1 DEF TypeOK, Step
<1>3. Copying' = Copying /\ Counting' = Counting
  BY <1>2 DEF Copying, Counting, CallersAt
<1>4. TypeOK'
  BY <1>1, <1>2, BoundsAssumption DEF TypeOK, Increment, stats, loop
<1>5. InInv'
  BY <1>1, <1>2 DEF InInv, Counted, stats
<1>6. SentInv' /\ OutInv'
  BY <1>1, <1>2, <1>3 DEF SentInv, OutInv, stats
<1>. QED
  BY <1>4, <1>5, <1>6

\* uart_write up to the return of uart_write_bytes.
LEMMA WriteTotals ==
  ASSUME TypeOK, InInv, SentInv, OutInv, NEW t \in Tasks \ {"U"},
         \/ \E from \in {"idle", "handle"} : Write(t, from)
         \/ TxTake(t) \/ TxCopy(t)
  PROVE  TypeOK' /\ InInv' /\ SentInv' /\ OutInv'
<1> DEFINE PCs == {"idle", "tx", "copy", "post", "handle"} \cup Increment
<1>1. pc \in [Tasks -> PCs] /\ t \in Tasks /\ t # "U" /\ reads \in Nat
      /\ writes \in Nat /\ sent \in Nat /\ total_out \in Nat
  BY BoundsAssumption DEF TypeOK
<1>2. \A from, to \in PCs : Step(t, from, to) =>
        pc[t] = from /\ pc' = [pc EXCEPT ![t] = to] /\ pc' \in [Tasks -> PCs]
  BY <1>1 DEF Step
<1>3. Cardinality(Counting) \in Nat /\ Cardinality(Copying) \in Nat
  BY FS_CardinalityType DEF OutInv, SentInv
<1>4. ASSUME NEW from \in {"idle", "handle"}, Write(t, from)
      PROVE  TypeOK' /\ InInv' /\ SentInv' /\ OutInv'
  <2>1. /\ Step(t, from, "tx") /\ writes < MaxWrites /\ writes' = writes + 1
        /\ UNCHANGED <<stats, loop, tx_mutex, suspended, stalled, reads, sent>>
    BY <1>4 DEF Write
  <2>2. pc[t] = from /\ pc' = [pc EXCEPT ![t] = "tx"] /\ pc' \in [Tasks -> PCs]
    BY <1>2, <2>1
  <2>3. IsFiniteSet(Copying') /\ Cardinality(Copying') = Cardinality(Copying) + 1
    BY <1>1, <2>1, Moves DEF SentInv, Copying
  <2>4. IsFiniteSet(Counting') /\ Cardinality(Counting') = Cardinality(Counting)
    BY <1>1, <2>1, Moves DEF OutInv, Counting, Increment
  <2>5. TypeOK'
    BY <1>1, <2>1, <2>2, BoundsAssumption DEF TypeOK, stats, loop
  <2>6. InInv'
    BY <1>1, <2>1, <2>2 DEF InInv, Counted, stats
  <2>7. SentInv'
    BY <1>1, <1>3, <2>1, <2>3 DEF SentInv
  <2>8. OutInv'
    BY <1>1, <2>1, <2>2, <2>4 DEF OutInv, stats
  <2>. QED
    BY <2>5, <2>6, <2>7, <2>8
<1>5. CASE TxTake(t)
  <2>1. /\ Step(t, "tx", "copy") /\ tx_mutex' = t
        /\ UNCHANGED <<stats, loop, suspended, stalled, reads, writes, sent>>
    BY <1>5 DEF TxTake
  <2>2. pc[t] = "tx" /\ pc' = [pc EXCEPT ![t] = "copy"] /\ pc' \in [Tasks -> PCs]
    BY <1>2, <2>1
  <2>3. IsFiniteSet(Copying') /\ Cardinality(Copying') = Cardinality(Copying)
    BY <1>1, <2>1, Moves DEF SentInv, Copying
  <2>4. IsFiniteSet(Counting') /\ Cardinality(Counting') = Cardinality(Counting)
    BY <1>1, <2>1, Moves DEF OutInv, Counting, Increment
  <2>5. TypeOK'
    BY <1>1, <2>1, <2>2 DEF TypeOK, stats, loop
  <2>6. InInv'
    BY <1>1, <2>1, <2>2 DEF InInv, Counted, stats
  <2>7. SentInv' /\ OutInv'
    BY <1>1, <2>1, <2>2, <2>3, <2>4 DEF SentInv, OutInv, stats
  <2>. QED
    BY <2>5, <2>6, <2>7
<1>6. CASE TxCopy(t)
  <2>1. /\ Step(t, "copy", "load_in") /\ tx_mutex' = Nobody /\ sent' = sent + 1
        /\ UNCHANGED <<stats, loop, suspended, stalled, reads, writes>>
    BY <1>6 DEF TxCopy
  <2>2. pc[t] = "copy" /\ pc' = [pc EXCEPT ![t] = "load_in"] /\ pc' \in [Tasks -> PCs]
    BY <1>2, <2>1 DEF Increment
  <2>3. IsFiniteSet(Copying') /\ Cardinality(Copying') = Cardinality(Copying) - 1
    BY <1>1, <2>1, Moves DEF SentInv, Copying
  <2>4. IsFiniteSet(Counting') /\ Cardinality(Counting') = Cardinality(Counting) + 1
    <3>1. "copy" \notin Increment /\ "load_in" \in Increment
      BY DEF Increment
    <3>. QED
      BY <1>1, <2>1, <3>1, Moves DEF OutInv, Counting
  <2>5. sent + 1 <= writes
    BY <2>2, CopyBound
  <2>6. TypeOK'
    <3>1. sent' \in 0..MaxWrites
      BY <1>1, <2>1, <2>5, BoundsAssumption DEF TypeOK
    <3>2. tx_mutex' \in Tasks \cup {Nobody}
      BY <2>1
    <3>. QED
      BY <2>1, <2>2, <3>1, <3>2 DEF TypeOK, stats, loop
  <2>7. InInv'
    BY <1>1, <2>1, <2>2 DEF InInv, Counted, stats
  <2>8. SentInv'
    BY <1>1, <1>3, <2>1, <2>3 DEF SentInv
  <2>9. OutInv'
    <3>1. \A u \in Tasks : loaded[u] \in Nat
      BY DEF TypeOK
    <3>. QED
      BY <1>1, <1>3, <2>1, <2>2, <2>4, <3>1 DEF OutInv, stats
  <2>. QED
    BY <2>6, <2>7, <2>8, <2>9
<1>. QED
  BY <1>4, <1>5, <1>6

\* What is left of a queue, and the event taken from it.
LEMMA TailType ==
  ASSUME NEW S, NEW q \in Seq(S), q # <<>>
  PROVE  Tail(q) \in Seq(S) /\ Len(Tail(q)) = Len(q) - 1 /\ Len(q) \in Nat /\ Head(q) \in S
OBVIOUS

\* Steps that post, take or hand out, that register, suspend or resume, stall or
\* go on.
LEMMA LoopTotals ==
  ASSUME TypeOK, InInv, SentInv, OutInv,
         \/ UPost \/ ETake \/ EHandle \/ EPost
         \/ \E w \in Writers : WPost(w)
         \/ \E w \in Suspendable : Suspend(w) \/ Resume(w)
         \/ \E h \in Handlers : Register(h)
         \/ \E h \in Blocking : Stall(h) \/ Unstall(h)
  PROVE  TypeOK' /\ InInv' /\ SentInv' /\ OutInv'
<1> DEFINE PCs == {"idle", "tx", "copy", "post", "handle"} \cup Increment
<1>1. "U" \in Tasks /\ "E" \in Tasks /\ (\A w \in Writers : w \in Tasks)
      /\ reads \in Nat /\ MaxReads \in Nat /\ reads <= MaxReads
      /\ queue \in Seq(0..MaxReads) /\ Len(queue) <= QueueSize
  BY BoundsAssumption DEF Tasks, TypeOK
<1>2. \A e \in 0..MaxReads : Post(e) =>
        queue' \in Seq(0..MaxReads) /\ Len(queue') <= QueueSize
  BY <1>1, BoundsAssumption DEF Post
<1>3. \A t \in Tasks : \A from, to \in {"idle", "post", "handle"} :
        /\ Step(t, from, to)
        /\ stats' = stats /\ reads' = reads /\ writes' = writes /\ sent' = sent
        => InInv' /\ SentInv' /\ OutInv' /\ pc' \in [Tasks -> PCs]
  <2> SUFFICES ASSUME NEW t \in Tasks, NEW from \in {"idle", "post", "handle"},
                      NEW to \in {"idle", "post", "handle"}, Step(t, from, to),
                      stats' = stats, reads' = reads, writes' = writes, sent' = sent
               PROVE  InInv' /\ SentInv' /\ OutInv' /\ pc' \in [Tasks -> PCs]
    OBVIOUS
  <2>1. {from, to} \cap (Increment \cup {"tx", "copy"}) = {}
    BY DEF Increment
  <2>. QED
    BY <2>1, TotalsKeep, StepType
<1>4. CASE UPost
  <2>1. /\ Step("U", "post", "idle") /\ Post(reads)
        /\ UNCHANGED <<stats, handlers, event, at, handled, got, tx_mutex, suspended, stalled,
                       reads, writes, sent>>
    BY <1>4 DEF UPost
  <2>2. InInv' /\ SentInv' /\ OutInv' /\ pc' \in [Tasks -> PCs]
    BY <1>1, <1>3, <2>1
  <2>3. queue' \in Seq(0..MaxReads) /\ Len(queue') <= QueueSize
    BY <1>1, <1>2, <2>1
  <2>4. TypeOK'
    BY <2>1, <2>2, <2>3 DEF TypeOK, stats
  <2>. QED
    BY <2>2, <2>4
<1>5. ASSUME NEW w \in Writers, WPost(w) PROVE TypeOK' /\ InInv' /\ SentInv' /\ OutInv'
  <2>1. /\ Step(w, "post", "idle") /\ Post(WRITE)
        /\ UNCHANGED <<stats, handlers, event, at, handled, got, tx_mutex, suspended, stalled,
                       reads, writes, sent>>
    BY <1>5 DEF WPost
  <2>2. InInv' /\ SentInv' /\ OutInv' /\ pc' \in [Tasks -> PCs]
    BY <1>1, <1>3, <2>1
  <2>3. queue' \in Seq(0..MaxReads) /\ Len(queue') <= QueueSize
    BY <1>1, <1>2, <2>1 DEF WRITE
  <2>4. TypeOK'
    BY <2>1, <2>2, <2>3 DEF TypeOK, stats
  <2>. QED
    BY <2>2, <2>4
<1>6. CASE ETake
  <2>1. /\ queue # <<>> /\ queue' = Tail(queue) /\ event' = Head(queue)
        /\ UNCHANGED <<stats, handlers, got, tx_mutex, suspended, stalled, reads, writes, sent>>
        /\ \E to \in {"idle", "handle"} : Step("E", "idle", to)
        /\ handled' \in {handled, event'} /\ at' \in {at, 1}
    BY <1>6 DEF ETake, GoOn
  <2>2. InInv' /\ SentInv' /\ OutInv' /\ pc' \in [Tasks -> PCs]
    BY <1>1, <1>3, <2>1
  <2>3. queue' \in Seq(0..MaxReads) /\ Len(queue') <= QueueSize /\ event' \in 0..MaxReads
    <3> DEFINE S == 0..MaxReads
    <3>1. /\ Tail(queue) \in Seq(S) /\ Len(Tail(queue)) = Len(queue) - 1
          /\ Len(queue) \in Nat /\ Head(queue) \in S
      <4>1. queue \in Seq(S) /\ queue # <<>>
        BY <1>1, <2>1
      <4>. HIDE DEF S
      <4>. QED
        BY <4>1, TailType
    <3>. QED
      BY <1>1, <2>1, <3>1, BoundsAssumption
  <2>4. Len(handlers) \in Nat /\ at \in 1..(Len(handlers) + 1) /\ handled \in 0..MaxReads
    BY DEF TypeOK
  <2>5. handled' \in 0..MaxReads /\ at' \in 1..(Len(handlers) + 1)
    BY <2>1, <2>3, <2>4
  <2>6. TypeOK'
    BY <2>1, <2>2, <2>3, <2>5 DEF TypeOK, stats
  <2>. QED
    BY <2>2, <2>6
<1>7. CASE EHandle
  <2>1. /\ \E to \in {"idle", "handle"} : Step("E", "handle", to)
        /\ at' = IF at + 1 > Len(handlers) THEN 1 ELSE at + 1
        /\ got' = [got EXCEPT ![handlers[at]] = event]
        /\ UNCHANGED <<stats, queue, handlers, event, handled, tx_mutex, suspended, stalled, reads,
                       writes, sent>>
    BY <1>7 DEF EHandle, GoOn
  <2>2. InInv' /\ SentInv' /\ OutInv' /\ pc' \in [Tasks -> PCs]
    BY <1>1, <1>3, <2>1
  <2>3. at' \in 1..(Len(handlers) + 1)
    BY <2>1 DEF TypeOK
  <2>4. got' \in [Handlers -> {Unregistered} \cup 0..MaxReads]
    BY <2>1 DEF TypeOK
  <2>5. TypeOK'
    BY <2>1, <2>2, <2>3, <2>4 DEF TypeOK, stats
  <2>. QED
    BY <2>2, <2>5
<1>8. CASE EPost
  <2>1. /\ \E to \in {"idle", "handle"} : Step("E", "post", to)
        /\ at' = IF at > Len(handlers) THEN 1 ELSE at
        /\ queue' = IF Len(queue) < QueueSize THEN Append(queue, WRITE) ELSE queue
        /\ UNCHANGED <<stats, handlers, event, handled, got, tx_mutex, suspended, stalled,
                       reads, writes, sent>>
    BY <1>8 DEF EPost, GoOn
  <2>2. InInv' /\ SentInv' /\ OutInv' /\ pc' \in [Tasks -> PCs]
    BY <1>1, <1>3, <2>1
  <2>3. at' \in 1..(Len(handlers) + 1)
    BY <2>1 DEF TypeOK
  <2>4. queue' \in Seq(0..MaxReads) /\ Len(queue') <= QueueSize
    <3>1. WRITE \in 0..MaxReads
      BY <1>1 DEF WRITE
    <3>2. Post(WRITE) \/ queue' = queue
      BY <2>1 DEF Post
    <3>. QED
      BY <1>1, <1>2, <3>1, <3>2
  <2>5. TypeOK'
    BY <2>1, <2>2, <2>3, <2>4 DEF TypeOK, stats
  <2>. QED
    BY <2>2, <2>5
<1>9. ASSUME NEW w \in Suspendable, Suspend(w) \/ Resume(w)
      PROVE  TypeOK' /\ InInv' /\ SentInv' /\ OutInv'
  <2>1. suspended' \subseteq Suspendable
        /\ UNCHANGED <<pc, stats, loop, tx_mutex, stalled, reads, writes, sent>>
    BY <1>9 DEF Suspend, Resume, TypeOK
  <2>2. InInv' /\ SentInv' /\ OutInv'
    BY <2>1, TotalsSame
  <2>. QED
    BY <2>1, <2>2 DEF TypeOK, stats, loop
<1>10. ASSUME NEW h \in Handlers, Register(h)
       PROVE  TypeOK' /\ InInv' /\ SentInv' /\ OutInv'
  <2>1. /\ handlers' = Append(handlers, h) /\ got' = [got EXCEPT ![h] = handled]
        /\ UNCHANGED <<pc, stats, queue, event, at, handled, tx_mutex, suspended, stalled, reads,
                       writes, sent>>
    BY <1>10 DEF Register
  <2>2. InInv' /\ SentInv' /\ OutInv'
    BY <2>1, TotalsSame
  <2>3. handlers \in Seq(Handlers) /\ at \in 1..(Len(handlers) + 1)
    BY DEF TypeOK
  <2>4. handlers' \in Seq(Handlers) /\ at' \in 1..(Len(handlers') + 1)
    BY <2>1, <2>3
  <2>5. got' \in [Handlers -> {Unregistered} \cup 0..MaxReads]
    BY <2>1 DEF TypeOK
  <2>. QED
    BY <2>1, <2>2, <2>4, <2>5 DEF TypeOK, stats
<1>11. ASSUME NEW h \in Blocking, Stall(h) \/ Unstall(h)
       PROVE  TypeOK' /\ InInv' /\ SentInv' /\ OutInv'
  <2>1. stalled' \subseteq Blocking
        /\ UNCHANGED <<pc, stats, loop, tx_mutex, suspended, reads, writes, sent>>
    BY <1>11 DEF Stall, Unstall, TypeOK
  <2>2. InInv' /\ SentInv' /\ OutInv'
    BY <2>1, TotalsSame
  <2>. QED
    BY <2>1, <2>2 DEF TypeOK, stats, loop
<1>. QED
  BY <1>4, <1>5, <1>6, <1>7, <1>8, <1>9, <1>10, <1>11

\* Every step keeps the types and the totals.
LEMMA TotalsStep ==
  ASSUME TypeOK, InInv, SentInv, OutInv, Next
  PROVE  TypeOK' /\ InInv' /\ SentInv' /\ OutInv'
<1>1. "U" \in Tasks /\ "E" \in Tasks \ {"U"} /\ \A w \in Writers : w \in Tasks \ {"U"}
  BY WritersAssumption DEF Tasks
<1>2. CASE UNext
  BY <1>1, <1>2, ReadTotals, LoopTotals, IncrementTotals DEF UNext
<1>3. CASE ENext
  BY <1>1, <1>3, WriteTotals, LoopTotals, IncrementTotals DEF ENext, TxNext
<1>4. ASSUME NEW w \in Writers, WNext(w) PROVE TypeOK' /\ InInv' /\ SentInv' /\ OutInv'
  BY <1>1, <1>4, WriteTotals, LoopTotals, IncrementTotals DEF WNext, TxNext
<1>. QED
  BY <1>2, <1>3, <1>4, LoopTotals DEF Next

-----------------------------------------------------------------------------
(* The chunks *)

ChunkInv == QueueInv /\ RegisteredInv /\ GotInv

\* Steps outside the queue and the loop.
LEMMA ChunksKeep ==
  ASSUME ChunkInv, loop' = loop, Posted' = Posted, pc'["E"] = "idle" <=> pc["E"] = "idle"
  PROVE  ChunkInv'
BY DEF ChunkInv, QueueInv, RegisteredInv, GotInv, loop

\* An event UART_EVENT_WRITE among the chunks.
LEMMA WritePosted ==
  ASSUME TypeOK, QueueInv, queue' = Append(queue, WRITE), handled' = handled, Posted' = Posted
  PROVE  QueueInv'
<1> DEFINE n == Len(queue)
<1>1. n \in Nat /\ Len(queue') = n + 1 /\ queue'[n + 1] = WRITE
      /\ \A k \in 1..n : queue'[k] = queue[k]
  BY DEF TypeOK
<1>2. \A c \in (handled + 1)..Posted : \E i \in 1..(n + 1) : queue'[i] = c
  BY <1>1 DEF QueueInv
<1>. QED
  BY <1>1, <1>2 DEF QueueInv

\* uart_task posts the chunk it has counted.
LEMMA ChunkPosted ==
  ASSUME TypeOK, QueueInv, UPost
  PROVE  QueueInv'
<1> DEFINE n == Len(queue)
<1>1. queue' = Append(queue, reads) /\ queue \in Seq(0..MaxReads) /\ handled' = handled
      /\ reads \in Nat /\ handled \in Nat /\ reads' = reads
  BY BoundsAssumption DEF UPost, Post, TypeOK
<1>2. n \in Nat /\ Len(queue') = n + 1 /\ queue'[n + 1] = reads
      /\ \A k \in 1..n : queue'[k] = queue[k]
  BY <1>1
<1>3. Posted = reads - 1 /\ Posted' = reads
  BY <1>1 DEF UPost, Step, Posted, TypeOK, Tasks
<1>4. \A k \in 1..n : queue[k] \in Nat
  BY <1>1, BoundsAssumption
<1>5. handled' <= Posted'
  BY <1>1, <1>3 DEF QueueInv
<1>6. \A i \in 1..(n + 1) : queue'[i] # WRITE => handled' < queue'[i] /\ queue'[i] <= Posted'
  BY <1>1, <1>2, <1>3, <1>4 DEF QueueInv
<1>7. \A i, j \in 1..(n + 1) :
        i < j /\ queue'[i] # WRITE /\ queue'[j] # WRITE => queue'[i] < queue'[j]
  <2> SUFFICES ASSUME NEW i \in 1..(n + 1), NEW j \in 1..(n + 1), i < j,
                      queue'[i] # WRITE, queue'[j] # WRITE
               PROVE  queue'[i] < queue'[j]
    OBVIOUS
  <2>1. i \in 1..n /\ queue'[i] = queue[i]
    BY <1>2
  <2>2. CASE j \in 1..n
    BY <1>2, <2>1, <2>2 DEF QueueInv
  <2>3. CASE j = n + 1
    <3>1. queue[i] \in Nat /\ queue[i] <= Posted
      BY <1>4, <2>1 DEF QueueInv
    <3>. QED
      BY <1>1, <1>2, <1>3, <2>1, <2>3, <3>1
  <2>. QED
    BY <1>2, <2>2, <2>3
<1>8. \A c \in (handled' + 1)..Posted' : \E i \in 1..(n + 1) : queue'[i] = c
  BY <1>1, <1>2, <1>3 DEF QueueInv
<1>. QED
  BY <1>2, <1>5, <1>6, <1>7, <1>8 DEF QueueInv

\* The first event of the queue is a write's or the next chunk, and the rest follows.
LEMMA ChunkTaken ==
  ASSUME TypeOK, QueueInv, ETake
  PROVE  /\ QueueInv'
         /\ event' # WRITE => handled' = event' /\ event' = handled + 1
         /\ event' = WRITE => handled' = handled
<1> DEFINE n == Len(queue)
<1>1. queue \in Seq(0..MaxReads) /\ queue # <<>> /\ queue' = Tail(queue)
      /\ event' = Head(queue) /\ handled \in Nat /\ reads \in Nat /\ reads' = reads
  BY BoundsAssumption DEF ETake, TypeOK
<1>2. n \in Nat \ {0} /\ Len(queue') = n - 1 /\ event' = queue[1]
      /\ \A k \in 1..(n - 1) : queue'[k] = queue[k + 1]
  BY <1>1
<1>3. \A k \in 1..n : queue[k] \in Nat
  BY <1>1, BoundsAssumption
<1>4. (pc'["U"] = "idle" <=> pc["U"] = "idle") /\ Posted \in Int
  BY <1>1 DEF ETake, Step, GoOn, TypeOK, Tasks, Posted
<1>5. Posted' = Posted
  BY <1>1, <1>4 DEF Posted
<1>6. \A k \in 2..n : k - 1 \in 1..(n - 1) /\ queue'[k - 1] = queue[k]
  BY <1>2
<1>7. \A i, j \in 1..(n - 1) :
        i < j /\ queue'[i] # WRITE /\ queue'[j] # WRITE => queue'[i] < queue'[j]
  BY <1>2, <1>3 DEF QueueInv
<1>8. CASE event' = WRITE
  <2>1. handled' = handled
    BY <1>8 DEF ETake
  <2>2. \A i \in 1..(n - 1) : queue'[i] # WRITE => handled' < queue'[i] /\ queue'[i] <= Posted'
    BY <1>2, <1>5, <2>1 DEF QueueInv
  <2>3. ASSUME NEW c \in (handled + 1)..Posted
        PROVE  \E i \in 1..(n - 1) : queue'[i] = c
    <3>1. PICK i \in 1..n : queue[i] = c
      BY <2>3 DEF QueueInv
    <3>2. i # 1
      BY <1>1, <1>2, <1>8, <2>3, <3>1 DEF WRITE
    <3>. QED
      BY <1>2, <1>6, <3>1, <3>2
  <2>. QED
    BY <1>2, <1>5, <1>7, <1>8, <2>1, <2>2, <2>3 DEF QueueInv
<1>9. CASE event' # WRITE
  <2>1. handled' = event'
    BY <1>9 DEF ETake
  <2>2. handled < event' /\ event' <= Posted /\ event' \in Nat
    BY <1>2, <1>3, <1>9 DEF QueueInv
  <2>3. event' = handled + 1
    <3>1. PICK i \in 1..n : queue[i] = handled + 1
      BY <1>1, <1>4, <2>2 DEF QueueInv
    <3>2. i # 1 => event' < handled + 1
      BY <1>1, <1>2, <1>9, <3>1 DEF QueueInv, WRITE
    <3>. QED
      BY <1>1, <1>2, <2>2, <3>1, <3>2
  <2>4. \A i \in 1..(n - 1) : queue'[i] # WRITE => handled' < queue'[i] /\ queue'[i] <= Posted'
    BY <1>2, <1>5, <1>9, <2>1 DEF QueueInv
  <2>5. ASSUME NEW c \in (handled' + 1)..Posted
        PROVE  \E i \in 1..(n - 1) : queue'[i] = c
    <3>1. PICK i \in 1..n : queue[i] = c
      BY <1>1, <1>4, <2>1, <2>3, <2>5 DEF QueueInv
    <3>2. i # 1
      BY <1>1, <1>2, <2>1, <2>3, <2>5, <3>1
    <3>. QED
      BY <1>2, <1>6, <3>1, <3>2
  <2>. QED
    BY <1>2, <1>5, <1>7, <1>9, <2>1, <2>2, <2>3, <2>4, <2>5 DEF QueueInv
<1>. QED
  BY <1>8, <1>9

\* Of the other steps, those of the threads and peers outside the event loop.
LEMMA ThreadChunks ==
  ASSUME TypeOK, ChunkInv,
         \/ UNext
         \/ \E w \in Writers : WNext(w)
         \/ \E w \in Suspendable : Suspend(w) \/ Resume(w)
         \/ \E h \in Blocking : Stall(h) \/ Unstall(h)
  PROVE  ChunkInv'
<1>1. "U" \in Tasks /\ "E" \in Tasks /\ reads \in Int
      /\ pc \in [Tasks -> {"idle", "tx", "copy", "post", "handle"} \cup Increment]
  BY BoundsAssumption DEF Tasks, TypeOK
<1>2. ASSUME NEW t \in Tasks \ {"E"}, IncrementNext(t) PROVE ChunkInv'
  <2>1. loop' = loop /\ reads' = reads
    BY <1>2 DEF IncrementNext, LoadIn, StoreIn, LoadOut, StoreOut
  <2>2. pc'["E"] = pc["E"] /\ (pc'["U"] = "idle" <=> pc["U"] = "idle")
    BY <1>1, <1>2 DEF IncrementNext, LoadIn, StoreIn, LoadOut, StoreOut, Step
  <2>. QED
    BY <2>1, <2>2, ChunksKeep DEF Posted
<1>3. CASE URead
  <2>1. loop' = loop /\ pc'["E"] = pc["E"] /\ Posted' = Posted
    BY <1>1, <1>3 DEF URead, Step, Posted
  <2>. QED
    BY <2>1, ChunksKeep
<1>4. CASE UPost
  <2>1. /\ pc'["E"] = pc["E"]
        /\ UNCHANGED <<handlers, event, at, handled, got>>
    BY <1>1, <1>4 DEF UPost, Step
  <2>2. RegisteredInv' /\ GotInv'
    BY <2>1 DEF ChunkInv, RegisteredInv, GotInv
  <2>. QED
    BY <1>4, <2>2, ChunkPosted DEF ChunkInv
<1>5. ASSUME NEW w \in Writers, WNext(w) PROVE ChunkInv'
  <2>1. w \in Tasks /\ w # "U" /\ w # "E"
    BY WritersAssumption DEF Tasks
  <2>2. CASE Write(w, "idle") \/ TxTake(w) \/ TxCopy(w)
    <3>1. loop' = loop /\ pc'["E"] = pc["E"] /\ pc'["U"] = pc["U"] /\ reads' = reads
      BY <1>1, <2>1, <2>2 DEF Write, TxTake, TxCopy, Step
    <3>. QED
      BY <3>1, ChunksKeep DEF Posted
  <2>3. CASE WPost(w)
    <3>1. /\ pc'["E"] = pc["E"] /\ pc'["U"] = pc["U"] /\ reads' = reads
          /\ queue' = Append(queue, WRITE)
          /\ UNCHANGED <<handlers, event, at, handled, got>>
      BY <1>1, <2>1, <2>3 DEF WPost, Post, Step
    <3>2. QueueInv'
      BY <3>1, WritePosted DEF ChunkInv, Posted
    <3>3. RegisteredInv' /\ GotInv'
      BY <3>1 DEF ChunkInv, RegisteredInv, GotInv
    <3>. QED
      BY <3>2, <3>3 DEF ChunkInv
  <2>. QED
    BY <1>2, <1>5, <2>1, <2>2, <2>3 DEF WNext, TxNext
<1>6. ASSUME NEW w \in Suspendable, Suspend(w) \/ Resume(w) PROVE ChunkInv'
  <2>1. loop' = loop /\ pc' = pc /\ reads' = reads
    BY <1>6 DEF Suspend, Resume
  <2>. QED
    BY <2>1, ChunksKeep DEF Posted
<1>7. ASSUME NEW h \in Blocking, Stall(h) \/ Unstall(h) PROVE ChunkInv'
  <2>1. loop' = loop /\ pc' = pc /\ reads' = reads
    BY <1>7 DEF Stall, Unstall
  <2>. QED
    BY <2>1, ChunksKeep DEF Posted
<1>. QED
  BY <1>1, <1>2, <1>3, <1>4, <1>5, <1>6, <1>7 DEF UNext

\* The event loop gives each chunk to each handler, whatever the handlers write.
LEMMA LoopChunks ==
  ASSUME TypeOK, ChunkInv, ENext
  PROVE  ChunkInv'
<1> DEFINE N == Len(handlers)
<1>1. /\ "U" \in Tasks /\ "E" \in Tasks /\ "U" # "E" /\ reads \in Int /\ handled \in Nat
      /\ pc \in [Tasks -> {"idle", "tx", "copy", "post", "handle"} \cup Increment]
      /\ N \in Nat /\ at \in Nat \ {0} /\ \A i \in 1..N : handlers[i] \in Handlers
      /\ got \in [Handlers -> {Unregistered} \cup 0..MaxReads]
  BY BoundsAssumption DEF Tasks, TypeOK
<1>2. CASE IncrementNext("E") \/ Write("E", "handle") \/ TxTake("E") \/ TxCopy("E")
  <2>1. loop' = loop /\ reads' = reads
    BY <1>2 DEF IncrementNext, LoadIn, StoreIn, LoadOut, StoreOut, Write, TxTake, TxCopy
  <2>2. pc'["U"] = pc["U"] /\ pc["E"] # "idle" /\ pc'["E"] # "idle"
    BY <1>1, <1>2 DEF IncrementNext, LoadIn, StoreIn, LoadOut, StoreOut, Write, TxTake, TxCopy, Step
  <2>. QED
    BY <2>1, <2>2, ChunksKeep DEF Posted
<1>3. CASE ETake
  <2>1. /\ QueueInv'
        /\ event' # WRITE => handled' = event' /\ event' = handled + 1
        /\ event' = WRITE => handled' = handled
    BY <1>3, ChunkTaken DEF ChunkInv
  <2>2. pc["E"] = "idle" /\ handlers' = handlers /\ got' = got
    BY <1>3 DEF ETake, Step, GoOn
  <2>3. \A i \in 1..N : got[handlers[i]] = handled
    BY <2>2 DEF ChunkInv, GotInv
  <2>4. CASE event' = WRITE
    <3>1. pc'["E"] = "idle"
      BY <1>1, <1>3, <2>4 DEF ETake, Step
    <3>. QED
      BY <2>1, <2>2, <2>3, <2>4, <3>1 DEF ChunkInv, RegisteredInv, GotInv
  <2>5. CASE event' # WRITE /\ N = 0
    <3>1. pc'["E"] = "idle"
      BY <1>1, <1>3, <2>5 DEF ETake, GoOn, Step
    <3>. QED
      BY <2>1, <2>2, <2>5, <3>1 DEF ChunkInv, RegisteredInv, GotInv
  <2>6. CASE event' # WRITE /\ N > 0
    <3>1. pc'["E"] = "handle" /\ at' = 1
      BY <1>1, <1>3, <2>6 DEF ETake, GoOn, Step
    <3>2. GotInv'
      BY <1>1, <2>1, <2>2, <2>3, <2>6, <3>1 DEF GotInv
    <3>. QED
      BY <2>1, <2>2, <3>2 DEF ChunkInv, RegisteredInv
  <2>. QED
    BY <1>1, <2>4, <2>5, <2>6
<1>4. CASE EHandle
  <2>1. /\ pc["E"] = "handle" /\ got' = [got EXCEPT ![handlers[at]] = event]
        /\ UNCHANGED <<queue, handlers, event, handled, reads>>
        /\ at' = IF at + 1 > N THEN 1 ELSE at + 1
        /\ pc' = [pc EXCEPT !["E"] = IF at + 1 > N THEN "idle" ELSE "handle"]
    BY <1>4 DEF EHandle, GoOn, Step
  <2>2. /\ event = handled /\ handled > 0 /\ at \in 1..N
        /\ \A i \in 1..N : got[handlers[i]] = IF i < at THEN handled ELSE handled - 1
    BY <1>1, <2>1 DEF ChunkInv, GotInv
  <2>3. \A i \in 1..N : got'[handlers[i]] = IF i < at + 1 THEN handled ELSE handled - 1
    BY <1>1, <2>1, <2>2 DEF ChunkInv, RegisteredInv
  <2>4. GotInv'
    <3>1. CASE at + 1 > N
      BY <1>1, <2>1, <2>2, <2>3, <3>1 DEF GotInv
    <3>2. CASE ~(at + 1 > N)
      BY <1>1, <2>1, <2>2, <2>3, <3>2 DEF GotInv
    <3>. QED
      BY <3>1, <3>2
  <2>5. RegisteredInv'
    <3>1. \A h \in Handlers : got'[h] # Unregistered => \E i \in 1..N : handlers[i] = h
      BY <1>1, <2>1, <2>2 DEF ChunkInv, RegisteredInv
    <3>2. \A i \in 1..N : got'[handlers[i]] # Unregistered
      BY <1>1, <2>2, <2>3 DEF Unregistered
    <3>. QED
      BY <2>1, <3>1, <3>2 DEF ChunkInv, RegisteredInv
  <2>6. QueueInv'
    BY <1>1, <2>1 DEF ChunkInv, QueueInv, Posted
  <2>. QED
    BY <2>4, <2>5, <2>6 DEF ChunkInv
<1>5. CASE EPost
  <2>1. /\ pc["E"] = "post"
        /\ UNCHANGED <<handlers, event, handled, got, reads>>
        /\ at' = IF at > N THEN 1 ELSE at
        /\ pc' = [pc EXCEPT !["E"] = IF at > N THEN "idle" ELSE "handle"]
        /\ queue' = Append(queue, WRITE) \/ queue' = queue
    BY <1>5 DEF EPost, GoOn, Step
  <2>2. at <= N
    BY <2>1 DEF ChunkInv, GotInv
  <2>3. at' = at /\ pc'["E"] = "handle" /\ Posted' = Posted
    BY <1>1, <2>1, <2>2 DEF Posted
  <2>4. GotInv' /\ RegisteredInv'
    BY <2>1, <2>3 DEF ChunkInv, GotInv, RegisteredInv
  <2>5. CASE queue' = queue
    BY <2>1, <2>3, <2>4, <2>5 DEF ChunkInv, QueueInv
  <2>6. CASE queue' = Append(queue, WRITE)
    BY <2>1, <2>3, <2>4, <2>6, WritePosted DEF ChunkInv
  <2>. QED
    BY <2>1, <2>5, <2>6
<1>. QED
  BY <1>2, <1>3, <1>4, <1>5 DEF ENext, TxNext

\* A handler that is registered between two events has missed nothing.
LEMMA RegisterChunks ==
  ASSUME TypeOK, ChunkInv, NEW h \in Handlers, Register(h)
  PROVE  ChunkInv'
<1> DEFINE N == Len(handlers)
<1>1. /\ got[h] = Unregistered /\ pc["E"] = "idle" /\ pc' = pc
      /\ handlers' = Append(handlers, h) /\ got' = [got EXCEPT ![h] = handled]
      /\ UNCHANGED <<queue, event, at, handled, reads>>
  BY DEF Register
<1>2. /\ handlers \in Seq(Handlers) /\ handled \in Nat
      /\ got \in [Handlers -> {Unregistered} \cup 0..MaxReads]
  BY BoundsAssumption DEF TypeOK
<1>3. /\ N \in Nat /\ Len(handlers') = N + 1 /\ handlers'[N + 1] = h
      /\ \A i \in 1..N : handlers'[i] = handlers[i] /\ handlers[i] \in Handlers
  BY <1>1, <1>2
<1>4. \A i \in 1..N : handlers[i] # h
  BY <1>1 DEF ChunkInv, RegisteredInv
<1>5. \A i \in 1..(N + 1) : got'[handlers'[i]] = handled
  BY <1>1, <1>2, <1>3, <1>4 DEF ChunkInv, GotInv
<1>6. GotInv'
  BY <1>1, <1>3, <1>5 DEF GotInv
<1>7. RegisteredInv'
  <2>1. \A i, j \in 1..(N + 1) : handlers'[i] = handlers'[j] => i = j
    BY <1>3, <1>4 DEF ChunkInv, RegisteredInv
  <2>2. \A g \in Handlers :
          got'[g] # Unregistered => \E i \in 1..(N + 1) : handlers'[i] = g
    BY <1>1, <1>2, <1>3 DEF ChunkInv, RegisteredInv
  <2>3. \A i \in 1..(N + 1) : got'[handlers'[i]] # Unregistered
    BY <1>2, <1>5 DEF Unregistered
  <2>. QED
    BY <1>3, <2>1, <2>2, <2>3 DEF RegisteredInv
<1>8. QueueInv'
  BY <1>1 DEF ChunkInv, QueueInv, Posted
<1>. QED
  BY <1>6, <1>7, <1>8 DEF ChunkInv

-----------------------------------------------------------------------------
(* Theorems *)

\* At boot nothing is read, posted or registered.
LEMMA InitIInv == Init => IInv
<1> SUFFICES ASSUME Init PROVE IInv
  OBVIOUS
<1>1. MaxReads \in Nat /\ MaxWrites \in Nat /\ QueueSize \in Nat \ {0} /\ "U" \in Tasks
      /\ "E" \in Tasks
  BY BoundsAssumption DEF Tasks
<1>2. TypeOK
  <2>1. queue \in Seq(0..MaxReads) /\ Len(queue) = 0 /\ handlers \in Seq(Handlers)
        /\ Len(handlers) = 0
    BY DEF Init
  <2>. QED
    BY <1>1, <2>1 DEF Init, TypeOK, WRITE
<1>3. InInv
  BY <1>1 DEF Init, InInv, Counted
<1>4. Copying = {} /\ Counting = {}
  BY DEF Init, Copying, Counting, CallersAt, Increment
<1>5. SentInv /\ OutInv
  BY <1>1, <1>4, FS_EmptySet DEF Init, SentInv, OutInv
<1>6. QueueInv
  BY <1>1 DEF Init, QueueInv, Posted
<1>7. RegisteredInv /\ GotInv
  BY <1>1 DEF Init, RegisteredInv, GotInv
<1>. QED
  BY <1>2, <1>3, <1>5, <1>6, <1>7 DEF IInv

\* The strengthened invariant of the bus: what each task may still count, and which
\* chunks are queued and handed out.
THEOREM Invariance == Spec => []IInv
<1>1. IInv /\ [Next]_vars => IInv'
  <2> SUFFICES ASSUME IInv, [Next]_vars PROVE IInv'
    OBVIOUS
  <2>1. CASE Next
    <3>1. TypeOK' /\ InInv' /\ SentInv' /\ OutInv'
      BY <2>1, TotalsStep DEF IInv
    <3>2. ChunkInv'
      BY <2>1, ThreadChunks, LoopChunks, RegisterChunks DEF IInv, ChunkInv, Next
    <3>. QED
      BY <3>1, <3>2 DEF IInv, ChunkInv
  <2>2. CASE UNCHANGED vars
    <3>1. TypeOK'
      BY <2>2 DEF IInv, TypeOK, vars, stats, loop
    <3>2. InInv' /\ SentInv' /\ OutInv'
      BY <2>2, TotalsSame DEF IInv, vars
    <3>3. ChunkInv'
      BY <2>2, ChunksKeep DEF IInv, ChunkInv, vars, Posted
    <3>. QED
      BY <3>1, <3>2, <3>3 DEF IInv, ChunkInv
  <2>. QED
    BY <2>1, <2>2
<1>. QED
  BY InitIInv, <1>1, PTL DEF Spec

\* The types of the bus and its counters.
THEOREM TypeCorrect == Spec => []TypeOK
BY Invariance, PTL DEF IInv

\* stream_stats_increment without a lock may lose counts but shows no more than was
\* read and sent, whatever the number of tasks that write.
THEOREM NeverTooMuch == Spec => []NeverOvercounts
<1>1. IInv => NeverOvercounts
  <2> SUFFICES ASSUME IInv PROVE NeverOvercounts
    OBVIOUS
  <2>1. total_in \in Nat /\ total_out \in Nat /\ reads \in Nat /\ sent \in Nat
    BY BoundsAssumption DEF IInv, TypeOK
  <2>2. Cardinality(Counting) \in Nat
    BY FS_CardinalityType DEF IInv, OutInv
  <2>. QED
    BY <2>1, <2>2 DEF IInv, InInv, OutInv, Counted, NeverOvercounts
<1>. QED
  BY Invariance, <1>1, PTL

\* A step that does not hand out anything, read or register is a stutter of Delivery.
LEMMA Stutters ==
  ASSUME Next, ~URead, ~EHandle, ~\E h \in Handlers : Register(h)
  PROVE  UNCHANGED <<reads, got>>
<1>1. \A t : \A from : IncrementNext(t) \/ Write(t, from) \/ TxTake(t) \/ TxCopy(t) =>
        UNCHANGED <<reads, got>>
  BY DEF IncrementNext, LoadIn, StoreIn, LoadOut, StoreOut, Write, TxTake, TxCopy, loop
<1>2. UPost \/ ETake \/ EPost => UNCHANGED <<reads, got>>
  BY DEF UPost, ETake, EPost
<1>3. \A w : WPost(w) \/ Suspend(w) \/ Resume(w) => UNCHANGED <<reads, got>>
  BY DEF WPost, Suspend, Resume, loop
<1>4. \A h : Stall(h) \/ Unstall(h) => UNCHANGED <<reads, got>>
  BY DEF Stall, Unstall, loop
<1>. QED
  BY <1>1, <1>2, <1>3, <1>4 DEF Next, UNext, ENext, WNext, TxNext

\* Every step of the bus is a step of Delivery or a stutter of it.
LEMMA StepSimulation == IInv /\ [Next]_vars => [D!Next]_<<reads, got>>
<1> SUFFICES ASSUME IInv, [Next]_vars PROVE [D!Next]_<<reads, got>>
  OBVIOUS
<1>1. reads \in Nat /\ got \in [Handlers -> {Unregistered} \cup 0..MaxReads]
      /\ handled \in Nat /\ handled <= Posted /\ Posted <= reads
  BY BoundsAssumption DEF IInv, TypeOK, QueueInv, Posted
<1>2. CASE URead
  <2>1. reads' = reads + 1 /\ got' = got
    BY <1>2 DEF URead, loop
  <2>. QED
    BY <2>1 DEF D!Next, D!Produce
<1>3. CASE EHandle
  <2> DEFINE h == handlers[at]
  <2>1. pc["E"] # "idle" /\ got' = [got EXCEPT ![h] = event] /\ reads' = reads
    BY <1>3 DEF EHandle, GoOn, Step
  <2>2. h \in Handlers /\ event = handled /\ handled > 0 /\ got[h] = handled - 1
    BY <1>1, <2>1 DEF IInv, GotInv, TypeOK
  <2>3. got[h] # Unregistered /\ got[h] < reads /\ got[h] + 1 = event
    BY <1>1, <2>2 DEF Unregistered, IInv, TypeOK, Posted
  <2>4. D!Deliver(h)
    BY <2>1, <2>3 DEF D!Deliver, D!Unregistered, Unregistered
  <2>. QED
    BY <2>2, <2>4 DEF D!Next
<1>4. ASSUME NEW h \in Handlers, Register(h) PROVE [D!Next]_<<reads, got>>
  <2>1. got[h] = Unregistered /\ got' = [got EXCEPT ![h] = handled] /\ reads' = reads
    BY <1>4 DEF Register
  <2>2. handled \in 0..reads
    BY <1>1 DEF Posted
  <2>3. D!Register(h)
    BY <2>1, <2>2 DEF D!Register, D!Unregistered, Unregistered
  <2>. QED
    BY <2>3 DEF D!Next
<1>5. CASE UNCHANGED vars
  BY <1>5 DEF vars, loop
<1>. QED
  BY <1>2, <1>3, <1>4, <1>5, Stutters

\* uart_task, the event loop and the writers together implement Delivery: each
\* handler gets each chunk read since its registration once and in order.
THEOREM Implements == Spec => Delivers
<1>1. Init => D!Init
  BY DEF Init, D!Init, D!Unregistered, Unregistered
<1>. QED
  BY <1>1, StepSimulation, Invariance, PTL DEF Spec, Delivers, D!Spec

=============================================================================
