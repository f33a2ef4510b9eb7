------------------------ MODULE RequestPipelineProofs ------------------------
(***************************************************************************)
(* For any set of requests, sizes and limits: the queue of an unchoked     *)
(* connection only waits while the gate is shut, and the slots in use are  *)
(* backed by requests.                                                     *)
(***************************************************************************)
EXTENDS RequestPipeline, FiniteSetTheorems, SequenceTheorems, TLAPS

(* The queue holds every queued request once and nothing else. *)
QueueOK(queue, place) ==
  /\ queue \in Seq(Requests)
  /\ \A i, j \in 1..Len(queue) : queue[i] = queue[j] => i = j
  /\ \A i \in 1..Len(queue) : place[queue[i]] = "queued"

(* The inductive invariant. *)
PipelineInv ==
  /\ at \in [Requests -> Places]
  /\ out \in Nat
  /\ QueueOK(pending, at)
  /\ SlotsBacked
  /\ WorkConserving

(* Any set of requests has a natural number of elements. *)
LEMMA Finite ==
  ASSUME NEW S \in SUBSET Requests
  PROVE  IsFiniteSet(S) /\ Cardinality(S) \in Nat
BY PipelineAssumption, FS_Subset, FS_CardinalityType DEF PipelineAssumption

(* The first n entries of a queue without repetition are n requests. *)
LEMMA FrontCount ==
  ASSUME NEW queue \in Seq(Requests), NEW n \in 0..Len(queue),
         \A i, j \in 1..Len(queue) : queue[i] = queue[j] => i = j
  PROVE  /\ ToSet(SubSeq(queue, 1, n)) = {queue[i] : i \in 1..n}
         /\ Cardinality({queue[i] : i \in 1..n}) = n
<1> DEFINE T == {queue[i] : i \in 1..n}
           f == [i \in 1..n |-> queue[i]]
<1>1. ToSet(SubSeq(queue, 1, n)) = T
  <2>1. /\ DOMAIN SubSeq(queue, 1, n) = 1..n
        /\ \A i \in 1..n : SubSeq(queue, 1, n)[i] = queue[i]
    OBVIOUS
  <2>2. ToSet(SubSeq(queue, 1, n)) = {SubSeq(queue, 1, n)[i] : i \in 1..n}
    BY <2>1 DEF ToSet
  <2> QED BY <2>1, <2>2
<1>2. f \in Bijection(1..n, T)
  BY DEF Bijection, Injection, Surjection, IsInjective
<1>3. IsFiniteSet(1..n) /\ Cardinality(1..n) = n
  BY FS_Interval
<1>4. Cardinality(T) = n
  BY <1>2, <1>3, FS_Bijection DEF ExistsBijection
<1> QED BY <1>1, <1>4

(* What is left of a queue after its first n entries. *)
LEMMA BackOfQueue ==
  ASSUME NEW S, NEW q \in Seq(S), NEW n \in 0..Len(q)
  PROVE  /\ SubSeq(q, n + 1, Len(q)) \in Seq(S)
         /\ Len(SubSeq(q, n + 1, Len(q))) = Len(q) - n
         /\ \A i \in 1..(Len(q) - n) : SubSeq(q, n + 1, Len(q))[i] = q[i + n]
<1>1. Len(q) \in Nat /\ n \in Nat /\ n <= Len(q)
  OBVIOUS
<1>2. \A i \in (n + 1)..Len(q) : q[i] \in S
  BY <1>1, ElementOfSeq
<1>3. /\ SubSeq(q, n + 1, Len(q)) \in Seq(S)
      /\ Len(SubSeq(q, n + 1, Len(q))) = IF n + 1 <= Len(q) THEN Len(q) - (n + 1) + 1 ELSE 0
      /\ \A i \in 1..(Len(q) - (n + 1) + 1) : SubSeq(q, n + 1, Len(q))[i] = q[(n + 1) + i - 1]
  BY <1>1, <1>2, SubSeqProperties
<1>4. \A i \in 1..(Len(q) - n) : (n + 1) + i - 1 = i + n
  BY <1>1
<1> QED BY <1>1, <1>3, <1>4

(* flush_pending_requests re-establishes the invariant from whatever consistent
   queue and count its caller leaves. *)
LEMMA FlushKeeps ==
  ASSUME NEW place \in [Requests -> Places], NEW queue, QueueOK(queue, place),
         NEW o \in Nat, o <= Cardinality(Held(place)), NEW req, NEW rec,
         Flush(place, queue, o, req, rec)
  PROVE  PipelineInv'
<1>1. PICK n \in 0..Len(queue) :
        /\ n = Len(queue) \/ ~(~choking' /\ Room(o + n, req + Bytes(SubSeq(queue, 1, n)), rec))
        /\ at' = [r \in Requests |->
                    IF r \in ToSet(SubSeq(queue, 1, n)) THEN "flushing" ELSE place[r]]
        /\ pending' = SubSeq(queue, n + 1, Len(queue))
        /\ out' = o + n
        /\ requested' = req + Bytes(SubSeq(queue, 1, n))
        /\ received' = rec
  BY DEF Flush
<1> DEFINE T == {queue[i] : i \in 1..n}
<1>2. queue \in Seq(Requests) /\ Len(queue) \in Nat /\ n \in Nat
  BY DEF QueueOK
<1>3. ToSet(SubSeq(queue, 1, n)) = T /\ Cardinality(T) = n
  BY Zenon, <1>2, FrontCount DEF QueueOK
<1>4. T \subseteq Requests /\ T \cap Held(place) = {}
  BY <1>2 DEF QueueOK, Held
<1>5. at' \in [Requests -> Places]
  BY <1>1 DEF Places
<1>6. Held(at)' = Held(place) \union T
  BY <1>1, <1>3, <1>4 DEF Held
<1>7. SlotsBacked'
  <2>1. Held(place) \in SUBSET Requests /\ T \in SUBSET Requests
    BY <1>4 DEF Held
  <2>2. Cardinality(Held(place) \union T)
          = Cardinality(Held(place)) + Cardinality(T) - Cardinality(Held(place) \cap T)
    BY Zenon, <2>1, Finite, FS_Union
  <2>3. Cardinality(Held(place) \cap T) = 0
    BY Zenon, <1>4, FS_EmptySet
  <2>4. Cardinality(Held(place)) \in Nat
    BY <2>1, Finite
  <2>5. Cardinality(Held(at)') = Cardinality(Held(place)) + n
    BY <1>2, <1>3, <1>6, <2>2, <2>3, <2>4
  <2> QED BY <1>1, <1>2, <2>4, <2>5 DEF SlotsBacked
<1>8. QueueOK(pending, at)'
  <2>1. /\ pending' \in Seq(Requests)
        /\ Len(pending') = Len(queue) - n
        /\ \A i \in 1..Len(pending') : pending'[i] = queue[i + n] /\ i + n \in 1..Len(queue)
    <3>1. pending' = SubSeq(queue, n + 1, Len(queue)) /\ n \in 0..Len(queue)
      BY <1>1
    <3>2. /\ pending' \in Seq(Requests)
          /\ Len(pending') = Len(queue) - n
          /\ \A i \in 1..(Len(queue) - n) : pending'[i] = queue[i + n]
      BY <1>2, <3>1, BackOfQueue
    <3>3. \A i \in 1..(Len(queue) - n) : i + n \in 1..Len(queue)
      BY <1>2, <3>1
    <3> QED BY <3>2, <3>3
  <2>2. \A i \in 1..Len(pending') : at'[pending'[i]] = "queued"
    <3> SUFFICES ASSUME NEW i \in 1..Len(pending')
                 PROVE  at'[queue[i + n]] = "queued"
      BY Zenon, <2>1
    <3>1. i + n \in 1..Len(queue) /\ \A j \in 1..n : j \in 1..Len(queue) /\ j # i + n
      BY <1>2, <2>1
    <3>2. queue[i + n] \notin T
      BY <3>1 DEF QueueOK
    <3>3. queue[i + n] \in Requests /\ place[queue[i + n]] = "queued"
      BY <1>2, <3>1 DEF QueueOK
    <3> QED BY <1>1, <1>3, <3>2, <3>3
  <2>3. \A i, j \in 1..Len(pending') : pending'[i] = pending'[j] => i = j
    BY <1>2, <2>1 DEF QueueOK
  <2> QED BY <2>1, <2>2, <2>3 DEF QueueOK
<1>9. WorkConserving'
  <2>1. n = Len(queue) => pending' = <<>>
    BY <1>1, <1>2
  <2> QED BY <1>1, <2>1 DEF WorkConserving
<1> QED BY <1>1, <1>2, <1>5, <1>7, <1>8, <1>9 DEF PipelineInv

(* A request that is out leaves with its slot. *)
LEMMA Credited ==
  ASSUME PipelineInv, NEW r \in Requests, at[r] \in {"writing", "peer"}
  PROVE  /\ Moved(r, "over") \in [Requests -> Places]
         /\ QueueOK(pending, Moved(r, "over"))
         /\ OneLess(out) \in Nat
         /\ OneLess(out) <= Cardinality(Held(Moved(r, "over")))
<1>1. Moved(r, "over") \in [Requests -> Places]
  BY DEF PipelineInv, Moved, Places
<1>2. QueueOK(pending, Moved(r, "over"))
  BY DEF PipelineInv, Moved, QueueOK
<1>3. Held(Moved(r, "over")) = Held(at) \ {r} /\ r \in Held(at)
  BY DEF PipelineInv, Moved, Held
<1>4. Held(at) \in SUBSET Requests /\ (Held(at) \ {r}) \in SUBSET Requests
  BY DEF Held
<1>5. /\ Cardinality(Held(at)) \in Nat /\ Cardinality(Held(at) \ {r}) \in Nat
      /\ Cardinality(Held(at) \ {r}) = Cardinality(Held(at)) - 1
  BY <1>3, <1>4, Finite, FS_RemoveElement
<1> QED BY <1>1, <1>2, <1>3, <1>5 DEF PipelineInv, SlotsBacked, OneLess

(* Moving a request between places that hold no slot and are not the queue, or
   between places that hold one, changes nothing the invariant is about. *)
LEMMA Transit ==
  ASSUME PipelineInv, NEW r \in Requests, NEW where \in Places \ {"queued"},
         at[r] # "queued", at' = Moved(r, where),
         r \in Held(at) => r \in Held(Moved(r, where)),
         UNCHANGED <<pending, out, requested, received, choking>>
  PROVE  PipelineInv'
<1>1. at' \in [Requests -> Places]
  BY DEF PipelineInv, Moved
<1>2. Held(at) \subseteq Held(at)'
  BY DEF PipelineInv, Moved, Held
<1>3. Held(at) \in SUBSET Requests /\ Held(at)' \in SUBSET Requests
  BY DEF Held
<1>4. /\ Cardinality(Held(at)) \in Nat /\ Cardinality(Held(at)') \in Nat
      /\ Cardinality(Held(at)) <= Cardinality(Held(at)')
  BY <1>2, <1>3, Finite, FS_Subset
<1>5. SlotsBacked'
  BY <1>4 DEF PipelineInv, SlotsBacked
<1>6. QueueOK(pending, at)'
  BY DEF PipelineInv, QueueOK, Moved
<1> QED BY <1>1, <1>5, <1>6 DEF PipelineInv, WorkConserving

(* send_request: with room the queue is empty or the peer chokes, without room the
   request joins the queue. *)
LEMMA SendRequestKeeps ==
  ASSUME PipelineInv, NEW r \in Requests, SendRequest(r)
  PROVE  PipelineInv'
<1>1. CASE Room(out, requested, received)
  <2>1. at' = Moved(r, "writing") /\ out' = out + 1 /\ UNCHANGED <<pending, received, choking>>
    BY <1>1 DEF SendRequest, link
  <2>2. Held(at)' = Held(at) \union {r} /\ r \notin Held(at)
    BY <2>1 DEF PipelineInv, SendRequest, Moved, Held
  <2>3. Held(at) \in SUBSET Requests
    BY DEF Held
  <2>4. Cardinality(Held(at)') = Cardinality(Held(at)) + 1 /\ Cardinality(Held(at)) \in Nat
    BY <2>2, <2>3, Finite, FS_AddElement
  <2>5. SlotsBacked' /\ out' \in Nat
    BY <2>1, <2>4 DEF PipelineInv, SlotsBacked
  <2>6. at' \in [Requests -> Places]
    BY <2>1 DEF PipelineInv, Moved, Places
  <2>7. QueueOK(pending, at)'
    BY <2>1 DEF PipelineInv, QueueOK, Moved, SendRequest
  <2>8. WorkConserving'
    BY <1>1, <2>1 DEF PipelineInv, WorkConserving
  <2> QED BY <2>5, <2>6, <2>7, <2>8 DEF PipelineInv
<1>2. CASE ~Room(out, requested, received)
  <2>1. /\ at' = Moved(r, "queued") /\ pending' = Append(pending, r)
        /\ UNCHANGED <<out, requested, received, choking>>
    BY <1>2 DEF SendRequest, link
  <2>2. Held(at)' = Held(at)
    BY <2>1 DEF PipelineInv, SendRequest, Moved, Held
  <2>3. at' \in [Requests -> Places]
    BY <2>1 DEF PipelineInv, Moved, Places
  <2>4. \A i \in 1..Len(pending) : pending[i] # r
    BY DEF PipelineInv, QueueOK, SendRequest
  <2>5. /\ pending' \in Seq(Requests) /\ Len(pending') = Len(pending) + 1
        /\ pending'[Len(pending) + 1] = r
        /\ \A i \in 1..Len(pending) : pending'[i] = pending[i]
    BY <2>1 DEF PipelineInv, QueueOK
  <2>6. \A i \in 1..Len(pending') : i \in 1..Len(pending) \/ i = Len(pending) + 1
    BY <2>5 DEF PipelineInv, QueueOK
  <2>7. \A i \in 1..Len(pending') : at'[pending'[i]] = "queued"
    BY <2>1, <2>5, <2>6 DEF PipelineInv, QueueOK, Moved
  <2>8. \A i, j \in 1..Len(pending') : pending'[i] = pending'[j] => i = j
    BY <2>4, <2>5, <2>6 DEF PipelineInv, QueueOK
  <2>9. QueueOK(pending, at)'
    BY <2>5, <2>7, <2>8 DEF QueueOK
  <2> QED BY <1>2, <2>1, <2>2, <2>3, <2>9 DEF PipelineInv, SlotsBacked, WorkConserving
<1> QED BY <1>1, <1>2

(* Erasing a request from the queue. *)
LEMMA Erased ==
  ASSUME PipelineInv, NEW i \in DOMAIN pending
  PROVE  QueueOK(RemoveAt(pending, i), Moved(pending[i], "over"))
<1> DEFINE rest == RemoveAt(pending, i)
<1>1. pending \in Seq(Requests) /\ i \in 1..Len(pending) /\ Len(pending) \in Nat
  BY DEF PipelineInv, QueueOK
<1>2. /\ rest \in Seq(Requests) /\ Len(rest) = Len(pending) - 1
      /\ \A k \in 1..Len(rest) : rest[k] = IF k < i THEN pending[k] ELSE pending[k + 1]
  <2> DEFINE front == SubSeq(pending, 1, i - 1)
             back == SubSeq(pending, i + 1, Len(pending))
  <2>1. /\ front \in Seq(Requests) /\ Len(front) = i - 1
        /\ \A k \in 1..(i - 1) : front[k] = pending[k]
    BY <1>1
  <2>2. /\ back \in Seq(Requests) /\ Len(back) = Len(pending) - i
        /\ \A k \in 1..(Len(pending) - i) : back[k] = pending[k + i]
    BY <1>1
  <2>3. rest = front \o back
    BY DEF RemoveAt
  <2> HIDE DEF front, back, rest
  <2>4. /\ rest \in Seq(Requests) /\ Len(rest) = Len(front) + Len(back)
        /\ \A k \in 1..(Len(front) + Len(back)) :
             rest[k] = IF k <= Len(front) THEN front[k] ELSE back[k - Len(front)]
    BY Zenon, <2>1, <2>2, <2>3, ConcatProperties
  <2>5. Len(rest) = Len(pending) - 1
    BY <1>1, <2>1, <2>2, <2>4
  <2>6. ASSUME NEW k \in 1..Len(rest)
        PROVE  rest[k] = IF k < i THEN pending[k] ELSE pending[k + 1]
    <3>1. CASE k < i
      <4>1. k \in 1..(i - 1) /\ k <= Len(front) /\ k \in 1..(Len(front) + Len(back))
        BY <1>1, <2>1, <2>2, <2>4, <3>1
      <4> QED BY <2>1, <2>4, <3>1, <4>1
    <3>2. CASE ~(k < i)
      <4>0. Len(front) = i - 1 /\ Len(back) = Len(pending) - i /\ k \in 1..(Len(pending) - 1)
        BY <2>1, <2>2, <2>5
      <4>1. /\ (k - (i - 1)) \in 1..(Len(pending) - i) /\ ~(k <= Len(front))
            /\ k \in 1..(Len(front) + Len(back)) /\ (k - (i - 1)) + i = k + 1
        <5> DEFINE n == Len(pending)
        <5>1. n \in Nat /\ i \in 1..n /\ k \in 1..(n - 1)
          BY <1>1, <4>0
        <5> HIDE DEF n
        <5>2. /\ (k - (i - 1)) \in 1..(n - i) /\ ~(k <= i - 1)
              /\ k \in 1..((i - 1) + (n - i)) /\ (k - (i - 1)) + i = k + 1
          BY <5>1, <3>2
        <5> QED BY <4>0, <5>2 DEF n
      <4>2. rest[k] = back[k - (i - 1)]
        BY <2>1, <2>4, <4>1
      <4>3. back[k - (i - 1)] = pending[(k - (i - 1)) + i]
        BY <2>2, <4>1
      <4> QED BY <3>2, <4>1, <4>2, <4>3
    <3> QED BY <3>1, <3>2
  <2> QED BY <2>4, <2>5, <2>6
<1> HIDE DEF rest
<1>3. ASSUME NEW k \in 1..Len(rest)
      PROVE  \E m \in 1..Len(pending) :
               rest[k] = pending[m] /\ m # i /\ (m = k \/ m = k + 1) /\ (m = k <=> k < i)
  <2> DEFINE n == Len(pending)
  <2>1. n \in Nat /\ i \in 1..n /\ k \in 1..(n - 1)
    BY <1>1, <1>2
  <2> HIDE DEF n
  <2>2. CASE k < i
    <3>1. k \in 1..n /\ k # i
      BY <2>1, <2>2
    <3>2. rest[k] = pending[k]
      BY <1>2, <2>2
    <3> QED BY <2>2, <3>1, <3>2 DEF n
  <2>3. CASE ~(k < i)
    <3>1. k + 1 \in 1..n /\ k + 1 # i /\ k + 1 # k
      BY <2>1, <2>3
    <3>2. rest[k] = pending[k + 1]
      BY <1>2, <2>3
    <3> QED BY <2>3, <3>1, <3>2 DEF n
  <2> QED BY <2>2, <2>3
<1>4. \A k \in 1..Len(rest) : Moved(pending[i], "over")[rest[k]] = "queued"
  BY <1>1, <1>2, <1>3 DEF PipelineInv, QueueOK, Moved
<1>5. \A k, m \in 1..Len(rest) : rest[k] = rest[m] => k = m
  <2> SUFFICES ASSUME NEW k \in 1..Len(rest), NEW m \in 1..Len(rest), rest[k] = rest[m]
               PROVE  k = m
    OBVIOUS
  <2>1. PICK a \in 1..Len(pending) : rest[k] = pending[a] /\ (a = k \/ a = k + 1) /\ (a = k <=> k < i)
    BY <1>3
  <2>2. PICK b \in 1..Len(pending) : rest[m] = pending[b] /\ (b = m \/ b = m + 1) /\ (b = m <=> m < i)
    BY <1>3
  <2>3. a = b
    BY Zenon, <2>1, <2>2 DEF PipelineInv, QueueOK
  <2> QED BY <1>1, <1>2, <2>1, <2>2, <2>3
<1> QED BY Zenon, <1>2, <1>4, <1>5 DEF QueueOK, rest

(* send_cancel: a queued request is erased, any other credited. *)
LEMMA SendCancelKeeps ==
  ASSUME PipelineInv, NEW r \in Requests, SendCancel(r)
  PROVE  PipelineInv'
<1>1. CASE at[r] = "queued"
  <2>1. PICK i \in DOMAIN pending :
          pending[i] = r /\ Flush(Moved(r, "over"), RemoveAt(pending, i), out, requested, received)
    BY <1>1 DEF SendCancel
  <2>2. QueueOK(RemoveAt(pending, i), Moved(r, "over"))
    BY <2>1, Erased
  <2>3. Moved(r, "over") \in [Requests -> Places]
    BY DEF PipelineInv, Moved, Places
  <2>4. Held(Moved(r, "over")) = Held(at)
    BY <1>1 DEF PipelineInv, Moved, Held
  <2> QED BY <2>1, <2>2, <2>3, <2>4, FlushKeeps DEF PipelineInv, SlotsBacked
<1>2. CASE at[r] # "queued"
  <2>1. Flush(at, pending, OneLess(out), Less(requested, r), received)
    BY <1>2 DEF SendCancel
  <2>2. Held(at) \in SUBSET Requests
    BY DEF Held
  <2>3. OneLess(out) \in Nat /\ OneLess(out) <= Cardinality(Held(at))
    BY <2>2, Finite DEF PipelineInv, SlotsBacked, OneLess
  <2> QED BY <2>1, <2>3, FlushKeeps DEF PipelineInv
<1> QED BY <1>1, <1>2

(* CHOKE, second half: no slot is in use and the queue is empty. *)
LEMMA DropQueueKeeps ==
  ASSUME PipelineInv, DropQueue
  PROVE  PipelineInv'
<1>1. at' \in [Requests -> Places]
  BY DEF PipelineInv, DropQueue, Places
<1>2. pending' = <<>> /\ out' = 0
  BY DEF DropQueue
<1>3. QueueOK(pending, at)'
  BY <1>2 DEF QueueOK
<1>4. Held(at)' \in SUBSET Requests
  BY DEF Held
<1>5. SlotsBacked'
  BY <1>2, <1>4, Finite DEF SlotsBacked
<1> QED BY <1>1, <1>2, <1>3, <1>5 DEF PipelineInv, WorkConserving

(* Every step keeps the invariant. *)
LEMMA NextKeeps == PipelineInv /\ [Next]_vars => PipelineInv'
<1> SUFFICES ASSUME PipelineInv, [Next]_vars PROVE PipelineInv'
  OBVIOUS
<1> USE DEF session, link, counters
<1>1. ASSUME NEW r \in Requests, Ask(r) PROVE PipelineInv'
  <2>1. r \notin Held(at)
    BY <1>1 DEF Ask, Held
  <2> QED BY <1>1, <2>1, Transit DEF Ask, Places
<1>16. ASSUME NEW r \in Requests, Pick(r) PROVE PipelineInv'
  <2>1. r \notin Held(at)
    BY <1>16 DEF Pick, Held
  <2> QED BY <1>16, <2>1, Transit DEF Pick, Places
<1>2. ASSUME NEW r \in Requests, SendRequest(r) PROVE PipelineInv'
  BY <1>2, SendRequestKeeps
<1>3. ASSUME NEW r \in Requests, Written(r) PROVE PipelineInv'
  <2>1. r \in Held(Moved(r, "peer"))
    BY DEF PipelineInv, Moved, Held
  <2> QED BY <1>3, <2>1, Transit DEF Written, Places
<1>4. ASSUME NEW r \in Requests, WriteFails(r) PROVE PipelineInv'
  BY <1>4, Credited, FlushKeeps DEF WriteFails
<1>5. ASSUME NEW r \in Requests, FlushedWriteFails(r) PROVE PipelineInv'
  <2>1. r \in Held(Moved(r, "lost"))
    BY DEF PipelineInv, Moved, Held
  <2> QED BY <1>5, <2>1, Transit DEF FlushedWriteFails, Places
<1>6. ASSUME NEW r \in Requests, NEW late \in BOOLEAN, OnRequestCompleted(r, late)
      PROVE  PipelineInv'
  BY <1>6, Credited, FlushKeeps DEF OnRequestCompleted
<1>7. ASSUME NEW r \in Requests, OnRequestRejected(r) PROVE PipelineInv'
  BY <1>7, Credited, FlushKeeps DEF OnRequestRejected
<1>8. ASSUME NEW r \in Requests, SpawnCancel(r) PROVE PipelineInv'
  BY <1>8 DEF SpawnCancel, PipelineInv, QueueOK, SlotsBacked, Held, WorkConserving
<1>9. ASSUME NEW r \in Requests, SendCancel(r) PROVE PipelineInv'
  BY <1>9, SendCancelKeeps
<1>10. ASSUME NEW r \in Requests, PeerForgets(r) PROVE PipelineInv'
  <2>1. r \in Held(Moved(r, "lost"))
    BY DEF PipelineInv, Moved, Held
  <2> QED BY <1>10, <2>1, Transit DEF PeerForgets, Places
<1>11. CASE Choke
  BY <1>11 DEF Choke, PipelineInv, QueueOK, SlotsBacked, Held, WorkConserving
<1>12. CASE DropQueue
  BY <1>12, DropQueueKeeps
<1>13. CASE Unchoke
  BY <1>13, FlushKeeps DEF Unchoke, PipelineInv, SlotsBacked
<1>14. CASE SocketFails
  BY <1>14 DEF SocketFails, PipelineInv, QueueOK, SlotsBacked, Held, WorkConserving
<1>15. CASE UNCHANGED vars
  BY <1>15 DEF vars, PipelineInv, QueueOK, SlotsBacked, Held, WorkConserving
<1> QED BY <1>1, <1>2, <1>3, <1>4, <1>5, <1>6, <1>7, <1>8, <1>9, <1>10, <1>11, <1>12,
           <1>13, <1>14, <1>15, <1>16 DEF Next

(* Nothing is asked for at the start. *)
LEMMA InitKeeps == Init => PipelineInv
<1> SUFFICES ASSUME Init PROVE PipelineInv
  OBVIOUS
<1>1. Held(at) \in SUBSET Requests
  BY DEF Held
<1> QED BY <1>1, Finite DEF Init, PipelineInv, QueueOK, SlotsBacked, WorkConserving, Places

(* Whatever opens the gate of a connection also flushes its queue. *)
THEOREM QueueOnlyWaitsAtTheGate == Spec => []WorkConserving
<1>1. PipelineInv => WorkConserving
  BY DEF PipelineInv
<1> QED BY <1>1, InitKeeps, NextKeeps, PTL DEF Spec

(* outstanding_request_count_ never counts more requests than are out. *)
THEOREM SlotsDoNotLeak == Spec => []SlotsBacked
<1>1. PipelineInv => SlotsBacked
  BY DEF PipelineInv
<1> QED BY <1>1, InitKeeps, NextKeeps, PTL DEF Spec
=============================================================================
