---------------------------- MODULE NetworkProofs ----------------------------
(***************************************************************************)
(* What goes over the network.  One drain at a time writes to a socket,    *)
(* the keystream is in wire order, and the socket is a FIFO channel of     *)
(* whole frames, for any number of writers and frames (WriteQueue).  A     *)
(* lookup in the DHT returns the nearest of all nodes it was told of, and  *)
(* asks none of them twice, for any nodes, answers and timeouts            *)
(* (DhtLookup).                                                            *)
(***************************************************************************)
EXTENDS WriteQueue, SequenceTheorems, FiniteSetTheorems, WellFoundedInduction, TLAPS

(* A drain holds one frame between taking it and the end of its write. *)
HeldByDrain ==
  \A w \in Writers : IF pc[w] \in {"popped", "write"} THEN \E f \in Frames : entry[w] = <<f>>
                                                     ELSE entry[w] = <<>>

(* A writer that is sending has handed over the frame its outcome will be about. *)
SendingHasFrame == \A w \in Writers : pc[w] # "idle" => sends[w] \in 1..MaxSends

QueueInv == TypeOK /\ SendingHasFrame /\ OneDrain /\ HeldByDrain

(* No write has been handed over at the start. *)
LEMMA InitQueueInv == Init => QueueInv
<1> SUFFICES ASSUME Init PROVE QueueInv
  OBVIOUS
<1>1. TypeOK
  <2>1. <<>> \in Seq(Frames) /\ 0 \in 0..MaxSends
    BY SendsAssumption
  <2>2. /\ [w \in Writers |-> <<>>] \in [Writers -> Seq(Frames)]
        /\ [w \in Writers |-> 0] \in [Writers -> 0..MaxSends]
    BY <2>1
  <2> QED BY Zenon, <2>1, <2>2 DEF Init, TypeOK
<1> QED BY <1>1 DEF Init, QueueInv, SendingHasFrame, OneDrain, HeldByDrain, Draining

(* Every step of enqueue_write, the drain and its failure keeps the types. *)
LEMMA NextTypes ==
  ASSUME QueueInv, [Next]_vars
  PROVE  TypeOK' /\ SendingHasFrame'
<1> USE SendsAssumption DEF QueueInv
<1>1. ASSUME NEW w \in Writers, Enqueue(w) PROVE TypeOK' /\ SendingHasFrame'
  <2>1. sends' \in [Writers -> 0..MaxSends] /\ <<w, sends'[w]>> \in Frames
    <3>1. sends[w] \in 0..MaxSends /\ sends[w] < MaxSends
      BY <1>1 DEF Enqueue, TypeOK
    <3>2. sends[w] + 1 \in 1..MaxSends /\ sends[w] + 1 \in 0..MaxSends
      BY <3>1
    <3>3. sends' = [sends EXCEPT ![w] = sends[w] + 1] /\ sends'[w] = sends[w] + 1
      BY <1>1 DEF Enqueue, TypeOK
    <3> QED BY <3>2, <3>3 DEF TypeOK, Frames
  <2>2. queue' \in Seq(Frames)
    BY <1>1, <2>1 DEF Enqueue, TypeOK
  <2>3. /\ pc' = [pc EXCEPT ![w] = IF writing THEN "wait" ELSE "drain"]
        /\ writing' = TRUE
        /\ UNCHANGED <<entry, remaining, failed, outcome, keystream, wire, open>>
    BY <1>1 DEF Enqueue
  <2>4. TypeOK'
    BY <2>1, <2>2, <2>3 DEF TypeOK
  <2>5. \A v \in Writers : v # w => sends'[v] = sends[v] /\ pc'[v] = pc[v]
    BY <1>1, <2>3 DEF Enqueue, TypeOK
  <2>6. sends'[w] \in 1..MaxSends
    BY <2>1 DEF Frames
  <2> QED BY <2>4, <2>5, <2>6 DEF SendingHasFrame
<1>2. ASSUME NEW w \in Writers, pc[w] # "idle" PROVE Current(w) \in Frames
  BY <1>2 DEF SendingHasFrame, Current, Frames
<1>3. ASSUME NEW w \in Writers, WaiterReturns(w) PROVE TypeOK' /\ SendingHasFrame'
  BY <1>2, <1>3 DEF WaiterReturns, Finish, TypeOK, SendingHasFrame
<1>4. ASSUME NEW w \in Writers, Pop(w) PROVE TypeOK' /\ SendingHasFrame'
  <2>1. queue # <<>> /\ Head(queue) \in Frames /\ Tail(queue) \in Seq(Frames)
    BY <1>4, HeadTailProperties DEF Pop, TypeOK
  <2>2. <<Head(queue)>> \in Seq(Frames)
    BY <2>1
  <2> QED BY <1>4, <2>1, <2>2 DEF Pop, TypeOK, SendingHasFrame
<1>5. ASSUME NEW w \in Writers, EndDrain(w) PROVE TypeOK' /\ SendingHasFrame'
  BY Zenon, <1>2, <1>5 DEF EndDrain, Finish, TypeOK, SendingHasFrame
<1>6. ASSUME NEW w \in Writers, StartWrite(w) PROVE TypeOK' /\ SendingHasFrame'
  <2>1. keystream' \in Seq(Frames)
    BY <1>6, ConcatProperties DEF StartWrite, TypeOK
  <2> QED BY <1>6, <2>1 DEF StartWrite, TypeOK, SendingHasFrame
<1>7. ASSUME NEW w \in Writers, WriteDone(w) PROVE TypeOK' /\ SendingHasFrame'
  <2>1. wire' \in Seq(Frames)
    BY <1>7, ConcatProperties DEF WriteDone, TypeOK
  <2> QED BY <1>7, <2>1 DEF WriteDone, TypeOK, SendingHasFrame
<1>8. ASSUME NEW w \in Writers, WriteFails(w) PROVE TypeOK' /\ SendingHasFrame'
  <2>1. /\ remaining' \in [Writers -> Seq(Frames)] /\ entry' \in [Writers -> Seq(Frames)]
        /\ queue' \in Seq(Frames)
    BY <1>8 DEF WriteFails, TypeOK
  <2>2. /\ pc' = [pc EXCEPT ![w] = "failing"] /\ writing' = FALSE /\ pc[w] = "write"
        /\ UNCHANGED <<sends, failed, outcome, keystream, wire, open>>
    BY <1>8 DEF WriteFails
  <2> QED BY Zenon, <2>1, <2>2 DEF TypeOK, SendingHasFrame
<1>9. ASSUME NEW w \in Writers, FailNext(w) PROVE TypeOK' /\ SendingHasFrame'
  <2>1. CASE remaining[w] = <<>>
    BY Zenon, <1>2, <1>9, <2>1 DEF FailNext, Finish, TypeOK, SendingHasFrame
  <2>2. CASE remaining[w] # <<>>
    <3>1. remaining[w] \in Seq(Frames)
      BY DEF TypeOK
    <3>2. Head(remaining[w]) \in Frames /\ Tail(remaining[w]) \in Seq(Frames)
      BY <2>2, <3>1, HeadTailProperties
    <3> QED BY Zenon, <1>9, <2>2, <3>2 DEF FailNext, TypeOK, SendingHasFrame
  <2> QED BY <2>1, <2>2
<1>10. CASE Close \/ UNCHANGED vars
  BY Zenon, <1>10 DEF Close, vars, TypeOK, SendingHasFrame
<1> QED BY <1>1, <1>3, <1>4, <1>5, <1>6, <1>7, <1>8, <1>9, <1>10 DEF Next, DrainStep

(* A step that starts no drain and keeps the flag keeps the drain there is. *)
LEMMA SameDrain ==
  ASSUME TypeOK, OneDrain, writing' = writing,
         \A w \in Writers : Draining(w)' <=> Draining(w)
  PROVE  OneDrain'
BY DEF OneDrain

(* Every step keeps the flag up exactly while one coroutine drains. *)
LEMMA NextOneDrain ==
  ASSUME QueueInv, [Next]_vars
  PROVE  OneDrain' /\ HeldByDrain'
<1> USE DEF QueueInv
<1>1. ASSUME NEW w \in Writers, Enqueue(w) PROVE OneDrain' /\ HeldByDrain'
  <2>1. CASE writing
    <3>1. \A v \in Writers : Draining(v)' <=> Draining(v)
      BY <1>1, <2>1 DEF Enqueue, Draining, TypeOK
    <3>2. writing' = writing
      BY <1>1, <2>1 DEF Enqueue
    <3> QED BY <1>1, <2>1, <3>1, <3>2, SameDrain DEF Enqueue, HeldByDrain, TypeOK
  <2>2. CASE ~writing
    <3>1. \A v \in Writers : Draining(v)' <=> v = w
      BY <1>1, <2>2 DEF Enqueue, OneDrain, Draining, TypeOK
    <3>2. writing'
      BY <1>1 DEF Enqueue
    <3> QED BY <1>1, <2>2, <3>1, <3>2 DEF Enqueue, HeldByDrain, OneDrain, TypeOK
  <2> QED BY <2>1, <2>2
<1>2. ASSUME NEW w \in Writers, WaiterReturns(w) PROVE OneDrain' /\ HeldByDrain'
  <2>1. /\ \A v \in Writers : Draining(v)' <=> Draining(v)
        /\ writing' = writing
    BY <1>2 DEF WaiterReturns, Finish, Draining, TypeOK
  <2> QED BY <1>2, <2>1, SameDrain DEF WaiterReturns, Finish, HeldByDrain, TypeOK
<1>3. ASSUME NEW w \in Writers, Pop(w) PROVE OneDrain' /\ HeldByDrain'
  <2>1. /\ \A v \in Writers : Draining(v)' <=> Draining(v)
        /\ writing' = writing
    BY <1>3 DEF Pop, Draining, TypeOK
  <2>2. Head(queue) \in Frames
    BY <1>3, HeadTailProperties DEF Pop, TypeOK
  <2>3. HeldByDrain'
    BY Zenon, <1>3, <2>2 DEF Pop, HeldByDrain, TypeOK
  <2> QED BY <2>1, <2>3, SameDrain
<1>4. ASSUME NEW w \in Writers, EndDrain(w) PROVE OneDrain' /\ HeldByDrain'
  <2>1. \A v \in Writers : ~Draining(v)'
    BY <1>4 DEF EndDrain, Finish, OneDrain, Draining, TypeOK
  <2>2. ~writing'
    BY <1>4 DEF EndDrain
  <2>3. HeldByDrain'
    BY <1>4 DEF EndDrain, Finish, HeldByDrain, TypeOK
  <2> QED BY <2>1, <2>2, <2>3 DEF OneDrain
<1>5. ASSUME NEW w \in Writers, StartWrite(w) PROVE OneDrain' /\ HeldByDrain'
  <2>1. /\ \A v \in Writers : Draining(v)' <=> Draining(v)
        /\ writing' = writing
    BY <1>5 DEF StartWrite, Draining, TypeOK
  <2>2. HeldByDrain'
    BY Zenon, <1>5 DEF StartWrite, HeldByDrain, TypeOK
  <2> QED BY <2>1, <2>2, SameDrain
<1>6. ASSUME NEW w \in Writers, WriteDone(w) PROVE OneDrain' /\ HeldByDrain'
  <2>1. /\ \A v \in Writers : Draining(v)' <=> Draining(v)
        /\ writing' = writing
    BY <1>6 DEF WriteDone, Draining, TypeOK
  <2>2. HeldByDrain'
    BY <1>6 DEF WriteDone, HeldByDrain, TypeOK
  <2> QED BY <2>1, <2>2, SameDrain
<1>7. ASSUME NEW w \in Writers, WriteFails(w) PROVE OneDrain' /\ HeldByDrain'
  <2>1. \A v \in Writers : ~Draining(v)'
    BY <1>7 DEF WriteFails, OneDrain, Draining, TypeOK
  <2>2. ~writing'
    BY <1>7 DEF WriteFails
  <2>3. HeldByDrain'
    BY <1>7 DEF WriteFails, HeldByDrain, TypeOK
  <2> QED BY <2>1, <2>2, <2>3 DEF OneDrain
<1>8. ASSUME NEW w \in Writers, FailNext(w) PROVE OneDrain' /\ HeldByDrain'
  <2>1. pc' = pc \/ pc' = [pc EXCEPT ![w] = "idle"]
    BY <1>8 DEF FailNext, Finish
  <2>2. pc[w] = "failing" /\ UNCHANGED <<writing, entry>>
    BY <1>8 DEF FailNext
  <2>3. \A v \in Writers : Draining(v)' <=> Draining(v)
    BY <2>1, <2>2 DEF Draining, TypeOK
  <2>4. HeldByDrain'
    BY Zenon, <2>1, <2>2 DEF HeldByDrain, TypeOK
  <2> QED BY <2>2, <2>3, <2>4, SameDrain
<1>9. CASE Close \/ UNCHANGED vars
  <2>1. UNCHANGED <<pc, writing, entry>>
    BY <1>9 DEF Close, vars
  <2> QED BY <2>1 DEF OneDrain, HeldByDrain, Draining
<1> QED BY <1>1, <1>2, <1>3, <1>4, <1>5, <1>6, <1>7, <1>8, <1>9 DEF Next, DrainStep

(* The inductive invariant holds for ever. *)
LEMMA QueueInvAlways == Spec => []QueueInv
<1>1. QueueInv /\ [Next]_vars => QueueInv'
  BY NextTypes, NextOneDrain DEF QueueInv
<1> QED BY <1>1, InitQueueInv, PTL DEF Spec

(* For any number of coroutines on any number of threads, AsyncSocket never has two
   writes pending on its socket, and `writing` says whether it has a drain. *)
THEOREM OneDrainAtATime == Spec => []OneDrain
<1>1. QueueInv => OneDrain
  BY DEF QueueInv
<1> QED BY <1>1, QueueInvAlways, PTL

(* What is handed over is what the drain holds followed by the queue. *)
LEMMA HandedOverIs ==
  ASSUME NEW held \in [Writers -> Seq(Frames)], NEW q,
         NEW w \in Writers, \A v \in Writers : held[v] # <<>> => v = w
  PROVE  HandedOver(held, q) = IF held[w] = <<>> THEN q ELSE held[w] \o q
BY DEF HandedOver

(* Nobody holds a frame: what is handed over is the queue. *)
LEMMA HandedOverQueue ==
  ASSUME NEW held, NEW q, \A v \in Writers : held[v] = <<>>
  PROVE  HandedOver(held, q) = q
BY DEF HandedOver

(* Appending to the queue appends to what is handed over. *)
LEMMA AppendBehind ==
  ASSUME NEW S, NEW s \in Seq(S), NEW q \in Seq(S), NEW f \in S
  PROVE  s \o Append(q, f) = Append(s \o q, f)
<1>1. /\ Append(q, f) \in Seq(S) /\ s \o q \in Seq(S)
      /\ s \o Append(q, f) \in Seq(S) /\ Append(s \o q, f) \in Seq(S)
  OBVIOUS
<1>2. Len(s \o Append(q, f)) = Len(Append(s \o q, f))
  OBVIOUS
<1>3. \A i \in 1..Len(s \o Append(q, f)) : (s \o Append(q, f))[i] = Append(s \o q, f)[i]
  OBVIOUS
<1> QED BY <1>1, <1>2, <1>3, SeqEqual

(* Putting the oldest frame in front of the rest gives the queue back. *)
LEMMA HeadAndTail ==
  ASSUME NEW S, NEW q \in Seq(S), q # <<>>
  PROVE  <<Head(q)>> \o Tail(q) = q
<1>1. Head(q) \in S /\ Tail(q) \in Seq(S) /\ Len(Tail(q)) = Len(q) - 1 /\ Len(q) \in Nat
  BY HeadTailProperties
<1>2. <<Head(q)>> \o Tail(q) \in Seq(S) /\ Len(<<Head(q)>> \o Tail(q)) = Len(q)
  BY <1>1
<1>3. \A i \in 1..Len(q) : (<<Head(q)>> \o Tail(q))[i] = q[i]
  BY <1>1
<1> QED BY <1>2, <1>3, SeqEqual

(* The front of what is handed over is the frame the drain holds. *)
LEMMA FrontOfHandedOver ==
  ASSUME NEW f \in Frames, NEW q \in Seq(Frames), NEW s \in Seq(Frames)
  PROVE  /\ <<f>> \o q # <<>>
         /\ Head(<<f>> \o q) = f
         /\ Tail(<<f>> \o q) = q
         /\ s \o <<f>> = Append(s, f)
<1>1. <<f>> \o q \in Seq(Frames) /\ Len(<<f>> \o q) = Len(q) + 1 /\ Len(q) \in Nat
  OBVIOUS
<1>2. <<f>> \o q # <<>> /\ Head(<<f>> \o q) = f
  BY <1>1
<1>3. Tail(<<f>> \o q) = q
  <2>1. Tail(<<f>> \o q) \in Seq(Frames) /\ Len(Tail(<<f>> \o q)) = Len(q)
    BY <1>1, <1>2
  <2>2. \A i \in 1..Len(q) : Tail(<<f>> \o q)[i] = q[i]
    BY <1>1, <1>2
  <2> QED BY <2>1, <2>2, SeqEqual
<1>4. s \o <<f>> = Append(s, f)
  OBVIOUS
<1> QED BY <1>2, <1>3, <1>4

(* Every step of the queue is a step of the channel or is invisible to it. *)
LEMMA StepImplements ==
  ASSUME QueueInv, QueueInv', [Next]_vars
  PROVE  [Channel!Next]_<<InHand, wire>>
<1> USE DEF QueueInv
<1>1. ASSUME NEW w \in Writers, Enqueue(w) PROVE \E f \in Frames : Channel!HandOver(f)
  <2> DEFINE f == <<w, sends'[w]>>
  <2>1. /\ queue' = Append(queue, f) /\ UNCHANGED <<entry, wire>>
        /\ sends' = [sends EXCEPT ![w] = sends[w] + 1] /\ pc'[w] # "idle"
    BY <1>1 DEF Enqueue, TypeOK
  <2>2. f \in Frames
    BY <2>1 DEF SendingHasFrame, Frames
  <2> HIDE DEF f
  <2>3. CASE \A v \in Writers : entry[v] = <<>>
    <3>1. InHand = queue /\ InHand' = queue'
      BY Zenon, <2>1, <2>3, HandedOverQueue DEF InHand
    <3> QED BY <2>1, <2>2, <3>1 DEF Channel!HandOver
  <2>4. ASSUME NEW v \in Writers, entry[v] # <<>> PROVE \E g \in Frames : Channel!HandOver(g)
    <3>1. \A u \in Writers : entry[u] # <<>> => u = v
      BY <2>4 DEF HeldByDrain, OneDrain, Draining
    <3>2. entry \in [Writers -> Seq(Frames)] /\ entry[v] \in Seq(Frames) /\ queue \in Seq(Frames)
      BY DEF TypeOK
    <3>3. InHand = entry[v] \o queue
      BY Zenon, <2>4, <3>1, <3>2, HandedOverIs DEF InHand
    <3>4. HandedOver(entry, queue') = entry[v] \o queue'
      BY Zenon, <2>4, <3>1, <3>2, HandedOverIs
    <3>5. InHand' = entry[v] \o Append(queue, f)
      BY <2>1, <3>4 DEF InHand
    <3>6. InHand' = Append(InHand, f)
      BY <2>2, <3>2, <3>3, <3>5, AppendBehind
    <3> QED BY <2>1, <2>2, <3>6 DEF Channel!HandOver
  <2> QED BY <2>3, <2>4
<1>2. ASSUME NEW w \in Writers, Pop(w) PROVE UNCHANGED <<InHand, wire>>
  <2>1. /\ entry' = [entry EXCEPT ![w] = <<Head(queue)>>] /\ queue' = Tail(queue)
        /\ queue # <<>> /\ pc[w] = "drain" /\ wire' = wire
    BY <1>2 DEF Pop
  <2>2. \A v \in Writers : entry[v] = <<>>
    BY <2>1 DEF HeldByDrain, OneDrain, Draining
  <2>3. InHand = queue
    BY <2>2, HandedOverQueue DEF InHand
  <2>4. \A v \in Writers : entry'[v] # <<>> => v = w
    BY <2>1, <2>2 DEF TypeOK
  <2>5. entry'[w] = <<Head(queue)>> /\ entry' \in [Writers -> Seq(Frames)]
    BY <2>1 DEF TypeOK
  <2>6. <<Head(queue)>> # <<>>
    OBVIOUS
  <2>7. HandedOver(entry', queue') = <<Head(queue)>> \o queue'
    BY Zenon, <2>4, <2>5, <2>6, HandedOverIs
  <2>8. <<Head(queue)>> \o Tail(queue) = queue
    BY <2>1, HeadAndTail DEF TypeOK
  <2> QED BY Zenon, <2>1, <2>3, <2>7, <2>8 DEF InHand
<1>3. ASSUME NEW w \in Writers, WriteDone(w) PROVE Channel!Transmit
  <2>1. /\ pc[w] = "write" /\ wire' = wire \o entry[w] /\ queue' = queue
        /\ entry' = [entry EXCEPT ![w] = <<>>]
    BY <1>3 DEF WriteDone
  <2>2. PICK f \in Frames : entry[w] = <<f>>
    BY <2>1 DEF HeldByDrain
  <2>3. \A v \in Writers : entry[v] # <<>> => v = w
    BY <2>1 DEF HeldByDrain, OneDrain, Draining
  <2>4. InHand = <<f>> \o queue
    <3>1. <<f>> # <<>> /\ entry \in [Writers -> Seq(Frames)]
      BY DEF TypeOK
    <3> QED BY Zenon, <2>2, <2>3, <3>1, HandedOverIs DEF InHand
  <2>5. InHand' = queue
    <3>1. \A v \in Writers : entry'[v] = <<>>
      BY <2>1, <2>3 DEF TypeOK
    <3> QED BY Zenon, <2>1, <3>1, HandedOverQueue DEF InHand
  <2>6. queue \in Seq(Frames) /\ wire \in Seq(Frames)
    BY DEF TypeOK
  <2>7. /\ InHand # <<>> /\ Head(InHand) = f /\ Tail(InHand) = queue
        /\ wire' = Append(wire, f)
    BY <2>1, <2>2, <2>4, <2>6, FrontOfHandedOver
  <2> QED BY <2>5, <2>7 DEF Channel!Transmit
<1>4. ASSUME NEW w \in Writers, WriteFails(w) PROVE Channel!Lose
  <2>1. /\ pc[w] = "write" /\ wire' = wire /\ queue' = <<>>
        /\ entry' = [entry EXCEPT ![w] = <<>>]
    BY <1>4 DEF WriteFails
  <2>2. \A v \in Writers : entry[v] # <<>> => v = w
    BY <2>1 DEF HeldByDrain, OneDrain, Draining
  <2>3. \A v \in Writers : entry'[v] = <<>>
    BY <2>1, <2>2 DEF TypeOK
  <2>4. InHand' = <<>>
    BY Zenon, <2>1, <2>3, HandedOverQueue DEF InHand
  <2> QED BY <2>1, <2>4 DEF Channel!Lose
<1>5. ASSUME UNCHANGED <<entry, queue, wire>> PROVE UNCHANGED <<InHand, wire>>
  BY <1>5 DEF InHand
<1>6. ASSUME NEW w \in Writers,
             WaiterReturns(w) \/ EndDrain(w) \/ StartWrite(w) \/ FailNext(w)
      PROVE  UNCHANGED <<entry, queue, wire>>
  BY <1>6 DEF WaiterReturns, EndDrain, StartWrite, FailNext
<1>7. CASE Close \/ UNCHANGED vars
  BY <1>5, <1>7 DEF Close, vars
<1> QED BY <1>1, <1>2, <1>3, <1>4, <1>5, <1>6, <1>7 DEF Next, DrainStep, Channel!Next

(* For any number of coroutines, threads and failures, AsyncSocket is a FIFO channel
   of whole frames to all its callers together. *)
THEOREM QueueIsChannel == Spec => ImplementsChannel
<1>1. Init => Channel!Init
  <2> SUFFICES ASSUME Init PROVE Channel!Init
    OBVIOUS
  <2>1. \A w \in Writers : entry[w] = <<>>
    BY DEF Init
  <2>2. InHand = queue
    BY <2>1, HandedOverQueue DEF InHand
  <2> QED BY <2>2 DEF Init, Channel!Init
<1> QED BY <1>1, StepImplements, QueueInvAlways, PTL DEF Spec, ImplementsChannel, Channel!Spec
(* On a connection that works the cipher is ahead of the socket by the frame being
   written, and by nothing when none is. *)
CipherAhead ==
  open => /\ \A w \in Writers : pc[w] = "write" => keystream = wire \o entry[w]
          /\ (\A w \in Writers : pc[w] # "write") => keystream = wire

(* Every step keeps the cipher at most one frame ahead: a frame is encrypted by the
   drain that writes it, and the next one only when its write is done. *)
LEMMA NextCipher ==
  ASSUME QueueInv, CipherAhead, [Next]_vars
  PROVE  CipherAhead'
<1> USE DEF QueueInv
<1>1. ASSUME NEW w \in Writers, StartWrite(w) PROVE CipherAhead'
  <2>1. /\ pc[w] = "popped" /\ keystream' = keystream \o entry[w]
        /\ pc' = [pc EXCEPT ![w] = "write"] /\ UNCHANGED <<entry, wire, open>>
    BY <1>1 DEF StartWrite
  <2>2. \A v \in Writers : pc[v] # "write"
    BY <2>1 DEF OneDrain, Draining
  <2>3. open => keystream = wire
    BY <2>2 DEF CipherAhead
  <2>4. \A v \in Writers : pc'[v] = "write" <=> v = w
    BY <2>1, <2>2 DEF TypeOK
  <2> QED BY Zenon, <2>1, <2>3, <2>4 DEF CipherAhead
<1>2. ASSUME NEW w \in Writers, WriteDone(w) PROVE CipherAhead'
  <2>1. /\ pc[w] = "write" /\ open /\ wire' = wire \o entry[w]
        /\ pc' = [pc EXCEPT ![w] = "drain"] /\ UNCHANGED <<keystream, open>>
    BY <1>2 DEF WriteDone
  <2>2. \A v \in Writers : pc'[v] # "write"
    BY <2>1 DEF OneDrain, Draining, TypeOK
  <2>3. keystream = wire \o entry[w]
    BY <2>1 DEF CipherAhead
  <2> QED BY Zenon, <2>1, <2>2, <2>3 DEF CipherAhead
<1>3. ASSUME NEW w \in Writers, WriteFails(w) PROVE CipherAhead'
  BY <1>3 DEF WriteFails, CipherAhead
<1>4. ASSUME NEW w \in Writers,
             Enqueue(w) \/ WaiterReturns(w) \/ Pop(w) \/ EndDrain(w) \/ FailNext(w)
      PROVE  CipherAhead'
  <2>1. /\ UNCHANGED <<keystream, wire, open>>
        /\ \A v \in Writers : v # w => entry'[v] = entry[v] /\ pc'[v] = pc[v]
        /\ pc[w] # "write" /\ pc'[w] # "write"
    BY Zenon, <1>4 DEF Enqueue, WaiterReturns, Pop, EndDrain, FailNext, Finish, TypeOK
  <2> QED BY Zenon, <2>1 DEF CipherAhead
<1>5. CASE Close
  BY <1>5 DEF Close, CipherAhead
<1>6. CASE UNCHANGED vars
  BY <1>6 DEF vars, CipherAhead
<1> QED BY <1>1, <1>2, <1>3, <1>4, <1>5, <1>6 DEF Next, DrainStep

(* The frame the cipher is ahead by is the oldest one handed over. *)
LEMMA CipherIsOrdered ==
  ASSUME QueueInv, CipherAhead
  PROVE  KeystreamFollowsWire
<1> USE DEF QueueInv
<1>1. CASE \A w \in Writers : pc[w] # "write"
  <2>1. wire \o <<>> = wire
    BY DEF TypeOK
  <2> QED BY Zenon, <1>1, <2>1 DEF CipherAhead, KeystreamFollowsWire
<1>2. ASSUME NEW w \in Writers, pc[w] = "write" PROVE KeystreamFollowsWire
  <2>1. PICK f \in Frames : entry[w] = <<f>>
    BY <1>2 DEF HeldByDrain
  <2>2. \A v \in Writers : entry[v] # <<>> => v = w
    BY <1>2 DEF HeldByDrain, OneDrain, Draining
  <2>3. /\ <<f>> # <<>> /\ queue \in Seq(Frames)
        /\ entry \in [Writers -> Seq(Frames)]
    BY DEF TypeOK
  <2>4. InHand = <<f>> \o queue
    BY Zenon, <2>1, <2>2, <2>3, HandedOverIs DEF InHand
  <2>5. InHand[1] = f
    BY <2>3, <2>4
  <2> QED BY Zenon, <1>2, <2>1, <2>5 DEF CipherAhead, KeystreamFollowsWire
<1> QED BY <1>1, <1>2

(* For any number of coroutines, threads and failures, the RC4 keystream is applied
   to whole frames in the order the peer receives them while the connection works. *)
THEOREM KeystreamIsInOrder == Spec => []KeystreamFollowsWire
<1>1. Init => CipherAhead
  BY DEF Init, CipherAhead
<1>2. QueueInv /\ CipherAhead /\ [Next]_vars => CipherAhead'
  BY NextCipher
<1>3. QueueInv /\ CipherAhead => KeystreamFollowsWire
  BY CipherIsOrdered
<1> QED BY <1>1, <1>2, <1>3, QueueInvAlways, PTL DEF Spec

-----------------------------------------------------------------------------
(* The lookups of the DHT node. *)
CONSTANTS Nodes, Me, Peers, ALPHA, Count, Kind, MaxAnswer
VARIABLES table, look_pc, round, result, nodes_to_query, queried_nodes, inflight, found,
          discovered, peers, asked, learned, token, announced, shuting_down

Look == INSTANCE DhtLookup WITH pc <- look_pc

Below(S, n) == {m \in S : m < n}

(* A set of distances has a least one. *)
LEMMA LeastDistance ==
  ASSUME NEW S \in SUBSET Nat, S # {}
  PROVE  \E x \in S : \A y \in S : x <= y
<1>1. PICK x \in S : \A y \in S : ~(<<y, x>> \in OpToRel(<, Nat))
  BY Zenon, WFMin, NatLessThanWellFounded
<1>2. \A y \in S : ~(y < x)
  BY Zenon, <1>1 DEF OpToRel
<1> QED BY <1>2

(* Only finitely many nodes are nearer than a given one. *)
LEMMA BelowFinite ==
  ASSUME NEW S \in SUBSET Nat, NEW n \in Nat
  PROVE  IsFiniteSet(Below(S, n)) /\ Cardinality(Below(S, n)) \in Nat
<1>1. IsFiniteSet(Below(S, n))
  <2>1. \A m \in Below(S, n) : m \in Nat /\ m < n
    BY Zenon DEF Below
  <2>2. Below(S, n) \in SUBSET Nat /\ \A m \in Below(S, n) : m <= n
    BY <2>1
  <2> QED BY <2>2, FS_BoundedSetOfNaturals
<1> QED BY <1>1, FS_CardinalityType

(* Nearest, in terms of the nodes below a node. *)
LEMMA NearestIs ==
  ASSUME NEW S, NEW k
  PROVE  Look!Nearest(S, k) = {n \in S : Cardinality(Below(S, n)) < k}
<1>1. \A T : Look!Cardinality(T) = Cardinality(T)
  BY DEF Cardinality, Look!Cardinality
<1> QED BY <1>1 DEF Look!Nearest, Below

(* Fewer nodes of a smaller set are below a node. *)
LEMMA BelowMonotone ==
  ASSUME NEW S \in SUBSET Nat, NEW T \in SUBSET S, NEW n \in Nat
  PROVE  Cardinality(Below(T, n)) <= Cardinality(Below(S, n))
<1>1. Below(T, n) \in SUBSET Below(S, n)
  BY Zenon DEF Below
<1> QED BY <1>1, BelowFinite, FS_Subset

(* The k nearest nodes are at most k. *)
LEMMA NearestSize ==
  ASSUME NEW S \in SUBSET Nat, NEW k \in Nat
  PROVE  /\ IsFiniteSet(Look!Nearest(S, k))
         /\ Cardinality(Look!Nearest(S, k)) <= k
<1> DEFINE N == {n \in S : Cardinality(Below(S, n)) < k}
           rank == [n \in N |-> Cardinality(Below(S, n))]
<1>1. \A n \in N : n \in Nat /\ rank[n] \in 0..(k - 1)
  BY BelowFinite
<1>2. ASSUME NEW m \in N, NEW n \in N, m < n PROVE rank[m] # rank[n]
  <2>1. Below(S, m) \in SUBSET Below(S, n)
    <3>1. \A x \in Below(S, m) : x \in Nat /\ x < m
      BY Zenon DEF Below
    <3>2. \A x \in Below(S, m) : x < n
      BY <1>1, <1>2, <3>1
    <3> QED BY Zenon, <3>2 DEF Below
  <2>2. m \in Below(S, n) /\ m \notin Below(S, m)
    BY <1>1, <1>2 DEF Below
  <2>3. IsFiniteSet(Below(S, n))
    BY <1>1, BelowFinite
  <2>4. Cardinality(Below(S, n)) # Cardinality(Below(S, m))
    BY <2>1, <2>2, <2>3, FS_Subset
  <2> QED BY <2>4
<1>3. rank \in Injection(N, 0..(k - 1))
  <2>1. rank \in [N -> 0..(k - 1)]
    BY Zenon, <1>1
  <2>2. \A m, n \in N : rank[m] = rank[n] => m = n
    <3> HIDE DEF rank
    <3> TAKE m, n \in N
    <3>1. m \in Nat /\ n \in Nat
      BY <1>1
    <3> QED BY <1>2, <3>1
  <2> HIDE DEF rank, N
  <2> QED BY <2>1, <2>2 DEF Injection, IsInjective
<1>4. IsFiniteSet(0..(k - 1)) /\ Cardinality(0..(k - 1)) = k
  BY FS_Interval
<1>5. IsFiniteSet(N) /\ Cardinality(N) <= k
  <2> HIDE DEF rank, N
  <2> QED BY <1>3, <1>4, FS_Injection
<1> QED BY Zenon, <1>5, NearestIs

(* What was cut off by an earlier choice of the k nearest does not come back. *)
LEMMA NearestOfNearest ==
  ASSUME NEW A \in SUBSET Nat, NEW B \in SUBSET Nat, NEW k \in Nat
  PROVE  Look!Nearest(Look!Nearest(A, k) \cup B, k) = Look!Nearest(A \cup B, k)
<1> DEFINE R == {n \in A : Cardinality(Below(A, n)) < k}
           U == R \cup B
           V == A \cup B
<1>1. U \in SUBSET V /\ V \in SUBSET Nat /\ A \in SUBSET V
  OBVIOUS
<1>2. ASSUME NEW n \in V, Cardinality(Below(V, n)) < k
      PROVE  n \in U /\ Cardinality(Below(U, n)) < k
  <2>1. Cardinality(Below(A, n)) <= Cardinality(Below(V, n))
    BY <1>1, BelowMonotone
  <2>2. Cardinality(Below(A, n)) < k
    BY <1>1, <1>2, <2>1, BelowFinite
  <2>3. n \in U
    BY <1>2, <2>2
  <2>4. Cardinality(Below(U, n)) <= Cardinality(Below(V, n))
    <3> HIDE DEF U, V
    <3> QED BY <1>1, BelowMonotone
  <2> QED
    <3> HIDE DEF U, V
    <3> QED BY <1>1, <1>2, <2>3, <2>4, BelowFinite
<1>3. ASSUME NEW n \in U, Cardinality(Below(U, n)) < k
      PROVE  Cardinality(Below(V, n)) < k
  <2>1. ASSUME NEW a \in A \ R, a < n PROVE FALSE
    <3>1. PICK b \in A \ R : \A y \in A \ R : b <= y
      BY Zenon, <2>1, LeastDistance
    <3>2. b \in Nat /\ a \in Nat /\ n \in Nat /\ b < n
      BY <1>1, <2>1, <3>1
    <3>3. Below(A, b) \in SUBSET Below(U, n)
      <4>1. \A m \in A : m < b => m \in R
        BY <3>1, <3>2
      <4>2. \A m \in Below(A, b) : m \in A /\ m \in Nat /\ m < b
        BY Zenon DEF Below
      <4>3. \A m \in Below(A, b) : m \in U /\ m < n
        BY <3>2, <4>1, <4>2
      <4> HIDE DEF U
      <4> QED BY Zenon, <4>3 DEF Below
    <3>4. Cardinality(Below(A, b)) <= Cardinality(Below(U, n))
      <4>1. IsFiniteSet(Below(U, n))
        <5> HIDE DEF U, V
        <5> QED BY <1>1, <3>2, BelowFinite
      <4> QED BY <3>3, <4>1, FS_Subset
    <3>5. ~(Cardinality(Below(A, b)) < k) /\ Cardinality(Below(A, b)) \in Nat
      BY <3>1, <3>2, BelowFinite
    <3>6. Cardinality(Below(U, n)) \in Nat
      <4> HIDE DEF U, V
      <4> QED BY <1>1, <3>2, BelowFinite
    <3> QED BY <1>3, <3>4, <3>5, <3>6
  <2>2. Below(V, n) = Below(U, n)
    BY Zenon, <2>1 DEF Below
  <2> QED BY <1>3, <2>2
<1>4. {n \in U : Cardinality(Below(U, n)) < k} = {n \in V : Cardinality(Below(V, n)) < k}
  <2> HIDE DEF U, V
  <2> QED BY Zenon, <1>1, <1>2, <1>3
<1>5. Look!Nearest(A, k) = R
  BY NearestIs
<1> QED BY Zenon, <1>4, <1>5, NearestIs

(* Every result of find_nodes is the nearest of what was learned, also between rounds. *)
NearestInv ==
  /\ table \in [Nodes -> {"absent", "Good", "Bad"}]
  /\ learned \subseteq Nodes /\ found \subseteq Nodes
  /\ Kind = "find_nodes" => result = Look!Nearest(learned, Count)

(* For any nodes and any answers in any order, find_nodes returns the nearest of all the
   nodes it was announced of, though it keeps only Count of them from round to round. *)
THEOREM LookupsReturnNearest ==
  ASSUME Look!LookupAssumption
  PROVE  Look!Spec => []Look!ResultIsNearest
<1> USE DEF Look!LookupAssumption
<1>0. Nodes \in SUBSET Nat
  OBVIOUS
<1>1. Look!Init => NearestInv
  <2>1. Look!Nearest({}, Count) = {}
    BY DEF Look!Nearest
  <2> QED BY <2>1 DEF Look!Init, NearestInv
<1>2. ASSUME NearestInv, [Look!Next]_(Look!vars) PROVE NearestInv'
  <2>1. ASSUME UNCHANGED <<learned, result>>, found' \subseteq Nodes,
               table' \in [Nodes -> {"absent", "Good", "Bad"}]
        PROVE  NearestInv'
    BY <1>2, <2>1 DEF NearestInv
  <2>2. CASE Look!StartFind
    <3> DEFINE T == Look!Table
               usable == {n \in Look!Nearest(T, Count) : table[n] # "Bad"}
    <3>1. result' = usable /\ learned' = usable /\ UNCHANGED <<table, found>>
      BY Zenon, <2>2 DEF Look!StartFind
    <3>2. T \in SUBSET Nat /\ T \subseteq Nodes
      BY Zenon, <1>0 DEF Look!Table
    <3> HIDE DEF T
    <3>3. usable \in SUBSET T
      BY Zenon, NearestIs
    <3>4. \A n \in usable : Cardinality(Below(usable, n)) < Count
      <4> TAKE n \in usable
      <4>1. n \in Nat /\ Cardinality(Below(T, n)) < Count
        BY Zenon, <3>2, <3>3, NearestIs
      <4> HIDE DEF usable
      <4>2. usable \in SUBSET Nat
        BY <3>2, <3>3
      <4>3. Cardinality(Below(usable, n)) <= Cardinality(Below(T, n))
        BY Zenon, <3>2, <3>3, <4>1, BelowMonotone
      <4> QED BY <3>2, <4>1, <4>2, <4>3, BelowFinite
    <3>5. Look!Nearest(usable, Count) = usable
      <4> HIDE DEF usable
      <4> QED BY Zenon, <3>4, NearestIs
    <3> HIDE DEF usable
    <3> QED BY Zenon, <1>2, <3>1, <3>2, <3>3, <3>5 DEF NearestInv
  <2>3. CASE Look!EndFind
    <3>1. /\ result' = Look!Nearest(result \cup found, Count) /\ learned' = learned \cup found
          /\ UNCHANGED <<table, found>> /\ Kind = "find_nodes"
      BY Zenon, <2>3 DEF Look!EndFind, Look!Merge
    <3>2. learned \in SUBSET Nat /\ found \in SUBSET Nat
      BY <1>0, <1>2 DEF NearestInv
    <3>3. Look!Nearest(result \cup found, Count) = Look!Nearest(learned \cup found, Count)
      <4>1. result = Look!Nearest(learned, Count)
        BY Zenon, <1>2, <3>1 DEF NearestInv
      <4>2. Count \in Nat
        OBVIOUS
      <4>3. Look!Nearest(Look!Nearest(learned, Count) \cup found, Count)
              = Look!Nearest(learned \cup found, Count)
        BY Zenon, <3>2, <4>2, NearestOfNearest
      <4> QED BY Zenon, <4>1, <4>3
    <3> QED BY Zenon, <1>2, <3>1, <3>3 DEF NearestInv
  <2>4. CASE Look!Refused \/ Look!Finish \/ Look!Stop
    BY Zenon, <1>2, <2>1, <2>4 DEF Look!Refused, Look!Finish, Look!Stop, Look!lookup, NearestInv
  <2>5. CASE Look!RoundFind \/ Look!RoundGet
    BY Zenon, <1>2, <2>1, <2>5 DEF Look!RoundFind, Look!RoundGet, Look!lookup, NearestInv
  <2>6. CASE Look!StartGet \/ Look!EndGet \/ Look!StartAnnounce \/ Look!AskToken
    BY Zenon, <1>2, <2>1, <2>6 DEF Look!StartGet, Look!EndGet, Look!StartAnnounce, Look!AskToken,
                            NearestInv
  <2>7. ASSUME NEW n \in Nodes, Look!Reply(n) PROVE NearestInv'
    BY Zenon, <1>2, <2>1, <2>7 DEF Look!Reply, Look!lookup, Look!Answers, NearestInv
  <2>8. ASSUME NEW n \in Nodes, Look!NoReply(n) PROVE NearestInv'
    BY <1>2, <2>1, <2>8 DEF Look!NoReply, Look!lookup, NearestInv
  <2>9. ASSUME NEW n \in Nodes, Look!GotToken(n) \/ Look!Announce(n) PROVE NearestInv'
    BY Zenon, <1>2, <2>1, <2>9 DEF Look!GotToken, Look!Announce, Look!lookup, NearestInv
  <2>10. CASE UNCHANGED Look!vars
    BY <1>2, <2>1, <2>10 DEF Look!vars, NearestInv
  <2> QED BY Zenon, <1>2, <2>2, <2>3, <2>4, <2>5, <2>6, <2>7, <2>8, <2>9, <2>10 DEF Look!Next
<1>3. NearestInv => Look!ResultIsNearest
  BY DEF NearestInv, Look!ResultIsNearest
<1> QED BY <1>1, <1>2, <1>3, PTL DEF Look!Spec

(* The nodes that were asked, and the rounds that have begun. *)
AskedNodes == {n \in Nodes : asked[n] > 0}
Begun == IF look_pc = "wait" THEN round + 1 ELSE round

AskTypes ==
  /\ table \in [Nodes -> {"absent", "Good", "Bad"}]
  /\ asked \in [Nodes -> {0, 1}]
  /\ inflight \subseteq Nodes /\ nodes_to_query \subseteq Nodes /\ found \subseteq Nodes

(* This node is in no list it asks from. *)
NotMe ==
  /\ table[Me] = "absent" /\ asked[Me] = 0 /\ Me \notin inflight
  /\ Kind = "announce_peer" => Me \notin nodes_to_query
  /\ Kind = "find_nodes" => Me \notin found /\ (look_pc = "round" => Me \notin nodes_to_query)

(* A node that was asked counts as queried, and is not on the list of the next round. *)
AskInv ==
  /\ AskTypes /\ NotMe
  /\ look_pc \in {"token", "announce"} => Kind = "announce_peer"
  /\ look_pc = "idle" => queried_nodes = {} /\ \A n \in Nodes : asked[n] = 0
  /\ Kind # "announce_peer" => \A n \in Nodes : asked[n] > 0 => n \in queried_nodes
  /\ Kind = "find_nodes" /\ look_pc = "round" =>
       \A n \in nodes_to_query : asked[n] = 0 /\ n \in queried_nodes
  /\ Kind = "announce_peer" => \A n \in nodes_to_query : asked[n] = 0

(* No round asks more than ALPHA nodes. *)
BudgetInv ==
  /\ round \in 0..3 /\ (look_pc = "wait" => round < 3)
  /\ Kind = "find_nodes" /\ look_pc = "round" =>
       IsFiniteSet(nodes_to_query) /\ Cardinality(nodes_to_query) <= ALPHA
  /\ Kind # "announce_peer" =>
       IsFiniteSet(AskedNodes) /\ Cardinality(AskedNodes) <= ALPHA * Begun

(* Asking nodes that were not asked before. *)
LEMMA AskOnce ==
  ASSUME asked \in [Nodes -> {0, 1}], NEW S \in SUBSET Nodes, \A n \in S : asked[n] = 0,
         Look!Ask(S)
  PROVE  /\ asked' \in [Nodes -> {0, 1}]
         /\ \A n \in Nodes : asked'[n] > 0 <=> (asked[n] > 0 \/ n \in S)
BY DEF Look!Ask

(* A choice of the nearest is a part of what it is chosen from. *)
LEMMA NearestPart == ASSUME NEW S, NEW k PROVE Look!Nearest(S, k) \subseteq S
BY DEF Look!Nearest

(* Each step keeps who is asked: per action, the node lists it sets. *)
LEMMA AskStep ==
  ASSUME Look!LookupAssumption, AskInv, [Look!Next]_(Look!vars)
  PROVE  AskInv'
<1> USE DEF AskInv, AskTypes, NotMe
<1>0. Me \in Nodes /\ Nodes \in SUBSET Nat
  BY DEF Look!LookupAssumption
<1>1. CASE Look!Refused \/ Look!Finish \/ Look!Stop
  BY Zenon, <1>1 DEF Look!Refused, Look!Finish, Look!Stop, Look!lookup
<1>2. CASE Look!StartFind
  <2> DEFINE usable == {n \in Look!Nearest(Look!Table, Count) : table[n] # "Bad"}
  <2>1. /\ look_pc = "idle" /\ Kind = "find_nodes" /\ look_pc' = "round"
        /\ nodes_to_query' = Look!Nearest(usable, ALPHA) /\ queried_nodes' = nodes_to_query'
        /\ UNCHANGED <<table, asked, inflight, found>>
    BY Zenon, <1>2 DEF Look!StartFind
  <2>2. nodes_to_query' \subseteq Nodes /\ Me \notin nodes_to_query'
    <3>1. nodes_to_query' \subseteq Look!Table
      BY Zenon, <2>1, NearestPart
    <3> QED BY Zenon, <3>1 DEF Look!Table
  <2> HIDE DEF usable
  <2>3. \A n \in Nodes : asked[n] = 0
    BY <2>1
  <2> QED BY <1>0, <2>1, <2>2, <2>3
<1>3. CASE Look!RoundFind
  <2>1. /\ Look!Ask(nodes_to_query) /\ inflight' = nodes_to_query /\ found' = {}
        /\ look_pc = "round" /\ look_pc' = "wait" /\ Kind = "find_nodes"
        /\ UNCHANGED <<table, nodes_to_query, queried_nodes>>
    BY Zenon, <1>3 DEF Look!RoundFind, Look!lookup
  <2>2. /\ asked' \in [Nodes -> {0, 1}]
        /\ \A n \in Nodes : asked'[n] > 0 <=> (asked[n] > 0 \/ n \in nodes_to_query)
    BY <2>1, AskOnce
  <2>3. asked'[Me] = 0
    BY <1>0, <2>1, <2>2
  <2> QED BY <2>1, <2>2, <2>3
<1>4. CASE Look!EndFind
  <2>1. /\ Kind = "find_nodes" /\ look_pc' = "round"
        /\ nodes_to_query' = Look!Nearest(found \ queried_nodes, ALPHA)
        /\ queried_nodes' = queried_nodes \cup found
        /\ UNCHANGED <<table, asked, inflight, found>>
    BY Zenon, <1>4 DEF Look!EndFind, Look!MarkQueried
  <2>2. nodes_to_query' \subseteq found \ queried_nodes
    BY Zenon, <2>1, NearestPart
  <2>3. \A n \in nodes_to_query' : asked[n] = 0 /\ n \in queried_nodes'
    BY <2>1, <2>2
  <2> QED BY Zenon, <2>1, <2>2, <2>3
<1>5. CASE Look!StartGet
  <2>1. /\ Kind = "get_peers" /\ look_pc' \in {"done", "round"}
        /\ nodes_to_query' = Look!Nearest(Look!Table, Count)
        /\ UNCHANGED <<table, asked, inflight, found, queried_nodes>>
    BY Zenon, <1>5 DEF Look!StartGet
  <2>2. nodes_to_query' \subseteq Nodes
    BY Zenon, <2>1, NearestPart DEF Look!Table
  <2> QED BY <2>1, <2>2
<1>6. CASE Look!RoundGet
  <2> DEFINE new == {n \in Look!Nearest(nodes_to_query, ALPHA) : n # Me /\ n \notin queried_nodes}
  <2>1. /\ Kind = "get_peers" /\ look_pc' = "wait" /\ Look!Ask(new) /\ inflight' = new
        /\ queried_nodes' = queried_nodes \cup new /\ found' = {}
        /\ UNCHANGED <<table, nodes_to_query>>
    BY Zenon, <1>6 DEF Look!RoundGet
  <2>2. new \in SUBSET Nodes /\ Me \notin new /\ \A n \in new : n \notin queried_nodes
    BY Zenon, NearestPart
  <2> HIDE DEF new
  <2>3. \A n \in new : asked[n] = 0
    BY <2>1, <2>2
  <2>4. /\ asked' \in [Nodes -> {0, 1}]
        /\ \A n \in Nodes : asked'[n] > 0 <=> (asked[n] > 0 \/ n \in new)
    BY <2>1, <2>2, <2>3, AskOnce
  <2>5. asked'[Me] = 0
    BY <1>0, <2>2, <2>4
  <2> QED BY <2>1, <2>2, <2>4, <2>5
<1>7. CASE Look!EndGet
  <2>1. /\ Kind = "get_peers" /\ look_pc' \in {"done", "round"}
        /\ nodes_to_query' = Look!Nearest(found \ queried_nodes, ALPHA)
        /\ UNCHANGED <<table, asked, inflight, found, queried_nodes>>
    BY Zenon, <1>7 DEF Look!EndGet
  <2>2. nodes_to_query' \subseteq Nodes
    BY Zenon, <2>1, NearestPart
  <2> QED BY <2>1, <2>2
<1>8. CASE Look!StartAnnounce
  <2>1. /\ Kind = "announce_peer" /\ look_pc = "idle" /\ look_pc' = "round"
        /\ nodes_to_query' \subseteq Look!Nearest(Look!Table, Count)
        /\ UNCHANGED <<table, asked, inflight, found, queried_nodes>>
    BY Zenon, <1>8 DEF Look!StartAnnounce
  <2>2. nodes_to_query' \subseteq Nodes /\ Me \notin nodes_to_query'
    BY Zenon, <2>1, NearestPart DEF Look!Table
  <2>3. \A n \in nodes_to_query' : asked[n] = 0
    BY <2>1, <2>2
  <2> QED BY <2>1, <2>2, <2>3
<1>9. CASE Look!AskToken
  <2>1. /\ Kind = "announce_peer" /\ look_pc = "round" /\ look_pc' \in {"done", "token"}
        /\ UNCHANGED <<table, found, queried_nodes>>
    BY Zenon, <1>9 DEF Look!AskToken
  <2>2. CASE UNCHANGED <<nodes_to_query, inflight, asked>>
    BY Zenon, <2>1, <2>2
  <2>3. CASE nodes_to_query # {} /\ ~(UNCHANGED <<nodes_to_query, inflight, asked>>)
    <3> DEFINE n == Look!Min(nodes_to_query)
    <3>1. nodes_to_query' = nodes_to_query \ {n} /\ inflight' = {n} /\ Look!Ask({n})
      BY Zenon, <1>9, <2>3 DEF Look!AskToken
    <3>2. n \in nodes_to_query
      <4>1. \E x \in nodes_to_query : \A y \in nodes_to_query : x <= y
        BY <1>0, <2>3, LeastDistance
      <4> QED BY Zenon, <4>1 DEF Look!Min
    <3> HIDE DEF n
    <3>3. /\ asked' \in [Nodes -> {0, 1}]
          /\ \A m \in Nodes : asked'[m] > 0 <=> (asked[m] > 0 \/ m \in {n})
      BY <2>1, <3>1, <3>2, AskOnce
    <3>4. asked'[Me] = 0 /\ Me # n
      BY <1>0, <2>1, <3>2, <3>3
    <3>5. \A m \in nodes_to_query' : asked'[m] = 0
      BY <2>1, <3>1, <3>3
    <3> QED BY Zenon, <2>1, <3>1, <3>2, <3>3, <3>4, <3>5
  <2>4. nodes_to_query = {} => UNCHANGED <<nodes_to_query, inflight, asked>>
    BY Zenon, <1>9 DEF Look!AskToken
  <2> QED BY Zenon, <2>2, <2>3, <2>4
<1>10. ASSUME NEW n \in Nodes, Look!Reply(n) PROVE AskInv'
  <2>1. /\ look_pc = "wait" /\ n \in inflight /\ inflight' = inflight \ {n}
        /\ table' = [table EXCEPT ![n] = "Good"]
        /\ UNCHANGED <<look_pc, asked, nodes_to_query, queried_nodes>>
    BY <1>10 DEF Look!Reply, Look!lookup
  <2>2. found' \subseteq Nodes /\ (Kind = "find_nodes" => Me \notin found')
    BY <1>10 DEF Look!Reply, Look!Answers
  <2> QED BY <1>0, <2>1, <2>2
<1>11. ASSUME NEW n \in Nodes, Look!NoReply(n) PROVE AskInv'
  BY <1>0, <1>11 DEF Look!NoReply, Look!lookup
<1>12. ASSUME NEW n \in Nodes, Look!GotToken(n) PROVE AskInv'
  <2>1. /\ look_pc = "token" /\ inflight = {n} /\ inflight' \subseteq inflight
        /\ \E st \in {"Good", "Bad"} : table' = [table EXCEPT ![n] = st]
        /\ look_pc' \in {"round", "announce"}
        /\ UNCHANGED <<found, asked, nodes_to_query, queried_nodes>>
    BY Zenon, <1>12 DEF Look!GotToken, Look!lookup
  <2> QED BY <1>0, <2>1
<1>13. ASSUME NEW n \in Nodes, Look!Announce(n) PROVE AskInv'
  BY <1>0, <1>13 DEF Look!Announce, Look!lookup
<1>14. CASE UNCHANGED Look!vars
  BY <1>14 DEF Look!vars
<1> QED
  BY Zenon, <1>1, <1>2, <1>3, <1>4, <1>5, <1>6, <1>7, <1>8, <1>9, <1>10, <1>11, <1>12, <1>13,
     <1>14 DEF Look!Next

(* A round that asks at most ALPHA nodes keeps the budget. *)
LEMMA RoundBudget ==
  ASSUME ALPHA \in Nat, AskInv, BudgetInv, Kind # "announce_peer", look_pc = "round", round # 3,
         look_pc' = "wait", round' = round,
         NEW S \in SUBSET Nodes, IsFiniteSet(S), Cardinality(S) <= ALPHA,
         \A n \in S : asked[n] = 0, Look!Ask(S)
  PROVE  BudgetInv'
<1>1. /\ round \in 0..2
      /\ IsFiniteSet(AskedNodes) /\ Cardinality(AskedNodes) <= ALPHA * round
  BY DEF BudgetInv, Begun
<1>2. AskedNodes' = AskedNodes \cup S
  <2>1. \A n \in Nodes : asked'[n] > 0 <=> (asked[n] > 0 \/ n \in S)
    BY AskOnce DEF AskInv, AskTypes
  <2> QED BY Zenon, <2>1 DEF AskedNodes
<1>3. /\ IsFiniteSet(AskedNodes \cup S)
      /\ Cardinality(AskedNodes \cup S) <= Cardinality(AskedNodes) + Cardinality(S)
  <2>1. IsFiniteSet(AskedNodes \cap S)
    BY <1>1, FS_Subset
  <2>2. Cardinality(AskedNodes \cap S) \in Nat /\ Cardinality(AskedNodes) \in Nat
        /\ Cardinality(S) \in Nat
    BY <1>1, <2>1, FS_CardinalityType
  <2>3. /\ IsFiniteSet(AskedNodes \cup S)
        /\ Cardinality(AskedNodes \cup S)
             = Cardinality(AskedNodes) + Cardinality(S) - Cardinality(AskedNodes \cap S)
    BY Zenon, <1>1, FS_Union
  <2> QED BY <2>2, <2>3
<1>4. Begun' = round + 1 /\ ALPHA * (round + 1) = ALPHA * round + ALPHA
  BY <1>1 DEF Begun
<1>5. Cardinality(AskedNodes') <= ALPHA * Begun'
  <2>1. /\ Cardinality(AskedNodes \cup S) \in Nat /\ Cardinality(AskedNodes) \in Nat
        /\ Cardinality(S) \in Nat /\ ALPHA * round \in Nat
    BY <1>1, <1>3, FS_CardinalityType
  <2> QED BY <1>1, <1>2, <1>3, <1>4, <2>1
<1> QED BY <1>1, <1>2, <1>3, <1>5 DEF BudgetInv

(* Each step keeps the budget: only the rounds of a lookup spend it. *)
LEMMA BudgetStep ==
  ASSUME Look!LookupAssumption, AskInv, BudgetInv, [Look!Next]_(Look!vars)
  PROVE  BudgetInv'
<1>0. Nodes \in SUBSET Nat /\ ALPHA \in Nat
  BY DEF Look!LookupAssumption
<1>1. ASSUME UNCHANGED <<asked, round>>, look_pc # "wait", look_pc' # "wait",
             Kind = "find_nodes" /\ look_pc' = "round" =>
               IsFiniteSet(nodes_to_query') /\ Cardinality(nodes_to_query') <= ALPHA
      PROVE  BudgetInv'
  BY <1>1 DEF BudgetInv, Begun, AskedNodes
<1>2. ASSUME UNCHANGED <<asked, round, look_pc, nodes_to_query>> PROVE BudgetInv'
  BY <1>2 DEF BudgetInv, Begun, AskedNodes
<1>3. ASSUME look_pc = "wait", look_pc' \in {"round", "done"}, round' = round + 1,
             UNCHANGED asked,
             Kind = "find_nodes" =>
               IsFiniteSet(nodes_to_query') /\ Cardinality(nodes_to_query') <= ALPHA
      PROVE  BudgetInv'
  BY <1>3 DEF BudgetInv, Begun, AskedNodes
<1>4. CASE Look!Refused \/ Look!Finish
  BY <1>1, <1>4 DEF Look!Refused, Look!Finish
<1>5. CASE Look!Stop
  BY <1>2, <1>5 DEF Look!Stop, Look!lookup
<1>6. CASE Look!StartFind
  <2> DEFINE usable == {n \in Look!Nearest(Look!Table, Count) : table[n] # "Bad"}
  <2>1. /\ look_pc = "idle" /\ look_pc' = "round"
        /\ nodes_to_query' = Look!Nearest(usable, ALPHA)
        /\ UNCHANGED <<asked, round>>
    BY Zenon, <1>6 DEF Look!StartFind
  <2>2. usable \in SUBSET Nat
    BY Zenon, <1>0, NearestPart DEF Look!Table
  <2> HIDE DEF usable
  <2>3. IsFiniteSet(nodes_to_query') /\ Cardinality(nodes_to_query') <= ALPHA
    BY Zenon, <1>0, <2>1, <2>2, NearestSize
  <2> QED BY <1>1, <2>1, <2>3
<1>7. CASE Look!RoundFind
  <2>1. /\ Look!Ask(nodes_to_query) /\ look_pc = "round" /\ look_pc' = "wait"
        /\ Kind = "find_nodes" /\ round' = round /\ round # 3
    BY Zenon, <1>7 DEF Look!RoundFind, Look!Over, Look!LastRound
  <2>2. /\ nodes_to_query \in SUBSET Nodes /\ \A n \in nodes_to_query : asked[n] = 0
        /\ IsFiniteSet(nodes_to_query) /\ Cardinality(nodes_to_query) <= ALPHA
    BY <2>1 DEF AskInv, AskTypes, BudgetInv
  <2> QED BY <1>0, <2>1, <2>2, RoundBudget
<1>8. CASE Look!RoundGet
  <2> DEFINE new == {n \in Look!Nearest(nodes_to_query, ALPHA) : n # Me /\ n \notin queried_nodes}
  <2>1. /\ Look!Ask(new) /\ look_pc = "round" /\ look_pc' = "wait"
        /\ Kind = "get_peers" /\ round' = round /\ round # 3
    BY Zenon, <1>8 DEF Look!RoundGet, Look!Over, Look!LastRound
  <2>2. nodes_to_query \in SUBSET Nat /\ nodes_to_query \in SUBSET Nodes
    BY <1>0 DEF AskInv, AskTypes
  <2>3. /\ IsFiniteSet(Look!Nearest(nodes_to_query, ALPHA))
        /\ Cardinality(Look!Nearest(nodes_to_query, ALPHA)) <= ALPHA
    BY Zenon, <1>0, <2>2, NearestSize
  <2>4. new \in SUBSET Look!Nearest(nodes_to_query, ALPHA) /\ new \in SUBSET Nodes
        /\ \A n \in new : n \notin queried_nodes
    BY Zenon, <2>2, NearestPart
  <2> HIDE DEF new
  <2>5. IsFiniteSet(new) /\ Cardinality(new) <= ALPHA
    <3>1. /\ IsFiniteSet(new)
          /\ Cardinality(new) <= Cardinality(Look!Nearest(nodes_to_query, ALPHA))
      BY Zenon, <2>3, <2>4, FS_Subset
    <3>2. /\ Cardinality(new) \in Nat
          /\ Cardinality(Look!Nearest(nodes_to_query, ALPHA)) \in Nat
      BY Zenon, <2>3, <3>1, FS_CardinalityType
    <3> QED BY <1>0, <2>3, <3>1, <3>2
  <2>6. \A n \in new : asked[n] = 0
    BY <2>1, <2>4 DEF AskInv, AskTypes
  <2> QED BY <1>0, <2>1, <2>4, <2>5, <2>6, RoundBudget
<1>9. CASE Look!EndFind
  <2>1. /\ look_pc = "wait" /\ look_pc' = "round" /\ round' = round + 1 /\ UNCHANGED asked
        /\ nodes_to_query' = Look!Nearest(found \ queried_nodes, ALPHA)
    BY Zenon, <1>9 DEF Look!EndFind
  <2>2. found \ queried_nodes \in SUBSET Nat
    BY Zenon, <1>0 DEF AskInv, AskTypes
  <2>3. IsFiniteSet(nodes_to_query') /\ Cardinality(nodes_to_query') <= ALPHA
    BY Zenon, <1>0, <2>1, <2>2, NearestSize
  <2> QED BY <1>3, <2>1, <2>3
<1>10. CASE Look!EndGet
  <2>1. /\ look_pc = "wait" /\ look_pc' \in {"round", "done"} /\ round' = round + 1
        /\ UNCHANGED asked /\ Kind = "get_peers"
    BY Zenon, <1>10 DEF Look!EndGet
  <2> QED BY <1>3, <2>1
<1>11. CASE Look!StartGet
  <2>1. /\ look_pc = "idle" /\ look_pc' \in {"round", "done"} /\ UNCHANGED <<asked, round>>
        /\ Kind = "get_peers"
    BY Zenon, <1>11 DEF Look!StartGet
  <2> QED BY <1>1, <2>1
<1>12. ASSUME Kind = "announce_peer", UNCHANGED round, look_pc' # "wait" PROVE BudgetInv'
  BY <1>12 DEF BudgetInv
<1>13. CASE Look!StartAnnounce \/ Look!AskToken
  BY <1>12, <1>13 DEF Look!StartAnnounce, Look!AskToken
<1>14. ASSUME NEW n \in Nodes, Look!Reply(n) \/ Look!NoReply(n) PROVE BudgetInv'
  BY <1>2, <1>14 DEF Look!Reply, Look!NoReply, Look!lookup
<1>15. ASSUME NEW n \in Nodes, Look!GotToken(n) \/ Look!Announce(n) PROVE BudgetInv'
  BY <1>12, <1>15 DEF Look!GotToken, Look!Announce, AskInv
<1>16. CASE UNCHANGED Look!vars
  BY <1>2, <1>16 DEF Look!vars
<1> QED
  BY Zenon, <1>4, <1>5, <1>6, <1>7, <1>8, <1>9, <1>10, <1>11, <1>13, <1>14, <1>15, <1>16
     DEF Look!Next

(* For any nodes and any answers in any order, a lookup or an announce asks no node twice
   and never itself, and a lookup asks at most three times ALPHA nodes. *)
THEOREM NodesAreAskedOnce ==
  ASSUME Look!LookupAssumption
  PROVE  Look!Spec => []Look!AskedOnce
<1>1. Look!Init => AskInv /\ BudgetInv
  <2> SUFFICES ASSUME Look!Init PROVE AskInv /\ BudgetInv
    OBVIOUS
  <2>1. AskInv
    BY DEF Look!LookupAssumption, Look!Init, AskInv, AskTypes, NotMe
  <2>2. AskedNodes = {}
    BY DEF Look!Init, AskedNodes
  <2>3. IsFiniteSet(AskedNodes) /\ Cardinality(AskedNodes) = 0
    BY <2>2, FS_EmptySet
  <2>4. ALPHA \in Nat /\ round = 0 /\ look_pc = "idle"
    BY DEF Look!LookupAssumption, Look!Init
  <2>5. BudgetInv
    BY <2>3, <2>4 DEF BudgetInv, Begun
  <2> QED BY <2>1, <2>5
<1>2. AskInv /\ BudgetInv /\ [Look!Next]_(Look!vars) => AskInv' /\ BudgetInv'
  BY Zenon, AskStep, BudgetStep
<1>3. AskInv /\ BudgetInv => Look!AskedOnce
  <2> SUFFICES ASSUME AskInv, BudgetInv PROVE Look!AskedOnce
    OBVIOUS
  <2>1. \A n \in Nodes : asked[n] <= 1
    BY DEF AskInv, AskTypes
  <2>2. asked[Me] = 0
    BY DEF AskInv, NotMe
  <2>3. ASSUME Kind # "announce_peer" PROVE Cardinality(AskedNodes) <= 3 * ALPHA
    <3>1. /\ Cardinality(AskedNodes) <= ALPHA * Begun /\ Begun \in 0..3
          /\ Cardinality(AskedNodes) \in Nat /\ ALPHA \in Nat
      BY <2>3, FS_CardinalityType DEF BudgetInv, Begun, Look!LookupAssumption
    <3>2. ALPHA * Begun <= 3 * ALPHA /\ ALPHA * Begun \in Nat
      BY <3>1
    <3> QED BY <3>1, <3>2
  <2>4. Look!Cardinality(AskedNodes) = Cardinality(AskedNodes)
    BY DEF Cardinality, Look!Cardinality
  <2> QED BY <2>1, <2>2, <2>3, <2>4 DEF Look!AskedOnce, AskedNodes
<1> QED BY <1>1, <1>2, <1>3, PTL DEF Look!Spec
=============================================================================
