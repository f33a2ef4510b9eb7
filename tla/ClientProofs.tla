---------------------------- MODULE ClientProofs ----------------------------
(***************************************************************************)
(* A client and the services it calls.  Callers of await_tokens never wait *)
(* without a refill to come, nor after stop, for any waiters, amounts and  *)
(* rates (RateLimiter).  A query of DHTNode is completed once, and         *)
(* pending_queries_ holds nothing of a caller that has gone on, for any    *)
(* queries and transaction ids (DhtQueries).  What a tracker's answer      *)
(* means (UdpAnnounce), which events it is sent (TrackerLoop), and whom    *)
(* the tracker lists (TrackerServer).                                      *)
(***************************************************************************)
EXTENDS RateLimiter, SequenceTheorems, TLAPS

(* The types the argument needs. *)
Types ==
  /\ rate \in Nat /\ queue \in Seq(Waiters)
  /\ gap \in Nat /\ cancels \in Nat

(* A refill is to come. *)
Coming == armed \/ gap > 0

(* The inductive invariant.  A cancellation is only pending when there is no limit or the
   limiter is stopped, and then nobody waits and refill_active is down; a raised
   refill_active means a refill is to come. *)
RefillInv ==
  /\ Types
  /\ cancels > 0 => rate = 0 \/ down
  /\ rate = 0 \/ down => queue = <<>> /\ ~active
  /\ active => Coming
  /\ queue # <<>> => Coming

(* Serving the front of the queue leaves a queue, and the empty one empty. *)
LEMMA CollectQueue ==
  ASSUME Types, NEW t, Collect(t)
  PROVE  queue' \in Seq(Waiters) /\ (queue = <<>> => queue' = <<>>)
<1>1. PICK n \in 0..Len(queue) : queue' = SubSeq(queue, n + 1, Len(queue))
  BY DEF Collect
<1>2. n \in Nat
  BY <1>1, LenProperties DEF Types
<1>3. queue \in Seq(Waiters) /\ Len(queue) \in Nat
  BY LenProperties DEF Types
<1>4. \A i \in (n + 1)..Len(queue) : queue[i] \in Waiters
  BY <1>2, <1>3, ElementOfSeq
<1>5. queue' \in Seq(Waiters)
  BY <1>1, <1>2, <1>3, <1>4, SubSeqProperties
<1>6. ASSUME queue = <<>> PROVE queue' = <<>>
  <2>1. Len(queue) = 0
    BY <1>6
  <2>2. Len(queue') = 0
    BY <1>1, <1>2, <1>3, <2>1, SubSeqProperties
  <2> QED BY <1>5, <2>2, EmptySeq
<1> QED BY <1>5, <1>6

(* The invariant holds at first, and every step preserves it. *)
LEMMA RefillInvHolds == Spec => []RefillInv
<1>1. Init => RefillInv
  <2>1. StartRate \in Nat
    BY LimiterAssumption DEF LimiterAssumption
  <2>2. <<>> \in Seq(Waiters)
    OBVIOUS
  <2> QED BY <2>1, <2>2 DEF Init, RefillInv, Types, Coming
<1>2. RefillInv /\ [Next]_vars => RefillInv'
  <2> SUFFICES ASSUME RefillInv, [Next]_vars PROVE RefillInv'
    OBVIOUS
  <2> USE DEF RefillInv, Types, Coming
  <2>1. ASSUME NEW w \in Waiters, Await(w) PROVE RefillInv'
    <3>1. CASE down
      BY <2>1, <3>1 DEF Await
    <3>2. CASE ~down
      <4>1. MaybeStartRefill(rate) /\ UNCHANGED <<rate, down, cancels, gap>>
        BY <2>1, <3>2 DEF Await
      <4>2. CASE rate = 0
        BY <2>1, <3>2, <4>1, <4>2 DEF Await, MaybeStartRefill
      <4>3. CASE rate # 0
        <5>1. active' /\ Coming'
          BY <4>1, <4>3 DEF MaybeStartRefill, Schedule
        <5>2. queue' = queue \/ queue' = Append(queue, w)
          BY <2>1, <3>2 DEF Await
        <5>3. queue' \in Seq(Waiters)
          <6>1. w \in Waiters /\ queue \in Seq(Waiters)
            BY <2>1
          <6>2. Append(queue, w) \in Seq(Waiters)
            BY <6>1
          <6> QED BY <5>2, <6>1, <6>2
        <5> QED BY <3>2, <4>1, <4>3, <5>1, <5>3
      <4> QED BY <4>2, <4>3
    <3> QED BY <3>1, <3>2
  <2>2. ASSUME SetUnlimited PROVE RefillInv'
    BY <2>2 DEF SetUnlimited
  <2>3. ASSUME NEW r \in Rates, SetRate(r) PROVE RefillInv'
    <3>1. r \in Nat /\ r # 0 /\ rate' = r /\ ~down /\ cancels = 0
      BY <2>3, LimiterAssumption DEF SetRate, LimiterAssumption
    <3>2. active' /\ Coming'
      BY <2>3, <3>1 DEF SetRate, MaybeStartRefill, Schedule
    <3>3. queue' \in Seq(Waiters)
      BY <2>3, CollectQueue DEF SetRate
    <3> QED BY <2>3, <3>1, <3>2, <3>3 DEF SetRate
  <2>4. ASSUME Stop PROVE RefillInv'
    BY <2>4 DEF Stop
  <2>5. ASSUME CancelTimer PROVE RefillInv'
    BY <2>5 DEF CancelTimer
  <2>6. ASSUME Refill PROVE RefillInv'
    <3>1. CASE down
      BY <2>6, <3>1 DEF Refill
    <3>2. CASE ~down
      <4>1. queue' \in Seq(Waiters) /\ (queue = <<>> => queue' = <<>>)
        BY <2>6, <3>2, CollectQueue DEF Refill
      <4> QED BY <2>6, <3>2, <4>1 DEF Refill
    <3> QED BY <3>1, <3>2
  <2>7. ASSUME Rearm PROVE RefillInv'
    BY <2>7 DEF Rearm, Schedule
  <2>8. ASSUME OnAborted PROVE RefillInv'
    BY <2>8 DEF OnAborted
  <2>9. CASE UNCHANGED vars
    BY <2>9 DEF vars
  <2> QED BY <2>1, <2>2, <2>3, <2>4, <2>5, <2>6, <2>7, <2>8, <2>9 DEF Next, Timer
<1> QED BY <1>1, <1>2, PTL DEF Spec

(* While someone waits for tokens, on_refill is due or about to arm its timer, for any
   waiters, amounts and rates and any order of await_tokens, set_rate and on_refill. *)
THEOREM NobodyWaitsWithoutRefill == Spec => []WaitersHaveRefill
<1>1. RefillInv => WaitersHaveRefill
  BY DEF RefillInv, WaitersHaveRefill, Coming
<1> QED BY <1>1, RefillInvHolds, PTL

(* stop completes every waiter and lets nobody wait after it. *)
THEOREM NobodyWaitsAfterStop == Spec => []StoppedQueueEmpty
<1>1. RefillInv => StoppedQueueEmpty
  BY DEF RefillInv, StoppedQueueEmpty
<1> QED BY <1>1, RefillInvHolds, PTL
-----------------------------------------------------------------------------
(* The pending queries of DHTNode. *)

CONSTANTS Queries, Tids

VARIABLES pc, kind, tid, pending, completed, op, timer, first, cancelled, expiry, sent, calls,
          handled, bad, closing

Dht == INSTANCE DhtQueries WITH down <- closing

(* The types the argument needs. *)
QueryTypes ==
  /\ pc \in [Queries -> {"idle", "starting", "wait", "done"}]
  /\ tid \in [Queries -> Tids \cup {Dht!None}]
  /\ pending \in [Tids -> Queries \cup {Dht!None}]
  /\ DOMAIN completed = Queries /\ DOMAIN timer = Queries
  /\ handled \in [Queries -> Nat]
  /\ \A c \in calls : c.query \in Queries

(* A handler that has run has set its flag; a query in the map waits, and *)
(* is there under its own id. *)
QueryInv ==
  /\ QueryTypes
  /\ \A q \in Queries : handled[q] <= 1 /\ (~completed[q] => handled[q] = 0)
  /\ \A t \in Tids : pending[t] # Dht!None => pc[pending[t]] = "wait" /\ tid[pending[t]] = t
  /\ \A q \in Queries : (q \in sent \/ timer[q] = "armed" \/ timer[q] = "fired") => tid[q] \in Tids

(* What a call of the completion does to the handler's count, whether it  *)
(* wins or not. *)
LEMMA CompletionKeeps ==
  ASSUME QueryInv, NEW q \in Queries, NEW ec, Dht!Completion(q, ec)
  PROVE  /\ DOMAIN completed' = Queries /\ handled' \in [Queries -> Nat]
         /\ \A r \in Queries : handled'[r] <= 1 /\ (~completed'[r] => handled'[r] = 0)
<1>1. CASE completed[q]
  BY <1>1 DEF QueryInv, QueryTypes, Dht!Completion
<1>2. CASE ~completed[q]
  <2>1. /\ completed' = [completed EXCEPT ![q] = TRUE]
        /\ handled' = [handled EXCEPT ![q] = handled[q] + 1]
    BY <1>2 DEF Dht!Completion
  <2>2. DOMAIN completed' = Queries /\ handled' \in [Queries -> Nat]
    BY <2>1 DEF QueryInv, QueryTypes
  <2>3. handled'[q] = 1 /\ completed'[q]
    BY <1>2, <2>1 DEF QueryInv, QueryTypes
  <2>4. \A r \in Queries : r # q => handled'[r] = handled[r] /\ completed'[r] = completed[r]
    BY <2>1 DEF QueryInv, QueryTypes
  <2> QED BY <2>2, <2>3, <2>4 DEF QueryInv
<1> QED BY <1>1, <1>2

(* A query taken out of the map to be completed is one of Queries, and the *)
(* rest of the map stays. *)
LEMMA ExtractKeeps ==
  ASSUME QueryInv, NEW t, NEW by, NEW ec, Dht!Extract(t, by, ec)
  PROVE  /\ pending' \in [Tids -> Queries \cup {Dht!None}]
         /\ \A u \in Tids : pending'[u] # Dht!None => pending'[u] = pending[u]
         /\ t \in Tids => \A c \in calls' : c.query \in Queries
<1>1. pending' = [pending EXCEPT ![t] = Dht!None]
  BY DEF Dht!Extract
<1>2. /\ pending' \in [Tids -> Queries \cup {Dht!None}]
      /\ \A u \in Tids : pending'[u] # Dht!None => pending'[u] = pending[u]
  BY Zenon, <1>1 DEF QueryInv, QueryTypes
<1>3. ASSUME t \in Tids, NEW c \in calls' PROVE c.query \in Queries
  BY <1>3 DEF Dht!Extract, QueryInv, QueryTypes
<1> QED BY <1>2, <1>3

(* The invariant holds at first and is kept by every step. *)
LEMMA QueryInvHolds ==
  ASSUME Dht!QueriesAssumption
  PROVE  Dht!Spec => []QueryInv
<1>1. Dht!Init => QueryInv
  BY DEF Dht!Init, QueryInv, QueryTypes, Dht!None
<1>2. QueryInv /\ [Dht!Next]_(Dht!vars) => QueryInv'
  <2> SUFFICES ASSUME QueryInv, [Dht!Next]_(Dht!vars) PROVE QueryInv'
    OBVIOUS
  <2>1. ASSUME NEW q \in Queries, NEW k \in Dht!Kinds, Dht!Begin(q, k) PROVE QueryInv'
    BY <2>1 DEF Dht!Begin, QueryInv, QueryTypes
  <2>2. ASSUME NEW q \in Queries, NEW t \in Tids, Dht!Register(q, t) PROVE QueryInv'
    <3>1. /\ pc' = [pc EXCEPT ![q] = "wait"] /\ tid' = [tid EXCEPT ![q] = t]
          /\ pending' = [pending EXCEPT ![t] = q] /\ pc[q] = "starting"
          /\ UNCHANGED <<completed, handled, calls>>
          /\ timer' = [timer EXCEPT ![q] = "armed"] /\ sent' = sent \cup {q}
      BY <2>2 DEF Dht!Register
    <3>2. QueryTypes'
      BY <3>1 DEF QueryInv, QueryTypes
    <3>3. \A u \in Tids : pending'[u] # Dht!None =>
                             pc'[pending'[u]] = "wait" /\ tid'[pending'[u]] = u
      BY <3>1 DEF QueryInv, QueryTypes
    <3>4. \A r \in Queries : (r \in sent' \/ timer'[r] = "armed" \/ timer'[r] = "fired")
                                => tid'[r] \in Tids
      BY <3>1 DEF QueryInv, QueryTypes
    <3> QED BY <3>1, <3>2, <3>3, <3>4 DEF QueryInv
  <2>3. ASSUME NEW q \in Queries, NEW ec, Dht!Receive(q, ec)  PROVE QueryInv'
    <3>1. Dht!Extract(tid[q], "listener", ec) /\ UNCHANGED <<pc, tid, completed, handled>>
      BY <2>3 DEF Dht!Receive
    <3>2. tid[q] \in Tids
      BY <2>3 DEF Dht!Receive, QueryInv
    <3>3. UNCHANGED <<sent, timer>>
      BY <2>3 DEF Dht!Receive
    <3> QED BY <3>1, <3>2, <3>3, ExtractKeeps DEF QueryInv, QueryTypes
  <2>4. ASSUME NEW q \in Queries, Dht!Expire(q) PROVE QueryInv'
    <3>1. Dht!Completion(q, "timed_out") /\ UNCHANGED <<pc, tid, pending, calls, sent, timer>>
      BY <2>4 DEF Dht!Expire
    <3> QED BY <3>1, CompletionKeeps DEF QueryInv, QueryTypes
  <2>5. ASSUME NEW q \in Queries, Dht!FireTimer(q) \/ Dht!CancelTimer(q) PROVE QueryInv'
    BY <2>5 DEF Dht!FireTimer, Dht!CancelTimer, QueryInv, QueryTypes
  <2>6. ASSUME NEW q \in Queries, Dht!CancelQuery(q)  PROVE QueryInv'
    <3>1. Dht!Extract(tid[q], q, "aborted") /\ UNCHANGED <<pc, tid, completed, handled>>
      BY <2>6 DEF Dht!CancelQuery
    <3>2. tid[q] \in Tids
      BY <2>6 DEF Dht!CancelQuery, QueryInv
    <3>3. UNCHANGED <<sent, timer>>
      BY <2>6 DEF Dht!CancelQuery
    <3> QED BY <3>1, <3>2, <3>3, ExtractKeeps DEF QueryInv, QueryTypes
  <2>7. ASSUME NEW q \in Queries, Dht!Resume(q) PROVE QueryInv'
    <3>1. /\ pc' = [pc EXCEPT ![q] = "done"] /\ pending' = [pending EXCEPT ![tid[q]] = Dht!None]
          /\ UNCHANGED <<tid, completed, handled, calls, sent, timer>>
      BY <2>7 DEF Dht!Resume, Dht!EraseOwn
    <3>2. QueryTypes'
      BY Zenon, <3>1 DEF QueryInv, QueryTypes
    <3>3. \A u \in Tids : pending'[u] # Dht!None =>
                             pc'[pending'[u]] = "wait" /\ tid'[pending'[u]] = u
      BY <3>1 DEF QueryInv, QueryTypes
    <3> QED BY <3>1, <3>2, <3>3 DEF QueryInv
  <2>8. ASSUME NEW c \in calls, Dht!Complete(c) PROVE QueryInv'
    <3>1. /\ Dht!Completion(c.query, c.ec) /\ calls' = calls \ {c}
          /\ UNCHANGED <<pc, tid, pending, sent, timer>>
      BY <2>8 DEF Dht!Complete
    <3>2. c.query \in Queries
      BY DEF QueryInv, QueryTypes
    <3> QED BY <3>1, <3>2, CompletionKeeps DEF QueryInv, QueryTypes
  <2>9. CASE Dht!Stop
    BY <2>9 DEF Dht!Stop, QueryInv, QueryTypes
  <2>10. CASE Dht!Sweep
    <3>1. /\ pending' = [t \in Tids |-> Dht!None]
          /\ UNCHANGED <<pc, tid, completed, handled, sent, timer>>
          /\ \A c \in calls' : c \in calls \/ c.query \in Queries
      BY <2>10 DEF Dht!Sweep, QueryInv, QueryTypes
    <3> QED BY <3>1 DEF QueryInv, QueryTypes
  <2>11. CASE Dht!Cleanup
    <3>1. /\ UNCHANGED <<pc, tid, completed, handled, sent, timer>>
          /\ pending' \in [Tids -> Queries \cup {Dht!None}]
          /\ \A t \in Tids : pending'[t] # Dht!None => pending'[t] = pending[t]
          /\ \A c \in calls' : c \in calls \/ c.query \in Queries
      BY <2>11 DEF Dht!Cleanup, QueryInv, QueryTypes
    <3> QED BY <3>1 DEF QueryInv, QueryTypes
  <2>12. CASE UNCHANGED Dht!vars
    BY <2>12 DEF Dht!vars, QueryInv, QueryTypes
  <2> QED
    BY <2>1, <2>2, <2>3, <2>4, <2>5, <2>6, <2>7, <2>8, <2>9, <2>10, <2>11, <2>12
    DEF Dht!Next, Dht!Steps, Dht!async_ping, Dht!async_find_nodes, Dht!async_get_peers,
        Dht!async_announce_peer, Dht!handle_response, Dht!handle_error
<1> QED BY <1>1, <1>2, PTL DEF Dht!Spec

(* The completion of a pending query is invoked at most once, for        *)
(* any queries, ids and order of replies, timers and stop(). *)
THEOREM CompletionRunsOnce ==
  ASSUME Dht!QueriesAssumption
  PROVE  Dht!Spec => []Dht!HandledOnce
<1>1. QueryInv => Dht!HandledOnce
  BY DEF QueryInv, Dht!HandledOnce
<1> QED BY <1>1, QueryInvHolds, PTL

(* pending_queries_ holds only queries whose callers wait for them, for   *)
(* any queries and ids. *)
THEOREM MapHoldsOnlyWaiting ==
  ASSUME Dht!QueriesAssumption
  PROVE  Dht!Spec => []Dht!NothingLeftOver
<1>1. QueryInv => Dht!NothingLeftOver
  BY DEF QueryInv, Dht!NothingLeftOver
<1> QED BY <1>1, QueryInvHolds, PTL
-----------------------------------------------------------------------------
CONSTANTS ConnectTries, AnnounceTries, Calls, MaxIds, MaxHeld
VARIABLES call, udp_pc, udp_n, udp_tid, resolved, connection_id, id_expired, udp_cancelled,
          abort, net, server_id, server_expired, ids, buffer, held, peers

Udp == INSTANCE UdpAnnounce WITH pc <- udp_pc, n <- udp_n, tid <- udp_tid,
                                 cancelled <- udp_cancelled

(* An answer to an announce is only sent by a tracker that has listed the client. *)
ListedInv ==
  /\ (\E m \in net : m.to = "client" /\ m.kind = "announce") => "client" \in peers
  /\ Udp!SuccessMeansListed

(* For any tries and bounds, and datagrams lost, repeated, delayed and reordered at will, an
   announce that returns a result has put the client on the tracker's list. *)
THEOREM AnnouncesAreListed == Udp!Spec => []Udp!SuccessMeansListed
<1>1. Udp!Init => ListedInv
  BY DEF Udp!Init, ListedInv, Udp!SuccessMeansListed
<1>2. ASSUME ListedInv, [Udp!Next]_(Udp!vars) PROVE ListedInv'
  <2> USE DEF Udp!client, Udp!cancelling, Udp!server
  <2>1. ASSUME UNCHANGED <<net, peers>>, udp_pc' = "done" => "client" \in peers PROVE ListedInv'
    BY <1>2, <2>1 DEF ListedInv, Udp!SuccessMeansListed
  <2>2. ASSUME "client" \in peers' PROVE ListedInv'
    BY <2>2 DEF ListedInv, Udp!SuccessMeansListed
  <2>3. ASSUME NEW q \in {"connect", "announce"}, Udp!Send(q) PROVE ListedInv'
    <3>1. /\ UNCHANGED peers /\ udp_pc' # "done"
          /\ net' = net \/ net' = net \cup {Udp!Request(q, udp_tid + 1, connection_id)}
      BY <2>3 DEF Udp!Send, Udp!Waiting
    <3> QED BY <1>2, <3>1 DEF ListedInv, Udp!SuccessMeansListed, Udp!Request
  <2>4. ASSUME NEW q \in {"connect", "announce"}, NEW m \in net, Udp!Receive(q, m)
        PROVE  ListedInv'
    <3>1. udp_pc' = "done" => m.to = "client" /\ m.kind = "announce"
      BY <2>4 DEF Udp!Receive, Udp!Accepts
    <3> QED BY <1>2, <2>1, <2>4, <3>1 DEF Udp!Receive, ListedInv
  <2>5. ASSUME NEW q \in {"connect", "announce"}, Udp!Timeout(q) \/ Udp!Abort(q)
        PROVE  ListedInv'
    BY <2>1, <2>5 DEF Udp!Timeout, Udp!Abort
  <2>6. CASE Udp!announce \/ Udp!ensure_resolved \/ Udp!start
    BY <2>1, <2>6 DEF Udp!announce, Udp!ensure_resolved, Udp!start
  <2>7. ASSUME NEW m \in net, Udp!HandleConnect(m) PROVE ListedInv'
    <3>1. /\ net' = net \cup {Udp!Response("connect", m.tid, ids + 1)}
          /\ UNCHANGED <<peers, udp_pc>>
      BY <2>7 DEF Udp!HandleConnect
    <3> QED BY <1>2, <3>1 DEF ListedInv, Udp!SuccessMeansListed, Udp!Response
  <2>8. ASSUME NEW m \in net, Udp!HandleAnnounce(m) PROVE ListedInv'
    <3>1. CASE peers' = {"client"}
      BY <2>2, <3>1
    <3>2. CASE UNCHANGED <<net, peers, udp_pc>>
      BY <1>2, <2>1, <3>2 DEF ListedInv, Udp!SuccessMeansListed
    <3> QED BY <2>8, <3>1, <3>2 DEF Udp!HandleAnnounce
  <2>9. CASE Udp!ResumeAnnounce
    BY <2>2, <2>9 DEF Udp!ResumeAnnounce
  <2>10. ASSUME UNCHANGED <<net, peers, udp_pc>> PROVE ListedInv'
    BY <1>2, <2>1, <2>10 DEF ListedInv, Udp!SuccessMeansListed
  <2>11. CASE Udp!OtherDatagram \/ Udp!ServerIdExpires \/ Udp!ClientIdExpires \/ Udp!cancel
    BY <2>10, <2>11 DEF Udp!OtherDatagram, Udp!ServerIdExpires, Udp!ClientIdExpires, Udp!cancel
  <2>12. CASE UNCHANGED Udp!vars
    BY <2>10, <2>12 DEF Udp!vars
  <2> QED BY <1>2, <2>3, <2>4, <2>5, <2>6, <2>7, <2>8, <2>9, <2>11, <2>12
          DEF Udp!Next, Udp!ClientNext, Udp!ServerNext, Udp!Loop
<1>3. ListedInv => Udp!SuccessMeansListed
  BY DEF ListedInv
<1> QED BY <1>1, <1>2, <1>3, PTL DEF Udp!Spec
-----------------------------------------------------------------------------
CONSTANTS Trackers, First, Swarm, Intervals, DefaultInterval, MaxPeerless, Modes, IoThreads,
          MaxCycles
VARIABLES loop_pc, event, completed_event_sent, cycle, announced, mode, complete,
          tracker_clients, child, outcomes, peers_dedup, connects, tracker_announce_interval,
          peerless_announces, wait, loop_timer, stop

Cycle == INSTANCE TrackerLoop WITH Peers <- Swarm, pc <- loop_pc, sent <- announced,
                                   timer <- loop_timer

(* The announce of a cycle in which nothing happened. *)
Nothing == ""

(* How often an event was announced. *)
Times(e) == announced[e]

(* completed_event_sent_ is up once "completed" was announced. *)
Remembered == ~completed_event_sent => Times("completed") = 0

(* Before a cycle the event is the first one, not announced yet, or none. *)
EventInv ==
  /\ announced \in [{"started", "completed"} -> Nat]
  /\ loop_pc = "top" => event = Nothing \/ (event = "started" /\ Times(event) = 0)
  /\ loop_pc \in {"arming", "waiting"} => event = Nothing
  /\ \A e \in {"started", "completed"} : announced[e] <= 1
  /\ Remembered

(* For any trackers, intervals, modes and threads, however often the loop is woken, fails or
   is told of a new tracker, it announces "started" and "completed" at most once each. *)
THEOREM EventsAreSentOnce == Cycle!Spec => []Cycle!EventsOnce
<1>1. Cycle!Init => EventInv
  <2> SUFFICES ASSUME Cycle!Init PROVE EventInv
    OBVIOUS
  <2>1. Remembered
    BY Zenon DEF Cycle!Init, Remembered, Times
  <2> QED BY <2>1 DEF Cycle!Init, EventInv, Times
<1>2. ASSUME EventInv, [Cycle!Next]_(Cycle!vars) PROVE EventInv'
  <2> USE DEF Cycle!loop, Cycle!fanout, Cycle!waits
  <2>1. ASSUME UNCHANGED <<announced, completed_event_sent, event>>,
               loop_pc' \in {loop_pc, "ended"} \/ event = Nothing
        PROVE  EventInv'
    BY Zenon, <1>2, <2>1 DEF EventInv, Remembered, Times
  <2>2. CASE Cycle!Announce
    <3>1. /\ loop_pc = "top" /\ loop_pc' = "announcing"
          /\ event' = Cycle!NextEvent
          /\ completed_event_sent' = (completed_event_sent \/ Cycle!NextEvent = "completed")
          /\ announced' = [e \in DOMAIN announced |->
                             announced[e] + (IF e = Cycle!NextEvent THEN 1 ELSE 0)]
      BY <2>2 DEF Cycle!Announce
    <3>2. /\ announced' \in [{"started", "completed"} -> Nat]
          /\ \A e \in {"started", "completed"} :
               announced'[e] = announced[e] + (IF e = Cycle!NextEvent THEN 1 ELSE 0)
      BY <1>2, <3>1 DEF EventInv
    <3>3. Cycle!NextEvent = "completed" => Times("completed") = 0
      BY Zenon, <1>2, <3>1 DEF Cycle!NextEvent, EventInv, Remembered, Nothing
    <3>4. Cycle!NextEvent = "started" => Times("started") = 0
      BY Zenon, <1>2, <3>1 DEF Cycle!NextEvent, EventInv, Nothing
    <3>5. \A e \in {"started", "completed"} : announced'[e] <= 1
      BY <1>2, <3>2, <3>3, <3>4 DEF EventInv, Times
    <3>6. Cycle!NextEvent # "completed" => Times("completed")' = Times("completed")
      BY <1>2, <3>2 DEF EventInv, Times
    <3>7. Remembered'
      BY Zenon, <1>2, <3>1, <3>6 DEF EventInv, Remembered
    <3> QED BY <3>1, <3>2, <3>5, <3>7 DEF EventInv
  <2>3. CASE Cycle!AllOver
    BY Zenon, <1>2, <2>3 DEF Cycle!AllOver, Cycle!NoEvent, EventInv, Nothing, Times, Remembered
  <2>4. CASE Cycle!Arm
    BY <1>2, <2>1, <2>4 DEF Cycle!Arm, EventInv
  <2>5. CASE Cycle!Wake
    BY <1>2, <2>1, <2>5 DEF Cycle!Wake, EventInv
  <2>6. CASE Cycle!EndLeech \/ Cycle!Expire \/ Cycle!Complete
    BY <2>1, <2>6 DEF Cycle!EndLeech, Cycle!Expire, Cycle!Complete
  <2>7. ASSUME NEW t \in Trackers, Cycle!StartOne(t) \/ Cycle!OneAnswers(t)
        PROVE  EventInv'
    BY <2>1, <2>7 DEF Cycle!StartOne, Cycle!OneAnswers
  <2>8. ASSUME NEW t \in Trackers, Cycle!OneFails(t) \/ Cycle!add_tracker_url(t)
        PROVE  EventInv'
    BY <2>1, <2>8 DEF Cycle!OneFails, Cycle!add_tracker_url
  <2>9. CASE Cycle!StopFlag \/ Cycle!StopTimers \/ Cycle!StopClients \/ UNCHANGED Cycle!vars
    BY <2>1, <2>9 DEF Cycle!StopFlag, Cycle!StopTimers, Cycle!StopClients, Cycle!vars
  <2> QED BY <1>2, <2>2, <2>3, <2>4, <2>5, <2>6, <2>7, <2>8, <2>9 DEF Cycle!Next
<1>3. EventInv => Cycle!EventsOnce
  BY DEF EventInv, Cycle!EventsOnce
<1> QED BY <1>1, <1>2, <1>3, PTL DEF Cycle!Spec
-----------------------------------------------------------------------------
(* The tracker. *)
CONSTANTS Clients, Interval, MaxTime
VARIABLES peers_, server_file, now, cleanup_at, running_, saving, said

Server == INSTANCE TrackerServer WITH Peers <- Clients, file <- server_file, up <- running_

(* A peer that is out of the list, though it did not stop, was silent for two intervals. *)
SilentLong(p) == now - said[p].at > 2 * Interval

ServerInv ==
  /\ peers_ \in [Clients -> Int]
  /\ server_file.is = "whole" => server_file.peers \in [Clients -> Int]
  /\ now \in Nat
  /\ DOMAIN said = Clients /\ said = [p \in Clients |-> said[p]]
  /\ \A p \in Clients : said[p].at \in Nat
  /\ running_ => \A p \in Clients : said[p].event \notin {"none", "stopped"} =>
                    peers_[p] = said[p].at \/ SilentLong(p)

(* An announce, over HTTP or UDP, lists the peer or takes it out. *)
LEMMA AnnounceKeeps ==
  ASSUME ServerInv, NEW p \in Clients, NEW e,
         peers_' = [peers_ EXCEPT ![p] = IF e = "stopped" THEN -1 ELSE now],
         said' = [said EXCEPT ![p] = [event |-> e, at |-> now]],
         UNCHANGED <<server_file, now, running_>>
  PROVE  ServerInv'
<1>1. /\ said' = [q \in Clients |-> said'[q]] /\ DOMAIN said' = Clients
      /\ said'[p] = [event |-> e, at |-> now]
      /\ \A q \in Clients \ {p} : said'[q] = said[q]
  BY DEF ServerInv
<1>2. \A q \in Clients : said'[q].at \in Nat
  BY <1>1 DEF ServerInv
<1>3. peers_' \in [Clients -> Int] /\ \A q \in Clients \ {p} : peers_'[q] = peers_[q]
  BY DEF ServerInv
<1>4. e # "stopped" => peers_'[p] = said'[p].at
  BY <1>1 DEF ServerInv
<1>5. e = "stopped" => said'[p].event = "stopped"
  BY <1>1
<1> QED BY <1>1, <1>2, <1>3, <1>4, <1>5 DEF ServerInv, SilentLong

(* For any peers, interval and clock, and a process that is stopped, dies and starts again at
   any moment: a peer that announced to this process within the last two intervals and did
   not stop is listed. *)
THEOREM RecentPeersAreListed ==
  ASSUME Server!TrackerAssumption
  PROVE  Server!Spec => []Server!ListsRecent
<1> USE DEF Server!TrackerAssumption
<1>1. Server!Init => ServerInv
  BY DEF Server!Init, ServerInv, Server!Empty, Server!Unlisted, Server!File, Server!Nothing
<1>2. ASSUME ServerInv, [Server!Next]_(Server!vars) PROVE ServerInv'
  <2>1. ASSUME NEW p \in Clients, NEW e, Server!handle_announce(p, e) PROVE ServerInv'
    BY Zenon, <1>2, <2>1, AnnounceKeeps DEF Server!handle_announce, Server!Unlisted
  <2>2. ASSUME NEW p \in Clients, Server!handle_udp_request(p) PROVE ServerInv'
    <3>1. peers_' = [peers_ EXCEPT ![p] = IF "udp" = "stopped" THEN -1 ELSE now]
      BY <2>2 DEF Server!handle_udp_request
    <3> QED BY Zenon, <1>2, <2>2, <3>1, AnnounceKeeps DEF Server!handle_udp_request
  <2>3. CASE Server!cleanup_loop
    <3>1. /\ peers_' = [p \in Clients |-> IF peers_[p] < now - 2 * Interval THEN -1 ELSE peers_[p]]
          /\ UNCHANGED <<now, running_, said>> /\ server_file'.is = "truncated"
      BY <2>3 DEF Server!cleanup_loop, Server!Threshold, Server!Unlisted, Server!File
    <3>2. peers_' \in [Clients -> Int]
      BY <1>2, <3>1 DEF ServerInv
    <3>3. ASSUME NEW p \in Clients, peers_[p] = said[p].at \/ SilentLong(p)
          PROVE  peers_'[p] = said[p].at \/ SilentLong(p)
      BY <1>2, <3>1, <3>3 DEF ServerInv, SilentLong
    <3> QED BY <1>2, <3>1, <3>2, <3>3 DEF ServerInv, SilentLong
  <2>4. CASE Server!save_state
    BY <1>2, <2>4 DEF Server!save_state, Server!File, ServerInv, SilentLong
  <2>5. CASE Server!StopBySignal
    BY <1>2, <2>5 DEF Server!StopBySignal, ServerInv
  <2>6. CASE Server!Crash
    BY <1>2, <2>6 DEF Server!Crash, Server!Empty, Server!Unlisted, ServerInv
  <2>7. CASE Server!load_state
    <3>1. peers_' \in [Clients -> Int]
      BY <1>2, <2>7 DEF Server!load_state, Server!Empty, Server!Unlisted, ServerInv
    <3>2. /\ said' = [p \in Clients |-> [event |-> "none", at |-> 0]]
          /\ UNCHANGED <<server_file, now>>
      BY <2>7 DEF Server!load_state, Server!Nothing
    <3> QED BY <1>2, <3>1, <3>2 DEF ServerInv
  <2>8. CASE Server!Tick
    <3>1. now' = now + 1 /\ UNCHANGED <<peers_, server_file, running_, said>>
      BY <2>8 DEF Server!Tick
    <3>2. \A p \in Clients : SilentLong(p) => SilentLong(p)'
      BY <1>2, <3>1 DEF ServerInv, SilentLong
    <3> QED BY <1>2, <3>1, <3>2 DEF ServerInv
  <2>9. CASE UNCHANGED Server!vars
    BY <1>2, <2>9 DEF Server!vars, ServerInv, SilentLong
  <2> QED
    BY Zenon, <1>2, <2>1, <2>2, <2>3, <2>4, <2>5, <2>6, <2>7, <2>8, <2>9 DEF Server!Next
<1>3. ServerInv => Server!ListsRecent
  BY DEF ServerInv, SilentLong, Server!ListsRecent, Server!Listed, Server!Unlisted
<1> QED BY <1>1, <1>2, <1>3, PTL DEF Server!Spec
=============================================================================
