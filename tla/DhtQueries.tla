----------------------------- MODULE DhtQueries -----------------------------
(***************************************************************************)
(* The pending queries of DHTNode.  A caller waits for its query and for   *)
(* a timer, whichever succeeds first, and a query can be completed by a    *)
(* reply, an error, the cancellation of its group, stop(), the clean-up    *)
(* and its own expiry timer, on any thread of the io_context.  Each of     *)
(* these takes the query out of pending_queries_ under queries_mutex_ and  *)
(* completes it after the lock is released.  Transaction ids are random    *)
(* and may collide.  Datagrams may be lost, delayed and duplicated.        *)
(***************************************************************************)
EXTENDS Naturals, FiniteSets

CONSTANTS Queries, Tids

VARIABLES pc,         \* the coroutine that asks: idle, starting, wait, done
          kind, tid,  \* the method and the transaction id of its query
          pending,    \* pending_queries_
          completed,  \* PendingQuery::completed
          op,         \* the query branch of the group: none, open, or how it ended
          timer,      \* its timer branch: none, armed, fired, cancelled
          first,      \* the branch that ended first
          cancelled,  \* groups that have cancelled their query branch
          expiry,     \* the self-bound timer: none, armed, fired, off
          sent,       \* queries whose datagram is out, and may be answered
          calls,      \* completions about to be invoked, after the unlock
          handled,    \* how often the handler of a query has run
          bad,        \* queries whose node was marked bad
          down        \* up, closing (flag set, socket closed), swept

vars == <<pc, kind, tid, pending, completed, op, timer, first, cancelled, expiry, sent,
          calls, handled, bad, down>>

Kinds == {"ping", "find_node", "get_peers", "announce_peer"}

None == "none"

ASSUME QueriesAssumption == None \notin Queries

Init ==
  /\ pc = [q \in Queries |-> "idle"]
  /\ kind = [q \in Queries |-> None] /\ tid = [q \in Queries |-> None]
  /\ pending = [t \in Tids |-> None]
  /\ completed = [q \in Queries |-> FALSE]
  /\ op = [q \in Queries |-> None] /\ timer = [q \in Queries |-> None]
  /\ first = [q \in Queries |-> None] /\ cancelled = {}
  /\ expiry = [q \in Queries |-> None]
  /\ sent = {} /\ calls = {}
  /\ handled = [q \in Queries |-> 0]
  /\ bad = {} /\ down = "up"

(* The coroutine looks at shuting_down_ and goes on to ask. *)
Begin(q, k) ==
  /\ pc[q] = "idle" /\ down = "up"
  /\ pc' = [pc EXCEPT ![q] = "starting"] /\ kind' = [kind EXCEPT ![q] = k]
  /\ UNCHANGED <<tid, pending, completed, op, timer, first, cancelled, expiry, sent, calls,
                 handled, bad, down>>

(* A form of create_pending_query without the self-bound timer. *)
create_without_timer(q) == expiry' = expiry

(* create_pending_query arms the timer that bounds the query. *)
create_pending_query(q) == expiry' = [expiry EXCEPT ![q] = "armed"]

(* The query is registered under its transaction id, over another one that *)
(* has it, its datagram goes out, and the group waits for both branches.   *)
Register(q, t) ==
  /\ pc[q] = "starting"
  /\ pc' = [pc EXCEPT ![q] = "wait"]
  /\ tid' = [tid EXCEPT ![q] = t]
  /\ create_pending_query(q)
  /\ pending' = [pending EXCEPT ![t] = q]
  /\ op' = [op EXCEPT ![q] = "open"] /\ timer' = [timer EXCEPT ![q] = "armed"]
  /\ sent' = sent \cup {q}
  /\ UNCHANGED <<kind, completed, first, cancelled, calls, handled, bad, down>>

async_ping(q, t) == kind[q] = "ping" /\ Register(q, t)
async_find_nodes(q, t) == kind[q] = "find_node" /\ Register(q, t)
async_get_peers(q, t) == kind[q] = "get_peers" /\ Register(q, t)
async_announce_peer(q, t) == kind[q] = "announce_peer" /\ Register(q, t)

(* What takes the query registered under t out of the map, to complete it *)
(* with ec once the lock is released. *)
Extract(t, by, ec) ==
  /\ pending' = [pending EXCEPT ![t] = None]
  /\ calls' = IF pending[t] = None THEN calls
              ELSE calls \cup {[by |-> by, query |-> pending[t], ec |-> ec]}

(* The listening coroutine handles one datagram at a time, and looks only *)
(* at the transaction id. *)
Receive(q, ec) ==
  /\ down = "up" /\ q \in sent
  /\ ~\E c \in calls : c.by = "listener"
  /\ Extract(tid[q], "listener", ec)
  /\ UNCHANGED <<pc, kind, tid, completed, op, timer, first, cancelled, expiry, sent, handled,
                 bad, down>>

handle_response(q) == Receive(q, "ok")
handle_error(q) == Receive(q, "protocol_error")

FirstOf(q, b) == IF first[q] = None THEN b ELSE first[q]

(* A form of the completion that does not look at the flag. *)
CompletionTwice(q, ec) ==
  /\ completed' = [completed EXCEPT ![q] = TRUE]
  /\ op' = [op EXCEPT ![q] = ec]
  /\ first' = [first EXCEPT ![q] = FirstOf(q, "op")]
  /\ handled' = [handled EXCEPT ![q] = @ + 1]

(* The completion of a query: the first call wins. *)
Completion(q, ec) ==
  IF completed[q] THEN UNCHANGED <<completed, op, first, handled>>
  ELSE /\ completed' = [completed EXCEPT ![q] = TRUE]
       /\ op' = [op EXCEPT ![q] = ec]
       /\ first' = [first EXCEPT ![q] = FirstOf(q, "op")]
       /\ handled' = [handled EXCEPT ![q] = @ + 1]

(* The completion cancels the self-bound timer, and so does stop(). *)
Complete(c) ==
  /\ c \in calls
  /\ calls' = calls \ {c}
  /\ Completion(c.query, c.ec)
  /\ expiry' = [expiry EXCEPT ![c.query] = IF @ = "armed" THEN "off" ELSE @]
  /\ UNCHANGED <<pc, kind, tid, pending, timer, cancelled, sent, bad, down>>

(* The self-bound timer completes the query, also one that is in no map. *)
Expire(q) ==
  /\ expiry[q] = "armed"
  /\ expiry' = [expiry EXCEPT ![q] = "fired"]
  /\ Completion(q, "timed_out")
  /\ UNCHANGED <<pc, kind, tid, pending, timer, cancelled, sent, calls, bad, down>>

(* The group's timer of KRPC_QUERY_TIMEOUT. *)
FireTimer(q) ==
  /\ timer[q] = "armed"
  /\ timer' = [timer EXCEPT ![q] = "fired"]
  /\ first' = [first EXCEPT ![q] = FirstOf(q, "timer")]
  /\ UNCHANGED <<pc, kind, tid, pending, completed, op, cancelled, expiry, sent, calls,
                 handled, bad, down>>

(* The group cancels a branch once the other one has succeeded, not when  *)
(* it has failed. *)
CancelTimer(q) ==
  /\ op[q] = "ok" /\ timer[q] = "armed"
  /\ timer' = [timer EXCEPT ![q] = "cancelled"]
  /\ UNCHANGED <<pc, kind, tid, pending, completed, op, first, cancelled, expiry, sent, calls,
                 handled, bad, down>>

(* The cancellation slot completes what the map has under the id. *)
CancelQuery(q) ==
  /\ timer[q] = "fired" /\ op[q] = "open" /\ q \notin cancelled
  /\ cancelled' = cancelled \cup {q}
  /\ Extract(tid[q], q, "aborted")
  /\ UNCHANGED <<pc, kind, tid, completed, op, timer, first, expiry, sent, handled, bad, down>>

(* The caller's result: index 0 of the group, or its timer. *)
Answered(q) == op[q] = "ok" /\ (first[q] = "op" \/ timer[q] = "cancelled")

(* The last thing a caller does is to erase its transaction id. *)
EraseOwn(q) == pending' = [pending EXCEPT ![tid[q]] = None]

(* send_ping leaves the node as it was. *)
PingKeepsStatus(q) == kind[q] = "ping"

(* Both branches have ended and the caller goes on. *)
Resume(q) ==
  /\ pc[q] = "wait" /\ op[q] \notin {None, "open"} /\ timer[q] \in {"fired", "cancelled"}
  /\ pc' = [pc EXCEPT ![q] = "done"]
  /\ EraseOwn(q)
  /\ bad' = IF Answered(q) \/ PingKeepsStatus(q) THEN bad ELSE bad \cup {q}
  /\ UNCHANGED <<kind, tid, completed, op, timer, first, cancelled, expiry, sent, calls,
                 handled, down>>

(* stop(): the flag and the socket, then the sweep of the map. *)
Stop ==
  /\ down = "up" /\ down' = "closing"
  /\ UNCHANGED <<pc, kind, tid, pending, completed, op, timer, first, cancelled, expiry, sent,
                 calls, handled, bad>>

Sweep ==
  /\ down = "closing" /\ down' = "swept"
  /\ calls' = calls \cup {[by |-> "stop", query |-> pending[t], ec |-> "aborted"]
                             : t \in {u \in Tids : pending[u] # None}}
  /\ pending' = [t \in Tids |-> None]
  /\ UNCHANGED <<pc, kind, tid, completed, op, timer, first, cancelled, expiry, sent, handled,
                 bad>>

(* cleanup_loop takes out what has expired. *)
Cleanup ==
  LET old == {t \in Tids : pending[t] # None /\ expiry[pending[t]] = "fired"}
  IN /\ down = "up" /\ old # {}
     /\ pending' = [t \in Tids |-> IF t \in old THEN None ELSE pending[t]]
     /\ calls' = calls \cup {[by |-> "cleanup", query |-> pending[t], ec |-> "timed_out"]
                                : t \in old}
     /\ UNCHANGED <<pc, kind, tid, completed, op, timer, first, cancelled, expiry, sent,
                    handled, bad, down>>

Steps(q) ==
  \/ \E k \in Kinds : Begin(q, k)
  \/ \E t \in Tids : \/ async_ping(q, t) \/ async_find_nodes(q, t)
                     \/ async_get_peers(q, t) \/ async_announce_peer(q, t)
  \/ handle_response(q) \/ handle_error(q)
  \/ Expire(q) \/ FireTimer(q) \/ CancelTimer(q) \/ CancelQuery(q) \/ Resume(q)

Next ==
  \/ \E q \in Queries : Steps(q)
  \/ \E c \in calls : Complete(c)
  \/ Stop \/ Sweep \/ Cleanup

Spec == Init /\ [][Next]_vars

(* Coroutines that are ready run, timers fire, and completions are called; *)
(* nothing is asked of the network, and nobody has to start or to stop. *)
Runs(q) ==
  \/ \E t \in Tids : Register(q, t)
  \/ Expire(q) \/ FireTimer(q) \/ CancelTimer(q) \/ CancelQuery(q) \/ Resume(q)

FairSpec ==
  /\ Spec
  /\ \A q \in Queries : WF_vars(Runs(q))
  /\ WF_vars(\E c \in calls : Complete(c))

(* The handler of a query runs at most once, however reply, error, expiry, *)
(* cancellation, clean-up and stop() race to complete it. *)
HandledOnce == \A q \in Queries : handled[q] <= 1

(* pending_queries_ holds only queries whose caller still waits, also when *)
(* ids collide and timers complete queries without touching the map: it    *)
(* cannot grow with queries that are over. *)
NothingLeftOver == \A t \in Tids : pending[t] # None => pc[pending[t]] = "wait"
=============================================================================
