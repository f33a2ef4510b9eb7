----------------------------- MODULE UdpAnnounce -----------------------------
(***************************************************************************)
(* The UDP tracker protocol: one UdpTrackerClient, which obtains a         *)
(* connection id and announces with it, and the UDP side of Tracker, over  *)
(* a network that loses, repeats, delays and reorders datagrams (a sent    *)
(* datagram stays in net and can be delivered any number of times).        *)
(* Waiting times are left out: a wait may time out at any moment, and the  *)
(* connection id may grow too old at any moment, on either side.           *)
(***************************************************************************)
EXTENDS Integers

CONSTANTS ConnectTries,   \* max_retries of connect_to_tracker
          AnnounceTries,  \* max_retries + 1 of announce
          Calls,          \* bound on the calls of announce
          MaxIds,         \* bound on the connection ids the tracker gives out
          MaxHeld         \* bound on announces that wait for the strand

VARIABLES call,           \* number of the current call of announce
          pc, n, tid, resolved, connection_id, id_expired,
          cancelled, abort, \* cancel() was called; abort_timer_ is set to go off
          net,
          server_id, server_expired, ids, buffer, held, peers

client == <<call, pc, n, tid, resolved, connection_id, id_expired>>
cancelling == <<cancelled, abort>>
server == <<server_id, server_expired, ids, buffer, held, peers>>
vars == <<client, cancelling, net, server>>

UdpAssumption ==
  /\ {ConnectTries, AnnounceTries, Calls, MaxIds} \subseteq Nat \ {0} /\ MaxHeld \in Nat

Request(kind, t, id) == [to |-> "tracker", kind |-> kind, tid |-> t, id |-> id]
Response(kind, t, id) == [to |-> "client", kind |-> kind, tid |-> t, id |-> id]

Init ==
  /\ call = 0 /\ pc = "idle" /\ n = 0 /\ tid = 0 /\ resolved = FALSE
  /\ connection_id = 0 /\ id_expired = FALSE
  /\ cancelled = FALSE /\ abort = FALSE
  /\ net = {}
  /\ server_id = 0 /\ server_expired = FALSE /\ ids = 0 /\ buffer = 0 /\ held = 0
  /\ peers = {}

(* announce starts with the address, which is resolved once. *)
announce ==
  /\ pc \in {"idle", "done", "failed"} /\ call < Calls
  /\ call' = call + 1 /\ n' = 0
  /\ pc' = IF resolved THEN "start" ELSE "resolve"
  /\ UNCHANGED <<tid, resolved, connection_id, id_expired, cancelling,
                 net, server>>

(* After a cancel() the answer of the resolver is not used; it may also   *)
(* be that there is none. *)
ensure_resolved ==
  /\ pc = "resolve"
  /\ \/ pc' = "start" /\ resolved' = ~cancelled
     \/ pc' = "failed" /\ UNCHANGED resolved
  /\ UNCHANGED <<call, n, tid, connection_id, id_expired, cancelling, net,
                 server>>

start ==
  /\ pc = "start" /\ n' = 0
  /\ pc' = IF connection_id = 0 \/ id_expired THEN "connect" ELSE "announce"
  /\ UNCHANGED <<call, tid, resolved, connection_id, id_expired,
                 cancelling, net, server>>

Tries == [connect |-> ConnectTries, announce |-> AnnounceTries]
Waiting == [connect |-> "connecting", announce |-> "announcing"]

(* One turn of either loop: it ends when the tries are used up or the     *)
(* socket was never opened, else the next request goes out. *)
Send(kind) ==
  /\ pc = kind
  /\ IF n = Tries[kind] \/ ~resolved
     THEN pc' = "failed" /\ UNCHANGED <<n, tid, net>>
     ELSE /\ tid' = tid + 1
          /\ \/ /\ net' = net \cup {Request(kind, tid + 1, connection_id)}
                /\ pc' = Waiting[kind] /\ UNCHANGED n
             \/ n' = n + 1 /\ UNCHANGED <<pc, net>>      \* the send fails
  /\ UNCHANGED <<call, resolved, connection_id, id_expired, cancelling, server>>

(* A form of Accepts that takes any answer. *)
AcceptsAny(kind, m) == TRUE

(* The answer has to be one to the last request. *)
Accepts(kind, m) == m.kind = kind /\ m.tid = tid

(* An answer that is not accepted costs a try, as if none had come. *)
Receive(kind, m) ==
  /\ pc = Waiting[kind] /\ m \in net /\ m.to = "client"
  /\ IF Accepts(kind, m)
     THEN IF kind = "connect"
          THEN /\ connection_id' = m.id /\ id_expired' = FALSE
               /\ n' = 0 /\ pc' = "announce"
          ELSE pc' = "done" /\ UNCHANGED <<connection_id, id_expired, n>>
     ELSE n' = n + 1 /\ pc' = kind /\ UNCHANGED <<connection_id, id_expired>>
  /\ UNCHANGED <<call, tid, resolved, cancelling, net, server>>

(* Each wait has a timer of its own. *)
TimerArmed(k) == TRUE

Timeout(kind) ==
  /\ pc = Waiting[kind] /\ ~abort /\ TimerArmed(n)
  /\ n' = n + 1 /\ pc' = kind
  /\ UNCHANGED <<call, tid, resolved, connection_id, id_expired, cancelling, net, server>>

(* The abort timer wins: the loop is left. *)
Abort(kind) ==
  /\ pc = Waiting[kind] /\ abort
  /\ pc' = "failed"
  /\ UNCHANGED <<call, n, tid, resolved, connection_id, id_expired, cancelling,
                 net, server>>

ClientIdExpires ==
  /\ connection_id # 0 /\ id_expired' = TRUE
  /\ UNCHANGED <<call, pc, n, tid, resolved, connection_id, cancelling,
                 net, server>>

(* The abort timer is set to the past and stays there. *)
FireAbort == abort' = TRUE

cancel ==
  /\ ~cancelled /\ cancelled' = TRUE /\ FireAbort
  /\ UNCHANGED <<client, net, server>>

(* The tracker: a connect request gets a new id, which replaces the old.  *)
HandleConnect(m) ==
  /\ m \in net /\ m.to = "tracker" /\ m.kind = "connect" /\ ids < MaxIds
  /\ ids' = ids + 1 /\ server_id' = ids + 1 /\ server_expired' = FALSE
  /\ net' = net \cup {Response("connect", m.tid, ids + 1)}
  /\ buffer' = m.tid
  /\ UNCHANGED <<client, cancelling, held, peers>>

KnownId(m) == server_id # 0 /\ server_id = m.id /\ ~server_expired

(* An announce with the right id goes to the strand, at once or, when the *)
(* strand is busy, later. *)
HandleAnnounce(m) ==
  /\ m \in net /\ m.to = "tracker" /\ m.kind = "announce"
  /\ buffer' = m.tid
  /\ IF KnownId(m)
     THEN \/ /\ held = 0 /\ peers' = {"client"}
             /\ net' = net \cup {Response("announce", m.tid, 0)} /\ UNCHANGED held
          \/ held < MaxHeld /\ held' = held + 1 /\ UNCHANGED <<net, peers>>
     ELSE UNCHANGED <<net, held, peers>>
  /\ UNCHANGED <<client, cancelling, server_id, server_expired, ids>>

(* On the strand: the transaction id of the answer is read from the       *)
(* receive buffer, where by now there may be another datagram. *)
ResumeAnnounce ==
  /\ held > 0 /\ held' = held - 1
  /\ peers' = {"client"} /\ net' = net \cup {Response("announce", buffer, 0)}
  /\ UNCHANGED <<client, cancelling, server_id, server_expired, ids, buffer>>

(* A datagram of another client. *)
OtherDatagram ==
  /\ buffer' = 0
  /\ UNCHANGED <<client, cancelling, net, server_id, server_expired, ids, held, peers>>

ServerIdExpires ==
  /\ server_id # 0 /\ server_expired' = TRUE
  /\ UNCHANGED <<client, cancelling, net, server_id, ids, buffer, held, peers>>

Loop(kind) ==
  Send(kind) \/ Timeout(kind) \/ Abort(kind) \/ \E m \in net : Receive(kind, m)

ClientNext == announce \/ ensure_resolved \/ start \/ Loop("connect") \/ Loop("announce")
ServerNext ==
  \/ \E m \in net : HandleConnect(m) \/ HandleAnnounce(m)
  \/ ResumeAnnounce \/ OtherDatagram \/ ServerIdExpires

Next == ClientNext \/ ServerNext \/ ClientIdExpires \/ cancel

Spec == Init /\ [][Next]_vars

(* Every wait of the client has a timer of its own, so its coroutine keeps *)
(* running; nothing is assumed of the network or of the tracker. *)
Runs == ensure_resolved \/ start \/ Loop("connect") \/ Loop("announce")
FairSpec == Spec /\ WF_vars(Runs)

Over == pc \in {"idle", "done", "failed"}

(* An announce that returns a result has reached the tracker: the client   *)
(* is among its peers, whatever old answers were still under way. *)
SuccessMeansListed == pc = "done" => "client" \in peers
=============================================================================
