--------------------------- MODULE LocalDiscovery ---------------------------
(***************************************************************************)
(* LsdDiscovery: sessions on the hosts of one network announce their       *)
(* torrent to a multicast group every two minutes and add the peers they   *)
(* hear of to discovered_peers_.  Every socket of the group gets a         *)
(* datagram, the sender's included, and any copy may be lost.              *)
(***************************************************************************)
EXTENDS Integers

CONSTANTS
    Sessions, Hosts,
    Ports,       \* listening ports in use
    Hashes,      \* info hashes
    MaxStarts,   \* bound: starts of one session
    MaxLosses    \* bound: copies of announcements that are lost

LocalDiscoveryAssumption == Ports \subseteq 1..65535 /\ MaxStarts \in Nat /\ MaxLosses \in Nat

VARIABLES
    client,      \* host, listening port and info hash of each session
    running,     \* running_ of its LsdDiscovery
    loop,        \* where its announce_loop is: to send, waiting, or over
    starts,
    discovered,  \* discovered_peers_ of its PeerManager
    net,         \* copies of datagrams: who gets it, and what it says
    losses       \* copies lost so far

vars == <<client, running, loop, starts, discovered, net, losses>>

(* Sessions of one client share the port and differ in the torrent; two clients
   of one host differ in the port. *)
Init ==
    /\ client \in [Sessions -> [host : Hosts, port : Ports, hash : Hashes]]
    /\ \A s, t \in Sessions :
          s # t /\ client[s].port = client[t].port /\ client[s].host = client[t].host
             => client[s].hash # client[t].hash
    /\ running = [s \in Sessions |-> FALSE]
    /\ loop = [s \in Sessions |-> "over"]
    /\ starts = [s \in Sessions |-> 0]
    /\ discovered = [s \in Sessions |-> {}]
    /\ net = {} /\ losses = 0

(* The text of an info hash: no two hashes have the same. *)
base32_encode(hash) == <<"base32", hash>>

build_announce_message(s) ==
    [infohash |-> base32_encode(client[s].hash), port |-> client[s].port]
-----------------------------------------------------------------------------
(* A start that fails to open, bind or join leaves the session as it is.  Each
   start is that of a new session. *)
start(s) ==
    /\ ~running[s] /\ starts[s] < MaxStarts
    /\ starts' = [starts EXCEPT ![s] = @ + 1]
    /\ \/ /\ running' = [running EXCEPT ![s] = TRUE]
          /\ loop' = [loop EXCEPT ![s] = "send"]
       \/ UNCHANGED <<running, loop>>
    /\ discovered' = [discovered EXCEPT ![s] = {}]
    /\ UNCHANGED <<client, net, losses>>

stop(s) ==
    /\ running[s]
    /\ running' = [running EXCEPT ![s] = FALSE]
    /\ loop' = [loop EXCEPT ![s] = "over"]
    /\ net' = {d \in net : d.to # s}
    /\ UNCHANGED <<client, starts, discovered, losses>>

(* announce_loop(): the announcement is sent, or the send fails and is logged ... *)
send_announce(s) ==
    /\ loop[s] = "send"
    /\ loop' = [loop EXCEPT ![s] = "wait"]
    /\ net' = net \cup {[to |-> t, from |-> client[s].host, says |-> build_announce_message(s)] :
                            t \in {t \in Sessions : running[t]}}
    /\ UNCHANGED <<client, running, starts, discovered, losses>>

NoRound == "over"
NextRound == "send"

(* ... and again each time announce_timer_ expires. *)
announce_timer(s) ==
    /\ loop[s] = "wait"
    /\ loop' = [loop EXCEPT ![s] = NextRound]
    /\ UNCHANGED <<client, running, starts, discovered, net, losses>>

announce_loop(s) == send_announce(s) \/ announce_timer(s)

(* A copy is lost: on the way, or in a send that failed. *)
lost(d) ==
    /\ losses < MaxLosses /\ losses' = losses + 1
    /\ net' = net \ {d}
    /\ UNCHANGED <<client, running, loop, starts, discovered>>

(* The announcement is for our torrent, and not from our own port; Ports has no 0. *)
Accepted(s, m) == m.infohash = base32_encode(client[s].hash) /\ m.port # client[s].port

EndPoint(d) == <<d.from, d.says.port>>

(* listen_loop() and parse_and_add_peer(). *)
parse_and_add_peer(d) ==
    /\ net' = net \ {d}
    /\ discovered' = [discovered EXCEPT ![d.to] =
                        IF Accepted(d.to, d.says) THEN @ \cup {EndPoint(d)} ELSE @]
    /\ UNCHANGED <<client, running, loop, starts, losses>>

(* A copy of t's announcement gets through to s. *)
Delivered(s, t) ==
    \E d \in net :
       /\ d.to = s /\ d.from = client[t].host /\ d.says = build_announce_message(t)
       /\ parse_and_add_peer(d)

Next ==
    \/ \E s \in Sessions : start(s) \/ stop(s) \/ announce_loop(s)
    \/ \E d \in net : lost(d) \/ parse_and_add_peer(d)

Spec == Init /\ [][Next]_vars

(* The loops run, and a copy that is not lost is received in the end. *)
FairSpec ==
    /\ Spec
    /\ \A s \in Sessions : WF_vars(announce_loop(s))
    /\ \A s \in Sessions : \A t \in Sessions \ {s} : WF_vars(Delivered(s, t))
-----------------------------------------------------------------------------
(* Sessions of one torrent that are not taken for one another's echo. *)
Neighbours(s, t) == client[s].hash = client[t].hash /\ client[s].port # client[t].port

Met ==
    \A s, t \in Sessions :
       running[s] /\ running[t] /\ Neighbours(s, t)
          => <<client[t].host, client[t].port>> \in discovered[s]

(* Neighbours that keep running discover each other, whichever started first and
   whatever announcements were lost. *)
NeighboursMeet == []<>Met
=============================================================================
