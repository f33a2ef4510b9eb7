----------------------------- MODULE DhtStorage -----------------------------
(***************************************************************************)
(* The server side of get_peers and announce_peer in DHTNode: tokens,      *)
(* which are a hash of the asker's address and of the number of the time   *)
(* window, and the peers that are stored per info hash with an expiry.     *)
(* Queries are handled one at a time by udp_listen_loop; the clean-up runs *)
(* on its own timer.  Both handlers also put the sender into the routing   *)
(* table, which is Heard of RouteTable.  Time passes in units of which     *)
(* both lifetimes are multiples.                                           *)
(***************************************************************************)
EXTENDS Integers, Sequences, FiniteSets, SequencesExt

CONSTANTS Hosts, Ports, Hashes,
          TokenLife,    \* ANNOUNCE_TOKEN_LIFETIME
          StorageLife,  \* PEER_STORAGE_LIFETIME
          MaxTime       \* bound on the clock

VARIABLES now, known_peers,
          tokens,   \* tokens handed out: host and window
          granted   \* the time of the last announce accepted for a hash and peer

vars == <<now, known_peers, tokens, granted>>

Never == 0 - StorageLife
Peers == Hosts \X Ports

(* The number of the time window of t. *)
time_window(t) == t \div TokenLife

generate_token(host, t) == [host |-> host, window |-> time_window(t)]

Init ==
  /\ now = 0
  /\ known_peers = [h \in Hashes |-> <<>>]
  /\ tokens = {}
  /\ granted = [h \in Hashes |-> [p \in Peers |-> Never]]

Tick ==
  /\ now < MaxTime /\ now' = now + 1
  /\ UNCHANGED <<known_peers, tokens, granted>>

(* What on_get_peers_query answers with when it is not empty; otherwise   *)
(* the answer has the closest nodes. *)
peers_for_hash(h) ==
  {known_peers[h][i].peer : i \in {j \in 1..Len(known_peers[h]) : known_peers[h][j].expiry > now}}

(* Whatever it answers with, on_get_peers_query hands out a token. *)
on_get_peers_query(host, h) ==
  /\ tokens' = tokens \cup {generate_token(host, now)}
  /\ UNCHANGED <<now, known_peers, granted>>

(* A form of Stored that keeps the old entry of the peer. *)
StoredAgain(list, p) == IF \E i \in 1..Len(list) : list[i].peer = p THEN list
                        ELSE Append(list, [peer |-> p, expiry |-> now + StorageLife])

(* The peer's old entry goes, the new one has the full lifetime. *)
Stored(list, p) == Append(SelectSeq(list, LAMBDA e : e.peer # p),
                          [peer |-> p, expiry |-> now + StorageLife])

(* An announce with a token its host was given once.  implied_port takes  *)
(* the source port of the datagram. *)
on_announce_peer_query(host, source, h, port, implied) ==
  \E t \in {u \in tokens : u.host = host} :
    LET p == <<host, IF implied THEN source ELSE port>>
    IN /\ IF t = generate_token(host, now)
          THEN /\ known_peers' = [known_peers EXCEPT ![h] = Stored(@, p)]
               /\ granted' = [granted EXCEPT ![h][p] = now]
          ELSE UNCHANGED <<known_peers, granted>>
       /\ UNCHANGED <<now, tokens>>

Live(e) == e.expiry > now

Cleanup ==
  /\ known_peers' = [h \in Hashes |-> SelectSeq(known_peers[h], Live)]
  /\ UNCHANGED <<now, tokens, granted>>

Next ==
  \/ Tick \/ Cleanup
  \/ \E host \in Hosts, h \in Hashes :
        \/ on_get_peers_query(host, h)
        \/ \E source, port \in Ports, implied \in BOOLEAN :
              on_announce_peer_query(host, source, h, port, implied)

Spec == Init /\ [][Next]_vars

(* get_peers is answered with exactly the peers whose last accepted        *)
(* announce is younger than PEER_STORAGE_LIFETIME, each of them once,      *)
(* whenever the clean-up has run. *)
ServesRecentAnnounces ==
  \A h \in Hashes :
    /\ peers_for_hash(h) = {p \in Peers : now < granted[h][p] + StorageLife}
    /\ IsInjective([i \in 1..Len(known_peers[h]) |-> known_peers[h][i].peer])
=============================================================================
