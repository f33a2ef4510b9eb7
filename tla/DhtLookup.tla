------------------------------ MODULE DhtLookup ------------------------------
(***************************************************************************)
(* The iterative lookups of DHTNode, find_nodes and get_peers, and the     *)
(* announce that goes to the closest nodes one after the other.  Nodes are *)
(* numbered by their distance to the target, the nearest first.  A query   *)
(* ends with an answer or without, which is what DhtQueries shows of it;   *)
(* the nodes of one round are asked at the same time.                      *)
(***************************************************************************)
EXTENDS Integers, FiniteSets, FiniteSetsExt

CONSTANTS Nodes,      \* distances to the target, 1 the nearest
          Me,         \* the distance of this node itself
          Peers,
          ALPHA, Count,
          Kind,       \* "find_nodes", "get_peers" or "announce_peer"
          MaxAnswer   \* bound on the nodes or peers in one answer

VARIABLES table,       \* status of the nodes in the routing table, or "absent"
          pc,          \* idle, round, wait, done
          round,
          result,      \* find_nodes: the nodes to return
          nodes_to_query, queried_nodes,
          inflight,    \* queries of this round that are not over
          found,       \* nodes this round has learned
          discovered,  \* get_peers: the peers to return
          peers,       \* peers this round has learned
          asked,       \* how often a node was asked
          learned,     \* every node that was learned to be of use
          token,       \* announce_peer: the node whose token it has, or 0
          announced,   \* pairs of node announced to and node the token is from
          shuting_down

vars == <<table, pc, round, result, nodes_to_query, queried_nodes, inflight, found, discovered,
          peers, asked, learned, token, announced, shuting_down>>
lookup == <<result, nodes_to_query, queried_nodes, discovered>>

LookupAssumption ==
  /\ Nodes \subseteq Nat \ {0} /\ Me \in Nodes /\ ALPHA \in Nat /\ Count \in Nat
  /\ Kind \in {"find_nodes", "get_peers", "announce_peer"}

(* The k nearest nodes of S. *)
Nearest(S, k) == {n \in S : Cardinality({m \in S : m < n}) < k}

Table == {n \in Nodes : table[n] # "absent"}
Answers(S) == {T \in SUBSET S : Cardinality(T) <= MaxAnswer}

Init ==
  /\ table \in [Nodes -> {"absent", "Good", "Bad"}] /\ table[Me] = "absent"
  /\ pc = "idle" /\ round = 0
  /\ result = {} /\ nodes_to_query = {} /\ queried_nodes = {}
  /\ inflight = {} /\ found = {} /\ discovered = {} /\ peers = {}
  /\ asked = [n \in Nodes |-> 0] /\ learned = {}
  /\ token = 0 /\ announced = {} /\ shuting_down = FALSE

(* After stop() a lookup returns nothing. *)
Refused ==
  /\ pc = "idle" /\ shuting_down /\ pc' = "done"
  /\ UNCHANGED <<table, round, inflight, found, peers, asked, learned, token, announced,
                 shuting_down, lookup>>

(* find_nodes starts from the nodes of the table that are not bad. *)
StartFind ==
  LET usable == {n \in Nearest(Table, Count) : table[n] # "Bad"}
  IN /\ Kind = "find_nodes" /\ pc = "idle" /\ ~shuting_down
     /\ result' = usable /\ learned' = usable
     /\ nodes_to_query' = Nearest(usable, ALPHA)
     /\ queried_nodes' = Nearest(usable, ALPHA)
     /\ pc' = "round"
     /\ UNCHANGED <<table, round, inflight, found, discovered, peers, asked, token, announced,
                    shuting_down>>

(* get_peers starts from the peers it has stored itself, any set of them, *)
(* and from the nodes of the table, bad ones too. *)
StartGet ==
  /\ Kind = "get_peers" /\ pc = "idle" /\ ~shuting_down
  /\ \E known \in SUBSET Peers :
       /\ Cardinality(known) <= Count + 1 /\ discovered' = known
       /\ pc' = IF Cardinality(known) > Count \/ Table = {} THEN "done"
                ELSE "round"
  /\ nodes_to_query' = Nearest(Table, Count)
  /\ UNCHANGED <<table, round, result, queried_nodes, inflight, found, peers, asked, learned,
                 token, announced, shuting_down>>

LastRound(r) == r = 3

(* The three rounds are over, or there is nobody left to ask. *)
Over == shuting_down \/ LastRound(round) \/ nodes_to_query = {}

Ask(S) == asked' = [n \in Nodes |-> IF n \in S THEN asked[n] + 1 ELSE asked[n]]

Finish ==
  /\ pc = "round" /\ Kind # "announce_peer"
  /\ Over \/ (Kind = "get_peers" /\ Cardinality(discovered) > Count)
  /\ pc' = "done"
  /\ UNCHANGED <<table, round, inflight, found, peers, asked, learned, token, announced,
                 shuting_down, lookup>>

RoundFind ==
  /\ Kind = "find_nodes" /\ pc = "round" /\ ~Over
  /\ inflight' = nodes_to_query /\ Ask(nodes_to_query)
  /\ found' = {} /\ pc' = "wait"
  /\ UNCHANGED <<table, round, peers, learned, token, announced, shuting_down, lookup>>

(* The first ALPHA nodes are taken off the list, and of these the ones    *)
(* that were asked before, and this node, are passed over. *)
RoundGet ==
  LET new == {n \in Nearest(nodes_to_query, ALPHA) : n # Me /\ n \notin queried_nodes}
  IN /\ Kind = "get_peers" /\ pc = "round" /\ ~Over /\ Cardinality(discovered) <= Count
     /\ queried_nodes' = queried_nodes \cup new
     /\ inflight' = new /\ Ask(new)
     /\ found' = {} /\ peers' = {} /\ pc' = "wait"
     /\ UNCHANGED <<table, round, result, nodes_to_query, discovered, learned, token, announced,
                    shuting_down>>

(* A node answers with nodes, or get_peers with peers it has stored. *)
Reply(n) ==
  /\ pc = "wait" /\ n \in inflight /\ Kind # "announce_peer"
  /\ inflight' = inflight \ {n}
  /\ table' = [table EXCEPT ![n] = "Good"]
  /\ \/ \E S \in Answers(Nodes) :
          /\ found' = found \cup IF Kind = "find_nodes" THEN S \ (queried_nodes \cup {Me}) ELSE S
          /\ UNCHANGED peers
     \/ /\ Kind = "get_peers"
        /\ \E P \in Answers(Peers) : peers' = peers \cup P
        /\ UNCHANGED found
  /\ UNCHANGED <<pc, round, asked, learned, token, announced, shuting_down, lookup>>

(* No answer: the node is marked bad if it is in the table.  A query that *)
(* starts after stop() leaves it alone. *)
NoReply(n) ==
  /\ pc = "wait" /\ n \in inflight /\ Kind # "announce_peer"
  /\ inflight' = inflight \ {n}
  /\ \/ table' = IF table[n] = "absent" THEN table ELSE [table EXCEPT ![n] = "Bad"]
     \/ shuting_down /\ UNCHANGED table
  /\ UNCHANGED <<pc, round, found, peers, asked, learned, token, announced, shuting_down, lookup>>

(* A form of Merge that cuts the old result before it merges. *)
MergeCut(old, new) == Nearest(Nearest(old, Count - 1) \cup new, Count)

(* What is found joins the result, and the Count nearest are kept. *)
Merge(old, new) == Nearest(old \cup new, Count)

(* A form of MarkQueried that marks nothing. *)
MarkNone(new) == queried_nodes' = queried_nodes

(* Every new node counts as queried, also those there is no room for in   *)
(* the next round. *)
MarkQueried(new) == queried_nodes' = queried_nodes \cup new

EndFind ==
  /\ Kind = "find_nodes" /\ pc = "wait" /\ inflight = {}
  /\ result' = Merge(result, found) /\ learned' = learned \cup found
  /\ nodes_to_query' = Nearest(found \ queried_nodes, ALPHA)
  /\ MarkQueried(found)
  /\ round' = round + 1 /\ pc' = "round"
  /\ UNCHANGED <<table, inflight, found, discovered, peers, asked, token, announced, shuting_down>>

EndGet ==
  /\ Kind = "get_peers" /\ pc = "wait" /\ inflight = {}
  /\ nodes_to_query' = Nearest(found \ queried_nodes, ALPHA)
  /\ discovered' = discovered \cup peers
  /\ round' = round + 1
  /\ pc' = IF Cardinality(discovered \cup peers) >= Count THEN "done" ELSE "round"
  /\ UNCHANGED <<table, result, queried_nodes, inflight, found, peers, asked, learned, token,
                 announced, shuting_down>>

(* announce_peer goes through the K closest nodes of the table as it was; *)
(* nodes_to_query are those that are left. *)
StartAnnounce ==
  /\ Kind = "announce_peer" /\ pc = "idle" /\ ~shuting_down
  /\ nodes_to_query' = {n \in Nearest(Table, Count) : table[n] # "Bad"}
  /\ pc' = "round"
  /\ UNCHANGED <<table, round, result, queried_nodes, inflight, found, discovered, peers, asked,
                 learned, token, announced, shuting_down>>

(* Each node starts without a token. *)
NoToken == token' = 0

AskToken ==
  /\ Kind = "announce_peer" /\ pc = "round"
  /\ IF shuting_down \/ nodes_to_query = {}
     THEN pc' = "done" /\ UNCHANGED <<nodes_to_query, inflight, asked, token>>
     ELSE LET n == Min(nodes_to_query)
          IN /\ nodes_to_query' = nodes_to_query \ {n}
             /\ inflight' = {n} /\ Ask({n}) /\ NoToken /\ pc' = "token"
  /\ UNCHANGED <<table, round, result, queried_nodes, found, discovered, peers, learned,
                 announced, shuting_down>>

(* The answer to get_peers has a token or not; without an answer, or with *)
(* one that cannot be read to its end, the node is bad. *)
GotToken(n) ==
  /\ pc = "token" /\ inflight = {n}
  /\ \E st \in {"Good", "Bad"} : table' = [table EXCEPT ![n] = st]
  /\ token' \in {token, n}
  /\ pc' = IF token' = 0 THEN "round" ELSE "announce"
  /\ inflight' = IF token' = 0 THEN {} ELSE inflight
  /\ UNCHANGED <<round, found, peers, asked, learned, announced, shuting_down, lookup>>

Announce(n) ==
  /\ pc = "announce" /\ inflight = {n}
  /\ announced' = announced \cup {<<n, token>>}
  /\ table' \in {table, [table EXCEPT ![n] = "Bad"]}
  /\ pc' = "round" /\ inflight' = {}
  /\ UNCHANGED <<round, found, peers, asked, learned, token, shuting_down, lookup>>

Stop ==
  /\ ~shuting_down /\ shuting_down' = TRUE
  /\ UNCHANGED <<table, pc, round, inflight, found, peers, asked, learned, token, announced,
                 lookup>>

Next ==
  \/ Refused
  \/ StartFind \/ RoundFind \/ EndFind
  \/ StartGet \/ RoundGet \/ EndGet
  \/ StartAnnounce \/ AskToken
  \/ \E n \in Nodes : Reply(n) \/ NoReply(n) \/ GotToken(n) \/ Announce(n)
  \/ Finish \/ Stop

Spec == Init /\ [][Next]_vars

(* A lookup asks no node twice, though answers list the same nodes over    *)
(* and over, and asks at most ALPHA nodes in each of its three rounds. *)
AskedOnce ==
  /\ \A n \in Nodes : asked[n] <= 1
  /\ asked[Me] = 0
  /\ Kind # "announce_peer" => Cardinality({n \in Nodes : asked[n] > 0}) <= 3 * ALPHA

(* What find_nodes returns are the nearest of all the nodes it has learned *)
(* of in any round, those it dropped on the way included. *)
ResultIsNearest ==
  Kind = "find_nodes" /\ pc \in {"round", "done"} => result = Nearest(learned, Count)
=============================================================================
