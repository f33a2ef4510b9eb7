----------------------------- MODULE MCDiscovery -----------------------------
(***************************************************************************)
(* How the client finds peers, and which of them it serves, for TLC: the   *)
(* queries of the DHT node, its lookups, its route table and its storage,  *)
(* the announces to UDP and HTTP trackers, the tracker, the announce loop, *)
(* local discovery, and the choke loop.  The modules of these components   *)
(* share no state, so an interleaving of two of them shows nothing that    *)
(* each does not show by itself: in every behaviour one of them runs       *)
(* (`part') and the others have no state (`Off').                          *)
(***************************************************************************)
EXTENDS DhtQueries

(* The component whose behaviour is looked at; the state of the others is Off. *)
VARIABLE part

Off == "off"
Is(c) == part = c

VARIABLES table, lookup_pc, round, result, nodes_to_query, queried_nodes, inflight, found,
          lookup_discovered, lookup_peers, asked, learned, token, announced, shuting_down
Find == INSTANCE DhtLookup WITH Nodes <- 1..5, Me <- 5, Peers <- {}, ALPHA <- 2, Count <- 2,
          Kind <- "find_nodes", MaxAnswer <- 2, pc <- lookup_pc,
          discovered <- lookup_discovered, peers <- lookup_peers
Get == INSTANCE DhtLookup WITH Nodes <- 1..4, Me <- 3, Peers <- {"p", "q", "r"}, ALPHA <- 1,
          Count <- 2, Kind <- "get_peers", MaxAnswer <- 2, pc <- lookup_pc,
          discovered <- lookup_discovered, peers <- lookup_peers
Ask == INSTANCE DhtLookup WITH Nodes <- 1..4, Me <- 4, Peers <- {}, ALPHA <- 1, Count <- 3,
          Kind <- "announce_peer", MaxAnswer <- 1, pc <- lookup_pc,
          discovered <- lookup_discovered, peers <- lookup_peers
findVars == <<table, lookup_pc, round, result, nodes_to_query, queried_nodes, inflight,
              found, lookup_discovered, lookup_peers, asked, learned, token, announced,
              shuting_down>>
NoFind == table = Off /\ lookup_pc = Off /\ round = Off /\ result = Off /\
          nodes_to_query = Off /\ queried_nodes = Off /\ inflight = Off /\ found = Off /\
          lookup_discovered = Off /\ lookup_peers = Off /\ asked = Off /\ learned = Off /\
          token = Off /\ announced = Off /\ shuting_down = Off

VARIABLES me, buckets, route_file, route_saving, phase
Route == INSTANCE RouteTable WITH Bits <- 3, K <- 2, Nodes <- {2, 4, 6, 7}, MyIds <- {0, 5},
          file <- route_file, saving <- route_saving
routeVars == <<me, buckets, route_file, route_saving, phase>>
NoRoute == me = Off /\ buckets = Off /\ route_file = Off /\ route_saving = Off /\
          phase = Off

VARIABLES store_now, known_peers, tokens, granted
Store == INSTANCE DhtStorage WITH Hosts <- {"a", "b"}, Ports <- {1}, Hashes <- {"h"},
          TokenLife <- 2, StorageLife <- 2, MaxTime <- 3, now <- store_now
storeVars == <<store_now, known_peers, tokens, granted>>
NoStore == store_now = Off /\ known_peers = Off /\ tokens = Off /\ granted = Off

VARIABLES call, udp_pc, udp_n, udp_tid, resolved, connection_id, id_expired, udp_cancelled,
          abort, udp_net, server_id, server_expired, ids, buffer, held, udp_peers
Udp == INSTANCE UdpAnnounce WITH ConnectTries <- 1, AnnounceTries <- 1, Calls <- 2,
          MaxIds <- 2, MaxHeld <- 1, pc <- udp_pc, n <- udp_n, tid <- udp_tid,
          cancelled <- udp_cancelled, net <- udp_net, peers <- udp_peers
udpVars == <<call, udp_pc, udp_n, udp_tid, resolved, connection_id, id_expired,
             udp_cancelled, abort, udp_net, server_id, server_expired, ids, buffer, held,
             udp_peers>>
NoUdp == call = Off /\ udp_pc = Off /\ udp_n = Off /\ udp_tid = Off /\ resolved = Off /\
          connection_id = Off /\ id_expired = Off /\ udp_cancelled = Off /\ abort = Off /\
          udp_net = Off /\ server_id = Off /\ server_expired = Off /\ ids = Off /\
          buffer = Off /\ held = Off /\ udp_peers = Off

VARIABLES url, http_pc, current_host, conn, goal, location, redirect, socket, http_cancelled
Http == INSTANCE HttpAnnounce WITH Hosts <- {"h1", "h2"}, Ports <- {0, 80, 6969},
          DefaultPort <- 80, max_redirects <- 5, pc <- http_pc, cancelled <- http_cancelled
httpVars == <<url, http_pc, current_host, conn, goal, location, redirect, socket,
              http_cancelled>>
NoHttp == url = Off /\ http_pc = Off /\ current_host = Off /\ conn = Off /\ goal = Off /\
          location = Off /\ redirect = Off /\ socket = Off /\ http_cancelled = Off

VARIABLES peers_, server_file, server_now, cleanup_at, up, server_saving, said
Server == INSTANCE TrackerServer WITH Peers <- {"p"}, Interval <- 1, MaxTime <- 7,
          file <- server_file, now <- server_now, saving <- server_saving
serverVars == <<peers_, server_file, server_now, cleanup_at, up, server_saving, said>>
NoServer == peers_ = Off /\ server_file = Off /\ server_now = Off /\ cleanup_at = Off /\
          up = Off /\ server_saving = Off /\ said = Off

VARIABLES loop_pc, event, completed_event_sent, cycle, loop_sent, mode, complete,
          tracker_clients, child, outcomes, peers_dedup, connects,
          tracker_announce_interval, peerless_announces, wait, loop_timer, stop
Loop == INSTANCE TrackerLoop WITH Trackers <- {"t1", "t2"}, First <- {"t1"}, Peers <- {"p"},
          Intervals <- {0, 2, 3}, DefaultInterval <- 4, MaxPeerless <- 2, Modes <- {"Seed",
          "Leech", "Hybrid"}, IoThreads <- 1, MaxCycles <- 2, pc <- loop_pc,
          sent <- loop_sent, timer <- loop_timer
loopVars == <<loop_pc, event, completed_event_sent, cycle, loop_sent, mode, complete,
              tracker_clients, child, outcomes, peers_dedup, connects,
              tracker_announce_interval, peerless_announces, wait, loop_timer, stop>>
NoLoop == loop_pc = Off /\ event = Off /\ completed_event_sent = Off /\ cycle = Off /\
          loop_sent = Off /\ mode = Off /\ complete = Off /\ tracker_clients = Off /\
          child = Off /\ outcomes = Off /\ peers_dedup = Off /\ connects = Off /\
          tracker_announce_interval = Off /\ peerless_announces = Off /\ wait = Off /\
          loop_timer = Off /\ stop = Off

VARIABLES client, running, lsd_loop, starts, lsd_discovered, lsd_net, losses
Lsd == INSTANCE LocalDiscovery WITH Sessions <- {"s1", "s2"}, Hosts <- {"h1", "h2"},
          Ports <- {6881, 6882}, Hashes <- {"t1", "t2"}, MaxStarts <- 1, MaxLosses <- 1,
          loop <- lsd_loop, discovered <- lsd_discovered, net <- lsd_net
lsdVars == <<client, running, lsd_loop, starts, lsd_discovered, lsd_net, losses>>
NoLsd == client = Off /\ running = Off /\ lsd_loop = Off /\ starts = Off /\ lsd_discovered = Off /\
          lsd_net = Off /\ losses = Off

VARIABLES conns, interested, choking, data, rate, optimistic, replaced, counter,
          choke_loop, poke, changes
Leechers == {"u1", "u2"}
Choke == INSTANCE ChokeLoop WITH Peers <- Leechers, Slots <- 2, MaxRate <- 1,
          MaxChanges <- 5, None <- "none", loop <- choke_loop
chokeVars == <<conns, interested, choking, data, rate, optimistic, replaced, counter,
               choke_loop, poke, changes>>
NoChoke == conns = Off /\ interested = Off /\ choking = Off /\ data = Off /\ rate = Off /\
          optimistic = Off /\ replaced = Off /\ counter = Off /\ choke_loop = Off /\ poke = Off /\
          changes = Off

(* The constants of the instances are as their modules assume. *)
ASSUME InstancesAssumption == Find!LookupAssumption /\ Get!LookupAssumption /\
          Ask!LookupAssumption /\ Udp!UdpAssumption /\ Http!HttpAssumption /\
          Server!TrackerAssumption /\ Loop!LoopAssumption /\ Lsd!LocalDiscoveryAssumption
          /\ Choke!SlotsAssumption

Components == {"queries", "find", "get", "ask", "route", "store", "udp", "http", "server",
               "loop", "lsd", "choke"}

MCInit ==
  /\ part \in Components
  /\ Init
  /\ CASE Is("find") -> Find!Init [] Is("get") -> Get!Init [] Is("ask") -> Ask!Init [] OTHER
          -> NoFind
  /\ IF Is("route") THEN Route!Init ELSE NoRoute
  /\ IF Is("store") THEN Store!Init ELSE NoStore
  /\ IF Is("udp") THEN Udp!Init ELSE NoUdp
  /\ IF Is("http") THEN Http!Init ELSE NoHttp
  /\ IF Is("server") THEN Server!Init ELSE NoServer
  /\ IF Is("loop") THEN Loop!Init ELSE NoLoop
  /\ IF Is("lsd") THEN Lsd!Init ELSE NoLsd
  /\ IF Is("choke") THEN Choke!Init ELSE NoChoke

(* The components but c are left alone. *)
Rest(c) ==
  /\ UNCHANGED part
  /\ IF c = "queries" THEN TRUE ELSE UNCHANGED vars
  /\ IF c \in {"find", "get", "ask"} THEN TRUE ELSE UNCHANGED findVars
  /\ IF c = "route" THEN TRUE ELSE UNCHANGED routeVars
  /\ IF c = "store" THEN TRUE ELSE UNCHANGED storeVars
  /\ IF c = "udp" THEN TRUE ELSE UNCHANGED udpVars
  /\ IF c = "http" THEN TRUE ELSE UNCHANGED httpVars
  /\ IF c = "server" THEN TRUE ELSE UNCHANGED serverVars
  /\ IF c = "loop" THEN TRUE ELSE UNCHANGED loopVars
  /\ IF c = "lsd" THEN TRUE ELSE UNCHANGED lsdVars
  /\ IF c = "choke" THEN TRUE ELSE UNCHANGED chokeVars

MCNext ==
  \/ Is("queries") /\ Next /\ Rest("queries")
  \/ Is("find") /\ Find!Next /\ Rest("find")
  \/ Is("get") /\ Get!Next /\ Rest("get")
  \/ Is("ask") /\ Ask!Next /\ Rest("ask")
  \/ Is("route") /\ Route!Next /\ Rest("route")
  \/ Is("store") /\ Store!Next /\ Rest("store")
  \/ Is("udp") /\ Udp!Next /\ Rest("udp")
  \/ Is("http") /\ Http!Next /\ Rest("http")
  \/ Is("server") /\ Server!Next /\ Rest("server")
  \/ Is("loop") /\ Loop!Next /\ Rest("loop")
  \/ Is("lsd") /\ Lsd!Next /\ Rest("lsd")
  \/ Is("choke") /\ Choke!Next /\ Rest("choke")

MCvars == <<part, vars, findVars, routeVars, storeVars, udpVars, httpVars, serverVars,
          loopVars, lsdVars, chokeVars>>

(* The fairness of DhtQueries, UdpAnnounce, HttpAnnounce, ChokeLoop and LocalDiscovery:
   coroutines that are ready run, timers fire, and a multicast copy that is not lost is
   received; nothing else is asked of the network. *)
MCFairness ==
  /\ \A q \in Queries : WF_vars(Is("queries") /\ Runs(q))
  /\ WF_vars(Is("queries") /\ \E c \in calls : Complete(c))
  /\ WF_udpVars(Is("udp") /\ Udp!Runs)
  /\ WF_httpVars(Is("http") /\ Http!Step) /\ WF_httpVars(Is("http") /\ Http!CloseOnStrand)
  /\ \A s \in {"s1", "s2"} :
       /\ WF_lsdVars(Is("lsd") /\ Lsd!announce_loop(s))
       /\ \A t \in {"s1", "s2"} \ {s} : WF_lsdVars(Is("lsd") /\ Lsd!Delivered(s, t))
  /\ WF_chokeVars(Is("choke") /\ Choke!Loop)

MCSpec == MCInit /\ [][MCNext]_MCvars /\ MCFairness

-----------------------------------------------------------------------------
(* DhtLookup: a lookup asks no node twice and at most ALPHA in each of its rounds,
   though the answers list the same nodes over and over. *)
AskedOnce ==
  /\ Is("find") => Find!AskedOnce
  /\ Is("get") => Get!AskedOnce
  /\ Is("ask") => Ask!AskedOnce

(* DhtLookup: find_nodes returns the nearest of all nodes it has learned of in any
   round, those it dropped on the way included. *)
ResultIsNearest == Is("find") => Find!ResultIsNearest

(* RouteTable: find_closest_nodes returns the K nodes of the whole table that are
   nearest to the target, nearest first, for every target. *)
FindsClosest == Is("route") => Route!FindsClosest

(* DhtStorage: get_peers is answered with exactly the peers whose last accepted
   announce is young enough, each once, whenever the clean-up has run. *)
ServesRecentAnnounces == Is("store") => Store!ServesRecentAnnounces

(* UdpAnnounce: an announce that returns a result has reached the tracker, whatever
   old answers were still under way. *)
SuccessMeansListed == Is("udp") => Udp!SuccessMeansListed

(* TrackerServer: a peer that announced within the last two intervals and did not stop
   is listed, whatever clean-ups there were. *)
ListsRecent == Is("server") => Server!ListsRecent

(* TrackerLoop: "started" and "completed" are announced at most once each, over all
   cycles, retries and wake-ups. *)
EventsOnce == Is("loop") => Loop!EventsOnce

(* LocalDiscovery: two sessions of one torrent that listen on different ports and keep
   running discover each other, whichever started first and whatever announcements were
   lost. *)
NeighboursMeet == []<>(Is("lsd") => Lsd!Met)

(* ChokeLoop: a peer that wants data and does not snub us, where there are no more such
   peers than slots, is unchoked again and again once no peer comes, goes or changes its
   interest. *)
InterestedServed ==
  \A p \in Leechers :
     /\ <>[][FALSE]_<<conns, interested>>
     /\ <>[](Is("choke") /\ Choke!Deserves(p))
     => []<>(Is("choke") /\ p \notin choking)

(* No caller of a DHT query, and no caller of an announce, awaits an answer. *)
NobodyAwaits ==
  /\ Is("queries") => \A q \in Queries : pc[q] \in {"idle", "done"}
  /\ Is("udp") => Udp!Over
  /\ Is("http") => Http!Over

(* Whoever awaits the network gets back, with an answer or without: the caller of a DHT
   query, also one that a collision, a cancellation or stop() took out of the map, and
   the caller of an announce, however often the tracker is silent or redirects it. *)
CallersReturn == []<>NobodyAwaits
=============================================================================
