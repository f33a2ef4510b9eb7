--------------------------- MODULE ConnectionTable ---------------------------
(***************************************************************************)
(* How a peer connection comes into PeerManager::active_connections_ and   *)
(* leaves it: connect_to_peer and its half-open slots, handle_new_connection*)
(* and add_connection, the two loops of a connection and on_disconnect,    *)
(* bans, and TorrentSession::stop.  A member of Conns is a peer's address: *)
(* it is tried until its handshake succeeds, and is one connection then.   *)
(* The handlers run on IoThreads threads of one io_context: a coroutine    *)
(* is interrupted between two awaits only by other threads.                *)
(***************************************************************************)
EXTENDS Integers, FiniteSets

CONSTANTS Conns,        \* connections, attempted or accepted
          Inbound,      \* those that were accepted
          Ids, Ips,     \* peer ids and addresses
          IdOf, IpOf,   \* the peer id and the address of each connection
          Above,        \* the peer ids greater than my_peer_id_
          MaxTotal, MaxPerIp, MaxHalfOpen,   \* the limits of PeerManager
          Threshold,    \* reports of one kind before an address is banned
          MaxReports,   \* bound on the reports of peers that misbehave
          IoThreads,    \* threads that run the io_context
          Wrap,         \* one more than the largest size_t
          None

VARIABLES pc,        \* where handle_new_connection or connect_to_peer of a connection is
          half,      \* half_open_connections_
          table,     \* active_connections_
          open,      \* connections whose socket is open
          loop,      \* the message loop and the keep-alive loop of a connection
          mutex,     \* who holds mutex_
          blocked,   \* addresses in the fail cache or in backoff
          strikes,   \* peer_misbehavior_, one counter per kind
          due,       \* addresses over a threshold, before ban_peer_by_ip lists them
          banned,    \* banned_peers_
          sweep,     \* addresses ban_peer_by_ip has listed and not yet closed
          stop,      \* how far stop() is
          reports

vars == <<pc, half, table, open, loop, mutex, blocked, strikes, due, banned, sweep,
          stop, reports>>

ConnAssumption ==
  /\ IdOf \in [Conns -> Ids] /\ IpOf \in [Conns -> Ips] /\ Inbound \subseteq Conns
  /\ IsFiniteSet(Conns) /\ None \notin Conns
  /\ MaxTotal \in Nat /\ MaxPerIp \in Nat \ {0}
  /\ MaxHalfOpen \in Nat \ {0} /\ Wrap \in Nat /\ Wrap > MaxHalfOpen

Outbound == Conns \ Inbound
Loops == {"message", "keepalive"}
Kinds == {"corrupt", "violation", "failure"}

(* The connections of the table. *)
Listed == {table[i] : i \in Ids} \ {None}

(* Coroutines that are between two awaits, or hold the lock. *)
Running == {c \in Conns : pc[c] \in {"take", "quiet", "undo", "fail", "dup", "check",
                                     "other", "add", "locked", "drop", "insert"}}
MayRun(c) == Cardinality(Running \ {c}) < IoThreads

Init ==
  /\ pc = [c \in Conns |-> "idle"]
  /\ half = 0
  /\ table = [i \in Ids |-> None]
  /\ open = {}
  /\ loop = [c \in Conns |-> [l \in Loops |-> "off"]]
  /\ mutex = None
  /\ blocked = {}
  /\ strikes = [i \in Ips |-> [k \in Kinds |-> 0]]
  /\ due = {} /\ banned = {} /\ sweep = {}
  /\ stop = "no"
  /\ reports = 0

Goto(c, where) == pc' = [pc EXCEPT ![c] = where]
Stopping == stop # "no"

(* One more report of a kind against an address, and whether that is enough to ban. *)
Strike(ip, k) ==
  LET n == strikes[ip][k] + 1
  IN /\ strikes' = [strikes EXCEPT ![ip][k] = n]
     /\ due' = IF n >= Threshold THEN due \cup {ip} ELSE due

(* report_connection_failure: the address backs off, and the failure is counted. *)
ReportFailure(c) ==
  /\ blocked' = blocked \cup {c}
  /\ Strike(IpOf[c], "failure")
  /\ reports' = reports + 1

(* The end of an attempt, which fails in one of four ways: the resolver fails
   ("quiet"), the connect fails ("undo"), the handshake or the address is bad ("fail"),
   or the peer is connected already ("dup"). *)
Ended(c, why) ==
  /\ Goto(c, IF why = "dup" THEN "done" ELSE "idle")
  /\ IF why = "fail" \/ (why = "undo" /\ ~Stopping)
     THEN ReportFailure(c) ELSE UNCHANGED <<blocked, strikes, due, reports>>

(* release_half_open, and the same lines in connect_to_peer: the count is read ... *)
GiveBack(c, why) ==
  IF half > 0 THEN Goto(c, why) /\ UNCHANGED <<blocked, strikes, due, reports>>
              ELSE Ended(c, why)

-----------------------------------------------------------------------------
(* connect_to_peer. *)

(* An announce, the DHT or LSD gives the address of a peer: it is tried when no
   connection to the same address is listed. *)
Discover(c) ==
  /\ pc[c] = "idle" /\ c \in Outbound /\ mutex = None
  /\ ~ \E d \in Listed : IpOf[d] = IpOf[c]
  /\ Goto(c, "spawned")
  /\ UNCHANGED <<half, table, open, loop, mutex, blocked, strikes, due, banned, sweep,
                 stop, reports>>

(* The checks before the slot: shutdown, fail cache and backoff, ban. *)
StartConnect(c) ==
  /\ pc[c] = "spawned"
  /\ Goto(c, IF Stopping \/ c \in blocked \/ IpOf[c] \in banned THEN "idle" ELSE "wait")
  /\ UNCHANGED <<half, table, open, loop, mutex, blocked, strikes, due, banned, sweep,
                 stop, reports>>

(* The wait for a slot, polled every 200 ms: the count is read ... *)
SlotFree(c) ==
  /\ pc[c] = "wait" /\ half < MaxHalfOpen
  /\ Goto(c, "take")
  /\ UNCHANGED <<half, table, open, loop, mutex, blocked, strikes, due, banned, sweep,
                 stop, reports>>

(* ... and a shutdown ends the wait. *)
GiveUpSlot(c) ==
  /\ pc[c] = "wait" /\ half >= MaxHalfOpen /\ Stopping
  /\ Goto(c, "idle")
  /\ UNCHANGED <<half, table, open, loop, mutex, blocked, strikes, due, banned, sweep,
                 stop, reports>>

(* ... and then incremented. *)
TakeSlot(c) ==
  /\ pc[c] = "take"
  /\ half' = (half + 1) % Wrap
  /\ Goto(c, "connect")
  /\ UNCHANGED <<table, open, loop, mutex, blocked, strikes, due, banned, sweep, stop,
                 reports>>

(* async_connect succeeds before a shutdown: report_connection_success forgets the
   failures of the address. *)
Connected(c) ==
  /\ pc[c] = "connect" /\ ~Stopping
  /\ blocked' = blocked \ {c}
  /\ open' = open \cup {c}
  /\ Goto(c, "create")
  /\ UNCHANGED <<half, table, loop, mutex, strikes, due, banned, sweep, stop, reports>>

(* The resolver fails, the connect fails or is cancelled by its 15 s timer, or the
   port does not parse. *)
ConnectFails(c) ==
  /\ pc[c] = "connect" /\ (Stopping \/ reports < MaxReports)
  /\ \E why \in {"quiet", "undo", "fail"} : GiveBack(c, why)
  /\ UNCHANGED <<half, table, open, loop, mutex, banned, sweep, stop>>

(* ... and decremented if it was not zero. *)
ReleaseSlot(c) ==
  /\ pc[c] \in {"quiet", "undo", "fail", "dup"}
  /\ half' = (half - 1) % Wrap
  /\ Ended(c, pc[c])
  /\ UNCHANGED <<table, open, loop, mutex, banned, sweep, stop>>

-----------------------------------------------------------------------------
(* handle_new_connection. *)

Accept(c) ==
  /\ pc[c] = "idle" /\ c \in Inbound /\ ~Stopping
  /\ open' = open \cup {c}
  /\ Goto(c, "create")
  /\ UNCHANGED <<half, table, loop, mutex, blocked, strikes, due, banned, sweep, stop,
                 reports>>

(* PeerConnection::create throws or returns nullptr. *)
CreateFails(c) ==
  /\ pc[c] = "create" /\ reports < MaxReports
  /\ open' = open \ {c}
  /\ GiveBack(c, "fail")
  /\ UNCHANGED <<half, table, loop, mutex, banned, sweep, stop>>

(* create succeeds, and starts both loops. *)
CreateDone(c) ==
  /\ pc[c] = "create"
  /\ loop' = [loop EXCEPT ![c] = [l \in Loops |-> "runs"]]
  /\ Goto(c, "check")
  /\ UNCHANGED <<half, table, open, mutex, blocked, strikes, due, banned, sweep, stop,
                 reports>>

(* A peer that is listed already: the end with the smaller id drops the new
   connection ... *)
CheckDuplicate(c) ==
  /\ pc[c] = "check" /\ mutex = None
  /\ IF table[IdOf[c]] # None
     THEN IF IdOf[c] \in Above
          THEN GiveBack(c, "dup")
          ELSE Goto(c, "other") /\ UNCHANGED <<blocked, strikes, due, reports>>
     ELSE Goto(c, "add") /\ UNCHANGED <<blocked, strikes, due, reports>>
  /\ UNCHANGED <<half, table, open, loop, mutex, banned, sweep, stop>>

(* ... the other closes the old one, and then removes the new one, which is not listed. *)
CloseOther(c) ==
  /\ pc[c] = "other" /\ mutex = None
  /\ Goto(c, "add")
  /\ open' = open \ {table[IdOf[c]]}
  /\ UNCHANGED <<half, table, loop, mutex, blocked, strikes, due, banned, sweep, stop,
                 reports>>

(* add_connection before the lock: banned addresses, then a shutdown. *)
AddUnlocked(c) ==
  /\ pc[c] = "add"
  /\ IF IpOf[c] \in banned \/ Stopping
     THEN Goto(c, "done") /\ open' = open \ {c}
     ELSE Goto(c, "locked") /\ UNCHANGED open
  /\ UNCHANGED <<half, table, loop, mutex, blocked, strikes, due, banned, sweep, stop,
                 reports>>

(* add_connection takes mutex_ and reads the half-open count ... *)
AddLocked(c) ==
  /\ pc[c] = "locked" /\ mutex = None
  /\ mutex' = c
  /\ Goto(c, IF half > 0 THEN "drop" ELSE "insert")
  /\ UNCHANGED <<half, table, open, loop, blocked, strikes, due, banned, sweep, stop,
                 reports>>

(* ... and decrements it. *)
AddDrops(c) ==
  /\ pc[c] = "drop"
  /\ half' = (half - 1) % Wrap
  /\ Goto(c, "insert")
  /\ UNCHANGED <<table, open, loop, mutex, blocked, strikes, due, banned, sweep, stop,
                 reports>>

(* A form of Refused that trusts the check of the ban made before the lock. *)
RefusedNoRecheck(c) ==
  \/ Cardinality({d \in Listed : IpOf[d] = IpOf[c]}) >= MaxPerIp
  \/ MaxTotal = 0

(* The checks add_connection makes under the lock, the worst peer it may evict, and
   the connection of the same peer it replaces. *)
Refused(c) ==
  \/ IpOf[c] \in banned
  \/ Cardinality({d \in Listed : IpOf[d] = IpOf[c]}) >= MaxPerIp
  \/ MaxTotal = 0

(* A form of Evicted that compares with > instead of >=. *)
EvictedLate == IF Cardinality(Listed) > MaxTotal THEN Listed ELSE {None}

(* find_worst_peer_locked: the peer with the lowest rate, any of them here. *)
Evicted == IF Cardinality(Listed) >= MaxTotal THEN Listed ELSE {None}

Insert(c) ==
  /\ pc[c] = "insert"
  /\ mutex' = None
  /\ Goto(c, "done")
  /\ IF Refused(c)
     THEN open' = open \ {c} /\ UNCHANGED table
     ELSE \E w \in Evicted :
            LET kept == [i \in Ids |-> IF table[i] = w THEN None ELSE table[i]]
            IN /\ open' = open \ {w, kept[IdOf[c]]}
               /\ table' = [kept EXCEPT ![IdOf[c]] = c]
  /\ UNCHANGED <<half, loop, blocked, strikes, due, banned, sweep, stop, reports>>

-----------------------------------------------------------------------------
(* The end of a connection. *)

(* The peer closes its end, or the network fails. *)
PeerLeaves(c) ==
  /\ c \in open
  /\ open' = open \ {c}
  /\ UNCHANGED <<pc, half, table, loop, mutex, blocked, strikes, due, banned, sweep, stop,
                 reports>>

(* A loop of a connection whose socket is closed ends in on_disconnect, which does
   nothing in a shutdown and otherwise awaits before it removes the connection.  The
   keep-alive loop only calls it when its write fails, and not when close() or the
   message loop cancelled its timer. *)
LoopEnds(c, l) ==
  /\ loop[c][l] = "runs" /\ c \notin open
  /\ \/ loop' = [loop EXCEPT ![c][l] = IF Stopping THEN "over" ELSE "leaves"]
     \/ l = "keepalive" /\ loop' = [loop EXCEPT ![c][l] = "over"]
  /\ UNCHANGED <<pc, half, table, open, mutex, blocked, strikes, due, banned, sweep, stop,
                 reports>>

(* The removal by on_disconnect, which names the peer and not the connection. *)
Remove(c, l) ==
  /\ loop[c][l] = "leaves" /\ mutex = None
  /\ loop' = [loop EXCEPT ![c][l] = "over"]
  /\ table' = [table EXCEPT ![IdOf[c]] = None]
  /\ UNCHANGED <<pc, half, open, mutex, blocked, strikes, due, banned, sweep, stop,
                 reports>>

-----------------------------------------------------------------------------
(* Bans. *)

(* A message handler reports a corrupt piece or a protocol violation. *)
Misbehaves(c, k) ==
  /\ loop[c]["message"] = "runs" /\ c \in open /\ k \in {"corrupt", "violation"}
  /\ reports < MaxReports
  /\ reports' = reports + 1
  /\ Strike(IpOf[c], k)
  /\ UNCHANGED <<pc, half, table, open, loop, mutex, blocked, banned, sweep, stop>>

(* ban_peer_by_ip lists the address and forgets its counters ... *)
Ban(ip) ==
  /\ ip \in due
  /\ due' = due \ {ip}
  /\ banned' = banned \cup {ip}
  /\ sweep' = sweep \cup {ip}
  /\ strikes' = [strikes EXCEPT ![ip] = [k \in Kinds |-> 0]]
  /\ UNCHANGED <<pc, half, table, open, loop, mutex, blocked, stop, reports>>

(* ... and closes and removes its connections. *)
Sweep(ip) ==
  /\ ip \in sweep /\ mutex = None
  /\ sweep' = sweep \ {ip}
  /\ open' = open \ {c \in Listed : IpOf[c] = ip}
  /\ table' = [i \in Ids |-> IF table[i] # None /\ IpOf[table[i]] = ip
                             THEN None ELSE table[i]]
  /\ UNCHANGED <<pc, half, loop, mutex, blocked, strikes, due, banned, stop, reports>>

(* A ban ends after an hour, in is_banned or in ban_cleanup_loop. *)
BanExpires(ip) ==
  /\ ip \in banned
  /\ banned' = banned \ {ip}
  /\ UNCHANGED <<pc, half, table, open, loop, mutex, blocked, strikes, due, sweep, stop,
                 reports>>

(* The backoff of an address ends. *)
BackoffExpires(c) ==
  /\ c \in blocked
  /\ blocked' = blocked \ {c}
  /\ UNCHANGED <<pc, half, table, open, loop, mutex, strikes, due, banned, sweep, stop,
                 reports>>

-----------------------------------------------------------------------------
(* stop(): PeerManager::cancel raises shutting_down_; after the final save the
   connections are closed, and removed under the lock taken again. *)
StopFlag ==
  /\ stop = "no"
  /\ stop' = "flagged"
  /\ UNCHANGED <<pc, half, table, open, loop, mutex, blocked, strikes, due, banned, sweep,
                 reports>>

CloseAll ==
  /\ stop = "flagged" /\ mutex = None
  /\ stop' = "closed"
  /\ open' = open \ Listed
  /\ UNCHANGED <<pc, half, table, loop, mutex, blocked, strikes, due, banned, sweep,
                 reports>>

RemoveAll ==
  /\ stop = "closed" /\ mutex = None
  /\ stop' = "done"
  /\ table' = [i \in Ids |-> None]
  /\ UNCHANGED <<pc, half, open, loop, mutex, blocked, strikes, due, banned, sweep,
                 reports>>

-----------------------------------------------------------------------------
Coroutine(c) ==
  \/ StartConnect(c) \/ SlotFree(c) \/ GiveUpSlot(c) \/ TakeSlot(c)
  \/ Connected(c) \/ ConnectFails(c) \/ ReleaseSlot(c)
  \/ CreateFails(c) \/ CreateDone(c) \/ CheckDuplicate(c) \/ CloseOther(c)
  \/ AddUnlocked(c) \/ AddLocked(c) \/ AddDrops(c) \/ Insert(c)

Elsewhere ==
  \/ \E c \in Conns : Discover(c) \/ Accept(c) \/ PeerLeaves(c) \/ BackoffExpires(c)
  \/ \E c \in Conns, l \in Loops : LoopEnds(c, l) \/ Remove(c, l)
  \/ \E c \in Conns, k \in Kinds : Misbehaves(c, k)
  \/ \E ip \in Ips : Ban(ip) \/ Sweep(ip) \/ BanExpires(ip)
  \/ StopFlag \/ CloseAll \/ RemoveAll

Next ==
  \/ \E c \in Conns : MayRun(c) /\ Coroutine(c)
  \/ MayRun(None) /\ Elsewhere

Spec == Init /\ [][Next]_vars

-----------------------------------------------------------------------------
(* add_connection keeps the limits on the table whatever number of handshakes finish
   at the same time: at most MaxTotal connections, at most MaxPerIp of an address. *)
WithinLimits ==
  /\ Cardinality(Listed) <= MaxTotal
  /\ \A ip \in Ips : Cardinality({c \in Listed : IpOf[c] = ip}) <= MaxPerIp

(* Once ban_peer_by_ip has swept the table, no connection of a banned address is in
   it, also when its handshake was past the first check when the ban was listed. *)
BannedStayOut == \A c \in Listed : IpOf[c] \in banned => IpOf[c] \in sweep
=============================================================================
