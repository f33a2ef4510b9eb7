----------------------------- MODULE PieceEngine -----------------------------
(***************************************************************************)
(* The download engine of one torrent: PieceManager (fills, resumers,      *)
(* block timeouts, tail scheduler, endgame), the TorrentSession handlers   *)
(* that feed it (block, reject, choke, unchoke, disconnect) and the piece  *)
(* statuses of SessionState.                                               *)
(*                                                                         *)
(* Concurrency.  The io_context runs on hardware_concurrency() threads.    *)
(* Fills and resumers are spawned on no strand, a connection's handlers on *)
(* that connection's strand, so all of them run in parallel.  One action   *)
(* is the code between two points where another thread can get in with a   *)
(* visible effect.  With MultiThreaded = FALSE (one core) a coroutine is   *)
(* only left where it really suspends: MidSection names the places where   *)
(* it does not, and every other action then waits.                         *)
(*                                                                         *)
(* Time is abstracted: an armed request may time out at any moment, a      *)
(* rejection may have expired at any pick, any in-flight piece may be      *)
(* stuck.  Peer preference (primary, proven, fresh, rotor, rarity order)   *)
(* is abstracted to the choice of any eligible peer or piece.  Whether the *)
(* request pipeline of a connection has room is left open.  A CANCEL takes *)
(* effect when it is spawned.  Two equal requests to one peer count once.  *)
(***************************************************************************)
EXTENDS Integers, FiniteSets

CONSTANTS
  Pieces, Blocks, Peers,
  Fillers,                 \* request_one_piece / try_seed_to_primary coroutines
  MultiThreaded,           \* more than one I/O thread
  Deselected,              \* pieces of files the user did not select
  OnDisk,                  \* pieces that verify_pieces finds on the disk
  Restored,                \* pieces with an entry in the resume data
  EndgameDivisor,          \* the 10 of num_pieces / 10
  kEndgamePieceThreshold,
  kEndgameFanout,
  kTailBlocksPerPeer,
  MaxFaults,               \* bound: rejects, chokes and corrupt blocks
  MaxDisconnects           \* bound: sockets that fail

ASSUME EngineAssumption ==
  /\ IsFiniteSet(Pieces) /\ IsFiniteSet(Blocks) /\ IsFiniteSet(Peers)
  /\ Pieces # {} /\ Blocks # {}
  /\ Deselected \subseteq Pieces /\ OnDisk \subseteq Pieces /\ Restored \subseteq Pieces
  /\ MultiThreaded \in BOOLEAN
  /\ EndgameDivisor \in Nat \ {0}
  /\ kEndgamePieceThreshold \in Nat
  /\ kEndgameFanout \in Nat \ {0}
  /\ kTailBlocksPerPeer \in Nat
  /\ MaxFaults \in Nat /\ MaxDisconnects \in Nat

VARIABLES
  status,      \* SessionState::piece_status_
  completed,   \* SessionState::completed_pieces_
  complete,    \* SessionState::is_download_complete_
  endgame,     \* SessionState::is_in_endgame_mode_
  broadcast,   \* broadcast_outstanding_requests spawned, not yet run
  prog,        \* PieceManager::in_progress_pieces_
  fill,        \* per filler: nothing, or the <<piece, peer>> it has checked
  resumers,    \* per piece: resume coroutines running / about to clear the flag
  handler,     \* per peer: the steps its message handler still has to take, if any
  conn,        \* per peer: the connection table and the socket
  choking,     \* per peer: peer_is_choking_, "dropping" until the queue is dropped
  sends,       \* send_request coroutines spawned, not yet run
  pending,     \* PeerConnection::pending_requests_
  sent,        \* requests written whose record_request_sent has not run
  wire,        \* requests the peer has and may answer
  disk,        \* per piece: the blocks for which write_piece was not given the right data
  onComplete,  \* calls of on_complete_
  shutdown,    \* shutting_down_
  faults, disconnects

pieceVars == <<status, completed, complete>>
modeVars  == <<endgame, broadcast, shutdown, onComplete, disk>>
netVars   == <<sends, pending, sent, wire>>
connVars  == <<conn, choking, disconnects>>
taskVars  == <<fill, handler>>
progVars  == <<prog, resumers>>
vars == <<pieceVars, modeVars, netVars, connVars, taskVars, progVars, faults>>

-----------------------------------------------------------------------------
Requests == Peers \X Pieces \X Blocks

Progress ==
  [live     : BOOLEAN,                   \* the piece has an entry in the map
   received : SUBSET Blocks,             \* blocks_received
   bad      : SUBSET Blocks,             \* received with data that is not the torrent's
   owners   : [Blocks -> SUBSET Peers],  \* outstanding_requests
   armed    : SUBSET Blocks,             \* request_times # TimePoint{}
   rejected : [Blocks -> SUBSET Peers],  \* rejected_by
   resuming : BOOLEAN]                   \* resume_task_active

NoProg ==
  [live |-> FALSE, received |-> {}, bad |-> {}, owners |-> [b \in Blocks |-> {}],
   armed |-> {}, rejected |-> [b \in Blocks |-> {}], resuming |-> FALSE]

FreshProgress == [NoProg EXCEPT !.live = TRUE]

(* load_session_state restores the received bits of a piece that was being
   downloaded, not its data.  The resumer it spawns fails before run() installs
   get_available_peers_, and verify_pieces, which comes next, sets the status
   from the disk and keeps the entry. *)
RestoredProgress(S) == [FreshProgress EXCEPT !.received = S, !.bad = S]

(* What is left to do for a handler that is between two of its steps, with the
   bad blocks of the copy of the piece it has hashed. *)
Step == [do : {"write", "finish", "flush", "return", "reject"},
         piece : Pieces, block : Blocks, bad : SUBSET Blocks]

ToDo(what, p, b, bad) == {[do |-> what, piece |-> p, block |-> b, bad |-> bad]}

InProgress == {p \in Pieces : prog[p].live}
Needed     == {p \in Pieces : status[p] = "Needed"}
HavePieces == {p \in Pieces : status[p] = "Have"}

InTable(x) == conn[x] \in {"up", "dead", "closing"}

(* PeerManager::available_peers; every peer of the model has every piece. *)
Available == {x \in Peers : InTable(x) /\ choking[x] = "no"}

Of(x, reqs) == {r \in reqs : r[1] = x}

(* The places where a coroutine does not suspend. *)
MidSection ==
  \/ \E f \in Fillers : fill[f] # {}
  \/ \E x \in Peers : \E h \in handler[x] : h.do \in {"write", "finish"}
  \/ \E x \in Peers : choking[x] = "dropping"
  \/ \E p \in Pieces : resumers[p].exiting > 0

CanRun == MultiThreaded \/ ~MidSection

(* ensure_resume_piece_download for the pieces of S: a piece in progress whose
   flag is down gets it raised and one resumer spawned. *)
Resumable(pr, S) == {p \in S : pr[p].live /\ ~shutdown /\ ~pr[p].resuming}

EnsureResume(pr, S) ==
  /\ prog' = [p \in Pieces |->
                IF p \in Resumable(pr, S) THEN [pr[p] EXCEPT !.resuming = TRUE] ELSE pr[p]]
  /\ resumers' = [p \in Pieces |->
                IF p \in Resumable(pr, S) THEN [resumers[p] EXCEPT !.run = @ + 1] ELSE resumers[p]]

(* flush_pending_requests of the connections X: nothing while a peer chokes us;
   otherwise queued requests are sent while the pipeline has room. *)
Flushes(X, queue) == SUBSET {r \in queue : r[1] \in X /\ choking[r[1]] = "no"}

(* The requests `answered` leave the wire and `cancelled` are withdrawn, from the
   queue or with a CANCEL the peer may not see in time; both free room.  The
   coroutines for the requests `spawned` are spawned as well. *)
FreePipeline(answered, cancelled, spawned) ==
  LET X == {r[1] : r \in answered \union cancelled}
      queue == pending \ cancelled IN
  \E S \in Flushes(X, queue) :
    /\ wire' \in {wire \ answered, wire \ (answered \union cancelled)}
    /\ pending' = queue \ S
    /\ sends' = sends \union S \union spawned

(* The owners of a block whose connection is still in the table: those that
   send_cancel_for_block reaches. *)
CancelTargets(p, b) == {<<y, p, b>> : y \in {y \in prog[p].owners[b] : InTable(y)}}

-----------------------------------------------------------------------------
(* Fills: try_piece_download, run by request_one_piece and try_seed_to_primary. *)

(* Mutant: the status is not looked at. *)
FillCheckAny(f, p, x) ==
  /\ CanRun
  /\ fill[f] = {}
  /\ ~shutdown
  /\ x \in Available
  /\ fill' = [fill EXCEPT ![f] = {<<p, x>>}]
  /\ UNCHANGED <<pieceVars, modeVars, netVars, connVars, progVars, handler, faults>>

(* After signal_shutdown there is no get_available_peers_ to call. *)
FillCheck(f, p, x) ==
  /\ CanRun
  /\ fill[f] = {}
  /\ ~shutdown
  /\ status[p] = "Needed"
  /\ x \in Available
  /\ fill' = [fill EXCEPT ![f] = {<<p, x>>}]
  /\ UNCHANGED <<pieceVars, modeVars, netVars, connVars, progVars, handler, faults>>

(* The status is not looked at again: the piece is marked InProgress, given an
   entry unless it has one, and every block is registered with the peer. *)
FillCommit(f, p, x) ==
  LET obj == IF prog[p].live THEN prog[p] ELSE FreshProgress IN
  /\ <<p, x>> \in fill[f]
  /\ fill' = [fill EXCEPT ![f] = {}]
  /\ status' = [status EXCEPT ![p] = "InProgress"]
  /\ prog' = [prog EXCEPT ![p] =
                [obj EXCEPT !.owners = [b \in Blocks |-> obj.owners[b] \union {x}]]]
  /\ sends' = sends \union ({x} \X {p} \X Blocks)
  /\ UNCHANGED <<completed, complete, modeVars, pending, sent, wire, connVars,
                 resumers, handler, faults>>

-----------------------------------------------------------------------------
(* PeerConnection::send_request and the hook record_request_sent. *)

Owned(obj, b, x) == [obj EXCEPT !.owners[b] = @ \union {x}]

Armed(obj, b) == [obj EXCEPT !.armed = @ \union {b}]

(* The peer is registered and the block's timer armed. *)
WithRequestSent(r) ==
  LET x == r[1]  p == r[2]  b == r[3] IN
  IF prog[p].live /\ b \notin prog[p].received
  THEN [prog EXCEPT ![p] = Armed(Owned(prog[p], b, x), b)]
  ELSE prog

SendQueued(r) ==
  /\ CanRun
  /\ r \in sends
  /\ sends' = sends \ {r}
  /\ pending' = pending \union {r}
  /\ UNCHANGED <<pieceVars, modeVars, sent, wire, connVars, taskVars, progVars, faults>>

SendWritten(r) ==
  /\ CanRun
  /\ r \in sends
  /\ conn[r[1]] = "up"
  /\ sends' = sends \ {r}
  /\ wire' = wire \union {r}
  /\ sent' = IF MultiThreaded THEN sent \union {r} ELSE sent
  /\ prog' = IF MultiThreaded THEN prog ELSE WithRequestSent(r)
  /\ UNCHANGED <<pieceVars, modeVars, pending, connVars, taskVars, resumers, faults>>

(* The write throws: a send_request credits and flushes the pipeline, a flushed
   request does not.  The registration of the block stays. *)
SendFailed(r) ==
  /\ CanRun
  /\ r \in sends
  /\ conn[r[1]] # "up"
  /\ \E S \in Flushes({r[1]}, pending) :
       /\ sends' = (sends \ {r}) \union S
       /\ pending' = pending \ S
  /\ UNCHANGED <<pieceVars, modeVars, sent, wire, connVars, taskVars, progVars, faults>>

(* A second thread lets the answer overtake the hook. *)
RecordSent(r) ==
  /\ r \in sent
  /\ sent' = sent \ {r}
  /\ prog' = WithRequestSent(r)
  /\ UNCHANGED <<pieceVars, modeVars, sends, pending, wire, connVars, taskVars,
                 resumers, faults>>

-----------------------------------------------------------------------------
(* TorrentSession::on_piece_block, called by the message loop of peer x.  The
   loop has credited the pipeline before. *)

CanHandle(x) == CanRun /\ conn[x] = "up" /\ handler[x] = {} /\ choking[x] # "dropping"

(* The piece is already there, or no longer in progress: a CANCEL is sent. *)
DeliverLate(x, p, b) ==
  /\ CanHandle(x)
  /\ <<x, p, b>> \in wire
  /\ status[p] = "Have" \/ ~prog[p].live
  /\ FreePipeline({<<x, p, b>>}, {<<x, p, b>>}, {})
  /\ UNCHANGED <<pieceVars, modeVars, sent, connVars, taskVars, progVars, faults>>

DeliverDuplicate(x, p, b) ==
  /\ CanHandle(x)
  /\ <<x, p, b>> \in wire
  /\ status[p] # "Have" /\ prog[p].live /\ b \in prog[p].received
  /\ FreePipeline({<<x, p, b>>}, {}, {})
  /\ UNCHANGED <<pieceVars, modeVars, sent, connVars, taskVars, progVars, faults>>

(* The block is received, its data good or not, and its rejections forgotten. *)
Stored(obj, b, good) ==
  [obj EXCEPT !.received = @ \union {b},
              !.bad = IF good THEN @ ELSE @ \union {b},
              !.rejected[b] = {}]

(* Nobody is asked for the block any more. *)
Withdrawn(obj, b) == [obj EXCEPT !.owners[b] = {}, !.armed = @ \ {b}]

(* Mutant: the hash is not compared. *)
VerdictNoHash(p, b, got) == ToDo("write", p, b, got.bad)

(* The SHA-1 of the assembled piece against the torrent's. *)
Verdict(p, b, got) == ToDo(IF got.bad = {} THEN "write" ELSE "return", p, b, got.bad)

(* The block is stored; in the endgame the other owners get a CANCEL; the piece
   is resumed; the handler that stored the last block hashes the piece. *)
DeliverBlock(x, p, b, good) ==
  LET old == prog[p]
      new == Stored(old, b, good)
      got == IF endgame THEN Withdrawn(new, b) ELSE new IN
  /\ CanHandle(x)
  /\ <<x, p, b>> \in wire
  /\ status[p] # "Have" /\ old.live /\ b \notin old.received
  /\ good \/ faults < MaxFaults
  /\ faults' = IF good THEN faults ELSE faults + 1
  /\ FreePipeline({<<x, p, b>>},
                  IF endgame THEN CancelTargets(p, b) \ {<<x, p, b>>} ELSE {}, {})
  /\ EnsureResume([prog EXCEPT ![p] = got], {p})
  /\ handler' = [handler EXCEPT ![x] =
                   IF got.received = Blocks THEN Verdict(p, b, got) ELSE {}]
  /\ UNCHANGED <<pieceVars, modeVars, sent, connVars, fill>>

(* Hash matched: write_piece, status, counter. *)
CompletePiece(x, h) ==
  /\ h.do = "write"
  /\ disk' = [disk EXCEPT ![h.piece] = h.bad]
  /\ status' = [status EXCEPT ![h.piece] = "Have"]
  /\ completed' = completed + 1
  /\ handler' = [handler EXCEPT ![x] = ToDo("finish", h.piece, h.block, h.bad)]
  /\ UNCHANGED <<complete, endgame, broadcast, shutdown, onComplete, netVars, connVars,
                 fill, progVars, faults>>

(* Mutant: the last piece is not waited for. *)
AlmostAllPieces == completed + 1 >= Cardinality(Pieces)

AllPieces == completed = Cardinality(Pieces)

(* HAVE to all, the entry is dropped, and the last piece completes the torrent. *)
FinishPiece(x, h) ==
  /\ h.do = "finish"
  /\ prog' = [prog EXCEPT ![h.piece] = NoProg]
  /\ complete' = (complete \/ AllPieces)
  /\ handler' = [handler EXCEPT ![x] =
                   IF AllPieces THEN ToDo("flush", h.piece, h.block, h.bad) ELSE {}]
  /\ UNCHANGED <<status, completed, modeVars, netVars, connVars, fill, resumers, faults>>

(* After the flush: unless stop() came first, close everything and report. *)
Finalize(x, h) ==
  /\ CanRun
  /\ h.do = "flush"
  /\ handler' = [handler EXCEPT ![x] = {}]
  /\ IF shutdown THEN UNCHANGED <<conn, wire, onComplete>>
     ELSE /\ conn' = [y \in Peers |-> "gone"]
          /\ wire' = {}
          /\ onComplete' = onComplete + 1
  /\ UNCHANGED <<pieceVars, endgame, broadcast, shutdown, disk, sends, pending, sent,
                 choking, disconnects, fill, progVars, faults>>

(* Hash mismatch: return_piece_to_queue, on the PieceManager strand. *)
ReturnPieceToQueue(x, h) ==
  /\ CanRun
  /\ h.do = "return"
  /\ prog' = [prog EXCEPT ![h.piece] = NoProg]
  /\ status' = [status EXCEPT ![h.piece] = "Needed"]
  /\ handler' = [handler EXCEPT ![x] = {}]
  /\ UNCHANGED <<completed, complete, modeVars, netVars, connVars, fill, resumers, faults>>

-----------------------------------------------------------------------------
(* The other messages of a peer, and the life of its connection. *)

(* Mutant: the timer of a block left without owner stays armed. *)
WithoutOwnerArmed(obj, x) == [obj EXCEPT !.owners = [b \in Blocks |-> @[b] \ {x}]]

(* The piece progress once x owns nothing any more: a block left without owner
   is disarmed. *)
WithoutOwner(obj, x) ==
  LET own == [b \in Blocks |-> obj.owners[b] \ {x}] IN
  [obj EXCEPT !.owners = own,
              !.armed = {b \in @ : b \in obj.received \/ own[b] # {}}]

Missing(obj) == {b \in Blocks \ obj.received : obj.owners[b] = {}}

(* on_piece_rejected, up to the switch to the PieceManager strand. *)
RejectBlock(x, p, b) ==
  LET obj == [prog[p] EXCEPT !.owners[b] = @ \ {x}]
      new == IF obj.owners[b] = {} THEN Withdrawn(obj, b) ELSE obj IN
  /\ CanHandle(x)
  /\ faults < MaxFaults
  /\ <<x, p, b>> \in wire
  /\ faults' = faults + 1
  /\ FreePipeline({<<x, p, b>>}, {}, {})
  /\ IF prog[p].live
     THEN /\ prog' = [prog EXCEPT ![p] = new]
          /\ handler' = [handler EXCEPT ![x] = ToDo("reject", p, b, {})]
     ELSE UNCHANGED <<prog, handler>>
  /\ UNCHANGED <<pieceVars, modeVars, sent, connVars, fill, resumers>>

(* record_block_rejection *)
RejectedBy(obj, b, x) == [obj EXCEPT !.rejected[b] = @ \union {x}]

(* Mutant: the rejection is recorded and the piece not resumed. *)
RecordRejectionOnly(x, h) ==
  /\ CanRun
  /\ h.do = "reject"
  /\ prog' = IF prog[h.piece].live
             THEN [prog EXCEPT ![h.piece] = RejectedBy(@, h.block, x)] ELSE prog
  /\ handler' = [handler EXCEPT ![x] = {}]
  /\ UNCHANGED <<pieceVars, modeVars, netVars, connVars, fill, resumers, faults>>

(* on_piece_rejected on the strand: record_block_rejection, then resume. *)
RecordRejection(x, h) ==
  LET p == h.piece
      pr == IF prog[p].live THEN [prog EXCEPT ![p] = RejectedBy(@, h.block, x)] ELSE prog IN
  /\ CanRun
  /\ h.do = "reject"
  /\ EnsureResume(pr, {p})
  /\ handler' = [handler EXCEPT ![x] = {}]
  /\ UNCHANGED <<pieceVars, modeVars, netVars, connVars, fill, faults>>

(* CHOKE: the flag, then on_choke_status_changed(true). *)
Choke(x) ==
  LET pr == [p \in Pieces |-> IF prog[p].live THEN WithoutOwner(prog[p], x) ELSE prog[p]]
      queued == Of(x, pending) # {} IN
  /\ CanHandle(x)
  /\ faults < MaxFaults
  /\ faults' = faults + 1
  /\ choking' = [choking EXCEPT ![x] = "dropping"]
  /\ EnsureResume(pr, {p \in Pieces : queued \/ Missing(pr[p]) # {}})
  /\ UNCHANGED <<pieceVars, modeVars, netVars, conn, disconnects, taskVars>>

(* CHOKE, continued: the queue and the pipeline accounting are dropped. *)
ChokeDropQueue(x) ==
  /\ choking[x] = "dropping"
  /\ choking' = [choking EXCEPT ![x] = "yes"]
  /\ pending' = pending \ Of(x, pending)
  /\ UNCHANGED <<pieceVars, modeVars, sends, sent, wire, conn, disconnects, taskVars,
                 progVars, faults>>

(* UNCHOKE: flush the queue; at most every 5 s all pieces are resumed. *)
Unchoke(x) ==
  /\ CanHandle(x)
  /\ choking' = [choking EXCEPT ![x] = "no"]
  /\ \E S \in SUBSET Of(x, pending) :
       /\ pending' = pending \ S
       /\ sends' = sends \union S
  /\ \E resume_all \in BOOLEAN : EnsureResume(prog, IF resume_all THEN InProgress ELSE {})
  /\ UNCHANGED <<pieceVars, modeVars, sent, wire, conn, disconnects, taskVars, faults>>

SocketFails(x) ==
  /\ conn[x] = "up"
  /\ disconnects < MaxDisconnects
  /\ disconnects' = disconnects + 1
  /\ conn' = [conn EXCEPT ![x] = "dead"]
  /\ wire' = wire \ Of(x, wire)
  /\ UNCHANGED <<pieceVars, modeVars, sends, pending, sent, choking, taskVars, progVars, faults>>

(* on_disconnect up to the replacement sends: x is cleaned out of every piece
   and its queued requests are sent to other peers (a send that throws moves on
   to the next peer), or resumed.  x stays in the table while those sends are
   awaited. *)
Disconnect(x) ==
  LET pr == [p \in Pieces |->
               IF ~prog[p].live THEN prog[p]
               ELSE [WithoutOwner(prog[p], x) EXCEPT
                       !.rejected = [b \in Blocks |-> @[b] \ {x}]]]
      requeue == {r \in Of(x, pending) : prog[r[2]].live /\ r[3] \notin prog[r[2]].received}
      others == {y \in Available \ {x} : conn[y] = "up"}
      homeless == IF others = {} THEN {r[2] : r \in requeue} ELSE {} IN
  /\ CanRun
  /\ conn[x] = "dead" /\ handler[x] = {} /\ choking[x] # "dropping"
  /\ ~shutdown
  /\ EnsureResume(pr, {p \in Pieces : Missing(pr[p]) # {}} \union homeless)
  /\ \E to \in [requeue -> others \union {x}] :
       /\ \A r \in requeue : others # {} => to[r] # x
       /\ sends' = sends \union {<<to[r], r[2], r[3]>> : r \in {r \in requeue : to[r] # x}}
  /\ pending' = pending \ Of(x, pending)
  /\ conn' = [conn EXCEPT ![x] = IF MultiThreaded \/ (requeue # {} /\ others # {})
                                 THEN "closing" ELSE "gone"]
  /\ UNCHANGED <<pieceVars, modeVars, sent, wire, choking, disconnects, taskVars, faults>>

(* on_disconnect, continued: remove_connection. *)
RemoveConnection(x) ==
  /\ CanRun
  /\ conn[x] = "closing"
  /\ conn' = [conn EXCEPT ![x] = "gone"]
  /\ UNCHANGED <<pieceVars, modeVars, netVars, choking, disconnects, taskVars, progVars, faults>>

(* handle_new_connection for a peer that comes back; peers start out choking us.
   What was queued on the old connection object is lost with it. *)
Connect(x) ==
  /\ CanRun
  /\ conn[x] = "gone" /\ ~complete /\ ~shutdown
  /\ conn' = [conn EXCEPT ![x] = "up"]
  /\ choking' = [choking EXCEPT ![x] = "yes"]
  /\ sends' = sends \ Of(x, sends)
  /\ pending' = pending \ Of(x, pending)
  /\ UNCHANGED <<pieceVars, modeVars, sent, wire, disconnects, taskVars, progVars, faults>>

-----------------------------------------------------------------------------
(* Coroutines of the PieceManager. *)

(* pick_block_peer and pick_block_peer_preferring_primary: an available peer
   that is not asked for the block already.  A rejection may have expired since
   it was recorded, so a rejecting peer may be picked, but it is only certain
   that somebody is when a peer without rejection is left. *)
Picks(obj, b, excluded) ==
  LET cand == Available \ (obj.owners[b] \union excluded) IN
  {{y} : y \in cand} \union IF cand \subseteq obj.rejected[b] THEN {{}} ELSE {}

(* The endgame fan-out to at most kEndgameFanout available peers. *)
FanOuts(obj, b) ==
  {T \in SUBSET Available :
     \/ Cardinality(T) = kEndgameFanout
     \/ Cardinality(T) < kEndgameFanout /\ Available \ obj.rejected[b] \subseteq T}

(* resume_piece_download, one pass.  Blocks nobody is asked for are requested:
   in the endgame from several peers without registering them, otherwise from
   one registered peer each.  With nothing placed the resumer waits 2 s and
   tries again. *)
ResumePass(p) ==
  LET obj == prog[p]
      missing == IF obj.live /\ ~shutdown THEN Missing(obj) ELSE {} IN
  /\ CanRun
  /\ resumers[p].run > 0
  /\ \E to \in [missing -> SUBSET Available] :
       /\ \A b \in missing : to[b] \in IF endgame THEN FanOuts(obj, b) ELSE Picks(obj, b, {})
       /\ sends' = sends \union UNION {to[b] \X {p} \X {b} : b \in missing}
       /\ prog' = IF endgame THEN prog
                  ELSE [prog EXCEPT ![p] = [obj EXCEPT !.owners =
                          [b \in Blocks |-> IF b \in missing THEN to[b] ELSE obj.owners[b]]]]
       /\ IF missing = {} \/ \E b \in missing : to[b] # {}
          THEN resumers' = [resumers EXCEPT ![p].run = @ - 1, ![p].exiting = @ + 1]
          ELSE UNCHANGED resumers
  /\ UNCHANGED <<pieceVars, modeVars, pending, sent, wire, connVars, taskVars, faults>>

(* Mutant: the wrapper does not lower the flag. *)
ResumeExitFlagUp(p) ==
  /\ resumers[p].exiting > 0
  /\ resumers' = [resumers EXCEPT ![p].exiting = @ - 1]
  /\ UNCHANGED <<pieceVars, modeVars, netVars, connVars, taskVars, prog, faults>>

(* The spawned wrapper looks the piece up again and lowers the flag of the entry
   it finds, which may be a newer one. *)
ResumeExit(p) ==
  /\ resumers[p].exiting > 0
  /\ resumers' = [resumers EXCEPT ![p].exiting = @ - 1]
  /\ prog' = [prog EXCEPT ![p].resuming = FALSE]
  /\ UNCHANGED <<pieceVars, modeVars, netVars, connVars, taskVars, faults>>

(* check_block_timeouts for one armed block: the owners are cancelled and a
   replacement other than the first of them is asked, or the piece resumed. *)
BlockTimeout(p, b) ==
  LET obj == prog[p]
      cleared == Withdrawn(obj, b) IN
  /\ CanRun
  /\ ~complete /\ ~shutdown
  /\ obj.live /\ b \in obj.armed \ obj.received
  /\ \E avoid \in IF obj.owners[b] = {} THEN {{}} ELSE {{y} : y \in obj.owners[b]} :
     \E to \in Picks(cleared, b, avoid) :
       /\ FreePipeline({}, CancelTargets(p, b), to \X {p} \X {b})
       /\ EnsureResume([prog EXCEPT ![p] = [cleared EXCEPT !.owners[b] = to]],
                       IF to = {} THEN {p} ELSE {})
  /\ UNCHANGED <<pieceVars, modeVars, sent, connVars, taskVars, faults>>

(* tail_scheduler_pass, one holder y of one stuck piece: with every piece started
   and no endgame, y is asked for the block with the fewest owners. *)
TailRequest(p, y) ==
  LET obj == prog[p]
      depth == Cardinality({r \in Requests : /\ r[1] = y
                                             /\ prog[r[2]].live
                                             /\ y \in prog[r[2]].owners[r[3]]})
      open == {b \in Blocks \ obj.received : y \notin obj.owners[b]} IN
  /\ CanRun
  /\ ~complete /\ ~shutdown
  /\ Needed = {} /\ ~endgame
  /\ obj.live
  /\ y \in Available
  /\ depth < kTailBlocksPerPeer
  /\ \E skipped \in SUBSET {b \in open : y \in obj.rejected[b]} :
     \E b \in open \ skipped :
       /\ \A c \in open \ skipped : Cardinality(obj.owners[b]) <= Cardinality(obj.owners[c])
       /\ prog' = [prog EXCEPT ![p] = Owned(@, b, y)]
       /\ sends' = sends \union {<<y, p, b>>}
  /\ UNCHANGED <<pieceVars, modeVars, pending, sent, wire, connVars, taskVars, resumers, faults>>

-----------------------------------------------------------------------------
(* Endgame and shutdown. *)

EndgameLimit ==
  LET share == Cardinality(Pieces) \div EndgameDivisor IN
  IF share < kEndgamePieceThreshold THEN share ELSE kEndgamePieceThreshold

(* check_and_enter_endgame, from the downloader or the watchdog; whether the last
   window was slow is left open. *)
EnterEndgame(stalled) ==
  LET open == Cardinality({p \in Pieces : status[p] \in {"Needed", "InProgress"}}) IN
  /\ CanRun
  /\ ~complete /\ ~shutdown /\ ~endgame
  /\ \/ open > 0 /\ open < EndgameLimit
     \/ /\ stalled
        /\ completed >= kEndgamePieceThreshold
        /\ open < 2 * kEndgamePieceThreshold
        /\ InProgress # {}
  /\ endgame' = TRUE
  /\ broadcast' = TRUE
  /\ UNCHANGED <<pieceVars, shutdown, onComplete, disk, netVars, connVars, taskVars,
                 progVars, faults>>

(* broadcast_outstanding_requests: the missing blocks from every available peer,
   unregistered.  The sends are awaited one after the other and the first that
   throws ends it. *)
Broadcast ==
  LET all == {r \in Requests : /\ r[1] \in Available
                               /\ prog[r[2]].live
                               /\ r[3] \notin prog[r[2]].received} IN
  /\ CanRun
  /\ broadcast
  /\ broadcast' = FALSE
  /\ \E S \in SUBSET all :
       /\ complete => S = {}
       /\ sends' = sends \union S
  /\ UNCHANGED <<pieceVars, endgame, shutdown, onComplete, disk, pending, sent, wire,
                 connVars, taskVars, progVars, faults>>

(* TorrentSession::stop, up to the final save: signal_shutdown drops all progress. *)
Stop ==
  /\ CanRun
  /\ ~shutdown
  /\ shutdown' = TRUE
  /\ prog' = [p \in Pieces |-> NoProg]
  /\ UNCHANGED <<pieceVars, endgame, broadcast, onComplete, disk, netVars, connVars,
                 taskVars, resumers, faults>>

(* stop, continued: close_all and remove_all_connections. *)
StopClose ==
  /\ CanRun
  /\ shutdown
  /\ conn' = [x \in Peers |-> "gone"]
  /\ wire' = {}
  /\ UNCHANGED <<pieceVars, modeVars, sends, pending, sent, choking, disconnects, taskVars,
                 progVars, faults>>

-----------------------------------------------------------------------------
(* A download starts fresh or from resume data: the pieces that verified are Have,
   a piece that was in progress has its entry with the received bits back. *)
Init ==
  /\ status = [p \in Pieces |-> IF p \in Deselected THEN "Skipped"
                               ELSE IF p \in OnDisk THEN "Have" ELSE "Needed"]
  /\ Needed # {}
  /\ completed = Cardinality(HavePieces)
  /\ complete = FALSE
  /\ endgame = FALSE /\ broadcast = FALSE /\ shutdown = FALSE
  /\ onComplete = 0
  /\ disk = [p \in Pieces |-> IF status[p] = "Have" THEN {} ELSE Blocks]
  /\ prog \in [Pieces -> {NoProg} \union {RestoredProgress(S) : S \in SUBSET Blocks \ {Blocks}}]
  /\ \A p \in Pieces : prog[p].live <=> p \in Restored \ Deselected
  /\ resumers = [p \in Pieces |-> [run |-> 0, exiting |-> 0]]
  /\ fill = [f \in Fillers |-> {}]
  /\ handler = [x \in Peers |-> {}]
  /\ conn = [x \in Peers |-> "up"]
  /\ choking = [x \in Peers |-> "yes"]
  /\ sends = {} /\ pending = {} /\ sent = {} /\ wire = {}
  /\ faults = 0 /\ disconnects = 0

Fill ==
  \E f \in Fillers, p \in Pieces, x \in Peers : FillCheck(f, p, x) \/ FillCommit(f, p, x)

Send == \E r \in Requests : SendQueued(r) \/ SendWritten(r) \/ SendFailed(r) \/ RecordSent(r)

Receive(x) ==
  \/ \E p \in Pieces, b \in Blocks :
       \/ DeliverLate(x, p, b) \/ DeliverDuplicate(x, p, b)
       \/ \E good \in BOOLEAN : DeliverBlock(x, p, b, good)
       \/ RejectBlock(x, p, b)
  \/ \E h \in handler[x] :
       \/ CompletePiece(x, h) \/ FinishPiece(x, h) \/ Finalize(x, h)
       \/ ReturnPieceToQueue(x, h) \/ RecordRejection(x, h)
  \/ Choke(x) \/ ChokeDropQueue(x) \/ Unchoke(x)
  \/ SocketFails(x) \/ Disconnect(x) \/ RemoveConnection(x) \/ Connect(x)

Manage ==
  \/ \E p \in Pieces :
       \/ ResumePass(p) \/ ResumeExit(p)
       \/ \E b \in Blocks : BlockTimeout(p, b)
       \/ \E y \in Peers : TailRequest(p, y)
  \/ \E stalled \in BOOLEAN : EnterEndgame(stalled)
  \/ Broadcast

Next == Fill \/ Send \/ (\E x \in Peers : Receive(x)) \/ Manage \/ Stop \/ StopClose

Spec == Init /\ [][Next]_vars
-----------------------------------------------------------------------------
(* Properties *)

TypeOK ==
  /\ status \in [Pieces -> {"Needed", "InProgress", "Have", "Skipped"}]
  /\ completed \in Nat
  /\ complete \in BOOLEAN /\ endgame \in BOOLEAN /\ broadcast \in BOOLEAN
  /\ shutdown \in BOOLEAN
  /\ onComplete \in Nat
  /\ disk \in [Pieces -> SUBSET Blocks]
  /\ prog \in [Pieces -> Progress]
  /\ resumers \in [Pieces -> [run : Nat, exiting : Nat]]
  /\ fill \in [Fillers -> SUBSET (Pieces \X Peers)]
  /\ handler \in [Peers -> SUBSET Step]
  /\ conn \in [Peers -> {"up", "dead", "closing", "gone"}]
  /\ choking \in [Peers -> {"no", "dropping", "yes"}]
  /\ sends \subseteq Requests /\ pending \subseteq Requests
  /\ sent \subseteq Requests /\ wire \subseteq Requests
  /\ faults \in Nat /\ disconnects \in Nat

(* A piece is only marked Have with data that passed its hash: no corrupt block
   and no block that resume data merely claimed ever reaches a Have piece. *)
HaveIsGood == \A p \in Pieces : status[p] = "Have" => disk[p] = {}

(* A block whose request timer is armed has a peer it was requested from, so the
   timeout has somebody to cancel and to avoid. *)
ArmedHasOwner ==
  \A p \in Pieces : \A b \in prog[p].armed \ prog[p].received : prog[p].owners[b] # {}

(* resume_task_active is only up while a resumer exists that will lower it; a
   flag left up would keep the piece from ever being resumed again. *)
FlagHasResumer ==
  \A p \in Pieces : prog[p].resuming => resumers[p].run + resumers[p].exiting > 0

(* completed_pieces() is the number of pieces marked Have. *)
CompletedCountsHave == completed = Cardinality(HavePieces)

(* A piece in progress is never stranded: while blocks of it are missing, one of
   them has its timer armed, is being requested, or is registered with a peer whose
   on_disconnect is still to come; or a resumer runs; or a handler is about to
   start one.  The blocks that one pass of the resumer could not place are taken up
   when this one is received, rejected or timed out. *)
InFlight(p, b) == \E x \in Peers : <<x, p, b>> \in sends \union pending \union sent

Covered(p, b) ==
  \/ b \in prog[p].armed
  \/ InFlight(p, b)
  \/ \E x \in prog[p].owners[b] : conn[x] = "dead"

PiecesCovered ==
  \A p \in InProgress : status[p] = "InProgress" /\ ~shutdown =>
    LET missing == Blocks \ prog[p].received IN
    \/ missing = {}
    \/ \E b \in missing : Covered(p, b)
    \/ resumers[p].run > 0
    \/ \E x \in Peers : \E h \in handler[x] : h.do = "reject" /\ h.piece = p

(* An owner registered for a missing block is either still to be cleaned out by
   its on_disconnect, or covered by the block's timer, or its request is on its
   way: no registration outlives every event that would remove it. *)
StaleEntriesCleaned ==
  \A p \in InProgress : \A b \in Blocks \ prog[p].received : \A x \in prog[p].owners[b] :
    \/ conn[x] \in {"up", "dead"}
    \/ b \in prog[p].armed
    \/ <<x, p, b>> \in sends \union pending \union sent

(* The statuses, the counter and the completion flag behave as PieceLifecycle
   says. *)
Lifecycle == INSTANCE PieceLifecycle

ImplementsLifecycle == Lifecycle!LSpec
=============================================================================
