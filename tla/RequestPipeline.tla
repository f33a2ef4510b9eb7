--------------------------- MODULE RequestPipeline ---------------------------
(***************************************************************************)
(* The request pipeline of one PeerConnection: the queue of unsent         *)
(* requests, the count and the bytes in flight, and everything that        *)
(* credits them: answers, rejects, cancels, failed writes and chokes.      *)
(* PieceEngine leaves open whether the pipeline has room; this module is   *)
(* about that room.                                                        *)
(*                                                                         *)
(* Every call of send_request is a request of its own, made at most once   *)
(* and for a block of its own.                                             *)
(* The session around the connection is `owned`: the requests it has       *)
(* registered with this peer (outstanding_requests) and may still cancel.  *)
(* Handlers of other peers, timeouts and spawned writes run on other       *)
(* threads, so every section under pipeline_mutex_ is one action.          *)
(***************************************************************************)
EXTENDS Integers, SequencesExt

CONSTANTS
  Requests,
  ShortRequests,         \* requests for the last block of a file's last piece
  BLOCK_SIZE, ShortSize,
  MaxOutstanding,        \* max_outstanding_requests_
  MAX_PIPELINE_BUFFER,
  WordSize               \* 2^64, the modulus of the uint64_t subtraction

ASSUME PipelineAssumption ==
  /\ IsFiniteSet(Requests) /\ ShortRequests \subseteq Requests
  /\ BLOCK_SIZE \in Nat \ {0} /\ ShortSize \in 1..BLOCK_SIZE
  /\ MaxOutstanding \in Nat \ {0}
  /\ MAX_PIPELINE_BUFFER \in Nat \ {0}
  /\ WordSize \in Nat /\ WordSize > MAX_PIPELINE_BUFFER

VARIABLES
  at,         \* per request: where it is
  pending,    \* pending_requests_
  out,        \* outstanding_request_count_
  requested,  \* total_bytes_requested_
  received,   \* total_bytes_received_
  choking,    \* peer_is_choking_
  dropping,   \* the CHOKE handler has not dropped the queue yet
  owned,      \* requests the session may still cancel
  cancelling, \* send_cancel coroutines spawned, not yet run
  cancelled,  \* requests for which a CANCEL was sent
  dead        \* the socket has failed

counters == <<out, requested, received>>
session  == <<owned, cancelling, cancelled>>
link     == <<choking, dropping, dead>>
vars     == <<at, pending, counters, session, link>>

Places == {"idle", "picked", "spawned", "queued", "writing", "flushing", "peer", "lost", "over"}

Size(r) == IF r \in ShortRequests THEN ShortSize ELSE BLOCK_SIZE

Bytes(queue) == FoldLeft(LAMBDA sum, r : sum + Size(r), 0, queue)

(* The gate of send_request and flush_pending_requests. *)
Room(o, req, rec) ==
  /\ o < MaxOutstanding
  /\ (req - rec) % WordSize < MAX_PIPELINE_BUFFER

Less(total, r) == IF total >= Size(r) THEN total - Size(r) ELSE 0

OneLess(o) == IF o > 0 THEN o - 1 ELSE 0

Moved(r, where) == [at EXCEPT ![r] = where]

(* flush_pending_requests with the queue and the counters the caller leaves:
   requests are taken from the front and their writes spawned while there is
   room, none while the peer chokes. *)
Flush(place, queue, o, req, rec) ==
  \E n \in 0..Len(queue) :
    LET First(k) == SubSeq(queue, 1, k)
        RoomAfter(k) == ~choking' /\ Room(o + k, req + Bytes(First(k)), rec) IN
    /\ \A k \in 0..(n - 1) : RoomAfter(k)
    /\ n = Len(queue) \/ ~RoomAfter(n)
    /\ at' = [r \in Requests |-> IF r \in ToSet(First(n)) THEN "flushing" ELSE place[r]]
    /\ pending' = SubSeq(queue, n + 1, Len(queue))
    /\ out' = o + n
    /\ requested' = req + Bytes(First(n))
    /\ received' = rec

-----------------------------------------------------------------------------
(* A fill, resumer, timeout or tail pass picks this peer, which does not choke. *)
Pick(r) ==
  /\ at[r] = "idle" /\ ~choking
  /\ at' = Moved(r, "picked")
  /\ UNCHANGED <<pending, counters, session, link>>

(* It registers the block with the peer, which may have choked since, and spawns
   send_request. *)
Ask(r) ==
  /\ at[r] = "picked"
  /\ at' = Moved(r, "spawned")
  /\ owned' = owned \union {r}
  /\ UNCHANGED <<pending, counters, cancelling, cancelled, link>>

(* send_request up to the write.  It does not look at peer_is_choking_. *)
SendRequest(r) ==
  /\ at[r] = "spawned"
  /\ IF Room(out, requested, received)
     THEN /\ at' = Moved(r, "writing")
          /\ requested' = requested + Size(r)
          /\ out' = out + 1
          /\ UNCHANGED pending
     ELSE /\ at' = Moved(r, "queued")
          /\ pending' = Append(pending, r)
          /\ UNCHANGED <<requested, out>>
  /\ UNCHANGED <<received, session, link>>

(* The write is reported done, which the write queue may do before the socket fails;
   record_request_sent registers the block again unless the piece has moved on. *)
Written(r) ==
  /\ at[r] \in {"writing", "flushing"}
  /\ at' = Moved(r, "peer")
  /\ owned' \in {owned, owned \union {r}}
  /\ UNCHANGED <<pending, counters, cancelling, cancelled, link>>

(* Mutant: the request that could not be written stays counted. *)
WriteFailsNoUndo(r) ==
  /\ at[r] = "writing" /\ dead
  /\ UNCHANGED choking
  /\ Flush(Moved(r, "over"), pending, out, requested, received)
  /\ UNCHANGED <<session, dropping, dead>>

(* send_request, the catch block. *)
WriteFails(r) ==
  /\ at[r] = "writing" /\ dead
  /\ UNCHANGED choking
  /\ Flush(Moved(r, "over"), pending, OneLess(out), Less(requested, r), received)
  /\ UNCHANGED <<session, dropping, dead>>

(* The spawned write of a flushed request has no catch block. *)
FlushedWriteFails(r) ==
  /\ at[r] = "flushing" /\ dead
  /\ at' = Moved(r, "lost")
  /\ UNCHANGED <<pending, counters, session, link>>

-----------------------------------------------------------------------------
(* Messages of the peer, handled one at a time by the message loop; some may be in
   its buffer when the socket fails. *)

Handling == ~dropping

(* PIECE: on_request_completed.  A block of a piece that is Have or no longer in
   progress makes on_piece_block spawn a send_cancel for it. *)
OnRequestCompleted(r, late) ==
  /\ Handling
  /\ at[r] = "peer"
  /\ UNCHANGED choking
  /\ Flush(Moved(r, "over"), pending, OneLess(out), requested,
           IF received + Size(r) > requested THEN requested ELSE received + Size(r))
  /\ owned' = owned \ {r}
  /\ cancelling' = IF late THEN cancelling \union {r} ELSE cancelling
  /\ UNCHANGED <<cancelled, dropping, dead>>

(* Mutant: a reject frees the slot and does not flush. *)
OnRequestRejectedNoFlush(r) ==
  /\ Handling
  /\ at[r] = "peer"
  /\ at' = Moved(r, "over")
  /\ out' = OneLess(out)
  /\ requested' = Less(requested, r)
  /\ owned' = owned \ {r}
  /\ UNCHANGED <<pending, received, cancelling, cancelled, link>>

(* REJECT: on_request_rejected. *)
OnRequestRejected(r) ==
  /\ Handling
  /\ at[r] = "peer"
  /\ UNCHANGED choking
  /\ Flush(Moved(r, "over"), pending, OneLess(out), Less(requested, r), received)
  /\ owned' = owned \ {r}
  /\ UNCHANGED <<cancelling, cancelled, dropping, dead>>

(* CHOKE: the flag, and on_choke_status_changed takes the peer out of every block. *)
Choke ==
  /\ Handling
  /\ choking' = TRUE
  /\ dropping' = TRUE
  /\ owned' = {}
  /\ UNCHANGED <<at, pending, counters, cancelling, cancelled, dead>>

(* CHOKE, continued: the queue is cleared and the accounting starts again. *)
DropQueue ==
  /\ dropping
  /\ dropping' = FALSE
  /\ at' = [r \in Requests |-> IF at[r] = "queued" THEN "over" ELSE at[r]]
  /\ pending' = <<>>
  /\ out' = 0 /\ requested' = 0 /\ received' = 0
  /\ UNCHANGED <<session, choking, dead>>

Unchoke ==
  /\ Handling
  /\ choking' = FALSE
  /\ Flush(at, pending, out, requested, received)
  /\ UNCHANGED <<session, dropping, dead>>

-----------------------------------------------------------------------------
(* A block timeout, or another peer's answer in the endgame: send_cancel_for_block
   takes the registration away and spawns send_cancel. *)
SpawnCancel(r) ==
  /\ r \in owned
  /\ owned' = owned \ {r}
  /\ cancelling' = cancelling \union {r}
  /\ UNCHANGED <<at, pending, counters, cancelled, link>>

(* send_cancel: a queued request is erased; any other is credited, wherever it is,
   and a CANCEL goes out. *)
SendCancel(r) ==
  /\ r \in cancelling
  /\ cancelling' = cancelling \ {r}
  /\ UNCHANGED choking
  /\ IF at[r] = "queued"
     THEN /\ \E i \in DOMAIN pending :
               /\ pending[i] = r
               /\ Flush(Moved(r, "over"), RemoveAt(pending, i), out, requested, received)
          /\ UNCHANGED cancelled
     ELSE /\ Flush(at, pending, OneLess(out), Less(requested, r), received)
          /\ cancelled' = cancelled \union {r}
  /\ UNCHANGED <<owned, dropping, dead>>

(* A peer drops a request it got a CANCEL for, and may drop without a word what it
   holds when it chokes or gets while it chokes. *)
PeerForgets(r) ==
  /\ at[r] = "peer" /\ (choking \/ r \in cancelled)
  /\ at' = Moved(r, "lost")
  /\ UNCHANGED <<pending, counters, session, link>>

SocketFails ==
  /\ ~dead
  /\ dead' = TRUE
  /\ UNCHANGED <<at, pending, counters, session, choking, dropping>>

-----------------------------------------------------------------------------
Init ==
  /\ at = [r \in Requests |-> "idle"]
  /\ pending = <<>>
  /\ out = 0 /\ requested = 0 /\ received = 0
  /\ choking = TRUE /\ dropping = FALSE /\ dead = FALSE
  /\ owned = {} /\ cancelling = {} /\ cancelled = {}

Next ==
  \/ \E r \in Requests :
       \/ Pick(r) \/ Ask(r) \/ SendRequest(r) \/ Written(r) \/ WriteFails(r) \/ FlushedWriteFails(r)
       \/ \E late \in BOOLEAN : OnRequestCompleted(r, late)
       \/ OnRequestRejected(r)
       \/ SpawnCancel(r) \/ SendCancel(r) \/ PeerForgets(r)
  \/ Choke \/ DropQueue \/ Unchoke \/ SocketFails

Spec == Init /\ [][Next]_vars
-----------------------------------------------------------------------------
TypeOK ==
  /\ at \in [Requests -> Places]
  /\ pending \in Seq(Requests)
  /\ out \in Nat /\ requested \in Nat /\ received \in Nat
  /\ choking \in BOOLEAN /\ dropping \in BOOLEAN /\ dead \in BOOLEAN
  /\ owned \subseteq Requests /\ cancelling \subseteq Requests /\ cancelled \subseteq Requests

(* A request waits in the queue of an unchoked connection only while the gate is
   shut: whatever opens the gate (answer, reject, cancel, failed write, unchoke)
   also flushes. *)
WorkConserving == pending # <<>> /\ ~choking => ~Room(out, requested, received)

(* A counted slot belongs to a request that is out and was not credited: slots do
   not leak, so the cap is always reached by real requests. *)
Held(place) == {r \in Requests : place[r] \in {"writing", "flushing", "peer", "lost"}}

SlotsBacked == out <= Cardinality(Held(at))

(* A queue that waits has something to wait for: a request whose write, answer,
   reject or cancel will flush it. *)
NoSilentStall ==
  pending # <<>> /\ ~choking /\ ~dead =>
    \/ cancelling # {}
    \/ \E r \in Requests : \/ at[r] \in {"picked", "spawned", "writing", "flushing", "peer"}
                           \/ at[r] = "lost" /\ r \in owned
=============================================================================
