----------------------------- MODULE Completion -----------------------------
(***************************************************************************)
(* How a torrent becomes complete: the pieces init() finds on the disk, the *)
(* tail of on_piece_block() in the handlers that finish the last pieces,    *)
(* the wait of run() on completion_timer_ and the stop() that may come at   *)
(* any time.  The io_context has several threads, so the handlers of two    *)
(* connections interleave between any two accesses to the atomic members of *)
(* SessionState, not only at their co_awaits.  How a piece gets its blocks  *)
(* is PieceEngine.                                                          *)
(*                                                                          *)
(* A peer takes round trips to connect, so no piece is finished before      *)
(* run() has armed its wait, which comes right after the loops are spawned. *)
(***************************************************************************)
EXTENDS Naturals, FiniteSets

CONSTANTS
    Pieces,        \* the pieces of the torrent
    Modes,         \* subset of {"Seed", "Leech", "Hybrid"}
    Skippable      \* pieces that lie in files the user may deselect

CompletionAssumption == IsFiniteSet(Pieces) /\ Skippable \subseteq Pieces

VARIABLES
    mode,          \* mode_
    resume,        \* resume data: was it found, and the pieces it claims
    disk,          \* pieces whose data on the disk has the right hash
    skipped, have, \* PieceStatus::Skipped, PieceStatus::Have
    completed,     \* completed_pieces_
    complete,      \* is_download_complete_
    pc,            \* where the handler of each piece's last block is
    run,           \* run(): init, waiting on completion_timer_, ended
    stop           \* stop(): no, begun (shutting_down_ is set), over

vars == <<mode, resume, disk, skipped, have, completed, complete, pc, run, stop>>

num_pieces == Cardinality(Pieces)

Init ==
    /\ mode \in Modes
    /\ resume \in [found : {TRUE}, bits : SUBSET Pieces] \cup [found : {FALSE}, bits : {{}}]
    /\ disk \in IF resume.found \/ mode = "Seed" THEN SUBSET Pieces ELSE {{}}
    /\ skipped \in IF mode = "Seed" THEN {{}} ELSE SUBSET Skippable
    /\ have = {} /\ completed = 0 /\ complete = FALSE
    /\ pc = [p \in Pieces |-> "idle"]
    /\ run = "init" /\ stop = "no"
-----------------------------------------------------------------------------
(* load_session_state() takes the pieces of the resume data for Have, the skipped
   ones included. *)
StillSkipped == skipped \ resume.bits

(* verify_pieces(): of the pieces that are not skipped, those whose data is on the
   disk are Have, whatever the resume data says, and the counter is rebuilt. *)
Verified == IF resume.found \/ mode = "Seed" THEN disk \ StillSkipped ELSE {}

(* The counter as it was built before: on top of the pieces that were loaded. *)
CountedOnTop == Cardinality(resume.bits) + Cardinality(Verified)

Recounted == Cardinality(Verified)

LeavesAtOnce(done) == done /\ mode = "Leech"

(* init(), and run() up to its wait.  The cancel() in init() finds no wait to
   cancel: only a Leech session with everything on disk returns here. *)
init ==
    /\ run = "init"
    /\ IF mode = "Seed" /\ disk # Pieces
       THEN run' = "ended" /\ UNCHANGED <<skipped, have, completed, complete>>
       ELSE /\ skipped' = StillSkipped
            /\ have' = Verified
            /\ completed' = Recounted
            /\ complete' = (Recounted = num_pieces)
            /\ run' = IF LeavesAtOnce(complete') THEN "ended" ELSE "waiting"
    /\ UNCHANGED <<mode, resume, disk, pc, stop>>
-----------------------------------------------------------------------------
Goes(p, from, to) == pc[p] = from /\ pc' = [pc EXCEPT ![p] = to]

Same == UNCHANGED <<mode, resume, skipped>>

(* The last block of a piece arrived, the hash is right and write_piece() has
   returned. *)
write_piece(p) ==
    /\ run # "init" /\ mode # "Seed" /\ ~complete /\ stop # "over"
    /\ p \notin have \cup skipped
    /\ Goes(p, "idle", "written")
    /\ disk' = disk \cup {p}
    /\ Same /\ UNCHANGED <<have, completed, complete, run, stop>>

piece_status(p) ==
    /\ Goes(p, "written", "marked")
    /\ have' = have \cup {p}
    /\ Same /\ UNCHANGED <<disk, completed, complete, run, stop>>

add_completed_pieces(p) ==
    /\ Goes(p, "marked", "counted")
    /\ completed' = completed + 1
    /\ Same /\ UNCHANGED <<disk, have, complete, run, stop>>

(* HAVE is sent to all and the piece leaves in_progress; then the counter is read
   again: the handlers of the last two pieces may both find it full. *)
last_piece(p) ==
    /\ IF completed = num_pieces
       THEN Goes(p, "counted", "flushing") /\ complete' = TRUE
       ELSE Goes(p, "counted", "done") /\ UNCHANGED complete
    /\ Same /\ UNCHANGED <<disk, have, completed, run, stop>>

Stopping == stop # "no"

(* flush() has returned, and shutting_down_ is tested. *)
flush(p) ==
    /\ Goes(p, "flushing", IF Stopping THEN "done" ELSE "closing")
    /\ Same /\ UNCHANGED <<disk, have, completed, complete, run, stop>>

(* close_all(), remove_all_connections(), completion_timer_.cancel() and
   on_complete_(), though stop() may have begun, or be over, since the test. *)
close_all(p) ==
    /\ Goes(p, "closing", "done")
    /\ run' = "ended"
    /\ Same /\ UNCHANGED <<disk, have, completed, complete, stop>>
-----------------------------------------------------------------------------
(* stop() sets shutting_down_ and cancels completion_timer_; it is over when its
   save has returned or timed out. *)
begin_stop ==
    /\ stop = "no" /\ run # "init"
    /\ stop' = "begun" /\ run' = "ended"
    /\ Same /\ UNCHANGED <<disk, have, completed, complete, pc>>

end_stop ==
    /\ stop = "begun" /\ stop' = "over"
    /\ Same /\ UNCHANGED <<disk, have, completed, complete, pc, run>>

Handler(p) ==
    piece_status(p) \/ add_completed_pieces(p) \/ last_piece(p) \/ flush(p) \/ close_all(p)

Next ==
    \/ init \/ begin_stop \/ end_stop
    \/ \E p \in Pieces : write_piece(p) \/ Handler(p)

Spec == Init /\ [][Next]_vars

(* A handler that the io_context runs gets to its end. *)
FairSpec == Spec /\ \A p \in Pieces : WF_vars(Handler(p))
-----------------------------------------------------------------------------
(* The download is taken for complete only when every piece is Have, although
   the counter that is tested and the pieces' statuses are written one after the
   other by handlers that interleave, and the counter is rebuilt at a restart. *)
CompleteIsReal == complete => have = Pieces
=============================================================================
