--------------------------- MODULE PieceLifecycle ---------------------------
(***************************************************************************)
(* What a download promises about its pieces, independently of peers,      *)
(* blocks and threads: the statuses of SessionState move along             *)
(*                                                                         *)
(*      Needed  <-->  InProgress  -->  Have            (Skipped is fixed)  *)
(*                                                                         *)
(* `completed` (SessionState::completed_pieces_) counts the Have pieces    *)
(* exactly, and `complete` (is_download_complete_) is raised only when the *)
(* count reaches the number of pieces.  PieceEngine is shown to implement  *)
(* this module on one I/O thread.                                          *)
(***************************************************************************)
EXTENDS Naturals, FiniteSets

CONSTANT Pieces

VARIABLES status, completed, complete

lifecycle == <<status, completed, complete>>

HavePieces == {p \in Pieces : status[p] = "Have"}

LInit ==
  /\ status \in [Pieces -> {"Needed", "Have", "Skipped"}]
  /\ completed = Cardinality(HavePieces)
  /\ complete = FALSE

(* A fill commits the piece to a peer. *)
Start(p) ==
  /\ status[p] = "Needed"
  /\ status' = [status EXCEPT ![p] = "InProgress"]
  /\ UNCHANGED <<completed, complete>>

(* The assembled piece failed its hash. *)
Requeue(p) ==
  /\ status[p] = "InProgress"
  /\ status' = [status EXCEPT ![p] = "Needed"]
  /\ UNCHANGED <<completed, complete>>

(* The assembled piece passed its hash and was handed to the disk.  A piece
   restored from resume data may still be Needed at this point. *)
Acquire(p) ==
  /\ status[p] \in {"Needed", "InProgress"}
  /\ status' = [status EXCEPT ![p] = "Have"]
  /\ completed' = completed + 1
  /\ UNCHANGED complete

Complete ==
  /\ completed = Cardinality(Pieces)
  /\ complete' = TRUE
  /\ UNCHANGED <<status, completed>>

LNext == Complete \/ \E p \in Pieces : Start(p) \/ Requeue(p) \/ Acquire(p)

LSpec == LInit /\ [][LNext]_lifecycle
=============================================================================
