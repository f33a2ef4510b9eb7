---------------------------- MODULE MCPieceEngine ----------------------------
(* PieceEngine for TLC.  The peers of the model are interchangeable. *)
EXTENDS PieceEngine, TLC

PeerSymmetry == Permutations(Peers)
=============================================================================
