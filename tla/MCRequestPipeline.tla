-------------------------- MODULE MCRequestPipeline --------------------------
(***************************************************************************)
(* RequestPipeline for TLC.  Requests of the same length are               *)
(* interchangeable; the queue order is kept by `pending`.                  *)
(***************************************************************************)
EXTENDS RequestPipeline, TLC

RequestSymmetry == Permutations(Requests \ ShortRequests)
=============================================================================
