-------------------------- MODULE MCContestPipeline --------------------------
(* An instance of ContestPipeline for TLC. *)
EXTENDS ContestPipeline
=============================================================================
