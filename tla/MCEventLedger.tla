---------------------------- MODULE MCEventLedger ----------------------------
(* An instance of EventLedger for TLC. *)
EXTENDS EventLedger, TLC

WriterSymmetry == Permutations(Writers)
=============================================================================
