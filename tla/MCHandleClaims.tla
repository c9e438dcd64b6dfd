--------------------------- MODULE MCHandleClaims ---------------------------
(* An instance of HandleClaims for TLC. *)
EXTENDS HandleClaims, TLC

Symmetry == Permutations(Users) \cup Permutations(Handles) \cup Permutations(Threads)
=============================================================================
