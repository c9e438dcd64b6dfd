-------------------------- MODULE MCStatementQueue --------------------------
(* An instance of StatementQueue for TLC. *)
EXTENDS StatementQueue, TLC

Symmetry == Permutations(Relays)
=============================================================================
