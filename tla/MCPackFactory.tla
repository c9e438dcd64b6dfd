---------------------------- MODULE MCPackFactory ----------------------------
(* An instance of PackFactory for TLC. *)
EXTENDS PackFactory, TLC

CONSTANTS w1, w2

OwnName == [w \in {w1} |-> w]
OwnNames == [w \in {w1, w2} |-> w]
\* Today's registry, and one whose packs were revised once.
FirstVersions == [p \in Problems |-> 1]
SecondVersions == [p \in Problems |-> 2]
Symmetry == Permutations({w1, w2})
=============================================================================
