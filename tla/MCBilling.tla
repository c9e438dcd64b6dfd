------------------------------ MODULE MCBilling ------------------------------
(* An instance of Billing for TLC: three events for one payment, and another   *)
(* payment for the same plan, whose only event is not a completion.            *)
EXTENDS Billing, TLC

CONSTANTS p1, p2, u, pro, e1, e2, e3, e4

ThePayer == [p \in {p1, p2} |-> u]
ThePlan == [p \in {p1, p2} |-> pro]
TheEvents == e1 :> p1 @@ e2 :> p1 @@ e3 :> p1 @@ e4 :> p2

Symmetry == Permutations(Workers) \cup Permutations(Refunds)
=============================================================================
