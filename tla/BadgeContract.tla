---------------------------- MODULE BadgeContract ----------------------------
(***************************************************************************)
(* What a verification session promises about its outcome: one decision,   *)
(* final once made, then one private report, then a public badge if and    *)
(* only if the decision was to issue one.  SkillTrace implements this      *)
(* specification, whatever the races between its callbacks, its reconciler *)
(* and its submissions.                                                    *)
(***************************************************************************)
CONSTANT None

VARIABLES decision, report, badge

outcome == <<decision, report, badge>>

Verdicts == {"issued", "manual_review", "not_issued"}

Init == decision = None /\ report = FALSE /\ badge = FALSE

Decide ==
  /\ decision = None
  /\ decision' \in Verdicts
  /\ UNCHANGED <<report, badge>>

Report ==
  /\ decision # None
  /\ report' = TRUE
  /\ UNCHANGED <<decision, badge>>

Issue ==
  /\ decision = "issued"
  /\ report
  /\ badge' = TRUE
  /\ UNCHANGED <<decision, report>>

Next == Decide \/ Report \/ Issue

Spec == Init /\ [][Next]_outcome
=============================================================================
