---------------------------- MODULE MCSkillTrace ----------------------------
(* An instance of SkillTrace for TLC: two submissions, or a snapshot or a run *)
(* beside one; with and without enough evidence, and with no runs left.      *)
EXTENDS SkillTrace

CONSTANTS c1, c2

Plan(first, second) == [c \in {c1, c2} |-> IF c = c1 THEN first ELSE second]
Trail(snapshots, runs) == [snapshots |-> snapshots, runs |-> runs]
Session(second, n, t) == [plan |-> Plan("submit", second), tests |-> n, trail |-> t]

MixedSessions ==
  {Session("snapshot", 2, Trail(1, 1)), Session("snapshot", 1, Trail(0, 0)),
   Session("run", 2, Trail(2, 0)), Session("run", 1, Trail(1, 2)),
   Session("submit", 1, Trail(5, 2))}
=============================================================================
