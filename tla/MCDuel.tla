------------------------------- MODULE MCDuel -------------------------------
(* Instances of Duel for TLC: a creates the duel, and b, c hold its invite.  *)
(* The start is asked for by a; b takes hints and may submit a wrong answer. *)
EXTENDS Duel

CONSTANTS a, b, c

TwoUsers == {a, b}
ThreeUsers == {a, b, c}

MatchOps == [u \in TwoUsers |-> {"join", "ready", "submit", "state"}
                                 \cup IF u = a THEN {"start"} ELSE {"hint"}]
RoomOps == [u \in ThreeUsers |-> {"join", "ready", "start", "state"}]

MatchWrong == [u \in TwoUsers |-> IF u = a THEN 0 ELSE 1]
NoneWrong == [u \in ThreeUsers |-> 0]

\* A restart finds no submission under judgement: its mark would stay (JudgingShown).
MatchRestart == Labels \ {"judge"}
=============================================================================
