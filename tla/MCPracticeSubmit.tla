-------------------------- MODULE MCPracticeSubmit --------------------------
(* An instance of PracticeSubmit for TLC: two request_ids race for one      *)
(* completion or for two.  With MCProblemOfSame all payloads share it.      *)
EXTENDS PracticeSubmit, TLC

CONSTANTS s1, s2, pA, pB, pC

MCPayloads == {s1, s2}
MCProblems == {pA, pB}
MCThreeProblems == {pA, pB, pC}
MCProblemOf == s1 :> pA @@ s2 :> pB
MCProblemOfSame == s1 :> pA @@ s2 :> pA
MCClock == {1}   \* it did not move, so the tick of _monotonic_completion_time matters

Symmetry == Permutations(Calls) \cup Permutations(RequestIds)
=============================================================================
