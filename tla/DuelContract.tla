---------------------------- MODULE DuelContract ----------------------------
(***************************************************************************)
(* What a duel promises its two players, with the polling, the judging and *)
(* the races of closing it hidden: it starts once, closes once, is won by  *)
(* nobody or by a player whose solution was accepted, and its result is    *)
(* announced at most once to each player, after the fact.  Duel implements *)
(* this specification.                                                     *)
(***************************************************************************)
EXTENDS Naturals

CONSTANTS Users, None

VARIABLES
  stage,      \* "waiting", "active", "completed" or "expired"
  winner,
  accepted,   \* players whose solution has been accepted
  told        \* told[kind][u]: announcements of a kind made to u

contractVars == <<stage, winner, accepted, told>>

Init ==
  /\ stage = "waiting"
  /\ winner = None
  /\ accepted = {}
  /\ told = [kind \in {"completed", "won"} |-> [u \in Users |-> 0]]

Start ==
  /\ stage = "waiting"
  /\ stage' = "active"
  /\ UNCHANGED <<winner, accepted, told>>

Accept(u) ==
  /\ stage # "waiting"
  /\ accepted' = accepted \cup {u}
  /\ UNCHANGED <<stage, winner, told>>

\* Only a completed duel has a winner.
Close(w) ==
  /\ stage \in {"waiting", "active"}
  /\ winner' = w
  /\ \/ stage' = "completed" /\ w \in accepted \cup {None} /\ accepted # {}
     \/ stage' = "expired" /\ w = None
  /\ UNCHANGED <<accepted, told>>

Announce(kind, u) ==
  /\ stage = "completed"
  /\ told[kind][u] = 0
  /\ kind = "won" => u = winner
  /\ told' = [told EXCEPT ![kind][u] = 1]
  /\ UNCHANGED <<stage, winner, accepted>>

Next ==
  \/ Start
  \/ \E u \in Users : Accept(u)
  \/ \E w \in Users \cup {None} : Close(w)
  \/ \E kind \in {"completed", "won"}, u \in Users : Announce(kind, u)

Spec == Init /\ [][Next]_contractVars
=============================================================================
