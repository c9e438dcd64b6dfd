--------------------------- MODULE LedgerContract ---------------------------
(***************************************************************************)
(* What the session event ledger promises its readers: one order of        *)
(* events, which only grows at its end and holds no event twice.           *)
(* EventLedger implements this specification.                              *)
(***************************************************************************)
EXTENDS Sequences

CONSTANT Events

VARIABLE log

Init == log = <<>>

Record(event) ==
  /\ \A i \in DOMAIN log : log[i] # event
  /\ log' = Append(log, event)

Next == \E event \in Events : Record(event)

Spec == Init /\ [][Next]_log
=============================================================================
