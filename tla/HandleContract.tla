--------------------------- MODULE HandleContract ---------------------------
(***************************************************************************)
(* What the ownership of Codeforces handles promises: a handle has at most *)
(* one owner, an account that exists; it is given only when it is free;    *)
(* and it is never taken away, save with the account.  HandleClaims        *)
(* implements this specification.                                          *)
(***************************************************************************)
CONSTANTS Users, Handles, Nobody

VARIABLES
  existing,   \* accounts that exist
  closed,     \* accounts that existed once
  owner       \* the account that owns each handle, or Nobody

vars == <<existing, closed, owner>>

Init ==
  /\ existing = {}
  /\ closed = {}
  /\ owner = [h \in Handles |-> Nobody]

Open(u) ==
  /\ u \notin existing \cup closed
  /\ existing' = existing \cup {u}
  /\ UNCHANGED <<closed, owner>>

Own(u, h) ==
  /\ u \in existing
  /\ owner[h] = Nobody
  /\ owner' = [owner EXCEPT ![h] = u]
  /\ UNCHANGED <<existing, closed>>

Close(u) ==
  /\ u \in existing
  /\ existing' = existing \ {u}
  /\ closed' = closed \cup {u}
  /\ owner' = [h \in Handles |-> IF owner[h] = u THEN Nobody ELSE owner[h]]

Next ==
  \E u \in Users :
    \/ Open(u)
    \/ Close(u)
    \/ \E h \in Handles : Own(u, h)

Spec == Init /\ [][Next]_vars
=============================================================================
