-------------------------- MODULE PracticeContract --------------------------
(***************************************************************************)
(* What POST /practice/submit promises one signed-in account, with the     *)
(* judging, the retries and the crashes hidden.  A request_id is bound to  *)
(* one payload, receives at most one verdict, and once answered is always  *)
(* answered the same way; a problem is credited by the first accepted      *)
(* verdict and by no other.  PracticeSubmit implements this specification. *)
(***************************************************************************)
CONSTANTS
  RequestIds,   \* idempotency keys chosen by the client
  Payloads,     \* submission bodies, told apart by client_request_hash
  Problems,
  ProblemOf,    \* the problem a payload submits to
  Verdicts,     \* terminal statuses other than "accepted"
  NoPayload     \* the binding of a key that was never used

VARIABLES
  bound,      \* the payload each key is bound to
  verdict,    \* the verdict of each key, "open" until there is one
  answered,   \* the keys whose canonical response exists
  credited    \* credited[p] is the set of keys whose verdict credited p

contractVars == <<bound, verdict, answered, credited>>

Init ==
  /\ bound = [k \in RequestIds |-> NoPayload]
  /\ verdict = [k \in RequestIds |-> "open"]
  /\ answered = {}
  /\ credited = [p \in Problems |-> {}]

Bind(k, payload) ==
  /\ bound[k] = NoPayload
  /\ bound' = [bound EXCEPT ![k] = payload]
  /\ UNCHANGED <<verdict, answered, credited>>

Reject(k, v) ==
  /\ bound[k] # NoPayload
  /\ verdict[k] = "open"
  /\ verdict' = [verdict EXCEPT ![k] = v]
  /\ UNCHANGED <<bound, answered, credited>>

\* The credit and the verdict that earns it appear in one step.
Accept(k) ==
  /\ bound[k] # NoPayload
  /\ verdict[k] = "open"
  /\ verdict' = [verdict EXCEPT ![k] = "accepted"]
  /\ LET p == ProblemOf[bound[k]]
     IN  credited' = [credited EXCEPT ![p] = IF @ = {} THEN {k} ELSE @]
  /\ UNCHANGED <<bound, answered>>

Answer(k) ==
  /\ verdict[k] # "open"
  /\ k \notin answered
  /\ answered' = answered \cup {k}
  /\ UNCHANGED <<bound, verdict, credited>>

Next ==
  \E k \in RequestIds :
    \/ \E payload \in Payloads : Bind(k, payload)
    \/ \E v \in Verdicts : Reject(k, v)
    \/ Accept(k)
    \/ Answer(k)

Spec == Init /\ [][Next]_contractVars
=============================================================================
