------------------------------- MODULE Billing -------------------------------
(***************************************************************************)
(* Payments, the webhook that completes them, and the entitlements they    *)
(* buy (contestiq_api/billing.py, entitlements.py, routes/admin.py).       *)
(* process_webhook spends four transactions on an event: it records the    *)
(* event, completes the payment, inserts the grant, and records the        *)
(* result; _apply_webhook_event reads the payment before it completes it.  *)
(* Between them run other deliveries (in other workers of the server) and  *)
(* an administrator's refund, in two transactions of its own; the process  *)
(* may stop between any two.                                               *)
(*                                                                         *)
(* A grant is active until revoked: its expiry is left out.  Amounts,      *)
(* customers and product events are left out.                              *)
(***************************************************************************)
EXTENDS Naturals, Sequences, FiniteSets

CONSTANTS
  Payments, Users, Plans,
  PayerOf, PlanOf,   \* the user and the plan of each payment
  Events,            \* webhook event ids
  PaymentOf,         \* the payment each event names
  Foreign,           \* events of another type, or of another provider
  Workers,           \* server processes: each runs one webhook at a time
  Refunds,           \* refund requests, in the server's threads
  MaxGrants,         \* bound: rows of entitlement_grants
  None

ASSUME BillingAssumption ==
  /\ PayerOf \in [Payments -> Users]
  /\ PlanOf \in [Payments -> Plans]
  /\ PaymentOf \in [Events -> Payments]
  /\ Foreign \subseteq Events
  /\ IsFiniteSet(Workers)
  /\ MaxGrants \in Nat
  /\ None \notin Events \cup Payments

VARIABLES
  payments,   \* payment_status, "none" when there is no row
  recorded,   \* payment_webhook_events: result, "null" before there is one
  grants,     \* entitlement_grants, in the order of insertion
  pc,         \* where the webhook of each worker is
  at,         \* the event it processes
  refunding,  \* the payment a refund has marked, its grants not yet revoked
  cut,        \* history: payments with an event whose processing was cut short
  raced       \* history: payments refunded while an event for them was processed

vars == <<payments, recorded, grants, pc, at, refunding, cut, raced>>

Statuses == {"none", "pending", "completed", "refunded"}
Answers == {"null", "ignored", "error", "already_completed", "granted"}
Grant == [user : Users, plan : Plans, event : Events \cup {None}, active : BOOLEAN]

Init ==
  /\ payments = [p \in Payments |-> "none"]
  /\ recorded = [e \in Events |-> "absent"]
  /\ grants = <<>>
  /\ pc = [w \in Workers |-> "idle"]
  /\ at = [w \in Workers |-> None]
  /\ refunding = [r \in Refunds |-> None]
  /\ cut = {}
  /\ raced = {}

-----------------------------------------------------------------------------
Payment(w) == PaymentOf[at[w]]

\* INSERT INTO entitlement_grants; event None is an administrator's grant.
Insert(user, plan, event) ==
  grants' = Append(grants, [user |-> user, plan |-> plan, event |-> event, active |-> TRUE])

\* revoke_entitlement: every grant of the plan that is not revoked yet.
Revoked(user, plan) ==
  [i \in DOMAIN grants |->
     IF grants[i].user = user /\ grants[i].plan = plan
     THEN [grants[i] EXCEPT !.active = FALSE]
     ELSE grants[i]]

\* Mutant of Checkout: INSERT OR REPLACE.
CheckoutAgain(p) ==
  /\ payments' = [payments EXCEPT ![p] = "pending"]
  /\ UNCHANGED <<recorded, grants, pc, at, refunding, cut, raced>>

\* checkout: _create_payment.
Checkout(p) ==
  /\ payments[p] = "none"
  /\ payments' = [payments EXCEPT ![p] = "pending"]
  /\ UNCHANGED <<recorded, grants, pc, at, refunding, cut, raced>>

-----------------------------------------------------------------------------
(* process_webhook *)

\* The event is recorded: its key is new.  (A key that is taken is answered
\* already_processed, with what result there is, and nothing changes.)
Receive(w, e) ==
  /\ pc[w] = "idle"
  /\ recorded[e] = "absent"
  /\ recorded' = [recorded EXCEPT ![e] = "null"]
  /\ pc' = [pc EXCEPT ![w] = IF e \in Foreign THEN "answer" ELSE "read"]
  /\ at' = [at EXCEPT ![w] = e]
  /\ UNCHANGED <<payments, grants, refunding, cut, raced>>

\* UPDATE payment_webhook_events SET result
Record(w, result) ==
  /\ recorded' = [recorded EXCEPT ![at[w]] = result]
  /\ pc' = [pc EXCEPT ![w] = "idle"]
  /\ at' = [at EXCEPT ![w] = None]
  /\ UNCHANGED <<payments, grants, refunding, cut, raced>>

AnswerForeign(w) == pc[w] = "answer" /\ Record(w, "ignored")

\* Mutant of ReadPayment: a completed payment is completed again.
ReadPaymentAny(w) ==
  /\ pc[w] = "read"
  /\ pc' = [pc EXCEPT ![w] = CASE payments[Payment(w)] \in {"pending", "completed"} -> "complete"
                               [] OTHER -> "error"]
  /\ UNCHANGED <<payments, recorded, grants, at, refunding, cut, raced>>

\* SELECT * FROM payments: only a pending payment is completed.
ReadPayment(w) ==
  /\ pc[w] = "read"
  /\ pc' = [pc EXCEPT ![w] = CASE payments[Payment(w)] = "pending" -> "complete"
                               [] payments[Payment(w)] = "completed" -> "already"
                               [] OTHER -> "error"]
  /\ UNCHANGED <<payments, recorded, grants, at, refunding, cut, raced>>

AnswerError(w) == pc[w] = "error" /\ Record(w, "error")
AnswerAlready(w) == pc[w] = "already" /\ Record(w, "already_completed")

\* UPDATE payments SET payment_status = 'completed' WHERE payment_id = ...: the
\* status is not tested again.
Complete(w) ==
  /\ pc[w] = "complete"
  /\ payments' = [payments EXCEPT ![Payment(w)] = "completed"]
  /\ pc' = [pc EXCEPT ![w] = "grant"]
  /\ UNCHANGED <<recorded, grants, at, refunding, cut, raced>>

\* Mutant of GrantPlan: nothing is inserted when the plan is active already.
GrantPlanOnce(w) ==
  /\ pc[w] = "grant"
  /\ Len(grants) < MaxGrants
  /\ IF \E i \in DOMAIN grants : /\ grants[i].user = PayerOf[Payment(w)]
                                  /\ grants[i].plan = PlanOf[Payment(w)]
                                  /\ grants[i].active
     THEN UNCHANGED grants
     ELSE Insert(PayerOf[Payment(w)], PlanOf[Payment(w)], at[w])
  /\ pc' = [pc EXCEPT ![w] = "granted"]
  /\ UNCHANGED <<payments, recorded, at, refunding, cut, raced>>

GrantPlan(w) ==
  /\ pc[w] = "grant"
  /\ Len(grants) < MaxGrants
  /\ Insert(PayerOf[Payment(w)], PlanOf[Payment(w)], at[w])
  /\ pc' = [pc EXCEPT ![w] = "granted"]
  /\ UNCHANGED <<payments, recorded, at, refunding, cut, raced>>

AnswerGranted(w) == pc[w] = "granted" /\ Record(w, "granted")

\* The worker stops, or the database stays locked beyond its timeout.
Cut(w) ==
  /\ pc[w] # "idle"
  /\ cut' = cut \cup {Payment(w)}
  /\ pc' = [pc EXCEPT ![w] = "idle"]
  /\ at' = [at EXCEPT ![w] = None]
  /\ UNCHANGED <<payments, recorded, grants, refunding, raced>>

-----------------------------------------------------------------------------
(* The administrator. *)

\* The payments whose event some worker has yet to grant.
Underway == {Payment(w) : w \in {v \in Workers : pc[v] \in {"complete", "grant"}}}

\* refund_payment: any payment that exists, whatever its status.
MarkRefunded(r, p) ==
  /\ refunding[r] = None
  /\ payments[p] # "none"
  /\ payments' = [payments EXCEPT ![p] = "refunded"]
  /\ refunding' = [refunding EXCEPT ![r] = p]
  /\ raced' = IF p \in Underway THEN raced \cup {p} ELSE raced
  /\ UNCHANGED <<recorded, grants, pc, at, cut>>

\* Mutant of RevokePlan: only one of the grants is revoked.
RevokePlanOnce(r) ==
  LET p == refunding[r]
      bought == {i \in DOMAIN grants : grants[i].user = PayerOf[p] /\ grants[i].plan = PlanOf[p]}
  IN
  /\ p # None
  /\ grants' = IF bought = {} THEN grants
               ELSE [grants EXCEPT ![CHOOSE i \in bought : TRUE].active = FALSE]
  /\ refunding' = [refunding EXCEPT ![r] = None]
  /\ UNCHANGED <<payments, recorded, pc, at, cut, raced>>

RevokePlan(r) ==
  LET p == refunding[r] IN
  /\ p # None
  /\ grants' = Revoked(PayerOf[p], PlanOf[p])
  /\ refunding' = [refunding EXCEPT ![r] = None]
  /\ UNCHANGED <<payments, recorded, pc, at, cut, raced>>

\* The refund request stops between its transactions.
CutRefund(r) ==
  /\ refunding[r] # None
  /\ refunding' = [refunding EXCEPT ![r] = None]
  /\ cut' = cut \cup {refunding[r]}
  /\ UNCHANGED <<payments, recorded, grants, pc, at, raced>>

\* grant-entitlement and revoke-entitlement.
AdminGrant(user, plan) ==
  /\ Len(grants) < MaxGrants
  /\ Insert(user, plan, None)
  /\ UNCHANGED <<payments, recorded, pc, at, refunding, cut, raced>>

AdminRevoke(user, plan) ==
  /\ grants' = Revoked(user, plan)
  /\ UNCHANGED <<payments, recorded, pc, at, refunding, cut, raced>>

Webhook(w) ==
  \/ \E e \in Events : Receive(w, e)
  \/ AnswerForeign(w)
  \/ ReadPayment(w)
  \/ AnswerError(w)
  \/ AnswerAlready(w)
  \/ Complete(w)
  \/ GrantPlan(w)
  \/ AnswerGranted(w)
  \/ Cut(w)

Admin ==
  \/ \E r \in Refunds, p \in Payments : MarkRefunded(r, p)
  \/ \E r \in Refunds : RevokePlan(r)
  \/ \E r \in Refunds : CutRefund(r)
  \/ \E u \in Users, plan \in Plans : AdminGrant(u, plan)
  \/ \E u \in Users, plan \in Plans : AdminRevoke(u, plan)

Next ==
  \/ \E p \in Payments : Checkout(p)
  \/ \E w \in Workers : Webhook(w)
  \/ Admin

Spec == Init /\ [][Next]_vars

-----------------------------------------------------------------------------
(* Properties *)

TypeOK ==
  /\ payments \in [Payments -> Statuses]
  /\ recorded \in [Events -> Answers \cup {"absent"}]
  /\ grants \in Seq(Grant) /\ Len(grants) <= MaxGrants
  /\ pc \in [Workers -> {"idle", "answer", "read", "error", "already", "complete",
                         "grant", "granted"}]
  /\ at \in [Workers -> Events \cup {None}]
  /\ refunding \in [Refunds -> Payments \cup {None}]
  /\ cut \subseteq Payments
  /\ raced \subseteq Payments

\* The grants that the events for a payment have inserted.
GrantsOf(p) == {i \in DOMAIN grants : grants[i].event # None /\ PaymentOf[grants[i].event] = p}

\* However often, and in however many workers at once, an event is delivered, it
\* grants at most once; and a payment named by several events is granted at most
\* once per worker ("A replayed event returns the recorded result and side effects
\* run exactly once", billing.py: once in the one process of the Procfile).
AppliedOnce ==
  /\ \A i, j \in DOMAIN grants :
       grants[i].event = grants[j].event /\ grants[i].event # None => i = j
  /\ \A p \in Payments : Cardinality(GrantsOf(p)) <= Cardinality(Workers)

\* A payment that was completed has its grant, or a worker is about to insert it,
\* unless the processing of its event was cut short: only a crash loses what was
\* paid (billing.py, the four transactions of an event).
PaidIsGranted ==
  \A p \in Payments :
    payments[p] = "completed" =>
      GrantsOf(p) # {} \/ p \in cut \cup Underway

\* Once a refund has returned, no grant of the payment is active, unless an event
\* for it was being processed at that moment or the refund was cut short
\* (routes/admin.py, "mark refunded and revoke the plan it purchased").
RefundRevokes ==
  \A p \in Payments :
    payments[p] = "refunded" =>
      \/ \A i \in GrantsOf(p) : ~ grants[i].active
      \/ p \in raced \cup cut
      \/ \E r \in Refunds : refunding[r] = p

-----------------------------------------------------------------------------
(* What the proofs need besides. *)

\* A grant that a webhook has inserted is of the payment its event names.
GrantsSound ==
  \A i \in DOMAIN grants : grants[i].event # None =>
    /\ recorded[grants[i].event] # "absent"
    /\ grants[i].user = PayerOf[PaymentOf[grants[i].event]]
    /\ grants[i].plan = PlanOf[PaymentOf[grants[i].event]]
    /\ \A j \in DOMAIN grants : grants[i].event = grants[j].event => i = j

\* One worker at most has an event, which has no result yet, and no grant until
\* that worker has inserted it.
EventsSound ==
  \A w \in Workers :
    /\ pc[w] = "idle" <=> at[w] = None
    /\ pc[w] # "idle" =>
         /\ recorded[at[w]] = "null"
         /\ \A v \in Workers : at[v] = at[w] => v = w
         /\ pc[w] # "granted" => \A i \in DOMAIN grants : grants[i].event # at[w]
         /\ pc[w] = "granted" => GrantsOf(Payment(w)) # {}

\* What the workers are about to grant for a payment.
UnderwayFor(p) == {w \in Workers : pc[w] \in {"complete", "grant"} /\ Payment(w) = p}

\* A payment is completed before it is granted; the workers that grant it have all
\* found it pending, before the first of them completed it.
PaymentsSound ==
  \A p \in Payments :
    /\ payments[p] \in {"none", "pending"} =>
         /\ GrantsOf(p) = {}
         /\ \A w \in UnderwayFor(p) : pc[w] = "complete"
    /\ payments[p] = "none" => UnderwayFor(p) = {}
    /\ payments[p] = "refunded" /\ UnderwayFor(p) # {} => p \in raced
    /\ Cardinality(GrantsOf(p)) + Cardinality(UnderwayFor(p)) <= Cardinality(Workers)

\* The inductive invariant.
BillingInv ==
  /\ TypeOK
  /\ GrantsSound
  /\ EventsSound
  /\ PaymentsSound
  /\ PaidIsGranted
  /\ RefundRevokes
=============================================================================
