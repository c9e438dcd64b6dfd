---------------------------- MODULE Billing_proofs ----------------------------
(***************************************************************************)
(* Proofs about Billing, for any payments, events, workers and refunds.    *)
(* Payments, grants and the locals of a worker are changed by different    *)
(* steps, except that GrantPlan moves a worker and inserts its grant; each *)
(* step is shown to keep the six parts of BillingInv.                      *)
(***************************************************************************)
EXTENDS Billing, FiniteSetTheorems, TLAPS

USE BillingAssumption

Labels == {"idle", "answer", "read", "error", "already", "complete", "grant", "granted"}
Pending == {"complete", "grant"}

\* The locals of the other workers stay.
Others(w) == \A v \in Workers \ {w} : pc'[v] = pc[v] /\ at'[v] = at[v]

\* Same grants, up to their activity.
SameBought ==
  /\ DOMAIN grants' = DOMAIN grants
  /\ \A i \in DOMAIN grants :
       /\ grants'[i].user = grants[i].user /\ grants'[i].plan = grants[i].plan
       /\ grants'[i].event = grants[i].event
       /\ grants'[i].active => grants[i].active

\* PaymentsSound, PaidIsGranted and RefundRevokes, of one payment.
PaymentSound(p) ==
  /\ payments[p] \in {"none", "pending"} =>
       /\ GrantsOf(p) = {}
       /\ \A w \in UnderwayFor(p) : pc[w] = "complete"
  /\ payments[p] = "none" => UnderwayFor(p) = {}
  /\ payments[p] = "refunded" /\ UnderwayFor(p) # {} => p \in raced
  /\ Cardinality(GrantsOf(p)) + Cardinality(UnderwayFor(p)) <= Cardinality(Workers)
  /\ payments[p] = "completed" => GrantsOf(p) # {} \/ p \in cut \/ UnderwayFor(p) # {}
  /\ payments[p] = "refunded" =>
       \/ \A i \in GrantsOf(p) : ~ grants[i].active
       \/ p \in raced \cup cut
       \/ \E r \in Refunds : refunding[r] = p

\* BillingInv, regrouped.
Parts ==
  /\ TypeOK
  /\ GrantsSound
  /\ EventsSound
  /\ \A p \in Payments : PaymentSound(p)

LEMMA PartsAreAll == Parts <=> BillingInv
<1>1. \A p : p \in Underway <=> UnderwayFor(p) # {}
  BY DEF Underway, UnderwayFor
<1> QED BY <1>1 DEF Parts, BillingInv, PaymentSound, PaymentsSound, PaidIsGranted, RefundRevokes

-----------------------------------------------------------------------------
(* Sets of grants and of workers. *)

LEMMA WorkerHolds ==
  ASSUME TypeOK, EventsSound, NEW w \in Workers, pc[w] # "idle"
  PROVE at[w] \in Events /\ Payment(w) \in Payments
BY DEF TypeOK, EventsSound, Payment

LEMMA SameGrantsOf ==
  ASSUME SameBought, NEW p
  PROVE GrantsOf(p)' = GrantsOf(p)
BY DEF SameBought, GrantsOf

LEMMA GrantsFinite ==
  ASSUME TypeOK, NEW p
  PROVE /\ IsFiniteSet(GrantsOf(p)) /\ Cardinality(GrantsOf(p)) \in Nat
        /\ GrantsOf(p) \subseteq 1..Len(grants)
<1>1. DOMAIN grants = 1..Len(grants) /\ Len(grants) \in Nat
  BY DEF TypeOK
<1>2. IsFiniteSet(1..Len(grants))
  BY <1>1, FS_Interval
<1>3. GrantsOf(p) \subseteq 1..Len(grants)
  BY <1>1 DEF GrantsOf
<1> QED BY <1>2, <1>3, FS_Subset, FS_CardinalityType

LEMMA UnderwayFinite ==
  ASSUME NEW p
  PROVE /\ IsFiniteSet(UnderwayFor(p)) /\ Cardinality(UnderwayFor(p)) \in Nat
        /\ IsFiniteSet(UnderwayFor(p)') /\ Cardinality(UnderwayFor(p)') \in Nat
        /\ Cardinality(UnderwayFor(p)') <= Cardinality(Workers)
<1>1. UnderwayFor(p) \subseteq Workers /\ UnderwayFor(p)' \subseteq Workers
  BY DEF UnderwayFor
<1> QED BY <1>1, FS_Subset, FS_CardinalityType

\* A worker that neither enters nor leaves what is underway.
LEMMA SameUnderway ==
  ASSUME NEW w \in Workers, Others(w), NEW p,
         pc'[w] \in Pending <=> pc[w] \in Pending,
         pc[w] \in Pending => at'[w] = at[w]
  PROVE UnderwayFor(p)' = UnderwayFor(p)
BY DEF Others, UnderwayFor, Pending, Payment

\* A worker that leaves it.
LEMMA LessUnderway ==
  ASSUME NEW w \in Workers, Others(w), NEW p, pc'[w] \notin Pending
  PROVE UnderwayFor(p)' = UnderwayFor(p) \ {w}
BY DEF Others, UnderwayFor, Pending, Payment

-----------------------------------------------------------------------------
(* Parts that a step does not touch. *)

LEMMA GrantsKept ==
  ASSUME GrantsSound, SameBought, \A e \in Events : recorded[e] # "absent" => recorded'[e] # "absent",
         TypeOK
  PROVE GrantsSound'
<1>1. \A i \in DOMAIN grants : grants[i].event # None => grants[i].event \in Events
  <2>1. \A i \in DOMAIN grants : grants[i] \in Grant
    BY DEF TypeOK
  <2> QED BY <2>1 DEF Grant
<1> QED BY <1>1 DEF GrantsSound, SameBought

\* ... of the locals of a worker: the others keep theirs.
LEMMA EventsKept ==
  ASSUME EventsSound, SameBought, NEW w \in Workers, Others(w), TypeOK,
         \A v \in Workers \ {w} : at[v] # None => recorded'[at[v]] = recorded[at[v]] /\ at[v] # at'[w],
         pc'[w] = "idle" <=> at'[w] = None,
         pc'[w] # "idle" =>
           /\ recorded'[at'[w]] = "null"
           /\ pc'[w] # "granted" => \A i \in DOMAIN grants : grants[i].event # at'[w]
           /\ pc'[w] = "granted" => GrantsOf(PaymentOf[at'[w]]) # {}
  PROVE EventsSound'
<1> SUFFICES ASSUME NEW v \in Workers
             PROVE /\ pc'[v] = "idle" <=> at'[v] = None
                   /\ pc'[v] # "idle" =>
                        /\ recorded'[at'[v]] = "null"
                        /\ \A u \in Workers : at'[u] = at'[v] => u = v
                        /\ pc'[v] # "granted" => \A i \in DOMAIN grants' : grants'[i].event # at'[v]
                        /\ pc'[v] = "granted" => GrantsOf(Payment(v))' # {}
  BY DEF EventsSound
<1>1. \A p : GrantsOf(p)' = GrantsOf(p)
  BY SameGrantsOf
<1>2. Payment(v)' = PaymentOf[at'[v]]
  BY DEF Payment
<1>3. GrantsOf(Payment(v))' = GrantsOf(PaymentOf[at'[v]])
  BY <1>2 DEF GrantsOf, SameBought
<1>4. CASE v = w
  <2>1. \A u \in Workers : at'[u] = at'[v] /\ at'[v] # None => u = v
    BY <1>4 DEF Others
  <2> QED BY <1>3, <1>4, <2>1 DEF SameBought
<1>5. CASE v # w
  <2>1. pc'[v] = pc[v] /\ at'[v] = at[v]
    BY <1>5 DEF Others
  <2>2. \A u \in Workers : at'[u] = at'[v] /\ pc[v] # "idle" => u = v
    BY <1>5, <2>1 DEF Others, EventsSound
  <2> QED BY <1>3, <1>5, <2>1, <2>2 DEF SameBought, EventsSound, Payment
<1> QED BY <1>4, <1>5

LEMMA EventsUntouched ==
  ASSUME EventsSound, SameBought, UNCHANGED <<recorded, pc, at>>
  PROVE EventsSound'
<1>1. \A w \in Workers : GrantsOf(Payment(w))' = GrantsOf(Payment(w))
  BY DEF GrantsOf, Payment, SameBought
<1> QED BY <1>1 DEF EventsSound, SameBought

\* ... of a payment, and of what is granted and underway for it.
LEMMA PaymentKept ==
  ASSUME NEW p \in Payments, PaymentSound(p), payments'[p] = payments[p],
         GrantsOf(p)' = GrantsOf(p), \A i \in GrantsOf(p) : grants'[i].active => grants[i].active,
         UnderwayFor(p)' = UnderwayFor(p), \A v \in UnderwayFor(p) : pc'[v] = pc[v],
         raced \subseteq raced', cut \subseteq cut',
         \A r \in Refunds : refunding[r] = p => refunding'[r] = p
  PROVE PaymentSound(p)'
<1>1. (payments[p] \in {"none", "pending"} =>
         /\ GrantsOf(p) = {}
         /\ \A w \in UnderwayFor(p) : pc[w] = "complete")'
  BY DEF PaymentSound
<1>2. (payments[p] = "none" => UnderwayFor(p) = {})'
  BY DEF PaymentSound
<1>3. (payments[p] = "refunded" /\ UnderwayFor(p) # {} => p \in raced)'
  BY DEF PaymentSound
<1>4. (Cardinality(GrantsOf(p)) + Cardinality(UnderwayFor(p)) <= Cardinality(Workers))'
  BY DEF PaymentSound
<1>5. (payments[p] = "completed" => GrantsOf(p) # {} \/ p \in cut \/ UnderwayFor(p) # {})'
  BY DEF PaymentSound
<1>6. (payments[p] = "refunded" =>
         \/ \A i \in GrantsOf(p) : ~ grants[i].active
         \/ p \in raced \cup cut
         \/ \E r \in Refunds : refunding[r] = p)'
  BY DEF PaymentSound
<1> QED BY <1>1, <1>2, <1>3, <1>4, <1>5, <1>6 DEF PaymentSound

\* A step of a worker that neither enters nor leaves what is underway, nor grants.
LEMMA PaymentsKept ==
  ASSUME \A p \in Payments : PaymentSound(p), UNCHANGED <<payments, grants, refunding, raced>>,
         cut \subseteq cut', NEW w \in Workers, Others(w),
         pc[w] \notin Pending, pc'[w] \notin Pending
  PROVE \A p \in Payments : PaymentSound(p)'
<1> TAKE p \in Payments
<1>1. GrantsOf(p)' = GrantsOf(p)
  BY DEF GrantsOf
<1>2. UnderwayFor(p)' = UnderwayFor(p)
  BY SameUnderway
<1>3. \A v \in UnderwayFor(p) : pc'[v] = pc[v]
  BY DEF UnderwayFor, Others, Pending
<1> QED BY <1>1, <1>2, <1>3, PaymentKept

\* A step that leaves the workers alone and grants nothing.
LEMMA PaymentApart ==
  ASSUME NEW p \in Payments, PaymentSound(p), payments'[p] = payments[p], UNCHANGED <<pc, at>>,
         GrantsOf(p)' = GrantsOf(p), \A i \in GrantsOf(p) : grants'[i].active => grants[i].active,
         raced \subseteq raced', cut \subseteq cut',
         \A r \in Refunds : refunding[r] = p => refunding'[r] = p
  PROVE PaymentSound(p)'
<1>1. UnderwayFor(p)' = UnderwayFor(p) /\ \A v \in UnderwayFor(p) : pc'[v] = pc[v]
  BY DEF UnderwayFor, Payment
<1> QED BY <1>1, PaymentKept

-----------------------------------------------------------------------------
(* Grants. *)

LEMMA Inserted ==
  ASSUME TypeOK, NEW user \in Users, NEW plan \in Plans, NEW event \in Events \cup {None},
         Insert(user, plan, event), Len(grants) < MaxGrants
  PROVE LET n == Len(grants) + 1 IN
        /\ grants' \in Seq(Grant) /\ Len(grants') <= MaxGrants
        /\ n \notin DOMAIN grants /\ DOMAIN grants' = DOMAIN grants \cup {n}
        /\ \A i \in DOMAIN grants : grants'[i] = grants[i]
        /\ grants'[n].user = user /\ grants'[n].plan = plan /\ grants'[n].event = event
<1> DEFINE row == [user |-> user, plan |-> plan, event |-> event, active |-> TRUE]
<1>1. row \in Grant /\ row.user = user /\ row.plan = plan /\ row.event = event
  BY DEF Grant
<1>2. grants \in Seq(Grant) /\ Len(grants) \in Nat /\ grants' = Append(grants, row)
  BY DEF TypeOK, Insert
<1> HIDE DEF row
<1>3. /\ grants' \in Seq(Grant) /\ Len(grants') = Len(grants) + 1
      /\ DOMAIN grants = 1..Len(grants) /\ DOMAIN grants' = 1..(Len(grants) + 1)
      /\ \A i \in 1..Len(grants) : grants'[i] = grants[i]
      /\ grants'[Len(grants) + 1] = row
  BY <1>1, <1>2
<1> QED BY <1>1, <1>2, <1>3

LEMMA RevokedSame ==
  ASSUME TypeOK, NEW user, NEW plan, grants' = Revoked(user, plan)
  PROVE /\ grants' \in Seq(Grant) /\ Len(grants') <= MaxGrants
        /\ SameBought
        /\ \A i \in DOMAIN grants :
             grants[i].user = user /\ grants[i].plan = plan => ~ grants'[i].active
<1>1. grants \in Seq(Grant) /\ Len(grants) \in Nat /\ DOMAIN grants = 1..Len(grants)
      /\ \A i \in DOMAIN grants : grants[i] \in Grant
  BY DEF TypeOK
<1>2. grants' = [i \in 1..Len(grants) |->
                   IF grants[i].user = user /\ grants[i].plan = plan
                   THEN [grants[i] EXCEPT !.active = FALSE]
                   ELSE grants[i]]
  BY <1>1 DEF Revoked
<1>3. ASSUME NEW i \in DOMAIN grants
      PROVE /\ grants'[i] \in Grant
            /\ grants'[i].user = grants[i].user /\ grants'[i].plan = grants[i].plan
            /\ grants'[i].event = grants[i].event
            /\ grants'[i].active => grants[i].active
            /\ grants[i].user = user /\ grants[i].plan = plan => ~ grants'[i].active
  <2>1. grants[i] \in Grant
    BY <1>1
  <2>2. CASE grants[i].user = user /\ grants[i].plan = plan
    <3>1. grants'[i] = [grants[i] EXCEPT !.active = FALSE]
      BY <1>1, <1>2, <2>2
    <3> QED BY <2>1, <3>1 DEF Grant
  <2>3. CASE ~ (grants[i].user = user /\ grants[i].plan = plan)
    <3>1. grants'[i] = grants[i]
      BY <1>1, <1>2, <2>3
    <3> QED BY <2>1, <2>3, <3>1
  <2> QED BY <2>2, <2>3
<1>4. grants' \in Seq(Grant) /\ Len(grants') = Len(grants) /\ DOMAIN grants' = DOMAIN grants
  <2>1. grants' \in [1..Len(grants) -> Grant]
    BY <1>1, <1>2, <1>3
  <2> QED BY <1>1, <2>1
<1> QED BY <1>1, <1>3, <1>4 DEF SameBought, TypeOK

-----------------------------------------------------------------------------
(* The steps of a webhook. *)

LEMMA GrantsUnchangedSame ==
  ASSUME UNCHANGED grants
  PROVE SameBought
BY DEF SameBought

LEMMA ReceiveKeeps ==
  ASSUME Parts, NEW w \in Workers, NEW e \in Events, Receive(w, e)
  PROVE Parts'
<1>1. /\ pc[w] = "idle" /\ recorded[e] = "absent" /\ UNCHANGED <<payments, grants, refunding, cut, raced>>
      /\ TypeOK /\ GrantsSound /\ EventsSound /\ SameBought
  BY DEF Receive, Parts, SameBought
<1>2. /\ Others(w) /\ at'[w] = e /\ pc'[w] \in {"answer", "read"}
      /\ recorded' = [recorded EXCEPT ![e] = "null"]
  BY <1>1 DEF Receive, TypeOK, Others
<1>3. TypeOK'
  BY <1>1, <1>2 DEF Receive, TypeOK, Answers
<1>4. recorded'[e] = "null" /\ \A f \in Events \ {e} : recorded'[f] = recorded[f]
  BY <1>1, <1>2 DEF TypeOK
<1>5. GrantsSound'
  BY <1>1, <1>4, GrantsKept
<1>6. \A v \in Workers \ {w} : at[v] # None => recorded'[at[v]] = recorded[at[v]] /\ at[v] # at'[w]
  <2> TAKE v \in Workers \ {w}
  <2>1. at[v] # None => recorded[at[v]] = "null" /\ at[v] \in Events
    BY <1>1 DEF EventsSound, TypeOK
  <2> QED BY <1>1, <1>2, <1>4, <2>1
<1>7. \A i \in DOMAIN grants : grants[i].event # e
  BY <1>1 DEF GrantsSound
<1>8. EventsSound'
  BY <1>1, <1>2, <1>4, <1>6, <1>7, EventsKept
<1>9. \A p \in Payments : PaymentSound(p)'
  BY <1>1, <1>2, PaymentsKept DEF Parts, Pending
<1> QED BY <1>3, <1>5, <1>8, <1>9 DEF Parts

\* The result of the event is recorded: the worker is idle again.
LEMMA RecordKeeps ==
  ASSUME Parts, NEW w \in Workers, NEW result \in Answers, pc[w] \notin {"idle"} \cup Pending,
         Record(w, result)
  PROVE Parts'
<1>1. /\ UNCHANGED <<payments, grants, refunding, cut, raced>>
      /\ TypeOK /\ GrantsSound /\ EventsSound /\ SameBought
      /\ at[w] \in Events
  BY WorkerHolds DEF Record, Parts, SameBought
<1>2. /\ Others(w) /\ at'[w] = None /\ pc'[w] = "idle"
      /\ recorded' = [recorded EXCEPT ![at[w]] = result]
  BY <1>1 DEF Record, TypeOK, Others
<1>3. TypeOK'
  BY <1>1, <1>2 DEF Record, TypeOK
<1>4. recorded'[at[w]] = result /\ \A f \in Events \ {at[w]} : recorded'[f] = recorded[f]
  BY <1>1, <1>2 DEF TypeOK
<1>5. GrantsSound'
  BY <1>1, <1>4, GrantsKept DEF Answers
<1>6. \A v \in Workers \ {w} : at[v] # None => recorded'[at[v]] = recorded[at[v]] /\ at[v] # at'[w]
  <2> TAKE v \in Workers \ {w}
  <2>1. at[v] # None => at[v] \in Events /\ at[v] # at[w]
    BY <1>1 DEF EventsSound, TypeOK
  <2> QED BY <1>2, <1>4, <2>1
<1>7. EventsSound'
  BY <1>1, <1>2, <1>6, EventsKept
<1>8. \A p \in Payments : PaymentSound(p)'
  BY <1>1, <1>2, PaymentsKept DEF Parts, Pending
<1> QED BY <1>3, <1>5, <1>7, <1>8 DEF Parts

LEMMA ReadPaymentKeeps ==
  ASSUME Parts, NEW w \in Workers, ReadPayment(w)
  PROVE Parts'
<1> DEFINE q == Payment(w)
<1>1. /\ pc[w] = "read" /\ UNCHANGED <<payments, recorded, grants, at, refunding, cut, raced>>
      /\ TypeOK /\ GrantsSound /\ EventsSound /\ SameBought
      /\ at[w] \in Events /\ q \in Payments
  BY WorkerHolds DEF ReadPayment, Parts, SameBought
<1>2. /\ Others(w) /\ at'[w] = at[w]
      /\ pc'[w] \in {"complete", "already", "error"}
      /\ pc'[w] = "complete" => payments[q] = "pending"
  BY <1>1 DEF ReadPayment, TypeOK, Others
<1>3. TypeOK'
  BY <1>1, <1>2 DEF ReadPayment, TypeOK
<1>4. GrantsSound'
  BY <1>1, GrantsKept
<1>5. EventsSound'
  <2>1. \A v \in Workers \ {w} : at[v] # None => recorded'[at[v]] = recorded[at[v]] /\ at[v] # at'[w]
    BY <1>1, <1>2 DEF EventsSound
  <2>2. \A i \in DOMAIN grants : grants[i].event # at[w]
    BY <1>1 DEF EventsSound
  <2>3. recorded'[at'[w]] = "null" /\ at'[w] # None
    BY <1>1, <1>2 DEF EventsSound
  <2> QED BY <1>1, <1>2, <2>1, <2>2, <2>3, EventsKept
<1>6. CASE pc'[w] # "complete"
  <2>1. \A p \in Payments : PaymentSound(p)'
    BY <1>1, <1>2, <1>6, PaymentsKept DEF Parts, Pending
  <2> QED BY <1>3, <1>4, <1>5, <2>1 DEF Parts
<1>7. CASE pc'[w] = "complete"
  <2>1. ASSUME NEW p \in Payments
        PROVE PaymentSound(p)'
    <3>1. GrantsOf(p)' = GrantsOf(p) /\ PaymentSound(p)
      BY <1>1, SameGrantsOf DEF Parts
    <3>2. CASE p # q
      <4>1. UnderwayFor(p)' = UnderwayFor(p)
        BY <1>1, <1>2, <1>7, <3>2 DEF UnderwayFor, Others, Payment
      <4>2. \A v \in UnderwayFor(p) : pc'[v] = pc[v]
        BY <1>1, <1>2 DEF UnderwayFor, Others
      <4> QED BY <1>1, <3>1, <4>1, <4>2, PaymentKept
    <3>3. CASE p = q
      <4>1. payments'[p] = "pending" /\ GrantsOf(p)' = {}
        BY <1>1, <1>2, <1>7, <3>1, <3>3 DEF PaymentSound
      <4>2. \A v \in UnderwayFor(p)' : pc'[v] = "complete"
        <5>1. \A v \in UnderwayFor(p) : pc[v] = "complete"
          BY <1>2, <1>7, <3>1, <3>3 DEF PaymentSound
        <5> QED BY <1>1, <1>2, <1>7, <5>1 DEF UnderwayFor, Others, Payment
      <4>3. Cardinality(GrantsOf(p)') + Cardinality(UnderwayFor(p)') <= Cardinality(Workers)
        <5>1. Cardinality(UnderwayFor(p)') \in Nat /\ Cardinality(UnderwayFor(p)') <= Cardinality(Workers)
          BY UnderwayFinite
        <5>2. Cardinality(GrantsOf(p)') = 0
          BY <4>1, FS_EmptySet
        <5> QED BY <5>1, <5>2
      <4> QED BY <4>1, <4>2, <4>3 DEF PaymentSound
    <3> QED BY <3>2, <3>3
  <2> QED BY <1>3, <1>4, <1>5, <2>1 DEF Parts
<1> QED BY <1>6, <1>7

LEMMA CompleteKeeps ==
  ASSUME Parts, NEW w \in Workers, Complete(w)
  PROVE Parts'
<1> DEFINE q == Payment(w)
<1>1. /\ pc[w] = "complete" /\ UNCHANGED <<recorded, grants, at, refunding, cut, raced>>
      /\ TypeOK /\ GrantsSound /\ EventsSound /\ SameBought
      /\ at[w] \in Events /\ q \in Payments
  BY WorkerHolds DEF Complete, Parts, SameBought
<1>2. /\ Others(w) /\ at'[w] = at[w] /\ pc'[w] = "grant"
      /\ payments'[q] = "completed" /\ \A p \in Payments \ {q} : payments'[p] = payments[p]
  BY <1>1 DEF Complete, TypeOK, Others
<1>3. TypeOK'
  BY <1>1, <1>2 DEF Complete, TypeOK, Statuses
<1>4. GrantsSound'
  BY <1>1, GrantsKept
<1>5. EventsSound'
  <2>1. \A v \in Workers \ {w} : at[v] # None => recorded'[at[v]] = recorded[at[v]] /\ at[v] # at'[w]
    BY <1>1, <1>2 DEF EventsSound
  <2>2. \A i \in DOMAIN grants : grants[i].event # at[w]
    BY <1>1 DEF EventsSound
  <2>3. recorded'[at'[w]] = "null" /\ at'[w] # None
    BY <1>1, <1>2 DEF EventsSound
  <2> QED BY <1>1, <1>2, <2>1, <2>2, <2>3, EventsKept
<1>6. ASSUME NEW p \in Payments
      PROVE PaymentSound(p)'
  <2>1. GrantsOf(p)' = GrantsOf(p) /\ PaymentSound(p) /\ UnderwayFor(p)' = UnderwayFor(p)
    BY <1>1, <1>2, SameGrantsOf, SameUnderway DEF Parts, Pending
  <2>2. CASE p # q
    <3>1. \A v \in UnderwayFor(p) : pc'[v] = pc[v]
      BY <1>2, <2>2 DEF UnderwayFor, Others
    <3> QED BY <1>1, <1>2, <2>1, <2>2, <3>1, PaymentKept
  <2>3. CASE p = q
    <3>1. payments'[p] = "completed" /\ w \in UnderwayFor(p)'
      BY <1>1, <1>2, <2>1, <2>3 DEF UnderwayFor
    <3>2. (Cardinality(GrantsOf(p)) + Cardinality(UnderwayFor(p)) <= Cardinality(Workers))'
      BY <2>1 DEF PaymentSound
    <3> QED BY <3>1, <3>2 DEF PaymentSound
  <2> QED BY <2>2, <2>3
<1> QED BY <1>3, <1>4, <1>5, <1>6 DEF Parts

LEMMA GrantPlanKeeps ==
  ASSUME Parts, NEW w \in Workers, GrantPlan(w)
  PROVE Parts'
<1> DEFINE q == Payment(w)
           n == Len(grants) + 1
<1>1. /\ pc[w] = "grant" /\ UNCHANGED <<payments, recorded, at, refunding, cut, raced>>
      /\ TypeOK /\ GrantsSound /\ EventsSound
      /\ at[w] \in Events /\ q \in Payments /\ at[w] # None
      /\ recorded[at[w]] = "null"
      /\ \A i \in DOMAIN grants : grants[i].event # at[w]
  BY WorkerHolds DEF GrantPlan, Parts, EventsSound
<1>2. /\ Others(w) /\ at'[w] = at[w] /\ pc'[w] = "granted"
      /\ \A v \in Workers : at'[v] = at[v]
  BY <1>1 DEF GrantPlan, TypeOK, Others
<1>3. /\ grants' \in Seq(Grant) /\ Len(grants') <= MaxGrants
      /\ n \notin DOMAIN grants /\ DOMAIN grants' = DOMAIN grants \cup {n}
      /\ \A i \in DOMAIN grants : grants'[i] = grants[i]
      /\ grants'[n].user = PayerOf[q] /\ grants'[n].plan = PlanOf[q] /\ grants'[n].event = at[w]
  <2>1. PayerOf[q] \in Users /\ PlanOf[q] \in Plans /\ at[w] \in Events \cup {None}
    BY <1>1
  <2> QED BY <1>1, <2>1, Inserted DEF GrantPlan
<1> HIDE DEF n
<1>4. TypeOK'
  BY <1>1, <1>2, <1>3 DEF GrantPlan, TypeOK
<1>5. ASSUME NEW p
      PROVE GrantsOf(p)' = IF p = q THEN GrantsOf(p) \cup {n} ELSE GrantsOf(p)
  BY <1>1, <1>3 DEF GrantsOf, Payment
<1>6. GrantsSound'
  <2> SUFFICES ASSUME NEW i \in DOMAIN grants', grants'[i].event # None
               PROVE /\ recorded'[grants'[i].event] # "absent"
                     /\ grants'[i].user = PayerOf[PaymentOf[grants'[i].event]]
                     /\ grants'[i].plan = PlanOf[PaymentOf[grants'[i].event]]
                     /\ \A j \in DOMAIN grants' : grants'[i].event = grants'[j].event => i = j
    BY DEF GrantsSound
  <2>1. CASE i = n
    BY <1>1, <1>3, <2>1 DEF Payment
  <2>2. CASE i \in DOMAIN grants
    BY <1>1, <1>3, <2>2 DEF GrantsSound
  <2> QED BY <1>3, <2>1, <2>2
<1>7. EventsSound'
  <2> SUFFICES ASSUME NEW v \in Workers
               PROVE /\ pc'[v] = "idle" <=> at'[v] = None
                     /\ pc'[v] # "idle" =>
                          /\ recorded'[at'[v]] = "null"
                          /\ \A u \in Workers : at'[u] = at'[v] => u = v
                          /\ pc'[v] # "granted" => \A i \in DOMAIN grants' : grants'[i].event # at'[v]
                          /\ pc'[v] = "granted" => GrantsOf(Payment(v))' # {}
    BY DEF EventsSound
  <2>2. CASE v = w
    <3>1. GrantsOf(q)' # {}
      BY <1>1, <1>3 DEF GrantsOf, Payment
    <3>2. \A u \in Workers : at[u] = at[v] => u = v
      BY <1>1, <2>2 DEF EventsSound
    <3> QED BY <1>1, <1>2, <2>2, <3>1, <3>2
  <2>3. CASE v # w
    <3>1. pc'[v] = pc[v] /\ at'[v] = at[v]
      BY <1>2, <2>3 DEF Others
    <3>2. pc[v] # "idle" => at[v] # at[w]
      BY <1>1, <2>3 DEF EventsSound
    <3>3. pc[v] = "granted" => GrantsOf(Payment(v))' # {}
      <4>1. pc[v] = "granted" => GrantsOf(Payment(v)) # {}
        BY <1>1 DEF EventsSound
      <4>2. \A i \in GrantsOf(Payment(v)) : i \in GrantsOf(Payment(v))'
        BY <1>1, <1>3 DEF GrantsOf, Payment
      <4> QED BY <4>1, <4>2
    <3>4. pc[v] \notin {"idle", "granted"} => \A i \in DOMAIN grants' : grants'[i].event # at[v]
      BY <1>1, <1>3, <3>2 DEF EventsSound
    <3> QED BY <1>1, <1>2, <3>1, <3>3, <3>4 DEF EventsSound
  <2> QED BY <2>2, <2>3
<1>8. ASSUME NEW p \in Payments
      PROVE PaymentSound(p)'
  <2>1. PaymentSound(p) /\ UnderwayFor(p)' = UnderwayFor(p) \ {w}
    BY <1>2, LessUnderway DEF Parts, Pending
  <2>2. CASE p # q
    <3>1. w \notin UnderwayFor(p)
      BY <2>2 DEF UnderwayFor
    <3>2. UnderwayFor(p)' = UnderwayFor(p) /\ \A v \in UnderwayFor(p) : pc'[v] = pc[v]
      BY <1>2, <2>1, <3>1 DEF UnderwayFor, Others
    <3>3. GrantsOf(p)' = GrantsOf(p) /\ \A i \in GrantsOf(p) : grants'[i] = grants[i]
      BY <1>3, <1>5, <2>2 DEF GrantsOf
    <3> QED BY <1>1, <2>1, <3>2, <3>3, PaymentKept
  <2>3. CASE p = q
    <3>1. w \in UnderwayFor(p) /\ GrantsOf(p)' = GrantsOf(p) \cup {n} /\ n \notin GrantsOf(p)
      BY <1>1, <1>3, <1>5, <2>3 DEF UnderwayFor, GrantsOf
    <3>2. payments[p] \notin {"none", "pending"}
      BY <1>1, <2>1, <3>1 DEF PaymentSound
    <3>3. payments[p] = "refunded" => p \in raced
      BY <2>1, <3>1 DEF PaymentSound
    <3>4. (Cardinality(GrantsOf(p)) + Cardinality(UnderwayFor(p)) <= Cardinality(Workers))'
      <4>1. Cardinality(GrantsOf(p)) + Cardinality(UnderwayFor(p)) <= Cardinality(Workers)
        BY <2>1 DEF PaymentSound
      <4>2. /\ IsFiniteSet(GrantsOf(p)) /\ Cardinality(GrantsOf(p)) \in Nat
            /\ IsFiniteSet(UnderwayFor(p)) /\ Cardinality(UnderwayFor(p)) \in Nat
            /\ Cardinality(Workers) \in Nat
        BY <1>1, GrantsFinite, UnderwayFinite, FS_CardinalityType
      <4>3. Cardinality(GrantsOf(p) \cup {n}) = Cardinality(GrantsOf(p)) + 1
        BY <3>1, <4>2, FS_AddElement
      <4>4. Cardinality(UnderwayFor(p) \ {w}) = Cardinality(UnderwayFor(p)) - 1
        BY <3>1, <4>2, FS_RemoveElement
      <4> QED BY <2>1, <3>1, <4>1, <4>2, <4>3, <4>4
    <3>5. GrantsOf(p)' # {}
      BY <3>1
    <3> QED BY <1>1, <3>2, <3>3, <3>4, <3>5 DEF PaymentSound
  <2> QED BY <2>2, <2>3
<1> QED BY <1>4, <1>6, <1>7, <1>8 DEF Parts

LEMMA CutKeeps ==
  ASSUME Parts, NEW w \in Workers, Cut(w)
  PROVE Parts'
<1> DEFINE q == Payment(w)
<1>1. /\ pc[w] # "idle" /\ UNCHANGED <<payments, recorded, grants, refunding, raced>>
      /\ cut' = cut \cup {q}
      /\ TypeOK /\ GrantsSound /\ EventsSound /\ SameBought
      /\ q \in Payments
  BY WorkerHolds DEF Cut, Parts, SameBought
<1>2. Others(w) /\ at'[w] = None /\ pc'[w] = "idle"
  BY <1>1 DEF Cut, TypeOK, Others
<1>3. TypeOK'
  BY <1>1, <1>2 DEF Cut, TypeOK
<1>4. GrantsSound'
  BY <1>1, GrantsKept
<1>5. EventsSound'
  BY <1>1, <1>2, EventsKept
<1>6. ASSUME NEW p \in Payments
      PROVE PaymentSound(p)'
  <2>1. GrantsOf(p)' = GrantsOf(p) /\ PaymentSound(p) /\ UnderwayFor(p)' = UnderwayFor(p) \ {w}
    BY <1>1, <1>2, SameGrantsOf, LessUnderway DEF Parts, Pending
  <2>2. \A v \in UnderwayFor(p) \ {w} : pc'[v] = pc[v]
    BY <1>2 DEF UnderwayFor, Others
  <2>3. CASE p # q
    <3>1. UnderwayFor(p)' = UnderwayFor(p)
      BY <2>1, <2>3 DEF UnderwayFor
    <3> QED BY <1>1, <2>1, <2>2, <3>1, PaymentKept
  <2>4. CASE p = q
    <3>1. p \in cut'
      BY <1>1, <2>4
    <3>2. (Cardinality(GrantsOf(p)) + Cardinality(UnderwayFor(p)) <= Cardinality(Workers))'
      <4>1. Cardinality(GrantsOf(p)) + Cardinality(UnderwayFor(p)) <= Cardinality(Workers)
        BY <2>1 DEF PaymentSound
      <4>2. /\ Cardinality(GrantsOf(p)) \in Nat
            /\ IsFiniteSet(UnderwayFor(p)) /\ Cardinality(UnderwayFor(p)) \in Nat
            /\ Cardinality(Workers) \in Nat
        BY <1>1, GrantsFinite, UnderwayFinite, FS_CardinalityType
      <4>3. /\ Cardinality(UnderwayFor(p) \ {w}) \in Nat
            /\ Cardinality(UnderwayFor(p) \ {w}) <= Cardinality(UnderwayFor(p))
        BY <4>2, FS_Subset, FS_CardinalityType
      <4> QED BY <2>1, <4>1, <4>2, <4>3
    <3> QED BY <1>1, <2>1, <2>2, <3>1, <3>2 DEF PaymentSound
  <2> QED BY <2>3, <2>4
<1> QED BY <1>3, <1>4, <1>5, <1>6 DEF Parts

-----------------------------------------------------------------------------
(* Checkout and the administrator: the workers stay where they are. *)

LEMMA CheckoutKeeps ==
  ASSUME Parts, NEW q \in Payments, Checkout(q)
  PROVE Parts'
<1>1. /\ payments[q] = "none" /\ UNCHANGED <<recorded, grants, pc, at, refunding, cut, raced>>
      /\ TypeOK /\ GrantsSound /\ EventsSound /\ SameBought
  BY DEF Checkout, Parts, SameBought
<1>2. payments'[q] = "pending" /\ \A p \in Payments \ {q} : payments'[p] = payments[p]
  BY <1>1 DEF Checkout, TypeOK
<1>3. TypeOK'
  BY <1>1 DEF Checkout, TypeOK, Statuses
<1>4. GrantsSound' /\ EventsSound'
  BY <1>1, GrantsKept, EventsUntouched
<1>5. ASSUME NEW p \in Payments
      PROVE PaymentSound(p)'
  <2>1. GrantsOf(p)' = GrantsOf(p) /\ PaymentSound(p)
    BY <1>1, SameGrantsOf DEF Parts
  <2>2. CASE p # q
    BY <1>1, <1>2, <2>1, <2>2, PaymentApart
  <2>3. CASE p = q
    <3>1. UnderwayFor(p)' = UnderwayFor(p)
      BY <1>1 DEF UnderwayFor, Payment
    <3>2. GrantsOf(p) = {} /\ UnderwayFor(p) = {}
      BY <1>1, <2>1, <2>3 DEF PaymentSound
    <3>3. (Cardinality(GrantsOf(p)) + Cardinality(UnderwayFor(p)) <= Cardinality(Workers))'
      BY <2>1, <3>1 DEF PaymentSound
    <3> QED BY <1>2, <2>1, <2>3, <3>1, <3>2, <3>3 DEF PaymentSound
  <2> QED BY <2>2, <2>3
<1> QED BY <1>3, <1>4, <1>5 DEF Parts

LEMMA MarkRefundedKeeps ==
  ASSUME Parts, NEW r \in Refunds, NEW q \in Payments, MarkRefunded(r, q)
  PROVE Parts'
<1>1. /\ refunding[r] = None /\ payments[q] # "none" /\ UNCHANGED <<recorded, grants, pc, at, cut>>
      /\ TypeOK /\ GrantsSound /\ EventsSound /\ SameBought
  BY DEF MarkRefunded, Parts, SameBought
<1>2. /\ payments'[q] = "refunded" /\ \A p \in Payments \ {q} : payments'[p] = payments[p]
      /\ refunding'[r] = q /\ \A u \in Refunds \ {r} : refunding'[u] = refunding[u]
  BY <1>1 DEF MarkRefunded, TypeOK
<1>3. UnderwayFor(q) # {} => q \in raced'
  BY DEF MarkRefunded, Underway, UnderwayFor
<1>4. raced \subseteq raced'
  BY DEF MarkRefunded
<1>5. TypeOK'
  BY <1>1 DEF MarkRefunded, TypeOK, Statuses
<1>6. GrantsSound' /\ EventsSound'
  BY <1>1, GrantsKept, EventsUntouched
<1>7. ASSUME NEW p \in Payments
      PROVE PaymentSound(p)'
  <2>1. GrantsOf(p)' = GrantsOf(p) /\ PaymentSound(p)
    BY <1>1, SameGrantsOf DEF Parts
  <2>2. CASE p # q
    <3>1. \A u \in Refunds : refunding[u] = p => refunding'[u] = p
      BY <1>1, <1>2
    <3> QED BY <1>1, <1>2, <1>4, <2>1, <2>2, <3>1, PaymentApart
  <2>3. CASE p = q
    <3>1. UnderwayFor(p)' = UnderwayFor(p)
      BY <1>1 DEF UnderwayFor, Payment
    <3>2. (Cardinality(GrantsOf(p)) + Cardinality(UnderwayFor(p)) <= Cardinality(Workers))'
      BY <2>1, <3>1 DEF PaymentSound
    <3> QED BY <1>2, <1>3, <1>4, <2>3, <3>1, <3>2 DEF PaymentSound
  <2> QED BY <2>2, <2>3
<1> QED BY <1>5, <1>6, <1>7 DEF Parts

LEMMA RevokePlanKeeps ==
  ASSUME Parts, NEW r \in Refunds, RevokePlan(r)
  PROVE Parts'
<1> DEFINE q == refunding[r]
<1>1. /\ q \in Payments /\ grants' = Revoked(PayerOf[q], PlanOf[q])
      /\ UNCHANGED <<payments, recorded, pc, at, cut, raced>>
      /\ TypeOK /\ GrantsSound /\ EventsSound
  BY DEF RevokePlan, Parts, TypeOK
<1>2. \A u \in Refunds \ {r} : refunding'[u] = refunding[u]
  BY <1>1 DEF RevokePlan, TypeOK
<1>3. /\ grants' \in Seq(Grant) /\ Len(grants') <= MaxGrants /\ SameBought
      /\ \A i \in DOMAIN grants :
           grants[i].user = PayerOf[q] /\ grants[i].plan = PlanOf[q] => ~ grants'[i].active
  BY <1>1, RevokedSame
<1>4. TypeOK'
  BY <1>1, <1>3 DEF RevokePlan, TypeOK
<1>5. GrantsSound' /\ EventsSound'
  BY <1>1, <1>3, GrantsKept, EventsUntouched
<1>6. ASSUME NEW p \in Payments
      PROVE PaymentSound(p)'
  <2>1. GrantsOf(p)' = GrantsOf(p) /\ PaymentSound(p)
    BY <1>3, SameGrantsOf DEF Parts
  <2>2. \A i \in GrantsOf(p) : grants'[i].active => grants[i].active
    BY <1>3 DEF SameBought, GrantsOf
  <2>3. CASE p # q
    <3>1. \A u \in Refunds : refunding[u] = p => refunding'[u] = p
      BY <1>2, <2>3
    <3> QED BY <1>1, <2>1, <2>2, <2>3, <3>1, PaymentApart
  <2>4. CASE p = q
    <3>1. \A i \in GrantsOf(p)' : ~ grants'[i].active
      <4> TAKE i \in GrantsOf(p)'
      <4>1. i \in DOMAIN grants /\ grants[i].event # None /\ PaymentOf[grants[i].event] = p
        BY <2>1 DEF GrantsOf
      <4> QED BY <1>1, <1>3, <2>4, <4>1 DEF GrantsSound
    <3>2. UnderwayFor(p)' = UnderwayFor(p) /\ \A v \in UnderwayFor(p) : pc'[v] = pc[v]
      BY <1>1 DEF UnderwayFor, Payment
    <3>3. (Cardinality(GrantsOf(p)) + Cardinality(UnderwayFor(p)) <= Cardinality(Workers))'
      BY <2>1, <3>2 DEF PaymentSound
    <3> QED BY <1>1, <2>1, <3>1, <3>2, <3>3 DEF PaymentSound
  <2> QED BY <2>3, <2>4
<1> QED BY <1>4, <1>5, <1>6 DEF Parts

LEMMA CutRefundKeeps ==
  ASSUME Parts, NEW r \in Refunds, CutRefund(r)
  PROVE Parts'
<1> DEFINE q == refunding[r]
<1>1. /\ q \in Payments /\ cut' = cut \cup {q}
      /\ UNCHANGED <<payments, recorded, grants, pc, at, raced>>
      /\ TypeOK /\ GrantsSound /\ EventsSound /\ SameBought
  BY DEF CutRefund, Parts, TypeOK, SameBought
<1>2. \A u \in Refunds \ {r} : refunding'[u] = refunding[u]
  BY <1>1 DEF CutRefund, TypeOK
<1>3. TypeOK'
  BY <1>1 DEF CutRefund, TypeOK
<1>4. GrantsSound' /\ EventsSound'
  BY <1>1, GrantsKept, EventsUntouched
<1>5. ASSUME NEW p \in Payments
      PROVE PaymentSound(p)'
  <2>1. GrantsOf(p)' = GrantsOf(p) /\ PaymentSound(p)
    BY <1>1, SameGrantsOf DEF Parts
  <2>2. CASE p # q
    <3>1. \A u \in Refunds : refunding[u] = p => refunding'[u] = p
      BY <1>2, <2>2
    <3> QED BY <1>1, <2>1, <3>1, PaymentApart
  <2>3. CASE p = q
    <3>1. UnderwayFor(p)' = UnderwayFor(p) /\ \A v \in UnderwayFor(p) : pc'[v] = pc[v]
      BY <1>1 DEF UnderwayFor, Payment
    <3>2. (Cardinality(GrantsOf(p)) + Cardinality(UnderwayFor(p)) <= Cardinality(Workers))'
      BY <2>1, <3>1 DEF PaymentSound
    <3> QED BY <1>1, <2>1, <2>3, <3>1, <3>2 DEF PaymentSound
  <2> QED BY <2>2, <2>3
<1> QED BY <1>3, <1>4, <1>5 DEF Parts

LEMMA AdminGrantKeeps ==
  ASSUME Parts, NEW user \in Users, NEW plan \in Plans, AdminGrant(user, plan)
  PROVE Parts'
<1> DEFINE n == Len(grants) + 1
<1>1. /\ UNCHANGED <<payments, recorded, pc, at, refunding, cut, raced>>
      /\ TypeOK /\ GrantsSound /\ EventsSound
  BY DEF AdminGrant, Parts
<1>2. /\ grants' \in Seq(Grant) /\ Len(grants') <= MaxGrants
      /\ n \notin DOMAIN grants /\ DOMAIN grants' = DOMAIN grants \cup {n}
      /\ \A i \in DOMAIN grants : grants'[i] = grants[i]
      /\ grants'[n].event = None
  BY <1>1, Inserted DEF AdminGrant
<1> HIDE DEF n
<1>3. TypeOK'
  BY <1>1, <1>2 DEF TypeOK
<1>4. ASSUME NEW p
      PROVE GrantsOf(p)' = GrantsOf(p)
  BY <1>2 DEF GrantsOf
<1>5. GrantsSound'
  <2> SUFFICES ASSUME NEW i \in DOMAIN grants', grants'[i].event # None
               PROVE /\ recorded'[grants'[i].event] # "absent"
                     /\ grants'[i].user = PayerOf[PaymentOf[grants'[i].event]]
                     /\ grants'[i].plan = PlanOf[PaymentOf[grants'[i].event]]
                     /\ \A j \in DOMAIN grants' : grants'[i].event = grants'[j].event => i = j
    BY DEF GrantsSound
  <2>1. i \in DOMAIN grants
    BY <1>2
  <2> QED BY <1>1, <1>2, <2>1 DEF GrantsSound
<1>6. EventsSound'
  <2>1. \A w \in Workers : GrantsOf(Payment(w))' = GrantsOf(Payment(w))
    BY <1>1, <1>2 DEF GrantsOf, Payment
  <2>2. \A w \in Workers : pc[w] \notin {"idle", "granted"} =>
          \A i \in DOMAIN grants' : grants'[i].event # at[w]
    BY <1>1, <1>2 DEF EventsSound
  <2> QED BY <1>1, <2>1, <2>2 DEF EventsSound
<1>7. ASSUME NEW p \in Payments
      PROVE PaymentSound(p)'
  <2>1. \A i \in GrantsOf(p) : grants'[i].active => grants[i].active
    BY <1>2 DEF GrantsOf
  <2> QED BY <1>1, <1>4, <2>1, PaymentApart DEF Parts
<1> QED BY <1>3, <1>5, <1>6, <1>7 DEF Parts

LEMMA AdminRevokeKeeps ==
  ASSUME Parts, NEW user \in Users, NEW plan \in Plans, AdminRevoke(user, plan)
  PROVE Parts'
<1>1. /\ UNCHANGED <<payments, recorded, pc, at, refunding, cut, raced>>
      /\ TypeOK /\ GrantsSound /\ EventsSound
  BY DEF AdminRevoke, Parts
<1>2. grants' \in Seq(Grant) /\ Len(grants') <= MaxGrants /\ SameBought
  BY <1>1, RevokedSame DEF AdminRevoke
<1>3. TypeOK'
  BY <1>1, <1>2 DEF TypeOK
<1>4. GrantsSound' /\ EventsSound'
  BY <1>1, <1>2, GrantsKept, EventsUntouched
<1>5. ASSUME NEW p \in Payments
      PROVE PaymentSound(p)'
  <2>1. GrantsOf(p)' = GrantsOf(p) /\ PaymentSound(p)
    BY <1>2, SameGrantsOf DEF Parts
  <2>2. \A i \in GrantsOf(p) : grants'[i].active => grants[i].active
    BY <1>2 DEF SameBought, GrantsOf
  <2> QED BY <1>1, <2>1, <2>2, PaymentApart
<1> QED BY <1>3, <1>4, <1>5 DEF Parts

-----------------------------------------------------------------------------
(* The invariant. *)

LEMMA Initially == Init => Parts
<1> SUFFICES ASSUME Init PROVE Parts
  OBVIOUS
<1>1. TypeOK
  BY DEF Init, TypeOK, Statuses, Answers
<1>2. DOMAIN grants = {}
  BY DEF Init
<1>3. GrantsSound /\ EventsSound
  BY <1>2 DEF Init, GrantsSound, EventsSound
<1>4. ASSUME NEW p \in Payments
      PROVE PaymentSound(p)
  <2>1. GrantsOf(p) = {} /\ UnderwayFor(p) = {} /\ payments[p] = "none"
    BY <1>2 DEF Init, GrantsOf, UnderwayFor
  <2>2. Cardinality({}) = 0 /\ Cardinality(Workers) \in Nat
    BY FS_EmptySet, FS_CardinalityType
  <2> QED BY <2>1, <2>2 DEF PaymentSound
<1> QED BY <1>1, <1>3, <1>4 DEF Parts

LEMMA WebhookKeeps ==
  ASSUME Parts, NEW w \in Workers, Webhook(w)
  PROVE Parts'
<1>1. CASE \E e \in Events : Receive(w, e)
  BY <1>1, ReceiveKeeps
<1>2. CASE AnswerForeign(w)
  BY <1>2, RecordKeeps DEF AnswerForeign, Answers, Pending
<1>3. CASE ReadPayment(w)
  BY <1>3, ReadPaymentKeeps
<1>4. CASE AnswerError(w)
  BY <1>4, RecordKeeps DEF AnswerError, Answers, Pending
<1>5. CASE AnswerAlready(w)
  BY <1>5, RecordKeeps DEF AnswerAlready, Answers, Pending
<1>6. CASE Complete(w)
  BY <1>6, CompleteKeeps
<1>7. CASE GrantPlan(w)
  BY <1>7, GrantPlanKeeps
<1>8. CASE AnswerGranted(w)
  BY <1>8, RecordKeeps DEF AnswerGranted, Answers, Pending
<1>9. CASE Cut(w)
  BY <1>9, CutKeeps
<1> QED BY <1>1, <1>2, <1>3, <1>4, <1>5, <1>6, <1>7, <1>8, <1>9 DEF Webhook

LEMMA StutterKeeps ==
  ASSUME Parts, UNCHANGED vars
  PROVE Parts'
<1>1. TypeOK' /\ SameBought /\ TypeOK /\ GrantsSound /\ EventsSound /\ UNCHANGED <<recorded, pc, at>>
  BY DEF Parts, TypeOK, vars, SameBought
<1>2. GrantsSound' /\ EventsSound'
  BY <1>1, GrantsKept, EventsUntouched
<1>3. ASSUME NEW p \in Payments
      PROVE PaymentSound(p)'
  <2>1. GrantsOf(p)' = GrantsOf(p)
    BY <1>1, SameGrantsOf
  <2> QED BY <2>1, PaymentApart DEF Parts, vars
<1> QED BY <1>1, <1>2, <1>3 DEF Parts

LEMMA Inductive == Parts /\ [Next]_vars => Parts'
<1> SUFFICES ASSUME Parts, [Next]_vars PROVE Parts'
  OBVIOUS
<1>1. CASE \E p \in Payments : Checkout(p)
  BY <1>1, CheckoutKeeps
<1>2. CASE \E w \in Workers : Webhook(w)
  BY <1>2, WebhookKeeps
<1>3. CASE \E r \in Refunds, p \in Payments : MarkRefunded(r, p)
  BY <1>3, MarkRefundedKeeps
<1>4. CASE \E r \in Refunds : RevokePlan(r)
  BY <1>4, RevokePlanKeeps
<1>5. CASE \E r \in Refunds : CutRefund(r)
  BY <1>5, CutRefundKeeps
<1>6. CASE \E u \in Users, plan \in Plans : AdminGrant(u, plan)
  BY <1>6, AdminGrantKeeps
<1>7. CASE \E u \in Users, plan \in Plans : AdminRevoke(u, plan)
  BY <1>7, AdminRevokeKeeps
<1>8. CASE UNCHANGED vars
  BY <1>8, StutterKeeps
<1> QED BY <1>1, <1>2, <1>3, <1>4, <1>5, <1>6, <1>7, <1>8 DEF Next, Admin

\* Types, what a grant and an event in progress say of each other and of the
\* payment, PaidIsGranted and RefundRevokes hold together in every reachable state.
THEOREM BillingInvariant == Spec => []BillingInv
<1>1. Spec => []Parts
  BY Initially, Inductive, PTL DEF Spec
<1>2. Parts => BillingInv
  BY PartsAreAll
<1> QED BY <1>1, <1>2, PTL

LEMMA AppliedFollows == BillingInv => AppliedOnce
<1> SUFFICES ASSUME BillingInv PROVE AppliedOnce
  OBVIOUS
<1>1. \A i, j \in DOMAIN grants :
        grants[i].event = grants[j].event /\ grants[i].event # None => i = j
  BY DEF BillingInv, GrantsSound
<1>2. ASSUME NEW p \in Payments
      PROVE Cardinality(GrantsOf(p)) <= Cardinality(Workers)
  <2>1. Cardinality(GrantsOf(p)) + Cardinality(UnderwayFor(p)) <= Cardinality(Workers)
    BY DEF BillingInv, PaymentsSound
  <2>2. Cardinality(GrantsOf(p)) \in Nat /\ Cardinality(UnderwayFor(p)) \in Nat
        /\ Cardinality(Workers) \in Nat
    BY GrantsFinite, UnderwayFinite, FS_CardinalityType DEF BillingInv
  <2> QED BY <2>1, <2>2
<1> QED BY <1>1, <1>2 DEF AppliedOnce

\* An event grants at most once, and a payment at most once per worker, however
\* many deliveries there are (process_webhook).
THEOREM BillingAppliedOnce == Spec => []AppliedOnce
BY BillingInvariant, AppliedFollows, PTL

\* Only a crash loses what was paid.
THEOREM BillingPaidIsGranted == Spec => []PaidIsGranted
<1>1. BillingInv => PaidIsGranted
  BY DEF BillingInv
<1> QED BY <1>1, BillingInvariant, PTL

\* A refund that returns leaves no grant of the payment active, unless an event
\* for the payment was being processed or the refund was cut short.
THEOREM BillingRefundRevokes == Spec => []RefundRevokes
<1>1. BillingInv => RefundRevokes
  BY DEF BillingInv
<1> QED BY <1>1, BillingInvariant, PTL
=============================================================================
