SPECIFICATION Spec
CONSTANTS
  p1 = p1
  p2 = p2
  u = u
  pro = pro
  e1 = e1
  e2 = e2
  e3 = e3
  e4 = e4
  Payments = {p1, p2}
  Users = {u}
  Plans = {pro}
  PayerOf <- ThePayer
  PlanOf <- ThePlan
  Events = {e1, e2, e3, e4}
  PaymentOf <- TheEvents
  Foreign = {e4}
  Workers = {w1, w2}
  Refunds = {r1}
  MaxGrants = 3
  None = none
INVARIANTS BillingInv AppliedOnce PaidIsGranted RefundRevokes
SYMMETRY Symmetry
CHECK_DEADLOCK FALSE
